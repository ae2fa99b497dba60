SPECIFICATION Spec
CONSTANTS
    Row = {r1}
    Worker = {w1, w2}
    RowTime <- MCRowTime
    DayTicks = 4
    RetentionDays = 1
    MaxTime = 5
    MaxRestarts = 1
SYMMETRY Symmetry
INVARIANTS Consistent AckedIsStored SearchFindsAcked CacheIsFresh PrunedIsOld
CHECK_DEADLOCK FALSE
