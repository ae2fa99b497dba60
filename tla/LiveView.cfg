SPECIFICATION FairSpec
CONSTANTS
    Source = {src1}
    RowLimit = 2
    WireCapacity = 2
    MaxRows = 3
    MaxConnections = 2
INVARIANTS Consistent GaplessView PauseFlagIsTheHubs
PROPERTY EveryRowIsDrawn
CHECK_DEADLOCK FALSE
