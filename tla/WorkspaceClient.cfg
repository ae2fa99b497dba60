SPECIFICATION Spec
CONSTANTS
    Id = {a, b}
    Preset = {day}
    Custom = Custom
    Count = {0, 1}
    Start = {then}
    Now = Now
    Column = {timestamp, level}
    Mandatory = timestamp
    Other <- MCOther
    None = None
    MaxWork = 5
INVARIANTS Consistent ListIsServers
PROPERTIES SavedIsRestored OpenedIsClean
SYMMETRY IdSymmetry
CHECK_DEADLOCK FALSE
