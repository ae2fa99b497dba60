SPECIFICATION Spec
CONSTANTS
    MaxLines = 2
    MaxFiles = 2
    BatchLines = 2
INVARIANT FinalRecordIsStored
CHECK_DEADLOCK FALSE
