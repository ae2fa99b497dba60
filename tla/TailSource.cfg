SPECIFICATION FairSpec
CONSTANTS
    MaxLines = 2
    MaxFiles = 2
    BatchLines = 2
INVARIANTS Consistent ReadInOrder TakenIsStored
PROPERTY EveryLineArrives
CHECK_DEADLOCK FALSE
