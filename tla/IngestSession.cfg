SPECIFICATION FairSpec
CONSTANTS
    Session = {u1}
    FileName = {f1}
    FileLines = 3
    MaxRestarts = 1
INVARIANTS Consistent SuccessStoresTheFile NoRecordLeftBehind
PROPERTY SessionsEnd
CHECK_DEADLOCK FALSE
