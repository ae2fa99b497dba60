SPECIFICATION WizardSpec
CONSTANTS
    Named = {p}
    None = None
    Custom = Custom
    MaxFiles = 2
    MaxWork = 3
INVARIANTS WizardConsistent RowsMatchPattern ConfirmedWasSeen DetectingIsAwaited
CHECK_DEADLOCK FALSE
