SPECIFICATION FairSpec
CONSTANTS
    Source = {src1}
    Subscriber = {c1}
    Filters = {src1, "any"}
    BufferCapacity = 1
    MaxBatches = 2
INVARIANTS Consistent RowsInSourceOrder EndIsSeen
PROPERTIES ImplementsLiveFeed PublishNeverBlocks
CHECK_DEADLOCK FALSE
