SPECIFICATION Spec
CONSTANTS
    Cell <- MCCell
    Blank <- MCBlank
    Cursor <- MCCursor
    IndexRange = 8
    StartSeq = 1
    Screens <- TwoSizes
    MaxLag = 1
    HistoryCap = 2
    PruneLen = 1
    MaxServerSeq = 3
    Keys = {}
    Sizes <- BothSizes
    MaxClientSeq = 2
    ShutdownCopies = 1
    MayExit = FALSE
    FramesSplit = FALSE
    Persistent = TRUE
    LateHandshakes = {1}
INVARIANTS
    SnapshotAgreement
    LiveFramesHaveRef
    ServerNumbersUnique
PROPERTIES
    ImplementsDelivery
CHECK_DEADLOCK FALSE
