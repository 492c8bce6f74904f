SPECIFICATION Spec
CONSTANTS
    Cell <- MCCell
    Blank <- MCBlank
    Cursor <- MCCursor
    IndexRange = 8
    StartSeq = 2
    Screens <- OneScreen
    MaxLag = 1
    HistoryCap = 3
    PruneLen = 1
    MaxServerSeq = 1
    Keys = {"k"}
    Sizes <- NarrowSize
    MaxClientSeq = 3
    ShutdownCopies = 1
    MayExit = FALSE
    FramesSplit = FALSE
    Persistent = FALSE
    LateHandshakes = {}
INVARIANTS
    OnlyProcessedIsPruned
CHECK_DEADLOCK FALSE
