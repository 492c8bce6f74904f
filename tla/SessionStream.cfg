SPECIFICATION FairSpec
CONSTANTS
    Cell <- MCCell
    Blank <- MCBlank
    Cursor <- MCCursor
    IndexRange = 8
    StartSeq = 1
    Screens <- OneScreen
    MaxLag = 1
    HistoryCap = 3
    PruneLen = 1
    MaxServerSeq = 0
    Keys = {"k", "l"}
    Sizes <- NarrowSize
    MaxClientSeq = 3
    ShutdownCopies = 1
    MayExit = TRUE
    FramesSplit = FALSE
    Persistent = FALSE
    LateHandshakes = {}
INVARIANTS
    InOrderExactlyOnce
    PrunedWasProcessed
PROPERTIES
    ImplementsChannel
    EventuallyApplied
CHECK_DEADLOCK FALSE
