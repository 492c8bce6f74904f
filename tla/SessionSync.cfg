SPECIFICATION Spec
CONSTANTS
    Cell <- MCCell
    Blank <- MCBlank
    Cursor <- MCCursor
    IndexRange = 8
    StartSeq = 1
    Screens <- TwoScreens
    MaxLag = 2
    HistoryCap = 3
    PruneLen = 1
    MaxServerSeq = 5
    Keys = {}
    Sizes <- WideSize
    MaxClientSeq = 1
    ShutdownCopies = 1
    MayExit = FALSE
    FramesSplit = TRUE
    Persistent = TRUE
    LateHandshakes = {}
INVARIANTS
    TypeOK
    SnapshotAgreement
    LiveFramesHaveRef
CHECK_DEADLOCK FALSE
