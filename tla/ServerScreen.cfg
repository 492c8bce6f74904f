SPECIFICATION FairScreenSpec
CONSTANTS
    TtyCap = 1
    MaxWrites = 2
    Row = {blank, x}
    BlankRow = blank
    CursorState = {c0}
    HomeCursor = c0
    Dimensions <- OneOrTwoRows
INVARIANTS
    OutputInOrder
    CleanRowsCurrent
    LastFrameCurrent
PROPERTIES
    LoopReturns
    ShutdownFollows
CHECK_DEADLOCK FALSE
