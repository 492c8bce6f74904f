SPECIFICATION TerminalSpec
CONSTANTS
    Cell <- MCCell
    Blank <- MCBlank
    Cursor <- MCCursor
    IndexRange = 8
    ServerScreens <- MCScreens
    Buffers <- MCBuffers
    Printable <- MCPrintable
    Control <- MCControl
    MaxInput = 4
    MaxFrame = 3
INVARIANTS
    UndoRestores
    BannerErased
    FramesReachConsole
CHECK_DEADLOCK FALSE
