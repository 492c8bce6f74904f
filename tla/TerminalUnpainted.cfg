SPECIFICATION TerminalSpec
CONSTANTS
    Cell <- MCCell
    Blank <- MCBlank
    Cursor <- MCCursor
    IndexRange = 8
    ServerScreens <- MCScreens
    Buffers <- MCBuffers
    Printable <- MCPrintable
    Control <- MCControl
    MaxInput = 3
    MaxFrame = 2
INVARIANTS
    PredictionsReachConsole
CHECK_DEADLOCK FALSE
