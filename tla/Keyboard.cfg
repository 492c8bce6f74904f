SPECIFICATION KeyboardSpec
CONSTANTS
    MaxTyped = 5
INVARIANTS
    OnlyEscapesWithheld
    KeysAccountedFor
CHECK_DEADLOCK FALSE
