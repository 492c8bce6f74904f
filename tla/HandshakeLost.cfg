SPECIFICATION FairHandshakeSpec
CONSTANTS
    Persistent = FALSE
    MaxHandshake = 2
PROPERTY
    SessionBegins
CHECK_DEADLOCK FALSE
