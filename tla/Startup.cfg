SPECIFICATION StartupSpec
CONSTANTS
    Persistent = FALSE
    MaxHandshake = 3
    MaxPort = 2
INVARIANTS
    JoinedAtStart
    ContactsOwnServer
PROPERTY
    BootstrapEnds
CHECK_DEADLOCK FALSE
