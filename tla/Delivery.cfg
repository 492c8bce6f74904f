SPECIFICATION FairDeliverySpec
CONSTANTS
    Shown = {s1, s2}
    NoScreen = none
    Addresses = {home, away}
    Late = 1
    QueueCap = 2
    Answers = 1
PROPERTY
    Converges
CHECK_DEADLOCK FALSE
