SPECIFICATION FairFragmentsSpec
CONSTANTS
    Persistent = FALSE
    MaxPackets = 3
    PartCounts <- OneOrTwo
    MaxNacks = 1
    CacheCap = 2
    BufferCap = 2
    Followed = {2}
INVARIANT
    FragmentsTypeOK
PROPERTIES
    UsefulPartialsKept
    NackRecovers
CHECK_DEADLOCK FALSE
