SPECIFICATION FairSpec
CONSTANTS
    p1 = p1  p2 = p2
    Pairs = {p1, p2}
    Ports = {80, 443}
    RingSize = 1
    ChannelSize = 2
    MaxRecords = 2
    Limit = 2
    SequenceSpace = 4
    MaxPackets = 3
CHECK_DEADLOCK FALSE
INVARIANTS TypeOK CountedOnce GapsCountLosses LoudestShown
PROPERTY SamplingGoesOn
