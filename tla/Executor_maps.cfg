SPECIFICATION FairSpec
CONSTANTS
    s1 = s1  s2 = s2  narrow = narrow  wide = wide  h1 = h1  h2 = h2
    NoPrefix = NoPrefix  NoHost = NoHost
    Addrs = {s1, s2}
    Hosts = {h1, h2}
    Prefixes = {narrow, wide}
    Cover <- MCCover
    Targets <- MCTargets
    Parse <- MCParse
    Payloads <- MCPayloads
    MaxDispatches = 2
    BatchSize = 1
    GlobalCap = 1
    TargetCap = 2
    SrcCap = 2
    MaxTargetId = 4
    MaxClock = 2
    MaxFaults = 1
    MaxCrashes = 1
    MaxCalls = 1
CHECK_DEADLOCK FALSE
INVARIANTS TypeOK DropsOnlyOrdered AckedInForce NoOrphanEntries
PROPERTIES PendingIsHandled
