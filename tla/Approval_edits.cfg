SPECIFICATION FairSpec
CONSTANTS
    adm = adm  apr = apr  opr = opr
    host = host  net = net  gw = gw  lo = lo  junk = junk
    Users = {adm, apr}
    SeedRole <- MCRole
    NewRoles = {"admin", "viewer"}
    Targets = {host, net, gw, lo, junk}
    Cover <- MCCover
    HardProtected <- MCHard
    Seeded <- MCSeeded
    ReqIds = {r1}
    Handlers = {h1, h2}
    MaxLevel = 2
    MaxFaults = 0
    MaxCrashes = 0
    MaxEdits = 2
    NoUser = NoUser  NoReq = NoReq  NoTarget = NoTarget
CHECK_DEADLOCK FALSE
INVARIANTS  NoUnsafeDispatch
PROPERTIES VetoHolds ApprovalExecuted
