SPECIFICATION Spec
CONSTANTS
    adm = adm  apr = apr  opr = opr
    host = host  net = net  gw = gw  lo = lo  junk = junk
    Users = {adm, apr, opr}
    SeedRole <- MCRole
    NewRoles = {}
    Targets = {host, gw, lo}
    Cover <- MCCover
    HardProtected <- MCHard
    Seeded <- MCSeeded
    ReqIds = {r1}
    Handlers = {h1, h2}
    MaxLevel = 2
    MaxFaults = 0
    MaxCrashes = 0
    MaxEdits = 0
    NoUser = NoUser  NoReq = NoReq  NoTarget = NoTarget
SYMMETRY Symmetry
CHECK_DEADLOCK FALSE
INVARIANTS EscalatesOnReoffence
