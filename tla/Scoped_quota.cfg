SPECIFICATION Spec
CONSTANTS
    alice = alice  bob = bob  web = web  country = country  asn = asn
    v1 = v1  v2 = v2  h1 = h1  h2 = h2  NoDB = NoDB  NoUser = NoUser
    Users = {alice, bob}
    Role <- MCRole
    Hosts = {web}
    HardProtected = {}
    Selectors = {country, asn}
    Versions = {v1, v2}
    Size <- MCSize
    Wide <- MCWide
    PerRuleMax = 2
    HighWater = 3
    Handlers = {h1, h2}
    MaxBans = 2
    MaxFaults = 1
    MaxCrashes = 1
    MaxSwaps = 1
    MaxEdits = 1
CONSTRAINT MCBudget
SYMMETRY MCSymmetry
CHECK_DEADLOCK FALSE
INVARIANTS TypeOK Ledger LiveRulesFit OrderIsCharged ActiveIsOrdered
PROPERTIES RefinesGovernedBan
