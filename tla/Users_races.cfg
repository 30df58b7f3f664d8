SPECIFICATION Spec
CONSTANTS
    root = root  other = other   t1 = t1  t2 = t2  h1 = h1  h2 = h2
    NoRow = NoRow
    Names = {root, other}
    Roles = {"admin", "viewer"}
    SeedRows <- MCSeedRows
    Tokens = {t1, t2}
    Handlers = {h1, h2}
    MaxUsers = 2
    MaxPassword = 1
SYMMETRY MCSymmetry
CHECK_DEADLOCK FALSE
INVARIANTS TypeOK AdminRemains SessionsFresh
PROPERTIES NotOneself
