SPECIFICATION Spec
CONSTANTS
    Procs = {p1, p2}
    Users = {u1}
    NoUser = NoUser
    Requests = {"put", "serial", "extend"}
    Life = 1
    HistoryLife = 1
    ExtendMax = 1
    Weekend = {0}
    LastUpload = 1
    MaxTime = 1
SYMMETRY Children
INVARIANTS AckedIsRetrievable
CHECK_DEADLOCK FALSE
