SPECIFICATION Spec
CONSTANTS
    Procs = {p1, p2}
    Users = {u1, u2}
    NoUser = NoUser
    Requests = {"put", "serial", "lock", "extend"}
    Life = 1
    HistoryLife = 1
    ExtendMax = 1
    Weekend = {0}
    LastUpload = 1
    MaxTime = 1
SYMMETRY Children
INVARIANTS OwnerIsUploader
CHECK_DEADLOCK FALSE
