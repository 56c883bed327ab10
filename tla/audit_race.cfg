SPECIFICATION Spec
CONSTANTS
    Procs = {p1, p2}
    Users = {u1}
    NoUser = NoUser
    Requests = {"put", "serial", "cron"}
    Life = 1
    HistoryLife = 1
    ExtendMax = 0
    Weekend = {0}
    LastUpload = 1
    MaxTime = 3
SYMMETRY Children
PROPERTIES AuditsSpareLive
CHECK_DEADLOCK FALSE
