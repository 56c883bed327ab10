SPECIFICATION FairSpec
CONSTANTS
    Procs = {p1, p2}
    Users = {u1}
    NoUser = NoUser
    Requests = {"put", "serial", "extend", "getdlt", "cron"}
    Life = 1
    HistoryLife = 1
    ExtendMax = 1
    Weekend = {0}
    LastUpload = 1
    MaxTime = 4
PROPERTIES AllPurged
CHECK_DEADLOCK FALSE
