SPECIFICATION Spec
CONSTANTS
    Procs = {p1, p2, p3}
    Users = {u1}
    NoUser = NoUser
    Requests = {"put", "serial", "parallel", "block", "put_ack", "upload1", "zip",
                "lock", "unlock", "extend", "owner_dlt", "user_dlt", "set_email",
                "clear_email", "get", "getdlt", "dlt", "cron"}
    Life = 1
    HistoryLife = 1
    ExtendMax = 2
    Weekend = {0}
    LastUpload = 1
    MaxTime = 3
ACTION_CONSTRAINT Within
SYMMETRY Children
INVARIANTS
    TypeOK
    NoEarlyRelease
    GetsWholeData
    ExtensionBound
PROPERTIES
    DeletedStaysDeleted
    SharedDataKept
    LockLiftedKnowingly
    AckedIsSafe
CHECK_DEADLOCK FALSE
