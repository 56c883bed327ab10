SPECIFICATION ApSpec

CONSTANTS
    Customers = {c1}
    Staff = {"ann", "bob"}
    Contractors = {}
    Strangers = {}
    Manager <- MCManager
    Unlisted = {}
    Visiting = {}
    Super = "root"
    Servers = {s1, s2}
    Notifiers = {"notify"}
    Inboxes = {"inbox"}
    Kinds = {"ask"}
    MaxJobs = 1
    MaxReplies = 0
    MaxDecisions = 0
    MaxCrashes = 0
    Unknown = "unknown"
    c1 = c1
    s1 = s1
    s2 = s2

INVARIANTS
    OneDaemon
