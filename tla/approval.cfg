SPECIFICATION ApSpec

CONSTANTS
    Customers = {c1, c2}
    Staff = {"ann", "bob"}
    Contractors = {"cid"}
    Strangers = {"x"}
    Manager <- MCManager
    Unlisted = {}
    Visiting = {"max"}
    Super = "root"
    Servers = {s1, s2}
    Notifiers = {"notify"}
    Inboxes = {"inbox"}
    Kinds = {"send", "get", "approve"}
    MaxJobs = 2
    MaxReplies = 2
    MaxDecisions = 1
    MaxCrashes = 0
    Unknown = "unknown"
    c1 = c1
    s1 = s1
    s2 = s2
    c2 = c2

SYMMETRY MCSymmetry

INVARIANTS
    ApTypeOK

PROPERTIES
    ApprovedByManager
