SPECIFICATION ApFairSpec

CONSTANTS
    Customers = {c1, c2}
    Staff = {"ann", "bob", "eve"}
    Contractors = {}
    Strangers = {}
    Manager <- MCManager
    Unlisted = {"moe"}
    Visiting = {"max"}
    Super = "root"
    Servers = {s1}
    Notifiers = {"notify"}
    Inboxes = {"inbox"}
    Kinds = {"ask"}
    MaxJobs = 2
    MaxReplies = 0
    MaxDecisions = 0
    MaxCrashes = 1
    Unknown = "unknown"
    c1 = c1
    c2 = c2
    s1 = s1

PROPERTIES
    QueueDrains
    DequeuedIsMailed
