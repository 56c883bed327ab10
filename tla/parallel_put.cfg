SPECIFICATION FairSpec

CONSTANTS
    N = 2
    Length0 = 3
    Length1 = 1
    Length <- MCLength
    Off <- MCOff
    Weight <- MCWeight
    Tries = 2
    Report = 2
    Limit = 2
    MaxFaults = 1

INVARIANTS
    TypeOK
    AcceptedIsWhole
    CleanIsAccepted

PROPERTIES
    EventuallyAnswered
    KeepsPromise

CHECK_DEADLOCK FALSE
