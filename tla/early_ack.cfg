SPECIFICATION Spec

CONSTANTS
    N = 2
    Length0 = 2
    Length1 = 1
    Length <- MCLength
    Off <- MCOff
    Weight <- MCWeight
    Tries = 2
    Report = 2
    Limit = 2
    MaxFaults = 0

INVARIANT CleanIsAccepted

CHECK_DEADLOCK FALSE
