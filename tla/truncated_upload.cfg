SPECIFICATION Spec

CONSTANTS
    N = 2
    Length0 = 1
    Length1 = 1
    Length <- MCLength
    Off <- MCOff
    Weight <- MCWeight
    Tries = 2
    Report = 2
    Limit = 2
    MaxFaults = 2

INVARIANT AcceptedIsIntact

CHECK_DEADLOCK FALSE
