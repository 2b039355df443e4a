SPECIFICATION Spec
CONSTANTS
    Request = {r1, r2}
    Station = {a}
    NoStation = NoStation
    Absent = Absent
    CasMaxRetries = 2
    OneKick = FALSE
    Faults = {}
    MaxChallenges = 3
    MaxFaults = 0
INVARIANT
    KickIsReal
CHECK_DEADLOCK FALSE
