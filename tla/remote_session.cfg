SPECIFICATION Spec
CONSTANTS
    Request = {r1, r2, r3}
    Station = {a, b, c}
    NoStation = NoStation
    Absent = Absent
    CasMaxRetries = 2
    OneKick = TRUE
    Faults <- AllFaults
    MaxChallenges = 3
    MaxFaults = 2
INVARIANTS
    TypeOK
    StationsKept
    KickIsReal
    EndedStaysEnded
PROPERTIES
    OldInviteStaysDead
    RecordIsAtomic
SYMMETRY Symmetry
CHECK_DEADLOCK FALSE
