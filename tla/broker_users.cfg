SPECIFICATION Spec
CONSTANTS
    Session = {s1, s2}
    Request = {r1, r2}
    Cleaner = Cleaner
    NoSession = NoSession
    DockerCli = TRUE
    HostReload = FALSE
    Faults <- AllFaults
    MaxFaults = 1
INVARIANTS
    TypeOK
    CredentialsWork
CHECK_DEADLOCK FALSE
PROPERTY EditsInTurn
