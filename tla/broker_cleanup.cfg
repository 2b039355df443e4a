SPECIFICATION Spec
CONSTANTS
    Session = {s1}
    Request = {r1}
    Cleaner = Cleaner
    NoSession = NoSession
    DockerCli = TRUE
    HostReload = FALSE
    Faults = {"members"}
    MaxFaults = 1
INVARIANT LiveUsersKept
CHECK_DEADLOCK FALSE
