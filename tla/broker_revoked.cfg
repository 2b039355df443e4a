SPECIFICATION FairSpec
CONSTANTS
    Session = {s1}
    Request = {r1, r2}
    Cleaner = Cleaner
    NoSession = NoSession
    DockerCli = TRUE
    HostReload = FALSE
    Faults = {"save", "index", "members", "delete"}
    MaxFaults = 2
PROPERTY EventuallyRevoked
CHECK_DEADLOCK FALSE
