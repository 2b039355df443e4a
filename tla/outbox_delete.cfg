SPECIFICATION FairSpec
CONSTANTS
    Scenario = {s1, s2}
    Request = {r1}
    Reconciler = {c1}
    NoJob = NoJob
    BatchSize = 10
    MaxRetry = 1
    CircuitThreshold = 2
    Grace = 0
    Skew = 0
    OneWriter = TRUE
    FreshSecond = TRUE
    Operations = {"delete"}
    Faults = {"firestore", "ack"}
    MaxSaves = 2
    MaxQueue = 1
    MaxFaults = 1
INVARIANT NoOrphan
PROPERTIES
    DeleteMirrored
CHECK_DEADLOCK FALSE
