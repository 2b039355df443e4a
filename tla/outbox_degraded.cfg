SPECIFICATION FairSpec
CONSTANTS
    Scenario = {s1}
    Request = {r1}
    Reconciler = {c1}
    NoJob = NoJob
    BatchSize = 2
    MaxRetry = 1
    CircuitThreshold = 2
    Grace = 0
    Skew = 0
    OneWriter = TRUE
    FreshSecond = TRUE
    Operations = {"delete", "dlq", "watermark"}
    Faults = {"enqueue"}
    MaxSaves = 2
    MaxQueue = 1
    MaxFaults = 1
PROPERTY DeleteMirrored
CHECK_DEADLOCK FALSE
