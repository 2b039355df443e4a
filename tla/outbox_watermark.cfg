SPECIFICATION Spec
CONSTANTS
    Scenario = {s1}
    Request = {r1}
    Reconciler = {c1}
    NoJob = NoJob
    BatchSize = 2
    MaxRetry = 1
    CircuitThreshold = 2
    Grace = 0
    Skew = 0
    OneWriter = TRUE
    FreshSecond = TRUE
    Operations = {"share", "adminDelete", "dlq", "watermark"}
    Faults <- AllFaults
    MaxSaves = 2
    MaxQueue = 1
    MaxFaults = 2
INVARIANTS
    TypeOK
    WatermarkSound
    SnapshotNamesContent
CHECK_DEADLOCK FALSE
