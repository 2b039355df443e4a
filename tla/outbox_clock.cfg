SPECIFICATION Spec
CONSTANTS
    Scenario = {s1}
    Request = {r1}
    Reconciler = {c1}
    NoJob = NoJob
    BatchSize = 2
    MaxRetry = 1
    CircuitThreshold = 2
    Grace = 0
    Skew = 1
    OneWriter = TRUE
    FreshSecond = TRUE
    Operations = {"watermark"}
    Faults = {"enqueue"}
    MaxSaves = 2
    MaxQueue = 1
    MaxFaults = 1
INVARIANT WatermarkSound
CHECK_DEADLOCK FALSE
