SPECIFICATION Spec
CONSTANTS
    w1 = w1
    w2 = w2
    Workers = {w1, w2}
    MaxEntries = 2
    Configs <- MCConfigs
    MaxStream = 1
    BatchSize = 2
    MaxRetries = 2
    MaxSpool = 1
    FailureThreshold = 1
    SuccessThreshold = 1
    MaxOutages = 1
    MaxFaults = 1
INVARIANTS
    TypeOK
    AcknowledgedIsKept
    AtLeastOnce
    TrackedIsProcessed
PROPERTIES
    BacklogClears
    ImplementsStoreAndForward
CHECK_DEADLOCK FALSE
