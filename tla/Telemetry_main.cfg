SPECIFICATION Spec
CONSTANTS
    MaxReadings = 2
    Encodings = {"binary"}
    MaxRecords = 1
    MaxPending = 1
    FlushBatch = 2
    MaxFlushPerCycle = 2
    MaxRetries = 2
    MaxEvents = 2
    MaxFaults = 1
INVARIANTS
    TypeOK
    NoReadingVanishes
    QueueOnlyWithoutBuffer
    OneWorkerPerRow
    TableBounded
PROPERTIES
    DurableStaysSafe
    ReadingsSettle
    ImplementsStoreAndForward
CHECK_DEADLOCK FALSE
