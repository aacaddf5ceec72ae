SPECIFICATION Spec
CONSTANTS
    Reports = {r1, r2, r3, r4}
    NoReport = NoReport
    MaxQueue = 2
    BatchSize = 2
    MaxCrashes = 1
SYMMETRY ReportSymmetry
INVARIANTS
    TypeOK
    MonitorConsistent
    OneCopyOfEachReport
PROPERTIES
    ReportsLeaveForAReason
    DirectOnlyOnEvidence

