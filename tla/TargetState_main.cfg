SPECIFICATION FairSpec
CONSTANTS
    MaxVersions = 2
    Bare <- MCBare
    MaxDrafts = 1
    LocalConfigs = {l1}
    MaxFaults = 1
INVARIANTS
    TypeOK
    EtagMeansHeld
    RestMeansReconciled
PROPERTIES
    RestartKeepsTarget
    CloudTargetArrives
    TargetIsReconciled
