SPECIFICATION Spec
CONSTANTS
    Bare <- MCBare
    MaxVersions = 2
    MaxDrafts = 0
    LocalConfigs = {l1}
    MaxFaults = 1
INVARIANT
    NotModifiedIsRedundant
