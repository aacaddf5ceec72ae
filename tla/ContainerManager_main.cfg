SPECIFICATION FairSpec
CONSTANTS
    NumServices = 2
    i1 = i1
    Images = {i1, i2}
    NoImage = NoImage
    Probed = {1}
    Targets <- MCTargets
    Initial <- MCInitial
    MaxRetries = 2
    MaxEvents = 2
INVARIANTS
    TypeOK
    NothingToDoMeansSettled
PROPERTY
    Settles
