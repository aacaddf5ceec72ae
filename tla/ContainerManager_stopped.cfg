SPECIFICATION FairSpec
CONSTANTS
    NumServices = 1
    i1 = i1
    Images = {i1}
    NoImage = NoImage
    Probed = {1}
    Targets <- MCTargets
    Initial <- MCTargets
    MaxRetries = 2
    MaxEvents = 0
PROPERTY
    StoppedStaysStopped
