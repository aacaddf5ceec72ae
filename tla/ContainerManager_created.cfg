SPECIFICATION Spec
CONSTANTS
    NumServices = 1
    i1 = i1
    Images = {i1}
    NoImage = NoImage
    Probed = {1}
    Targets <- MCRunning
    Initial <- MCInitial
    MaxRetries = 2
    MaxEvents = 2
INVARIANT
    DesiredStateReached
