SPECIFICATION FairSpec
CONSTANTS
    Reports = {r1}
    NoReport = NoReport
    MaxQueue = 2
    BatchSize = 1
    MaxCrashes = 0
PROPERTIES
    RecoveringEnds
    DirectDrainsQueue
