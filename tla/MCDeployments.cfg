CONSTANTS
    Deployments = {d1}
    MaxFaults = 4
    MaxRestarts = 2
SPECIFICATION FairSpec
CHECK_DEADLOCK FALSE
INVARIANTS NoOrphanApp
PROPERTIES ImplementsLife CleanupConverges
