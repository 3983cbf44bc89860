SPECIFICATION FairSpec
CONSTANTS
    Chunk = 4
    MaxQueue = 5
    MaxAge = 3
    Interval = 2
    MaxSteps = 3
    MaxTime = 8
INVARIANTS ContractSuffices CallsSettleFirst
PROPERTIES MovesOnFreshActions StopEnds
CHECK_DEADLOCK FALSE
