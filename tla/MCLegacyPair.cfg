SPECIFICATION FairSpec
CONSTANTS
    Configs = {"one", "other"}
    MaxStarts = 2
INVARIANTS CommandReachesOpenArm NoneForgotten
PROPERTY ClosedInTheEnd
