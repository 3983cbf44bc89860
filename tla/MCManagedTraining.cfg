SPECIFICATION FairSpec
CONSTANTS
    MaxJobs = 2
    MaxTroubles = 3
INVARIANTS RowIsTrue
PROPERTIES ImplementsJob ShutdownKeepsJobs JobEnds
CHECK_DEADLOCK FALSE
