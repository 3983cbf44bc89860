SPECIFICATION FairSpec
INVARIANTS OrderedTeardown ReportsAreTrue
PROPERTIES Backstop
CHECK_DEADLOCK FALSE
