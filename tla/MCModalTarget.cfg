SPECIFICATION Spec
CONSTANTS
    Maker = maker
    Others = {other}
    MaxFaults = 2
INVARIANTS AnswersAreTrue OnlyOursIsStopped FailedLaunchIsUndone
