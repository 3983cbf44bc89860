SPECIFICATION EventsSpec
CONSTANTS
    MaxSteps = 2
    LogEvery = 1
    SaveEvery = 1
    Token <- Rounded
    QueueMax = 1
    MaxEvents = 8
    Reserve = 3
    MaxLogs = 3
    PageLimit = 3
    ReadLimit = 2
    MaxConsole = 2
    MaxSends = 2
    Reports <- SomeReports
INVARIANTS LossIsTold OutputIsWhole ReportsSurviveRetries
CHECK_DEADLOCK FALSE
