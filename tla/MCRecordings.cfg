SPECIFICATION RecordingsSpec
CONSTANTS
    MaxEpisodes = 2
    Requests = {q1, q2}
    q1 = q1
    q2 = q2
    Pollers = {q2}
    MaxFaults = 2
    MaxRestarts = 1
INVARIANTS RowMatchesFiles ShutdownClosesItsOwn
PROPERTIES KeptUntilUploaded
CHECK_DEADLOCK FALSE
