\* One terminal, two supervisors at most (a start after a stop or a crash),
\* a child restarted at most once; a log of seven lines in three files;
\* an update of the checkout.
SPECIFICATION MCSpec
CONSTANTS
    Sups = {1, 2}
    Terminals = {t1}
    MaxRestarts = 1
    FailuresToRestart = 2
    MaxChunks = 3
    Backups = 2
    LastLine = 7
    MaxVersion = 2
    Ports = {"default"}
INVARIANTS
    
    LogsAreInOrder
    DoneIsComplete
PROPERTIES
    StopStops
    StopIsHeeded
\* The child prints its last line.
CHECK_DEADLOCK FALSE
