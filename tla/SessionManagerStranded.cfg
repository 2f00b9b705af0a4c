\* A turn whose session is evicted before its next cell.
SPECIFICATION SessionsSpec
CONSTANTS
    Ids = {i1, i2}
    Threads = {t1}
    Turns = {n1}
    MaxActive = 1
    None = None
INVARIANT RuntimesAreOfLiveSessions
CHECK_DEADLOCK FALSE
