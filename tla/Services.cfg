\* The bounds of the reasoning stream are in its INSTANCE.
SPECIFICATION MCSpec
CONSTANTS
    Names = {"n1", "n2"}
    Readers = {"r1"}
    MaxConcurrent = 1
    MaxStarts = 2
    LocalProviders = {"ollama"}
    CloudProviders = {"openai"}
    DefaultProvider = "ollama"
    DefaultMode = "hybrid"
    RoleNumbers = {1, 2}
    Requests <- MCRequests
    Local = {"m1", "m2"}
    Remote = {"g"}
    Embedder = "e"
    Default <- MCDefault
    Callers = {"w", "t"}
    Warmer = "w"
    Budget = 1
    MaxEvents = 1
    MaxReleases = 1
    Hosts = {"h1", "h2"}
    Sockets = {"k1", "k2"}
    MaxRequests = 2
    Window = 1
    MaxKeys = 1
    MaxPerHost = 1
    MaxTime = 3
    MaxJobs = 3
    MaxWorkers = 1
    Sessions = {"s1", "s2"}
    Threads = {"b1", "b2"}
    MaxBoxes = 2
    MaxRestarts = 1
    Clients = {"c1"}
    MaxCommits = 2
    Places <- MCPlaces
    Root = "root"
    Nested = "skills"
    Above <- MCAbove
    Hidden = {}
    Odd = {"odd name"}
    Branches = {"main", "release/1"}
    Slashed = {"release/1"}
    Trees <- MCTrees
    MaxPushed = 2
    MaxSockets = 2
    MaxMessages = 3
    MaxFrames = 1
    Turns = {"t1", "t2", "t3"}
    Threshold = 2
    MaxWrites = 2
    Questions = {1}
    Alike <- MCAlike
    Schemas = {"s1", "s2"}
    Askers = {"t1", "t2"}
    Asking = {"q1", "q2"}
    MaxFailures = 1
    ChatSessions = {"s1", "s2"}
    ChatTurns = {"t1", "t2"}
    SessionsOf <- MCSessionsOf
    MaxGroups = 1
    MaxParted = 1
    MaxCalls = 1
    Recalled = 1
INVARIANTS
    
    MemoriesAreInOrder
    TrafficIsInOrder
    ThoughtsAreShown
 
\* Downloads, jobs, questions and the rest run out at their bounds.
CHECK_DEADLOCK FALSE
