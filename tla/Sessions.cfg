\* Two agents, one of whom nobody attends, and a client, over two subjects of an
\* always_ask category and of the path category; three session ids under a cap of
\* one, two threads, and a turn with a cell of its own and one of a subagent.
SPECIFICATION MCSpec
CONSTANTS
    path = path
    write = write
    p1 = p1
    p2 = p2
    dir = dir
    Agents = {a1, a2}
    Attended = {a1}
    Clients = {u1}
    Categories = {path, write}
    AlwaysAsk = {write}
    PathCategory = path
    DefaultRuling <- MCDefaultRuling
    Subjects = {p1, p2}
    DirOf <- MCDirOf
    DefaultProfile = "ask-always"
    NoWant = NoWant
    Ids = {i1, i2, i3}
    Threads = {t1, t2}
    Turns = {n1}
    MaxActive = 1
    None = None
SYMMETRY Symmetry
INVARIANTS
    GrantsAreTheUsers
    CapHolds
    DisposedOnce
    NothingLeft
PROPERTIES
    AlwaysAskIsAsked
    NothingUnasked
\* Session ids run out.
CHECK_DEADLOCK FALSE
