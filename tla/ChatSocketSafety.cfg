\* Two tabs that may share a session, and a cap of one live session: opening a
\* second one evicts the first under a turn in progress.
CONSTANTS
    Sockets = {k1, k2}
    Sessions = {s1, s2}
    Turns = {t1, t2}
    Requests = {r1}
    MaxLive = 1
    NoKey = NoKey
    NoTurn = NoTurn
    NoSocket = NoSocket
    NoSession = NoSession
SPECIFICATION Spec
SYMMETRY Symmetry
INVARIANTS
    QuestionsMatchTurns
PROPERTIES
    
    OwnAnswerIsHeard
CHECK_DEADLOCK FALSE
