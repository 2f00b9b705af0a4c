\* One turn with two questions: its own and its subagents', at once or in turn.
CONSTANTS
    Sockets = {k1}
    Sessions = {s1}
    Turns = {t1}
    Requests = {r1, r2}
    MaxLive = 1
    NoKey = NoKey
    NoTurn = NoTurn
    NoSocket = NoSocket
    NoSession = NoSession
SPECIFICATION Spec
PROPERTY EveryTurnSettles
CHECK_DEADLOCK FALSE
