\* Two programs, and budgets that let a turn fail, recover, fan out, look and
\* answer in any order; two cells, one of which never ends but is silent, and two
\* reloads.
SPECIFICATION MCSpec
CONSTANTS
    Codes = {c1, c2}
    Iterations = 2
    Deep = 3
    MaxRetries = 1
    None = None
    Cells = {x1, x2}
    Endless = {x2}
    Chatty = {}
    Reloads = {l1, l2}
    Nobody = Nobody
INVARIANTS
    OnlyTimedOutLinger
    ReloadIsFresh
PROPERTIES
    FailureTeachesNothing
    TrajectoriesAreRecoveries
    EveryTurnEnds
    EveryCallReturns
