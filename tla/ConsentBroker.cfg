\* Two questions under two keys: enough for them to share a key or not.
\* No symmetry: it is unsound for liveness.
CONSTANTS
    Keys = {k1, k2}
    Requests = {r1, r2}
    NoKey = NoKey
SPECIFICATION Spec
INVARIANTS
    ApprovalIsTheUsers
    NothingLeftRegistered
    OpenQuestionIsReachable
PROPERTIES
    EveryAskSettles
CHECK_DEADLOCK FALSE
