\* One socket, one turn that fans out, one question of a branch.
SPECIFICATION StreamSpec
CONSTANTS
    MaxSockets = 1
    MaxMessages = 2
    MaxFrames = 1
INVARIANT EveryQuestionIsPut
CHECK_DEADLOCK FALSE
