CONSTANTS
    Thread = {p, q}
    Rounds = 1
    NULL = NULL
SPECIFICATION Spec
INVARIANT RemovedIsGone
