CONSTANTS
    Owners = {o1, o2}
    Inserters = {}
    Rounds = 2
    Address = {1, 2, 3}
    NULL = NULL
SPECIFICATION Spec
INVARIANT InsertedIsFound
CHECK_DEADLOCK FALSE
