CONSTANTS
    Kinds = {"deque.c"}
    Address = {a1}
    Value = {1, 2}
    NULL = NULL
    MaxLength = 1
    Sizes = {0}
    Wrap = 5
    Capacity = 3
    MaxCapacity = 3
    Garbage = 0
    Key = {1, 2, 4}
    TableSize = 3
    MAX_LOOPS = 50
    Ranked = {1}
    Data = {1}
    Room = 1
    MAX_LEVEL = 0
    Letter = {1}
    MaxWord = 0
    Fan = 2
    m = 1
    Summand = {1}
SPECIFICATION MCSpec
INVARIANT EndsAreItems
