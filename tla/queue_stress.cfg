CONSTANTS
    Producers = {p1, p2}
    Consumers = {c1, c2}
    Capacity = 3
    Calls = 1
    Retry = TRUE
    Empty = Empty
SPECIFICATION FairSpec
PROPERTY TestCompletes
