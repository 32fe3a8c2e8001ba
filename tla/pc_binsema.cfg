CONSTANTS
    Workers = {w1, w2, w3}
    Permits = 2
    Rounds = 2
SPECIFICATION PCSpec
PROPERTY ItemIsConsumed
