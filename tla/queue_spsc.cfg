CONSTANTS
    Producers = {p1}
    Consumers = {c1}
    Capacity = 3
    Calls = 7
    Retry = TRUE
    Empty = Empty
SPECIFICATION FairSpec
INVARIANT TypeOK
INVARIANT NoDataRace
PROPERTY RejectsOnlyWhenFull
PROPERTY FIFOSpec
PROPERTY TestCompletes
