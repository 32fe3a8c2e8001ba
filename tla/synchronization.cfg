CONSTANTS
    Producers = {p1, p2}
    Consumers = {c1, c2}
    MoreProducers = {p3}
    Pollers = {t1}
    Modifiers = {m1}
    Calls = 2
    max_size_ = 2
    size = 3
    BUFFER_SIZE = 2
    Zero = Zero
    NULL = NULL
    Garbage = Garbage
    Fresh = {Garbage}
    Workers = {w1, w2, w3, w4}
    Permits = 2
    Rounds = 3
    Readers = {r1, r2, r3}
    Writers = {x1, x2}
    Spinners = {s1, s2, s3}
    numIncrements = 2
SPECIFICATION MCSpec
INVARIANT SynchronizationTypeOK
INVARIANT NobodyMissed
INVARIANT NobodyForgotten
INVARIANT ClientsInOrder
INVARIANT MutualExclusion
PROPERTY MonitorSpec
PROPERTY FIFOSpec
PROPERTY QueuesFIFOSpec
PROPERTY RingKeepsToItsNodes
PROPERTY AllReturn
