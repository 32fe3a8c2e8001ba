CONSTANTS
    Caller = {0, 1, 2}
    Programs <- AllPrograms
    MaxNodes = 6
    Pushers = {1, 2}
    Poppers = {0, 3}
    Pushes <- PushesOfEach
    Pops <- PopsOfEach
    QueuePrograms <- EnqueuersAndDequeuers
    Removers = {0, 1}
    Rounds = 2
    Address = {1, 2, 3, 4, 5}
    ListInserters = {0, 1}
    ListRemovers = {2, 3}
    Operations = 2
    SortedPrograms <- InsertersOrRemovers
    MaxCalls = 5
    First = First
    Last = Last
    Owners = {0}
    ListPushers = {1}
    Cells = {1, 2, 3}
    NULL = NULL
SPECIFICATION MCSpec
INVARIANT StructuresTypeOK
INVARIANT SetsAreKept
INVARIANT HeapIsSound
INVARIANT ListKeepsItsValues
INVARIANT MutexListsAreBags
INVARIANT ListsInCHold
PROPERTY StackIsLIFO
PROPERTY QueueIsFIFO
PROPERTY AllReturn
CHECK_DEADLOCK FALSE
