--------------------------- MODULE ArrayContainers ---------------------------
(***************************************************************************)
(* The containers in an array: the circular queue of queue.c, stack.c,     *)
(* deque.c, the set of set.c and the ring of ringbuffer.c, whose array can *)
(* be exchanged for a larger or a smaller one.                             *)
(***************************************************************************)
EXTENDS Integers, Sequences, SequencesExt, FiniteSets

CONSTANTS Value,
          Capacity,     \* of a new container
          MaxCapacity,  \* bound: the largest ring a caller asks for
          Garbage       \* what a new array holds

VARIABLES kind,         \* the file whose container this is
          array,        \* [items, front, rear, size, capacity]
          rearUsed,     \* whether the rear of the deque was used
          call          \* the call that came last: [op, at, values, answer]

ArrayKinds == {"queue.c", "stack.c", "deque.c", "set.c", "ringbuffer.c"}

Nothing == <<>>
Cells(n) == [i \in 0..(n - 1) |-> Garbage]

\* A container is full, or empty, by its counter.
isFull == array.size = array.capacity
isEmpty == array.size = 0
\* The slot behind, around the end of the array, which the mutation forgets, and
\* the slot before.
UpUnwrapped(i) == i + 1
Up(i) == (i + 1) % array.capacity
Down(i) == (i - 1 + array.capacity) % array.capacity

createQueue == [items |-> Cells(Capacity), front |-> 0, rear |-> Capacity - 1, size |-> 0,
                capacity |-> Capacity]
createDeque == [items |-> Cells(Capacity), front |-> -1, rear |-> 0, size |-> 0,
                capacity |-> Capacity]
\* A stack is as full as its top says: top = size - 1.
createStack == [items |-> Cells(Capacity), front |-> 0, rear |-> 0, size |-> 0,
                capacity |-> Capacity]
initializeSet == [items |-> [i \in 0..(Capacity - 1) |-> -1], front |-> 0, rear |-> 0,
                  size |-> 0, capacity |-> Capacity]
\* The head of a ring, where the next value goes, is its rear; the tail its front.
initialize == [items |-> Cells(Capacity), front |-> 0, rear |-> 0, size |-> 0,
               capacity |-> Capacity]

Did(op, i, s, r, b) == /\ array' = b
                       /\ call' = [op |-> op, at |-> i, values |-> s, answer |-> r]
                       /\ UNCHANGED <<kind, rearUsed>>
Does(op, i, s, b) == Did(op, i, s, Nothing, b)
Asked(op, s, r) == Did(op, 0, s, r, array)
-----------------------------------------------------------------------------
\* queue.c
enqueue(v) == Does("push_back", 0, <<v>>,
    IF isFull THEN array
    ELSE [array EXCEPT !.rear = Up(@), !.items[Up(array.rear)] = v, !.size = @ + 1])
dequeue == IF isEmpty THEN Did("pop_front", 0, <<>>, Nothing, array)
           ELSE Did("pop_front", 0, <<>>, <<array.items[array.front]>>,
                    [array EXCEPT !.front = Up(@), !.size = @ - 1])
front == Asked("get_front", <<>>, IF isEmpty THEN Nothing ELSE <<array.items[array.front]>>)

\* stack.c
top == array.size - 1
push(v) == Does("push_front", 0, <<v>>,
    IF isFull THEN array ELSE [array EXCEPT !.items[top + 1] = v, !.size = @ + 1])
pop == IF isEmpty THEN Did("pop_front", 0, <<>>, Nothing, array)
       ELSE Did("pop_front", 0, <<>>, <<array.items[top]>>, [array EXCEPT !.size = @ - 1])
peek == Asked("get_front", <<>>, IF isEmpty THEN Nothing ELSE <<array.items[top]>>)

\* set.c
isInSet(v) == \E i \in 0..top : array.items[i] = v
insertToSet(v) == Does("add", 0, <<v>>,
    IF isFull \/ isInSet(v) THEN array ELSE [array EXCEPT !.items[top + 1] = v, !.size = @ + 1])

\* The last item moves into the place of the first that equals v.
deleteFromSet(v) == Does("discard", 0, <<v>>,
    IF ~isInSet(v) THEN array
    ELSE LET i == Min({j \in 0..top : array.items[j] = v})
         IN  [array EXCEPT !.items[i] = array.items[top], !.size = @ - 1])
askSet(v) == Asked("contains", <<v>>, IF isInSet(v) THEN <<1>> ELSE <<0>>)
-----------------------------------------------------------------------------
\* deque.c.  The front is the first item and the rear is behind the last one,
\* but an insertion into the empty deque sets them equal, and the last deletion
\* sets both to -1.
DequeDid(op, s, r, b, rear) ==
    /\ array' = b
    /\ call' = [op |-> op, at |-> 0, values |-> s, answer |-> r]
    /\ rearUsed' = (rearUsed \/ rear)
    /\ UNCHANGED kind
Taken(b) == IF b.size = 0 THEN [b EXCEPT !.front = -1, !.rear = -1] ELSE b

insertFront(v) == DequeDid("push_front", <<v>>, Nothing,
    IF isFull THEN array
    ELSE [array EXCEPT !.front = Down(@), !.items[Down(array.front)] = v,
                       !.rear = IF isEmpty THEN Down(array.front) ELSE @, !.size = @ + 1],
    FALSE)
insertRear(v) ==
    /\ array.rear # -1 \/ isFull
    /\ DequeDid("push_back", <<v>>, Nothing,
           IF isFull THEN array
           ELSE [array EXCEPT !.items[array.rear] = v, !.rear = Up(@),
                              !.front = IF isEmpty THEN Up(array.rear) ELSE @, !.size = @ + 1],
           TRUE)
\* The item is written in front of the array.
insertRearOutside == /\ array.rear = -1 /\ ~isFull
                     /\ kind' = "crashed"
                     /\ call' = [call EXCEPT !.op = "crash"]
                     /\ UNCHANGED <<array, rearUsed>>
deleteFront == DequeDid("pop_front", <<>>,
    IF isEmpty THEN Nothing ELSE <<array.items[array.front]>>,
    IF isEmpty THEN array ELSE Taken([array EXCEPT !.front = Up(@), !.size = @ - 1]), FALSE)
deleteRear == DequeDid("pop_back", <<>>,
    IF isEmpty THEN Nothing ELSE <<array.items[Down(array.rear)]>>,
    IF isEmpty THEN array ELSE Taken([array EXCEPT !.rear = Down(@), !.size = @ - 1]), TRUE)
getFront == DequeDid("get_front", <<>>,
    IF isEmpty THEN Nothing ELSE <<array.items[array.front]>>, array, FALSE)
getRear == DequeDid("get_back", <<>>,
    IF isEmpty THEN Nothing ELSE <<array.items[Down(array.rear)]>>, array, FALSE)
-----------------------------------------------------------------------------
\* ringbuffer.c.  No two slots share their data, so that a slot is its value and
\* modifyData finds no reference to copy for.
insert(v) == Does("push_back", 0, <<v>>,
    IF isFull THEN array
    ELSE [array EXCEPT !.items[array.rear] = v, !.rear = Up(@), !.size = @ + 1])
ringBufferRemove == Does("delete_front", 0, <<>>,
    IF isEmpty THEN array ELSE [array EXCEPT !.front = Up(@), !.size = @ - 1])
flush == Does("clear", 0, <<>>, [array EXCEPT !.front = 0, !.rear = 0, !.size = 0])

\* From the tail on, up to the slot before the head; a full ring has both in one.
searched == LET n == (array.rear - array.front) % array.capacity
            IN  {(array.front + i) % array.capacity :
                    i \in 0..((IF n = 0 THEN array.capacity ELSE n) - 1)}
search(v) == Asked("contains", <<v>>,
    IF ~isEmpty /\ \E i \in searched : array.items[i] = v THEN <<1>> ELSE <<0>>)
modifyData(i, v) == Does("replace", i, <<v>>,
    IF i < 0 \/ i >= array.size THEN array
    ELSE [array EXCEPT !.items[(array.front + i) % array.capacity] = v])

\* The callers never ask for fewer slots than there are elements.
resizeRingBuffer(n) ==
    /\ n >= array.size
    /\ Does("resize", n, <<>>,
           [items |-> [i \in 0..(n - 1) |->
                          IF i < array.size THEN array.items[(array.front + i) % array.capacity]
                          ELSE Garbage],
            front |-> 0, rear |-> array.size % n, size |-> array.size, capacity |-> n])
-----------------------------------------------------------------------------
Init == /\ kind \in ArrayKinds
        /\ array = CASE kind = "queue.c" -> createQueue
                     [] kind = "deque.c" -> createDeque
                     [] kind = "stack.c" -> createStack
                     [] kind = "set.c" -> initializeSet
                     [] kind = "ringbuffer.c" -> initialize
        /\ rearUsed = FALSE
        /\ call = [op |-> "create", at |-> 0, values |-> <<>>, answer |-> Nothing]

QueueNext == \/ dequeue \/ front
             \/ \E v \in Value : enqueue(v)
StackNext == \/ pop \/ peek
             \/ \E v \in Value : push(v)
SetNext == \E v \in Value : insertToSet(v) \/ deleteFromSet(v) \/ askSet(v)
DequeNext == \/ deleteFront \/ deleteRear \/ getFront \/ getRear \/ insertRearOutside
             \/ \E v \in Value : insertFront(v) \/ insertRear(v)
RingNext == \/ ringBufferRemove \/ flush
            \/ \E v \in Value : insert(v) \/ search(v)
            \/ \E i \in -1..Capacity, v \in Value : modifyData(i, v)
            \/ \E n \in 1..MaxCapacity : resizeRingBuffer(n)

ArrayNext == \/ kind = "queue.c" /\ QueueNext
             \/ kind = "stack.c" /\ StackNext
             \/ kind = "set.c" /\ SetNext
             \/ kind = "deque.c" /\ DequeNext
             \/ kind = "ringbuffer.c" /\ RingNext

vars == <<kind, array, rearUsed, call>>
Spec == Init /\ [][ArrayNext]_vars
-----------------------------------------------------------------------------
\* Every variable keeps its type.
TypeOK == /\ array.capacity \in 1..MaxCapacity
          /\ array.items \in [0..(array.capacity - 1) -> Value \cup {Garbage, -1}]
          /\ array.front \in -1..(array.capacity - 1)
          /\ array.rear \in -1..(array.capacity - 1)
          /\ array.size \in 0..array.capacity
          /\ rearUsed \in BOOLEAN

\* The two indices and the counter of a circular array say the same of how many
\* elements there are, and a set holds no item twice.
IndicesAgree ==
    /\ kind = "queue.c" => array.rear = (array.front + array.size - 1) % array.capacity
    /\ kind = "ringbuffer.c" => array.rear = (array.front + array.size) % array.capacity
    /\ kind = "set.c" => \A i, j \in 0..top : array.items[i] = array.items[j] => i = j

\* The values held, the first one in front; a set's in their order.
Elements == CASE kind = "stack.c" -> [i \in 1..array.size |-> array.items[array.size - i]]
          [] kind = "set.c" -> SetToSortSeq({array.items[i] : i \in 0..top},
                                            LAMBDA x, y : x < y)
          [] OTHER -> [i \in 1..array.size |->
                          array.items[(array.front + i - 1) % array.capacity]]

\* Of the deque only the front is promised to work, as long as the rear is not used.
Vague == CASE kind = "deque.c" /\ rearUsed -> {"push_front", "pop_front", "get_front",
                                               "push_back", "pop_back", "get_back"}
           [] kind = "deque.c" /\ ~rearUsed -> {"push_back", "pop_back", "get_back"}
           [] OTHER -> {}

\* getFront and getRear of a deque with items return an item that was inserted
\* (deque.c:122).
EndsAreItems == kind = "deque.c" /\ call.op \in {"get_front", "get_back"} /\ array.size > 0 =>
                    call.answer[1] \in Value
=============================================================================
