----------------------------- MODULE LinkedLists -----------------------------
(***************************************************************************)
(* The linked lists.  With raw pointers, which free their nodes            *)
(* themselves: singly_linked_list.c, doubly_linked_list.c,                 *)
(* doublyLinkedlist.cpp, liStack.c and, in a ring, circular_dll.cpp.  With *)
(* smart pointers that own the nodes: singlyLinkedList_smartptr.cpp,       *)
(* doublyLinkedlist_smartptr.cpp (a node owns the next),                   *)
(* DoublyLinkedList_sptr.cpp (shared next, weak prev),                     *)
(* doublyLinkedlist_memoryleak.cpp (next and prev both own), stack.cpp     *)
(* and, in a ring, circular_dll_ptr.cpp, circular_dll_ptr2.cpp and         *)
(* circular_dll_memoryleak.cpp.                                            *)
(***************************************************************************)
EXTENDS NodeLists

CONSTANTS Sizes,         \* what the size of a ring of shared pointers can be by chance
          Wrap           \* bound: such a size is counted modulo this
-----------------------------------------------------------------------------
(* The lists with raw pointers. *)

RawKinds == {"singly_linked_list.c", "doubly_linked_list.c", "doublyLinkedlist.cpp",
             "liStack.c", "circular_dll.cpp"}

Freed(l, n) == Without(l, {n})

\* singly_linked_list.c
sll_insertAtBeginning(l, a, v) == [New(l, a, v) EXCEPT !.node[a].next = l.head, !.head = a]
sll_insertAtEnd(l, a, v) ==
    IF l.head = NULL THEN [New(l, a, v) EXCEPT !.head = a]
    ELSE [New(l, a, v) EXCEPT !.node[LastNode(l)].next = a]
sll_deleteFirstNode(l) ==
    IF l.head = NULL THEN l ELSE Freed([l EXCEPT !.head = l.node[l.head].next], l.head)
sll_deleteNode(l, v) ==
    LET n == Search(l, v)
    IN  CASE n = NULL -> l
          [] n # NULL /\ n = l.head -> Freed([l EXCEPT !.head = l.node[n].next], n)
          [] OTHER -> Freed([l EXCEPT !.node[Before(l, n)].next = l.node[n].next], n)

\* doubly_linked_list.c; deleteNode is given a node of the list.
dll_insertAtBeginning(l, a, v) ==
    LET new == [New(l, a, v) EXCEPT !.node[a].next = l.head, !.head = a]
    IN  IF l.head = NULL THEN new ELSE [new EXCEPT !.node[l.head].prev = a]
dll_insertAtEnd(l, a, v) ==
    IF l.head = NULL THEN [New(l, a, v) EXCEPT !.head = a]
    ELSE [New(l, a, v) EXCEPT !.node[LastNode(l)].next = a, !.node[a].prev = LastNode(l)]
dll_deleteNode(l, n) ==
    IF l.head = NULL \/ n = NULL THEN l
    ELSE Freed(Bypassed([l EXCEPT !.head = IF @ = n THEN l.node[n].next ELSE @], n), n)

\* doublyLinkedlist.cpp
insertFront(l, a, v) ==
    IF l.head = NULL THEN [New(l, a, v) EXCEPT !.head = a, !.tail = a]
    ELSE [New(l, a, v) EXCEPT !.node[a].next = l.head, !.node[l.head].prev = a, !.head = a]
insertBack(l, a, v) ==
    IF l.tail = NULL THEN [New(l, a, v) EXCEPT !.head = a, !.tail = a]
    ELSE [New(l, a, v) EXCEPT !.node[l.tail].next = a, !.node[a].prev = l.tail, !.tail = a]
deleteNode(l, n) ==
    IF n = NULL THEN l
    ELSE Freed(Bypassed([l EXCEPT !.head = IF n = @ THEN l.node[n].next ELSE @,
                                  !.tail = IF n = @ THEN l.node[n].prev ELSE @], n), n)
destroy(l) == [Without(l, ToSet(Path(l))) EXCEPT !.head = NULL, !.tail = NULL]

\* liStack.c; the program exits when it pops an empty stack.
li_push(l, a, v) == [New(l, a, v) EXCEPT !.node[a].next = l.head, !.head = a, !.size = @ + 1]
li_pop(l) == Freed([l EXCEPT !.head = l.node[l.head].next, !.size = @ - 1], l.head)

\* circular_dll.cpp: the node before the head is the last.  The mutation leaves the
\* head where it was.
ring_insertFrontKeepsHead(l, a, v) ==
    IF l.head = NULL
    THEN [New(l, a, v) EXCEPT !.node[a].next = a, !.node[a].prev = a, !.head = a]
    ELSE Between(l, a, v, l.node[l.head].prev, l.head)
ring_insertFront(l, a, v) ==
    IF l.head = NULL
    THEN [New(l, a, v) EXCEPT !.node[a].next = a, !.node[a].prev = a, !.head = a]
    ELSE [Between(l, a, v, l.node[l.head].prev, l.head) EXCEPT !.head = a]
ring_insertEnd(l, a, v) ==
    IF l.head = NULL THEN ring_insertFront(l, a, v)
    ELSE Between(l, a, v, l.node[l.head].prev, l.head)
ring_deleteNode(l, v) ==
    LET n == Search(l, v)
    IN  CASE n = NULL -> l
          [] n # NULL /\ n = l.head /\ l.node[n].next = n -> Freed([l EXCEPT !.head = NULL], n)
          [] OTHER -> Freed([Bypassed(l, n) EXCEPT
                               !.head = IF @ = n THEN l.node[n].next ELSE @], n)
-----------------------------------------------------------------------------
RawPushes(a, v) ==
    \/ /\ kind = "singly_linked_list.c"
       /\ \/ Does("push_front", 0, <<v>>, sll_insertAtBeginning(list, a, v))
          \/ Does("push_back", 0, <<v>>, sll_insertAtEnd(list, a, v))
    \/ /\ kind = "doubly_linked_list.c"
       /\ \/ Does("push_front", 0, <<v>>, dll_insertAtBeginning(list, a, v))
          \/ Does("push_back", 0, <<v>>, dll_insertAtEnd(list, a, v))
    \/ /\ kind = "doublyLinkedlist.cpp"
       /\ \/ Does("push_front", 0, <<v>>, insertFront(list, a, v))
          \/ Does("push_back", 0, <<v>>, insertBack(list, a, v))
    \/ /\ kind = "circular_dll.cpp"
       /\ \/ Does("push_front", 0, <<v>>, ring_insertFront(list, a, v))
          \/ Does("push_back", 0, <<v>>, ring_insertEnd(list, a, v))
    \/ /\ kind = "liStack.c"
       /\ Does("push_front", 0, <<v>>, li_push(list, a, v))

\* The callers of deleteNode look the node up first.
RawDeletes(v) ==
    \/ /\ kind = "singly_linked_list.c"
       /\ Does("delete_node", 0, <<v>>, sll_deleteNode(list, v))
    \/ /\ kind = "doublyLinkedlist.cpp"
       /\ Does("delete_node", 0, <<v>>, deleteNode(list, Search(list, v)))
    \/ /\ kind = "circular_dll.cpp"
       /\ Does("delete_node", 0, <<v>>, ring_deleteNode(list, v))

RawDrops ==
    \/ /\ kind = "singly_linked_list.c"
       /\ Does("delete_front", 0, <<>>, sll_deleteFirstNode(list))
    \/ /\ kind = "doubly_linked_list.c"
       /\ \E i \in 1..Len(Path(list)) :
            Does("delete_at", i, <<>>, dll_deleteNode(list, At(list, i)))
    \/ /\ kind \in {"doublyLinkedlist.cpp", "circular_dll.cpp"}
       /\ Does("clear", 0, <<>>, destroy(list))
    \/ /\ kind = "liStack.c" /\ list.head # NULL
       /\ Did("pop_front", 0, <<>>, <<list.node[list.head].data>>, li_pop(list))

RawAsks(v) ==
    /\ kind \in RawKinds \ {"liStack.c", "doubly_linked_list.c"}
    /\ Asked("contains", 0, <<v>>, IF Search(list, v) # NULL THEN <<1>> ELSE <<0>>)

RawNext == \/ \E v \in Value : RawDeletes(v) \/ RawAsks(v)
           \/ \E a \in Fresh, v \in Value : HasRoom(1) /\ RawPushes(a, v)
           \/ kind \in RawKinds /\ RawDrops

\* After every call of a list with raw pointers its links agree in both
\* directions, none leads to freed memory, and every node that is not in the list
\* was freed.
RawListsSound ==
    kind \in RawKinds =>
        /\ NoDangling /\ Lost(list) = {}
        /\ kind = "circular_dll.cpp" \/ Ends
        /\ kind \in {"doubly_linked_list.c", "doublyLinkedlist.cpp"} => Backwards
        /\ kind = "doublyLinkedlist.cpp" => TailIsLast
        /\ kind = "circular_dll.cpp" => RingCloses
        /\ kind = "liStack.c" => SizeIsLength
-----------------------------------------------------------------------------
(* The lists of smart pointers. *)

OwnedKinds == {"singlyLinkedList_smartptr.cpp", "doublyLinkedlist_smartptr.cpp",
               "DoublyLinkedList_sptr.cpp", "doublyLinkedlist_memoryleak.cpp", "stack.cpp"}

\* What the end of a call frees.
NextOwns(l) == Released(l, {l.head}, {"next"})
BothOwn(l) == Released(l, {l.head, l.tail}, {"next", "prev"})

\* singlyLinkedList_smartptr.cpp
pushFront(l, a, v) == [New(l, a, v) EXCEPT !.node[a].next = l.head, !.head = a]
popFront(l) == IF l.head = NULL THEN l ELSE NextOwns([l EXCEPT !.head = l.node[l.head].next])
popBack(l) ==
    CASE l.head = NULL -> l
      [] l.head # NULL /\ l.node[l.head].next = NULL -> NextOwns([l EXCEPT !.head = NULL])
      [] OTHER -> NextOwns([l EXCEPT !.node[Before(l, LastNode(l))].next = NULL])
clear(l) == NextOwns([l EXCEPT !.head = NULL])

\* stack.cpp
push(l, a, v) == [New(l, a, v) EXCEPT !.node[a].next = l.head, !.head = a]
pop(l) == IF l.head = NULL THEN l ELSE NextOwns([l EXCEPT !.head = l.node[l.head].next])
top(l) == IF l.head = NULL THEN Nothing ELSE <<l.node[l.head].data>>

\* doublyLinkedlist_smartptr.cpp
unique_push_front(l, a, v) ==
    LET new == [New(l, a, v) EXCEPT !.node[a].next = l.head, !.head = a]
    IN  IF l.head # NULL THEN [new EXCEPT !.node[l.head].prev = a] ELSE [new EXCEPT !.tail = a]
unique_push_back(l, a, v) ==
    IF l.head = NULL THEN unique_push_front(l, a, v)
    ELSE [New(l, a, v) EXCEPT !.node[l.tail].next = a, !.node[a].prev = l.tail, !.tail = a]
unique_delete_front(l) ==
    LET n == l.node[l.head].next
    IN  CASE l.head = NULL -> l
          [] l.head # NULL /\ n = NULL -> NextOwns([l EXCEPT !.head = NULL, !.tail = NULL])
          [] OTHER -> NextOwns([l EXCEPT !.head = n, !.node[n].prev = NULL])
unique_delete_back(l) ==
    LET n == l.node[l.tail].prev
    IN  CASE l.tail = NULL -> l
          [] l.tail # NULL /\ n = NULL -> NextOwns([l EXCEPT !.head = NULL, !.tail = NULL])
          [] OTHER -> NextOwns([l EXCEPT !.tail = n, !.node[n].next = NULL])
unique_delete_node(l, v) ==
    LET n == Search(l, v)
        p == l.node[n].prev
    IN  CASE n = NULL -> l
          [] n # NULL /\ n = l.head -> unique_delete_front(l)
          [] n # NULL /\ n # l.head /\ n = l.tail -> unique_delete_back(l)
          [] OTHER -> NextOwns([l EXCEPT !.node[p].next = l.node[n].next,
                                         !.node[l.node[n].next].prev = p])
unique_clear(l) == NextOwns([l EXCEPT !.head = NULL, !.tail = NULL])
\* A new node right behind p.
unique_insert(l, a, v, p) ==
    LET n == l.node[p].next
        new == [New(l, a, v) EXCEPT !.node[a].next = n, !.node[a].prev = p, !.node[p].next = a]
    IN  IF n # NULL THEN [new EXCEPT !.node[n].prev = a] ELSE [new EXCEPT !.tail = a]

\* `new` is a sequence of addresses and values, [at, value]; the node that comes
\* before the k-th of them, when the first comes behind p.
Behind(new, k, p) == IF k = 1 THEN p ELSE new[k - 1].at

unique_addAll(l, i, new) ==
    LET n == Len(new)
        pushed[k \in 0..n] ==
            IF k = 0 THEN l
            ELSE unique_push_front(pushed[k - 1], new[n + 1 - k].at, new[n + 1 - k].value)
        inserted[k \in 0..n] ==
            IF k = 0 THEN l
            ELSE unique_insert(inserted[k - 1], new[k].at, new[k].value, Behind(new, k, At(l, i)))
    IN  CASE i < 0 \/ i > Len(Path(l)) -> l
          [] i = 0 -> pushed[n]
          [] OTHER -> inserted[n]

\* doublyLinkedlist_memoryleak.cpp
leak_push_back(l, a, v) ==
    IF l.head = NULL THEN [New(l, a, v) EXCEPT !.head = a, !.tail = a, !.size = @ + 1]
    ELSE [New(l, a, v) EXCEPT !.node[l.tail].next = a, !.node[a].prev = l.tail, !.tail = a,
                              !.size = @ + 1]
leak_push_front(l, a, v) ==
    IF l.head = NULL THEN [New(l, a, v) EXCEPT !.head = a, !.tail = a, !.size = @ + 1]
    ELSE [New(l, a, v) EXCEPT !.node[a].next = l.head, !.node[l.head].prev = a, !.head = a,
                              !.size = @ + 1]
\* The mutation keeps the owning link from the new head to the node taken out.
leak_delete_frontKeepsPrev(l) ==
    LET n == l.node[l.head].next
    IN  CASE l.head = NULL -> l
          [] l.head # NULL /\ l.head = l.tail ->
                 BothOwn([l EXCEPT !.head = NULL, !.tail = NULL, !.size = @ - 1])
          [] OTHER -> BothOwn([l EXCEPT !.head = n, !.size = @ - 1])
leak_delete_front(l) ==
    LET n == l.node[l.head].next
    IN  CASE l.head = NULL -> l
          [] l.head # NULL /\ l.head = l.tail ->
                 BothOwn([l EXCEPT !.head = NULL, !.tail = NULL, !.size = @ - 1])
          [] OTHER -> BothOwn([l EXCEPT !.node[n].prev = NULL, !.head = n, !.size = @ - 1])
leak_delete_back(l) ==
    LET p == l.node[l.tail].prev
    IN  CASE l.tail = NULL -> l
          [] l.tail # NULL /\ p # NULL ->
                 BothOwn([l EXCEPT !.tail = p, !.node[p].next = NULL, !.size = @ - 1])
          [] OTHER -> BothOwn([l EXCEPT !.head = NULL, !.tail = NULL, !.size = @ - 1])
leak_delete_node(l, v) ==
    LET n == Search(l, v)
    IN  CASE n = NULL -> l
          [] n # NULL /\ n = l.head -> leak_delete_front(l)
          [] n # NULL /\ n # l.head /\ n = l.tail -> leak_delete_back(l)
          [] OTHER -> BothOwn([Bypassed(l, n) EXCEPT !.size = @ - 1])
leak_clear(l) == BothOwn([l EXCEPT !.head = NULL, !.tail = NULL, !.size = 0])
leak_insert(l, a, v, p) ==
    LET n == l.node[p].next
        new == [New(l, a, v) EXCEPT !.node[a].next = n, !.node[a].prev = p, !.node[p].next = a,
                                    !.size = @ + 1]
    IN  IF n # NULL THEN [new EXCEPT !.node[n].prev = a] ELSE [new EXCEPT !.tail = a]
leak_addAll(l, i, new) ==
    LET n == Len(new)
        pushed[k \in 0..n] ==
            IF k = 0 THEN l
            ELSE leak_push_front(pushed[k - 1], new[n + 1 - k].at, new[n + 1 - k].value)
        appended[k \in 0..n] ==
            IF k = 0 THEN l ELSE leak_push_back(appended[k - 1], new[k].at, new[k].value)
        inserted[k \in 0..n] ==
            IF k = 0 THEN l
            ELSE leak_insert(inserted[k - 1], new[k].at, new[k].value, Behind(new, k, At(l, i)))
    IN  CASE i < 0 \/ i > l.size -> l
          [] i = 0 -> pushed[n]
          [] i # 0 /\ i = l.size -> appended[n]
          [] OTHER -> inserted[n]

\* DoublyLinkedList_sptr.cpp
weak_push_back(l, a, v) ==
    IF l.head = NULL THEN [New(l, a, v) EXCEPT !.head = a, !.tail = a, !.size = @ + 1]
    ELSE [New(l, a, v) EXCEPT !.node[l.tail].next = a, !.node[a].prev = l.tail, !.tail = a,
                              !.size = @ + 1]
weak_push_front(l, a, v) ==
    IF l.head = NULL THEN [New(l, a, v) EXCEPT !.head = a, !.tail = a, !.size = @ + 1]
    ELSE [New(l, a, v) EXCEPT !.node[a].next = l.head, !.node[l.head].prev = a, !.head = a,
                              !.size = @ + 1]
weak_delete_front(l) ==
    LET n == l.node[l.head].next
    IN  CASE l.head = NULL -> l
          [] l.head # NULL /\ n # NULL ->
                 NextOwns([l EXCEPT !.node[n].prev = NULL, !.head = n, !.size = @ - 1])
          [] OTHER -> NextOwns([l EXCEPT !.head = NULL, !.tail = NULL, !.size = @ - 1])
weak_delete_back(l) ==
    LET p == l.node[l.tail].prev
    IN  CASE l.head = NULL -> l
          [] l.head # NULL /\ l.node[l.head].next = NULL ->
                 NextOwns([l EXCEPT !.head = NULL, !.tail = NULL, !.size = @ - 1])
          [] OTHER -> NextOwns([l EXCEPT !.tail = p, !.node[p].next = NULL, !.size = @ - 1])
weak_delete_node(l, v) ==
    LET n == Search(l, v)
        p == l.node[n].prev
    IN  CASE n = NULL -> l
          [] n # NULL /\ n = l.head -> weak_delete_front(l)
          [] n # NULL /\ n # l.head /\ l.node[n].next = NULL ->
                 NextOwns([l EXCEPT !.node[p].next = NULL, !.tail = p, !.size = @ - 1])
          [] OTHER -> NextOwns([Bypassed(l, n) EXCEPT !.size = @ - 1])
weak_clear(l) == NextOwns([l EXCEPT !.head = NULL, !.tail = NULL, !.size = 0])

\* A new node right before c.
weak_insert(l, a, v, c) ==
    LET p == l.node[c].prev
        new == [New(l, a, v) EXCEPT !.node[a].next = c, !.node[a].prev = p, !.node[c].prev = a]
    IN  IF p # NULL THEN [new EXCEPT !.node[p].next = a] ELSE [new EXCEPT !.head = a]
weak_addAll(l, i, new) ==
    LET n == Len(new)
        appended[k \in 0..n] ==
            IF k = 0 THEN l ELSE weak_push_back(appended[k - 1], new[k].at, new[k].value)
        inserted[k \in 0..n] ==
            IF k = 0 THEN l
            ELSE weak_insert(inserted[k - 1], new[k].at, new[k].value, At(l, i + 1))
    IN  CASE i < 0 \/ i > l.size -> l
          [] i = l.size -> appended[n]
          [] OTHER -> [inserted[n] EXCEPT !.size = @ + n]
-----------------------------------------------------------------------------
\* clone and the copy constructors; the caller goes on with the copy.
Emptied(l) == [l EXCEPT !.head = NULL, !.tail = NULL, !.size = 0]
unique_clone(l, new) ==
    LET copied[k \in 0..Len(new)] ==
            IF k = 0 THEN Emptied(l)
            ELSE unique_push_back(copied[k - 1], new[k].at, new[k].value)
    IN  NextOwns(copied[Len(new)])
leak_clone(l, new) ==
    LET copied[k \in 0..Len(new)] ==
            IF k = 0 THEN Emptied(l)
            ELSE leak_push_back(copied[k - 1], new[k].at, new[k].value)
    IN  BothOwn(copied[Len(new)])
weak_clone(l, new) ==
    LET copied[k \in 0..Len(new)] ==
            IF k = 0 THEN Emptied(l)
            ELSE weak_push_back(copied[k - 1], new[k].at, new[k].value)
    IN  NextOwns(copied[Len(new)])

\* Fresh nodes for the values s.
NodesFor(s) == {[k \in DOMAIN s |-> [at |-> places[k], value |-> s[k]]] :
                  places \in {p \in [DOMAIN s -> Fresh] :
                                \A j, k \in DOMAIN s : p[j] = p[k] => j = k}}

OwnedPushes(a, v) ==
    \/ /\ kind = "singlyLinkedList_smartptr.cpp"
       /\ Does("push_front", 0, <<v>>, pushFront(list, a, v))
    \/ /\ kind = "stack.cpp"
       /\ Does("push_front", 0, <<v>>, push(list, a, v))
    \/ /\ kind = "doublyLinkedlist_smartptr.cpp"
       /\ \/ Does("push_front", 0, <<v>>, unique_push_front(list, a, v))
          \/ Does("push_back", 0, <<v>>, unique_push_back(list, a, v))
    \/ /\ kind = "doublyLinkedlist_memoryleak.cpp"
       /\ \/ Does("push_front", 0, <<v>>, leak_push_front(list, a, v))
          \/ Does("push_back", 0, <<v>>, leak_push_back(list, a, v))
    \/ /\ kind = "DoublyLinkedList_sptr.cpp"
       /\ \/ Does("push_front", 0, <<v>>, weak_push_front(list, a, v))
          \/ Does("push_back", 0, <<v>>, weak_push_back(list, a, v))

AddsAll(i, new) ==
    LET s == [k \in DOMAIN new |-> new[k].value]
    IN  \/ /\ kind = "doublyLinkedlist_smartptr.cpp"
           /\ Does("insert", i, s, unique_addAll(list, i, new))
        \/ /\ kind = "doublyLinkedlist_memoryleak.cpp"
           /\ Does("insert", i, s, leak_addAll(list, i, new))
        \/ /\ kind = "DoublyLinkedList_sptr.cpp"
           /\ Does("insert", i, s, weak_addAll(list, i, new))

Clones(new) ==
    \/ /\ kind = "doublyLinkedlist_smartptr.cpp"
       /\ Does("clone", 0, <<>>, unique_clone(list, new))
    \/ /\ kind = "doublyLinkedlist_memoryleak.cpp"
       /\ Does("clone", 0, <<>>, leak_clone(list, new))
    \/ /\ kind = "DoublyLinkedList_sptr.cpp"
       /\ Does("clone", 0, <<>>, weak_clone(list, new))

OwnedDrops ==
    \/ /\ kind = "singlyLinkedList_smartptr.cpp"
       /\ \/ Does("delete_front", 0, <<>>, popFront(list))
          \/ Does("delete_back", 0, <<>>, popBack(list))
          \/ Does("clear", 0, <<>>, clear(list))
    \/ /\ kind = "stack.cpp"
       /\ Did("pop_front", 0, <<>>, top(list), pop(list))
    \/ /\ kind = "doublyLinkedlist_smartptr.cpp"
       /\ \/ Does("delete_front", 0, <<>>, unique_delete_front(list))
          \/ Does("delete_back", 0, <<>>, unique_delete_back(list))
          \/ Does("clear", 0, <<>>, unique_clear(list))
    \/ /\ kind = "doublyLinkedlist_memoryleak.cpp"
       /\ \/ Does("delete_front", 0, <<>>, leak_delete_front(list))
          \/ Does("delete_back", 0, <<>>, leak_delete_back(list))
          \/ Does("clear", 0, <<>>, leak_clear(list))
    \/ /\ kind = "DoublyLinkedList_sptr.cpp"
       /\ \/ Does("delete_front", 0, <<>>, weak_delete_front(list))
          \/ Does("delete_back", 0, <<>>, weak_delete_back(list))
          \/ Does("clear", 0, <<>>, weak_clear(list))

OwnedDeletes(v) ==
    \/ /\ kind = "doublyLinkedlist_smartptr.cpp"
       /\ Does("delete_node", 0, <<v>>, unique_delete_node(list, v))
    \/ /\ kind = "doublyLinkedlist_memoryleak.cpp"
       /\ Does("delete_node", 0, <<v>>, leak_delete_node(list, v))
    \/ /\ kind = "DoublyLinkedList_sptr.cpp"
       /\ Does("delete_node", 0, <<v>>, weak_delete_node(list, v))

\* get(size) of the list with unique pointers reads through a null pointer: its
\* callers ask for smaller indices.
Gets(i) == /\ kind \in {"doublyLinkedlist_smartptr.cpp", "doublyLinkedlist_memoryleak.cpp",
                        "DoublyLinkedList_sptr.cpp"}
           /\ kind = "doublyLinkedlist_smartptr.cpp" => i # Len(Path(list))
           /\ Asked("get", i, <<>>, IF i < 0 \/ i >= Len(Path(list)) THEN Nothing
                                    ELSE <<list.node[At(list, i + 1)].data>>)

OwnedAsks(v) ==
    \/ /\ kind \in OwnedKinds \ {"stack.cpp"}
       /\ Asked("contains", 0, <<v>>, IF Search(list, v) # NULL THEN <<1>> ELSE <<0>>)
    \/ /\ kind \in OwnedKinds \ {"singlyLinkedList_smartptr.cpp"}
       /\ Asked("get_front", 0, <<>>, top(list))

OwnedNext ==
    \/ kind \in OwnedKinds /\ OwnedDrops
    \/ \E v \in Value : OwnedDeletes(v) \/ OwnedAsks(v)
    \/ \E i \in -1..MaxLength : Gets(i)
    \/ \E a \in Fresh, v \in Value : HasRoom(1) /\ OwnedPushes(a, v)
    \/ \E s \in {<<v>> : v \in Value} \cup {t \in Value \X Value : t[1] # t[2]} :
          /\ HasRoom(Len(s))
          /\ \E new \in NodesFor(s), i \in -1..MaxLength : AddsAll(i, new)
    \/ \E new \in NodesFor(Contents(list)) : Clones(new)

\* The same of the lists of smart pointers; only those whose nodes own each other
\* in both directions keep nodes that are in no list.
OwnedListsSound ==
    kind \in OwnedKinds =>
        /\ NoDangling /\ Ends
        /\ kind # "doublyLinkedlist_memoryleak.cpp" => Lost(list) = {}
        /\ kind \notin {"singlyLinkedList_smartptr.cpp", "stack.cpp"} => Backwards /\ TailIsLast
        /\ kind \in {"DoublyLinkedList_sptr.cpp", "doublyLinkedlist_memoryleak.cpp"} =>
               SizeIsLength
-----------------------------------------------------------------------------
(* The circular lists of shared pointers: circular_dll_ptr.cpp (next owns,  *)
(* with a weak tail), circular_dll_ptr2.cpp (next owns, no tail) and        *)
(* circular_dll_memoryleak.cpp (next and prev own).  No constructor sets    *)
(* the size: it starts as whatever the memory holds, and is counted from    *)
(* there.                                                                   *)

CircularKinds == {"circular_dll_ptr.cpp", "circular_dll_ptr2.cpp",
                  "circular_dll_memoryleak.cpp"}

RingOwns(l) == Released(l, {l.head}, {"next", "prev"})

More(l) == [l EXCEPT !.size = (@ + 1) % Wrap]
Less(l) == [l EXCEPT !.size = (@ - 1) % Wrap]
One(l) == l.head # NULL /\ l.node[l.head].next = l.head
Ring(l, a, v) == [New(l, a, v) EXCEPT !.node[a].next = a, !.node[a].prev = a, !.head = a]

\* The node reached from the head in k steps, round and round.
Reached(l, k) == At(l, (k % Len(Path(l))) + 1)

\* circular_dll_ptr.cpp; a push frees what a wrong tail has left behind it.
ptr_push_front(l, a, v) ==
    IF l.head = NULL THEN More([Ring(l, a, v) EXCEPT !.tail = a])
    ELSE More(NextOwns([Between(l, a, v, l.tail, l.head) EXCEPT !.head = a]))
ptr_push_back(l, a, v) ==
    IF l.head = NULL THEN More([Ring(l, a, v) EXCEPT !.tail = a])
    ELSE More(NextOwns([Between(l, a, v, l.tail, l.head) EXCEPT !.tail = a]))
ptr_pop_back(l) ==
    LET p == l.node[l.tail].prev
    IN  CASE l.head = NULL -> [l EXCEPT !.size = 0]
          [] One(l) -> Less(NextOwns([l EXCEPT !.head = NULL, !.tail = NULL]))
          [] OTHER -> Less(NextOwns([l EXCEPT !.node[p].next = l.head, !.node[l.head].prev = p,
                                              !.tail = p]))
ptr_pop_front(l) ==
    LET n == l.node[l.head].next
    IN  CASE l.head = NULL -> [l EXCEPT !.size = 0]
          [] One(l) -> Less(NextOwns([l EXCEPT !.head = NULL, !.tail = NULL]))
          [] OTHER -> Less(NextOwns([l EXCEPT !.node[l.tail].next = n, !.node[n].prev = l.tail,
                                              !.head = n]))
ptr_insert(l, i, a, v) ==
    LET p == Reached(l, i - 1)
    IN  CASE i < 0 \/ i > l.size -> l
          [] i = 0 -> ptr_push_front(l, a, v)
          [] i # 0 /\ i = l.size ->
                 More(NextOwns([Between(l, a, v, l.tail, l.head) EXCEPT !.tail = a]))
          [] OTHER -> More(Between(l, a, v, p, l.node[p].next))

\* The search gives up after as many nodes as the size says.
ptr_found(l, v) ==
    LET i == SelectInSeq(Contents(l), LAMBDA x : x = v)
    IN  IF i = 0 \/ (i > 1 /\ i - 1 >= l.size) THEN NULL ELSE At(l, i)
ptr_delete_node(l, v) ==
    LET n == ptr_found(l, v)
    IN  CASE l.head = NULL -> [l EXCEPT !.size = 0]
          [] l.head # NULL /\ n = NULL -> l
          [] n # NULL /\ One(l) -> Less(NextOwns([l EXCEPT !.head = NULL, !.tail = NULL]))
          [] OTHER -> Less(NextOwns([Bypassed(l, n) EXCEPT
                               !.head = IF @ = n THEN l.node[n].next ELSE @,
                               !.tail = IF @ = n THEN l.node[n].prev ELSE @]))
\* pop_front until the list is empty; with a wrong tail one more than it is long.
ptr_destroy(l) ==
    LET popped[k \in Nat] == IF k = 0 THEN l ELSE ptr_pop_front(popped[k - 1])
    IN  popped[2 * Len(Path(l))]

\* circular_dll_ptr2.cpp
ptr2_push_front(l, a, v) ==
    IF l.head = NULL THEN More(Ring(l, a, v))
    ELSE More([Between(l, a, v, l.node[l.head].prev, l.head) EXCEPT !.head = a])
ptr2_push_back(l, a, v) ==
    IF l.head = NULL THEN More(Ring(l, a, v))
    ELSE More(Between(l, a, v, l.node[l.head].prev, l.head))
ptr2_pop_back(l) ==
    LET p == l.node[l.node[l.head].prev].prev
    IN  CASE l.head = NULL -> l
          [] One(l) -> NextOwns([l EXCEPT !.head = NULL, !.size = 0])
          [] OTHER -> Less(NextOwns([l EXCEPT !.node[p].next = l.head, !.node[l.head].prev = p]))
ptr2_pop_front(l) ==
    LET n == l.node[l.head].next
        last == l.node[l.head].prev
    IN  CASE l.head = NULL -> l
          [] One(l) -> NextOwns([l EXCEPT !.head = NULL, !.size = 0])
          [] OTHER -> Less(NextOwns([l EXCEPT !.node[n].prev = last, !.node[last].next = n,
                                              !.head = n]))
ptr2_insert(l, i, a, v) ==
    LET p == Reached(l, i - 1)
    IN  CASE i < 0 \/ i > l.size -> l
          [] i = 0 -> ptr2_push_front(l, a, v)
          [] i # 0 /\ i = l.size -> ptr2_push_back(l, a, v)
          [] OTHER -> More(Between(l, a, v, p, l.node[p].next))

\* The links of the node itself are cleared, so that it goes even when it was
\* the only one.
ptr2_delete_node(l, v) ==
    LET n == Search(l, v)
        cut == IF l.node[n].next = n THEN [l EXCEPT !.head = NULL]
               ELSE [Bypassed(l, n) EXCEPT !.head = IF @ = n THEN l.node[n].next ELSE @]
    IN  IF n = NULL THEN l
        ELSE Less(NextOwns([cut EXCEPT !.node[n].next = NULL, !.node[n].prev = NULL]))

\* circular_dll_memoryleak.cpp
both_push_front(l, a, v) ==
    IF l.head = NULL THEN More(Ring(l, a, v))
    ELSE More([Between(l, a, v, l.node[l.head].prev, l.head) EXCEPT !.head = a])
both_push_back(l, a, v) ==
    IF l.head = NULL THEN More(Ring(l, a, v))
    ELSE More(Between(l, a, v, l.node[l.head].prev, l.head))
Fewer(l) == IF l.size > 0 THEN Less(l) ELSE l
both_pop_back(l) ==
    LET p == l.node[l.node[l.head].prev].prev
    IN  CASE l.head = NULL -> l
          [] One(l) -> Fewer(RingOwns([l EXCEPT !.head = NULL]))
          [] OTHER -> Fewer(RingOwns([l EXCEPT !.node[p].next = l.head, !.node[l.head].prev = p]))
both_pop_front(l) ==
    LET n == l.node[l.head].next
        last == l.node[l.head].prev
    IN  CASE l.head = NULL -> l
          [] One(l) -> Fewer(RingOwns([l EXCEPT !.head = NULL]))
          [] OTHER -> Fewer(RingOwns([l EXCEPT !.node[n].prev = last, !.node[last].next = n,
                                              !.head = n]))
both_insert(l, i, a, v) ==
    LET p == Reached(l, i - 1)
    IN  CASE i < 0 \/ i > l.size -> l
          [] i = 0 -> both_push_front(l, a, v)
          [] i # 0 /\ i = l.size -> both_push_back(l, a, v)
          [] OTHER -> More(Between(l, a, v, p, l.node[p].next))
both_delete_node(l, v) ==
    LET n == Search(l, v)
    IN  CASE n = NULL -> l
          [] n # NULL /\ l.node[n].next = n -> Less(RingOwns([l EXCEPT !.head = NULL]))
          [] OTHER -> Less(RingOwns([Bypassed(l, n) EXCEPT
                               !.head = IF @ = n THEN l.node[n].next ELSE @]))
-----------------------------------------------------------------------------
Pushes(a, v) ==
    \/ /\ kind = "circular_dll_ptr.cpp"
       /\ \/ Does("push_front", 0, <<v>>, ptr_push_front(list, a, v))
          \/ Does("push_back", 0, <<v>>, ptr_push_back(list, a, v))
    \/ /\ kind = "circular_dll_ptr2.cpp"
       /\ \/ Does("push_front", 0, <<v>>, ptr2_push_front(list, a, v))
          \/ Does("push_back", 0, <<v>>, ptr2_push_back(list, a, v))
    \/ /\ kind = "circular_dll_memoryleak.cpp"
       /\ \/ Does("push_front", 0, <<v>>, both_push_front(list, a, v))
          \/ Does("push_back", 0, <<v>>, both_push_back(list, a, v))

\* With a size that is positive by chance, an insert into the empty list goes
\* through its null head; in the lists without a tail one at the end does not.
ThroughNull(i) == /\ list.head = NULL
                  /\ i \in 1..list.size
                  /\ kind = "circular_dll_ptr.cpp" \/ i # list.size

Inserts(i, a, v) ==
    /\ ~ThroughNull(i)
    /\ \/ /\ kind = "circular_dll_ptr.cpp"
          /\ Does("insert", i, <<v>>, ptr_insert(list, i, a, v))
       \/ /\ kind = "circular_dll_ptr2.cpp"
          /\ Does("insert", i, <<v>>, ptr2_insert(list, i, a, v))
       \/ /\ kind = "circular_dll_memoryleak.cpp"
          /\ Does("insert", i, <<v>>, both_insert(list, i, a, v))

\* The program ends there.
InsertCrashes(i) == /\ kind \in CircularKinds
                    /\ ThroughNull(i)
                    /\ kind' = "crashed"
                    /\ call' = [call EXCEPT !.op = "crash"]
                    /\ UNCHANGED list

Pops ==
    \/ /\ kind = "circular_dll_ptr.cpp"
       /\ \/ Does("delete_front", 0, <<>>, ptr_pop_front(list))
          \/ Does("delete_back", 0, <<>>, ptr_pop_back(list))
    \/ /\ kind = "circular_dll_ptr2.cpp"
       /\ \/ Does("delete_front", 0, <<>>, ptr2_pop_front(list))
          \/ Does("delete_back", 0, <<>>, ptr2_pop_back(list))
    \/ /\ kind = "circular_dll_memoryleak.cpp"
       /\ \/ Does("delete_front", 0, <<>>, both_pop_front(list))
          \/ Does("delete_back", 0, <<>>, both_pop_back(list))

Deletes(v) ==
    \/ /\ kind = "circular_dll_ptr.cpp"
       /\ Does("delete_node", 0, <<v>>, ptr_delete_node(list, v))
    \/ /\ kind = "circular_dll_ptr2.cpp"
       /\ Does("delete_node", 0, <<v>>, ptr2_delete_node(list, v))
    \/ /\ kind = "circular_dll_memoryleak.cpp"
       /\ Does("delete_node", 0, <<v>>, both_delete_node(list, v))

\* The list is destroyed and the next one is made.
Destroyed(l) == CASE kind = "circular_dll_ptr.cpp" -> ptr_destroy(l)
                  [] kind = "circular_dll_ptr2.cpp" -> NextOwns([l EXCEPT !.head = NULL])
                  [] kind = "circular_dll_memoryleak.cpp" -> RingOwns([l EXCEPT !.head = NULL])
MakesAnother(size) == /\ kind \in CircularKinds
                      /\ Does("clear", 0, <<>>, [Destroyed(list) EXCEPT !.size = size])

CircularNext ==
    \/ Pops
    \/ \E v \in Value : Deletes(v)
    \/ \E size \in Sizes : MakesAnother(size)
    \/ \E a \in Fresh, v \in Value : HasRoom(1) /\ Pushes(a, v)
    \/ \E i \in -1..MaxLength, a \in Fresh, v \in Value : HasRoom(1) /\ Inserts(i, a, v)
    \/ \E i \in 1..MaxLength : InsertCrashes(i)

\* The links of a ring agree whatever its size was at first: a wrong size misplaces
\* elements, and may leave the tail of circular_dll_ptr.cpp behind, but never breaks
\* the ring.
CircularListsSound == kind \in CircularKinds => NoDangling /\ RingCloses

\* A ring whose size and tail are right keeps them right.
Exact == SizeIsLength /\ (kind = "circular_dll_ptr.cpp" => TailIsLast)
StaysExact == kind \in CircularKinds /\ Exact /\ call'.op # "clear" => Exact'

\* What a ring does not promise while they are wrong.
Vague == CASE kind = "circular_dll_ptr.cpp" /\ ~TailIsLast ->
                  {"push_front", "push_back", "insert", "delete_front", "delete_back",
                   "delete_node"}
           [] kind \in CircularKinds /\ ~SizeIsLength -> {"insert", "delete_node"}
           [] OTHER -> {}
=============================================================================
