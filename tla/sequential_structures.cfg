CONSTANTS
    Kinds = {"queue.c", "stack.c", "deque.c", "set.c", "ringbuffer.c",
             "singly_linked_list.c", "doubly_linked_list.c", "doublyLinkedlist.cpp",
             "liStack.c", "circular_dll.cpp",
             "singlyLinkedList_smartptr.cpp", "doublyLinkedlist_smartptr.cpp",
             "DoublyLinkedList_sptr.cpp", "doublyLinkedlist_memoryleak.cpp", "stack.cpp",
             "circular_dll_ptr.cpp", "circular_dll_ptr2.cpp", "circular_dll_memoryleak.cpp",
             "chain_hash.c", "openAdd_hash.c", "quad_double_hash.c", "hashtable_cache.hpp",
             "coalesced_hash.c", "cuckoo_hash.c",
             "RBTree.cpp", "BST.cpp", "BST_smartptr.cpp", "BST_smartptr2.cpp",
             "intervalTree.cpp", "intervalTree2.cpp", "skipList.c", "skipList_smartptr.cpp",
             "trie.cpp", "hamt.cpp", "NaryTree.cpp", "SegmentTree.cpp"}
    Address = {a1, a2, a3, a4}
    Value = {1, 2}
    NULL = NULL
    MaxLength = 3
    Sizes = {0, 4}
    Wrap = 5
    Capacity = 3
    MaxCapacity = 4
    Garbage = 0
    Key = {1, 2, 4}
    TableSize = 3
    MAX_LOOPS = 50
    Ranked = {1, 2, 3, 4, 5, 6}
    Data = {1, 2, 3}
    Room = 4
    MAX_LEVEL = 2
    Letter = {1, 2}
    MaxWord = 2
    Fan = 2
    m = 2
    Summand = {0, 1, 2}
SPECIFICATION MCSpec
SYMMETRY Symmetry
INVARIANT SequentialTypeOK
PROPERTY KeepsItsPromise
INVARIANT TreesSound
PROPERTY StructuresSound
PROPERTY TreesChangeAsAsked
