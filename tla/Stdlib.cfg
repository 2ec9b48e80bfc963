SPECIFICATION Spec
CONSTANTS
    WordSize = 65536
    HeapStart = 8
    HEAP_SIZE = 144
    Requests <- MCRequests
INVARIANT BlocksTile
PROPERTIES FreedJoinsBefore ImplementsBlockStore
