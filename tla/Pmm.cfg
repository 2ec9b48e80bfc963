SPECIFICATION VmmSpec
CONSTANTS
    TotalFrames = 6
    PageSize = 4
    MemoryStart = 4
    HeapFrames <- MCHeapFrames
    PdSize = 4
    PtSize = 5
    KernelBase = 2
    KernelDirectory = 2
    CallerPages <- MCCallerPages
INVARIANTS TypeOK BookkeepingSound FailsOnlyWhenExhausted FramesInUse
PROPERTIES ImplementsFrameAllocator ImplementsAddressSpaces
