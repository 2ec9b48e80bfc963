SPECIFICATION Spec
CONSTANTS
    WordSize = 65536
    Start = 23
    Size = 261
    Requests <- MCRequests
    FreeSizeCap = 300
CHECK_DEADLOCK FALSE
INVARIANTS BlocksTile Coalesced PointersValid FreeSizeCoversFreeBytes
