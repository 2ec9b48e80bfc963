SPECIFICATION KillSpec
CONSTANTS
    MAX_PROCESSES = 4
    TimeSlices = {1, 2}
    KernelSlice = 1
INVARIANT QueueWellFormed
