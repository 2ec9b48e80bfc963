SPECIFICATION FairProcSpec
CONSTANTS
    MAX_PROCESSES = 4
    TimeSlices = {1, 2}
    KernelSlice = 1
    TotalFrames = 15
    PageSize = 4
    MemoryStart = 4
INVARIANTS
    QueueWellFormed
    RunningIsCurrent
    KernelSchedulable
    FramesExclusive
    RunnableHasDirectory
PROPERTIES NoOvertaking QueuedRuns
