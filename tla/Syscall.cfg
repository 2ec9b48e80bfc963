SPECIFICATION SyscallSpec
CONSTANTS
    TickModulus = 8
    TicksPerSecond = 3
    SecondsPerMinute = 2
    MinutesPerHour = 2
    HoursPerDay = 2
    MAX_TIMER_CALLBACKS = 3
    Callbacks = {f, g, h, k}
    NoCallback = NoCallback
    Delays <- MCDelays
    MaxElapsed = 26
    Seconds <- MCSeconds
    Statuses <- MCStatuses
    Addresses <- MCAddresses
SYMMETRY MCSymmetry
INVARIANTS CallbacksReached ClockFollowsTicks SleepLongEnough ErrnoOfLastCall
CHECK_DEADLOCK FALSE
