SPECIFICATION Spec
CONSTANTS
    P_NAL_DFC_QUEUE_INITIAL_SIZE = 2
    P_NAL_DFC_QUEUE_DELTA = 1
    P_NAL_MULTI_TIMER_NUMBER = 2
    Mod = 6
    UserTimers = {1}
    Timeouts = {1}
    MaxLate = 1
    MaxLag = 0
    MaxQueued = 1
    MemoryFails = TRUE
    Start = 3
INVARIANT ZeroMeansNoTimer
