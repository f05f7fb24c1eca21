SPECIFICATION Spec
CONSTANTS
    P_NAL_DFC_QUEUE_INITIAL_SIZE = 3
    P_NAL_DFC_QUEUE_DELTA = 1
    P_NAL_MULTI_TIMER_NUMBER = 2
    Mod = 8
    UserTimers = {1}
    Timeouts = {1, 2}
    MaxLate = 2
    MaxLag = 2
    MaxQueued = 1
    MemoryFails = FALSE
    Start = 3
INVARIANT NoTimerForgotten
PROPERTY NeverEarly
