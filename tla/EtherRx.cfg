SPECIFICATION RxFairSpec
CONSTANTS
    N = 3
    Budget = 2
    MaxFrames = 5
    MaxAllocFails = 1
    MaxBusErrors = 1
INVARIANTS RxAlive BufferOwnership
PROPERTIES ResetOutsidePoll RxFifoSpec RxProgress
CHECK_DEADLOCK FALSE
