SPECIFICATION TxFairSpec
CONSTANTS
    TxN = 3
    MaxSkbs = 6
INVARIANT DmaBufferLive
CHECK_DEADLOCK FALSE
