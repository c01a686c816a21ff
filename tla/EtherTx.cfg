SPECIFICATION TxFairSpec
CONSTANTS
    TxN = 3
    MaxSkbs = 6
INVARIANTS TxInOrder NeverBusy
PROPERTIES TxEventuallyFreed QueueWokenByCompletion
CHECK_DEADLOCK FALSE
