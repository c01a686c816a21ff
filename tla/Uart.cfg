SPECIFICATION UartFairSpec
CONSTANTS
    TxDepth = 2
    RxDepth = 2
    Batch = 1
    Cap = 2
    Wake = 2
    MaxChars = 3
    MaxX = 1
    MaxCon = 1
    MaxRx = 3
    MaxStops = 1
INVARIANTS OutputIntact OutputCovered RxInOrder
PROPERTIES CharactersMove
CHECK_DEADLOCK FALSE
