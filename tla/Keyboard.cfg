SPECIFICATION KbFairSpec
CONSTANTS
    N = 4
    Procs = {p1, p2}
    KeyStates = {k1, none}
    NoKey = none
    CustomSizes = {3}
    ReadSizes = {1, 2}
    MaxBytes = 5
INVARIANTS BytesInOrder NoSleepOnData NoShortKey
PROPERTIES LostOnlyWhenFull ReaderServed
CHECK_DEADLOCK FALSE
