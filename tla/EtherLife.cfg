SPECIFICATION LifeFairSpec
CONSTANTS
    Budget = 2
    MaxOpens = 2
    MaxFaults = 2
    MaxLinks = 2
INVARIANTS OnLiveRing RingsFreedOnce HearsWhenUp
PROPERTIES CloseReturns
CHECK_DEADLOCK FALSE
