SPECIFICATION I2cFairSpec
CONSTANTS
    Transfers <- AllTransfers
    MaxXfers = 3
    Retries = 2
    Faults = {"arblost", "slowstop", "hang"}
    MaxArb = 1
INVARIANTS CommandsCovered ResultIsTrue BusIdleAfterXfer NullMessageOnlyRefused
PROPERTIES XferReturns
CHECK_DEADLOCK FALSE
