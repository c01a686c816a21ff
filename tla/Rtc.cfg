SPECIFICATION RtcSpec
CONSTANTS
    Starts <- MCStarts
    SetTimes <- MCSetTimes
    Errnos = {111, 121}
    Others = {49}
    MaxTicks = 2
    MaxFaults = 1
    MaxCalls = 2
    MaxAdjusts = 1
INVARIANTS GetExact TornReads
PROPERTIES ChipWritten
CHECK_DEADLOCK FALSE
