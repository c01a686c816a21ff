SPECIFICATION SpiFairSpec
CONSTANTS
    Transfers <- MCTransfers
    PerMessage = 2
    MaxMsgs = 2
    MaxSetups = 1
    MaxExtra = 1
INVARIANTS MessageOnWire TransferExact
PROPERTIES MessagesComplete
CHECK_DEADLOCK FALSE
