SPECIFICATION EsamFairSpec
CONSTANTS
    Bits = 2
    Commands <- MCCommands
    Answers <- MCAnswers
    Counts = {3, 9}
    Polls = 2
    BufSize = 8
    MaxEvents = 3
    MixWithin = 1
INVARIANTS PortLeft
PROPERTIES CommandDelivered AnswerExact CallReturns
CHECK_DEADLOCK FALSE
