SPECIFICATION FairSpec
CONSTANTS
    Limit = 1
    CompletionCap = 2
    MaxId = 4
    Readers = {r1}
    Sizes <- UpToThree
    PollBudget = 1
    MaxGen = 4
    NoOp = NoOp
PROPERTIES NoEventAfterShutdown ReaderPromise EveryReadEnds
CHECK_DEADLOCK FALSE
