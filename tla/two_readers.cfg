SPECIFICATION FairSpec
CONSTANTS
    Limit = 2
    CompletionCap = 4
    MaxId = 4
    Readers = {r1, r2}
    Sizes <- JustOne
    PollBudget = 1
    MaxGen = 3
    NoOp = NoOp
PROPERTIES EveryReadEnds
INVARIANTS QuotaMirrored OneStep
CHECK_DEADLOCK FALSE
