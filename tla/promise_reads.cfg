SPECIFICATION WakeFairSpec
CONSTANTS
    Limit = 3
    CompletionCap = 3
    MaxId = 3
    Reads = {r1, r2, r3, r4}
    Oversized = {r4}
    Workers = {w1, w2}
    QueueCap = 2
    ChunkKinds = {}
    PollBudget = 9
    NoRead = NoRead
INVARIANTS
    OneSettler
    ReadyMeansWoken
    QuiescentMeansSettled
PROPERTIES
    PromiseOrder
    NothingSettlesLate
    ReadsSettle
CHECK_DEADLOCK FALSE
