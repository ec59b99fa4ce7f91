SPECIFICATION Spec
CONSTANTS
    Limit = 2
    CompletionCap = 2
    MaxId = 4
    Reads = {r1, r2}
    Oversized = {}
    Workers = {w1, w2}
    QueueCap = 2
    ChunkKinds = {"stream"}
    PollBudget = 9
    NoRead = NoRead
PROPERTIES
    NeverBlockedByStreams
CHECK_DEADLOCK FALSE
