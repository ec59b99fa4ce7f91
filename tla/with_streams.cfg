SPECIFICATION Spec
CONSTANTS
    Limit = 2
    CompletionCap = 2
    MaxId = 4
    Reads = {r1, r2}
    Oversized = {}
    Workers = {w1, w2}
    QueueCap = 1
    ChunkKinds = {"reader", "stream"}
    PollBudget = 1
    NoRead = NoRead
SYMMETRY Symmetry
INVARIANTS
    QuotaExact
    NoStaleEntries
    OneRequestEach
    ShutdownQuiet
CHECK_DEADLOCK FALSE
