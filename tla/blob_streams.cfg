SPECIFICATION FairSpec
CONSTANTS
    Limit = 1
    CompletionCap = 1
    MaxId = 2
    Blobs <- BytesAndText
    MaxCalls = 4
    NoBlob = NoBlob
INVARIANTS
    OneRequestServes
    OneAnswerEach
    SlotsMatchStreams
PROPERTIES
    OnlyUnreachableAbandoned
    StreamPromise
    ReadsAnswered
    LostStreamsReleased
    LostReadersUnlock
CHECK_DEADLOCK FALSE
