SPECIFICATION FairSpec
CONSTANTS
    Files = {f1}
    Workers = {w1}
    IdSpace = 3
    Chunks = 2
    Pieces = 2
    MaxWrites = 2
    NoSlot = NoSlot
INVARIANTS SuccessIsImported ClosedReadsFail
PROPERTIES HandlesReleased ReadsHappenAtOnce
CHECK_DEADLOCK FALSE
