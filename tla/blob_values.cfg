CONSTANTS
    MaxSize = 3
    MaxParts = 2
    MaxSegments = 2
    MaxMaterialize = 2
    MaxSync = 2
    MaxDataUrl = 41
    Chunk = 2
    Absent = Absent
    Mantissa = 2
    Width = 4
    FractionBits = 3
    Buffers = {b1}
    Bytes <- TwoContents
    Views <- LastByte
    Texts <- SomeTexts
    Types <- SomeTypes
    Targets <- TwoTargets
    Numbers <- SomeNumbers
    Stamps <- SomeStamps
    Now = 5
    MaxObjects = 2
SPECIFICATION Spec
INVARIANTS ReadersAgree RefusesRightly
PROPERTIES RefinesContents
CHECK_DEADLOCK FALSE
