CONSTANTS
    Base = 4
    MaxBytes = 61
    MaxString = 1
    MaxFiles = 2
    MaxMaterialize = 3
    MaxSize = 2
    Objects <- SomeObjects
    Payloads <- SomePayloads
    MaxAltered = 2
    None = None
SPECIFICATION Spec
INVARIANTS CodecStrict RoundTrip
CHECK_DEADLOCK FALSE
