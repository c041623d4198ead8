SPECIFICATION Spec
CONSTANTS
    Byte = {b1, b2}
    Capacity = 3
    MaxPush = 2
    MaxTotal = 5
INVARIANTS
    PeekMakesProgress
PROPERTIES
    ImplementsByteStream
