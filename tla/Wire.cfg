SPECIFICATION Spec
CONSTANTS
    FRAMES = 3
    LENGTH = 1
    HEADER = 2
    TMP = 3
INVARIANTS
    RequestsInOrder
    ConformingIsKept
PROPERTIES
    WrittenIsDispatched
