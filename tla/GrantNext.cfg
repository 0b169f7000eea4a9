SPECIFICATION Spec
CONSTANTS
    ClientId = {a, b, c}
    NoClient = NoClient
INVARIANTS
    ClosedFormAgrees
    NoLiveWaiterDropped
PROPERTIES
    LoopEnds
CHECK_DEADLOCK FALSE
