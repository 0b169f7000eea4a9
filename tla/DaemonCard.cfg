SPECIFICATION Spec
CONSTANTS
    ClientId = {a, b}
    LeaseId = {a, b}
    Locked = Locked
    NoClient = NoClient
    Display = {card0}
    Input = {}
    Card = {card0}
    Boot = {card0}
    Advertisements = {}
    PolicyOf <- AllFairQueue
    REVOKE_TIMEOUT = 1
    MAILBOX = 2
    MaxRequests = 2
    None = None
INVARIANTS
    TypeOK
    CommandsAreExpected
    NoCommandLost
    NoLostLease
PROPERTIES
    EngineImplemented
    OnlyServerEndsLease
