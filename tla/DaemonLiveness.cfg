SPECIFICATION Spec
CONSTANTS
    ClientId = {a, b}
    LeaseId = {a, b}
    Locked = Locked
    NoClient = NoClient
    Display = {fb}
    Input = {kbd}
    Card = {}
    Boot = {fb, kbd}
    Advertisements = {}
    PolicyOf <- AllFairQueue
    REVOKE_TIMEOUT = 1
    MAILBOX = 1
    MaxRequests = 2
    None = None
PROPERTIES
    RevokeServesHead
    EndedHoldsNothing
    AcquireIsAnswered
