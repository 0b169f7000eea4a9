SPECIFICATION Spec
CONSTANTS
    ClientId = {a, b, c}
    NoClient = NoClient
    Display = {fb}
    Input = {kbd}
    Boot = {fb}
    PolicyOf <- AllFirstOwner
    Advertisements <- OneList
    REVOKE_TIMEOUT = 2
SYMMETRY ClientSymmetry
VIEW WithoutChannels
INVARIANTS
    NoIdleWaiters
    FirstOwnerQueuesClaims
PROPERTIES
    NoPreemptionWithoutGrace
