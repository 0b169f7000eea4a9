SPECIFICATION Spec
CONSTANTS
    ClientId = {a, b, c}
    NoClient = NoClient
    Display = {fb}
    Input = {kbd}
    Boot = {fb}
    PolicyOf <- AllFairQueue
    Advertisements <- OneList
    REVOKE_TIMEOUT = 2
SYMMETRY ClientSymmetry
VIEW WithoutChannels
CHECK_DEADLOCK FALSE
INVARIANT SeatNeverWaitsUnasked
