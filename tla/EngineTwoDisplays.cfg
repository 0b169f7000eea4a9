SPECIFICATION Spec
CONSTANTS
    ClientId = {a, b}
    NoClient = NoClient
    Display = {card0, fb}
    Input = {kbd}
    Boot = {card0, fb, kbd}
    PolicyOf <- AllLatestOwner
    Advertisements <- OneList
    REVOKE_TIMEOUT = 2
SYMMETRY ClientSymmetry
VIEW WithoutChannels
PROPERTIES
    HandoverIsTold
    RevokedOwnerYields
    LeavingSeatAsksInputs
    LendingImplemented
