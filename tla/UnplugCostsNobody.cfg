SPECIFICATION AllSpec
CONSTANTS
    mouse = mouse
    mouse2 = mouse2
    keyboard = keyboard
    ClientId = {a}
    LeaseId = {a}
    Locked = Locked
    NoClient = NoClient
    Display = {}
    Input <- Names
    Card = {}
    Boot <- Mouse0
    Advertisements <- EveryList
    PolicyOf <- AllFairQueue
    REVOKE_TIMEOUT = 1
    MAILBOX = 2
    MaxRequests = 1
    None = None
    Device = {mouse}
    NoDevice = NoDevice
    Capabilities <- SomeCapabilities
    PATHS = 1
    INDEXES = 1
    SYSFS = TRUE
    MAX_RETRIES = 2
    MaxChanges = 3
PROPERTY
    UnplugCostsNobody
