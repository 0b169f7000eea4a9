CONSTANTS
    mouse = mouse
    mouse2 = mouse2
    keyboard = keyboard
    Device = {mouse, mouse2, keyboard}
    NoDevice = NoDevice
    Capabilities <- SomeCapabilities
    PATHS = 2
    INDEXES = 2
    SYSFS = TRUE
    MAX_RETRIES = 2
    MAILBOX = 1
    MaxChanges = 3
SPECIFICATION Spec
INVARIANTS
    TypeOK
    ConsistentAfterPass
    SuspendedMeansGone
    OfferedBeforePushed
    NoChangeMissed
PROPERTIES
    NamesAreKept
    Converges
