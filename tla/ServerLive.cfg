\* One edit, one deletion and one fault, at any moment: what must happen in the end.
CONSTANTS
    None = None
    Unset = Unset
    Specs <- PortSpecs
    SecretNames = {}
    BrokenImages = {}
    GatewayConfigured = FALSE
    MaxGeneration = 2
    MaxIncarnations = 1
    MaxFaults = 1

SPECIFICATION FairSpec
INVARIANTS
    Attended
PROPERTIES
    ImplementsLifecycle
    RestLasts
    Converges
    DeletionCompletes
    DeletionLeavesNothing
CHECK_DEADLOCK FALSE
