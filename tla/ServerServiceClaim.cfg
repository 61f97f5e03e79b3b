\* Delete and create again: the old Service is collected and never replaced.
CONSTANTS
    None = None
    Unset = Unset
    Specs <- OneSpec
    SecretNames = {}
    BrokenImages = {}
    GatewayConfigured = FALSE
    MaxGeneration = 1
    MaxIncarnations = 2
    MaxFaults = 0

SPECIFICATION FairSpec
PROPERTY ServiceRestored
CHECK_DEADLOCK FALSE
