\* An edit of the image, no fault: Running is reported before the rollout has begun.
CONSTANTS
    None = None
    Unset = Unset
    Specs <- ImageSpecs
    SecretNames = {}
    BrokenImages = {}
    GatewayConfigured = FALSE
    MaxGeneration = 2
    MaxIncarnations = 1
    MaxFaults = 0

SPECIFICATION Spec
PROPERTY RunningMeansRolledOut
CHECK_DEADLOCK FALSE
