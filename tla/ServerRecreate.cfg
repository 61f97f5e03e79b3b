\* Deleted and created again with another spec, before the old children are
\* collected; the other image never becomes healthy.
CONSTANTS
    None = None
    Unset = Unset
    Specs <- SecretSpecs
    SecretNames = {sec}
    BrokenImages <- BrokenV2
    GatewayConfigured = TRUE
    MaxGeneration = 1
    MaxIncarnations = 2
    MaxFaults = 0

SPECIFICATION Spec
INVARIANTS
    RunningServesSpec
    FinalizerBeforeChildren
    IInv
PROPERTIES
    NothingComesBack
CHECK_DEADLOCK FALSE
