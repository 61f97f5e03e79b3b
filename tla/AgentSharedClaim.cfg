\* Two agents of one name in two namespaces, no fault.
CONSTANTS
    None = None
    Unset = Unset
    a1 = a1
    a2 = a2
    id1 = id1
    id2 = id2
    Agents = {a1, a2}
    ClientIds = {id1}
    Default <- SameDefault
    Choices <- NoChoice
    MaxIncarnations <- Once
    MaxFaults = 0
    MaxOutages = 0

SPECIFICATION Spec
INVARIANT OwnCredentialsLive
CHECK_DEADLOCK FALSE
