\* Two agents with a client ID each; every Kubernetes fault, Keycloak always answers.
CONSTANTS
    None = None
    Unset = Unset
    a1 = a1
    a2 = a2
    id1 = id1
    id2 = id2
    Agents = {a1, a2}
    ClientIds = {id1, id2}
    Default <- OwnDefaults
    Choices <- NoChoice
    MaxIncarnations <- FirstTwice
    MaxFaults = 1
    MaxOutages = 0

SPECIFICATION Spec
INVARIANTS
    ClientsAccountedFor
    IInv
PROPERTIES
    ImplementsRegistration
    RegistrationLasts
CHECK_DEADLOCK FALSE
