\* Two clients with any requests, two namespaces, two collections, two resources over time, one fault.
CONSTANTS
    Clients = {c1, c2}
    Collections = {"servers", "agents"}
    Namespaces = {"default", "other"}
    Names = {n}
    None = None
    MaxUid = 2
    MaxFaults = 1

SPECIFICATION FairSpec
INVARIANTS
    TypeOK
PROPERTIES
    ImplementsRegistry
    Ends
CHECK_DEADLOCK FALSE
