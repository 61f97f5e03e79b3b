\* One agent, deleted and created again, its client ID edited, with a fault and an outage:
\* what is never true, and what must happen in the end.
CONSTANTS
    None = None
    Unset = Unset
    a1 = a1
    a2 = a2
    id1 = id1
    id2 = id2
    Agents = {a1}
    ClientIds = {id1, id2}
    Default <- OwnDefaults
    Choices <- EitherId
    MaxIncarnations <- FirstTwice
    MaxFaults = 2
    MaxOutages = 1

SPECIFICATION FairSpec
INVARIANTS
    OwnCredentialsLive
    Attended
PROPERTIES
    Converges
    DeletionCompletes
CHECK_DEADLOCK FALSE
