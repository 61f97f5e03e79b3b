\* A few lists of rules; created, edited and deleted in any order, with one fault.
CONSTANTS
    None = None
    NoServer = NoServer
    RuleLists <- Lists
    Requests <- AllRequests
    MaxChanges = 3
    MaxFaults = 1

SPECIFICATION FairSpec
INVARIANTS
    TypeOK
    MeaningKept
    Attended
PROPERTIES
    AcknowledgesCurrent
    Converges
    DeletionCompletes
CHECK_DEADLOCK FALSE
