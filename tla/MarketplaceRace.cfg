\* Two callers, three deployments, the catalog changed twice, one deletion and one fault.
CONSTANTS
    None = None
    NoServer = NoServer
    Name = "github"
    Callers = {a, b}
    Entries <- Versions
    SecretKeys = {"token", "hook"}
    MaxCalls = 3
    MaxChanges = 2
    MaxDeletions = 1
    MaxFaults = 1

SPECIFICATION Spec
INVARIANTS
    SecretsResolvable
    Guarded
    IInv
PROPERTIES
    SuccessIsWhole
CHECK_DEADLOCK FALSE
