\* Two goroutines, three discoveries, a server that is replaced once and answers as it likes.
CONSTANTS
    Callers = {a, b}
    MaxCalls = 3
    MaxVersion = 2

SPECIFICATION FairSpec
INVARIANTS
    TypeOK
    IdsUnique
    Genuine
PROPERTIES
    Returns
CHECK_DEADLOCK FALSE
