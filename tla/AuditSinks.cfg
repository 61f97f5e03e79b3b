\* Two requests, two sinks, the first of which may never answer, and two restarts.
CONSTANTS
    Requests = {r1, r2}
    NumSinks = 2
    Stuck = {1}
    MaxRestarts = 2

SPECIFICATION FairSpec
INVARIANTS
    TypeOK
    SinksFollowLog
    Accounted
PROPERTIES
    NeverBlocked
CHECK_DEADLOCK FALSE
