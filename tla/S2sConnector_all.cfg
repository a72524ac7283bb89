CONSTANTS
    MaxRequests = 2
    MaxCuts = 1
    MaxOwing = 1
    MaxConns = 2
    MaxAsks = 1
    AskOn = {1}
SPECIFICATION FairSpec
CHECK_DEADLOCK FALSE
INVARIANTS
    OwnConnection
    CompletedOnce
    NeverDeaf
PROPERTIES
    Progress
