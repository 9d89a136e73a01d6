SPECIFICATION FairSpec
CONSTANTS
    Alert = {1, 2}
    FeedLimit = 1
    MaxCommits = 2
    MaxVisits = 2
    MaxFaults = 2
CHECK_DEADLOCK FALSE
INVARIANTS
    AgreesWhereTold
    NoStreamLeaked
PROPERTIES
    Reconnects
