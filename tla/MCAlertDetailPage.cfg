SPECIFICATION DetailSpec
CONSTANTS
    Alert = {"a1", "a2"}
    None = None
    MaxNavigations = 2
    MaxFaults = 1
CHECK_DEADLOCK FALSE
INVARIANTS
    RouteShownUnlessOutrun
    ResolvedUnlessStale
