CONSTANTS
    MaxServers = 2
    Call = {c1}
    Tries = 1
    Older <- MCOlder
SPECIFICATION Spec
CHECK_DEADLOCK FALSE
INVARIANT StopStops
