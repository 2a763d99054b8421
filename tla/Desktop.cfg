CONSTANTS
    MaxServers = 2
    Call = {c1}
    Tries = 1
    Older <- MCOlder
SPECIFICATION FairSpec
CHECK_DEADLOCK FALSE
INVARIANTS TypeOK AttachedComplete OnlyChild
PROPERTIES ComesUp
