CONSTANTS
    r1 = r1
    r2 = r2
    r3 = r3
    Req = {r1, r2, r3}
    NoReq = NoReq
    NoBatch = NoBatch
    Works <- MCWorks
    Ip = {i1}
    LogCap = 2
    MaxRequests = 60
    MaxIps = 10000
SPECIFICATION FairSpec
CHECK_DEADLOCK FALSE
INVARIANTS TypeOK TaskTruth BatchWhole LogExact NoOvertakingTwice
PROPERTIES EveryoneAnswered
