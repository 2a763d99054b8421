CONSTANTS
    pa = pa
    pb = pb
    pz = pz
    free = free
    ka1 = ka1
    ka2 = ka2
    kb = kb
    kz = kz
    plain = plain
    stream = stream
    NoChat = NoChat
    NoProvider = NoProvider
    NoKey = NoKey
    NoRequest = NoRequest
    NoSession = NoSession
    Chat = {x1, x2}
    Provider = {pa, pb, pz, free}
    Key = {ka1, ka2, kb, kz}
    KeysIn <- Pools
    NoAuth = {free}
    NoEndpoint = {pz}
    Request = {plain, stream}
    ChainOf <- Chains
    Streamed = {stream}
    Cacheable = {plain}
    Session = {s1}
    MaxAttempts = 2
    MaxTime = 1
    Cooldown = 1
    MaxAuthFailures = 2
SPECIFICATION FairSpec
CHECK_DEADLOCK FALSE
INVARIANTS TypeOK LockAccounted ActiveExact NoReturnWhileCooling
PROPERTIES KeepsPromise Answered
