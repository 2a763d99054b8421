CONSTANTS
    c1 = c1
    c2 = c2
    k1 = k1
    k2 = k2
    e1 = e1
    NoConn = NoConn
    NoKey = NoKey
    Conn = {c1}
    Key = {k1}
    EnvKeys <- NoEnv
    KeysOf <- DistinctKeys
    Prio <- ByPriority
    Admin = {a1}
    AdminOps = {"other"}
    Cooldown = 2
    Second = 1
    MaxTime = 3
    MaxAuthFailures = 2
SPECIFICATION Spec
CHECK_DEADLOCK FALSE
INVARIANT RestAfterRateLimit

