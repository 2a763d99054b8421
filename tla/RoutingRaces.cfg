CONSTANTS
    c1 = c1
    c2 = c2
    k1 = k1
    k2 = k2
    e1 = e1
    NoConn = NoConn
    NoKey = NoKey
    Conn = {c1}
    Key = {k1, e1}
    EnvKeys <- OneEnv
    KeysOf <- DistinctKeys
    Prio <- ByPriority
    Admin = {a1, a2}
    AdminOps = {"create", "add_free", "update", "delete", "other"}
    Cooldown = 4
    Second = 2
    MaxTime = 4
    MaxAuthFailures = 2
SPECIFICATION Spec
CHECK_DEADLOCK FALSE
INVARIANTS TypeOK RestUnlessExposed RestPersisted ReportFindsCaller
SYMMETRY AdminSymmetry
