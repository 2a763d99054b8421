CONSTANTS
    Accounts = 3
    Cooldown = 2
    MaxAuthFailures = 2
    MaxErrors = 2
    MaxTime = 4
SPECIFICATION Spec
CHECK_DEADLOCK FALSE
INVARIANTS TypeOK NoneMissed RoundRobin DisabledByAuthFailure
