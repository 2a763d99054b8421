CONSTANTS
    d1 = d1
    td = td
    NoKeyId = NoKeyId
    NoToken = NoToken
    NoChat = NoChat
    KeyId = {d1}
    Token = {td}
    TokenOf <- OneToken
    EnvTokens = {}
    Chat = {x1, x2}
    Admin = {a1, a2}
    QuotaBody <- SomeQuotas
    MaxAttempts = 2
    MaxTokens = 1
    MaxQuotas = 1
    MaxRows = 2
    MaxTime = 1
SPECIFICATION Spec
CHECK_DEADLOCK FALSE
INVARIANTS TypeOK KeysLiveUnlessStale OvershootBounded
SYMMETRY Symmetry
