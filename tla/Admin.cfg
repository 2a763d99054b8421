CONSTANTS
    p1 = p1
    p2 = p2
    m1 = m1
    m2 = m2
    m3 = m3
    q1 = q1
    q2 = q2
    q3 = q3
    k1 = k1
    k2 = k2
    Provider = {p1, p2}
    NoProvider = NoProvider
    Model = {m1, m2, m3}
    NoModel = NoModel
    Star = Star
    Key = {k1, k2}
    NoKey = NoKey
    MonthLength = 1
    Owners <- MCOwners
    Catalogue <- MCCatalogue
    Request = {q1, q2, q3}
    Caching = {q1, q2}
    KeyOf <- MCKeyOf
    Ttl <- MCTtl
    Sent <- MCSent
    Called <- MCCalled
    TokenCounts = {1}
    PriceBody <- MCPriceBody
    BudgetBody <- MCBudgetBody
    HookBody <- MCHookBody
    ComboBody <- MCComboBody
    LiveLists <- MCLiveLists
    Operator = {o1, o2}
    Desks <- MCDesks
    MaxAdmin = 2
    MaxChats = 2
    MaxRows = 2
    MaxTime = 1
SPECIFICATION Spec
CHECK_DEADLOCK FALSE
INVARIANTS TypeOK ReportExact LedgersAgree CacheHonest EventsMatchLog AutoOnce SyncedAsFetched
