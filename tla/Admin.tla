------------------------------- MODULE Admin --------------------------------
(***************************************************************************)
(* The tables behind the chats and the admin requests that read and edit   *)
(* them (omniroute-core/src/admin.rs): request_logs with the prices and    *)
(* budgets of the cost report, the response cache, webhooks with their     *)
(* deliveries and the audit log, combos made automatically, and the models *)
(* synchronised from a provider.  Chats are what the combo engine does to  *)
(* these tables (combo.rs, execute): the engine's lock lets one at a time  *)
(* in, and it enters the database's lock anew for each table.              *)
(*                                                                         *)
(* Connections, API keys and quotas, and the reload that follows a change  *)
(* of combos, are in Routing and Gate.                                     *)
(***************************************************************************)
EXTENDS AutoCombo

CONSTANTS
    Request,      \* chats, as far as the cache tells them apart
    Caching,      \* those with cache: true
    KeyOf, Ttl,   \* Cache::key and cache_ttl of each
    Sent,         \* who sends what: pairs of a chat and an API key
    Called,       \* the (provider, model) pairs that chats are routed to
    TokenCounts,  \* the tokens an answer may use
    PriceBody, BudgetBody, HookBody, ComboBody, \* bodies of admin requests
    LiveLists,    \* the lists a provider's models_url may answer, see NoModels
    Operator,     \* admin requests that can be in progress together
    Desks,        \* bound: what one behaviour uses: parts of the admin API, chats, the clock
    MaxAdmin,     \* bound: admin requests
    MaxChats,     \* bound: chats
    MaxRows,      \* bound: rows of request_logs
    MaxTime       \* bound: the last instant of the clock

Area == {"costs", "hooks", "combos", "cache", "models", "chats", "clock"}

\* A list of models: the version of each one's name, 0 if it is not listed.
ModelList == [Model -> Nat]

NoModels == [m \in Model |-> 0]

ASSUME AdminAssumption ==
    /\ CostsAssumption /\ AutoComboAssumption
    /\ Caching \subseteq Request
    /\ Ttl \in [Request -> Nat] /\ Sent \subseteq Request \X (Key \cup {NoKey})
    /\ Called \subseteq Provider \X Model /\ TokenCounts \subseteq Nat
    /\ \A b \in ComboBody : b.models \in Seq(Model)
    /\ \A b \in PriceBody : b.price \in Nat
    /\ LiveLists \subseteq ModelList
    /\ \A d \in Desks : d \subseteq Area
    /\ MaxAdmin \in Nat /\ MaxChats \in Nat /\ MaxRows \in Nat /\ MaxTime \in Nat

VARIABLES
    now,        \* the clock, in seconds
    shared,     \* AppState::db is there; if not, every request opens the file
    desk,       \* the parts of the admin API in use
    left,       \* admin requests that may still come
    ids,        \* how many row ids have been made
    log,        \* request_logs
    prices, budgets,
    hooks,      \* the webhooks table
    inserted,   \* webhooks inserted and not yet audited
    audit,      \* audit_logs
    fired,      \* the rows of log whose event has been dispatched
    deliveries, \* posts in flight: <<row of log, webhook>>
    combos, conns, \* the combos table; the providers with a connection
    checked,    \* the model each request has found no auto combo for
    cache,      \* cache_entries
    live,       \* what the provider's models_url answers
    synced,     \* synced_models of that provider
    syncing,    \* how far each synchronisation has got
    chat,       \* the chat that has the engine's lock
    begun,      \* how many chats there have been
    \* History, read by the properties only:
    fetches,    \* how many lists have been fetched
    newest,     \* the newest list stored, and its number
    overtaken,  \* a list was stored after a newer one
    cut         \* rows whose chat a stop of the process has cut off before the event

costVars == <<prices, budgets>>
hookVars == <<hooks, inserted, audit>>
comboVars == <<combos, conns, checked>>
modelVars == <<live, synced, syncing, fetches, newest, overtaken>>
chatVars == <<log, fired, deliveries, cache, chat, begun>>
vars == <<now, shared, desk, left, ids, cut, costVars, hookVars, comboVars, modelVars, chatVars>>

-----------------------------------------------------------------------------
\* An admin request of an area comes; it makes n row ids.
Asked(area, n) ==
    /\ area \in desk /\ left > 0
    /\ left' = left - 1
    /\ ids' = ids + n
    /\ UNCHANGED <<now, shared, desk, cut>>

\* A step of a request that has come before.
Goes == UNCHANGED <<now, shared, desk, left, ids, cut>>

With(f, x, value) == [y \in DOMAIN f \cup {x} |-> IF y = x THEN value ELSE f[y]]

Without(f, x) == [y \in DOMAIN f \ {x} |-> f[y]]

-----------------------------------------------------------------------------
(***************************************************************************)
(* Prices and budgets.                                                     *)
(***************************************************************************)
\* upsert_pricing: a row there is keeps its id, whatever id is answered; an
\* id the client gives may be another row's, which the table refuses, unless
\* it comes to the row's update first.
UpsertPricing(b, given) ==
    LET old == Exact(prices, b.provider, b.model)
        id == IF given = 0 THEN ids + 1 ELSE given
        collides == \E r \in prices \ old : r.id = id
    IN  /\ Asked("costs", IF given = 0 THEN 1 ELSE 0)
        /\ \/ /\ ~ collides \/ old # {}
              /\ prices' = (prices \ old) \cup
                    {[id |-> i, provider |-> b.provider, model |-> b.model, price |-> b.price] :
                       i \in IF old = {} THEN {id} ELSE {r.id : r \in old}}
           \/ collides /\ UNCHANGED prices
        /\ UNCHANGED <<budgets, hookVars, comboVars, modelVars, chatVars>>

DeletePricing(id) ==
    /\ Asked("costs", 0)
    /\ prices' = {r \in prices : r.id # id}
    /\ UNCHANGED <<budgets, hookVars, comboVars, modelVars, chatVars>>

\* upsert_budget: the id is always a new one, and the row's is kept.
UpsertBudget(b) ==
    LET old == {r \in budgets : r.provider = b.provider /\ r.month = b.month}
    IN  /\ Asked("costs", 1)
        /\ budgets' = (budgets \ old) \cup
              {[id |-> i, provider |-> b.provider, month |-> b.month, limit |-> b.limit] :
                 i \in IF old = {} THEN {ids + 1} ELSE {r.id : r \in old}}
        /\ UNCHANGED <<prices, hookVars, comboVars, modelVars, chatVars>>

DeleteBudget(id) ==
    /\ Asked("costs", 0)
    /\ budgets' = {r \in budgets : r.id # id}
    /\ UNCHANGED <<prices, hookVars, comboVars, modelVars, chatVars>>

-----------------------------------------------------------------------------
(***************************************************************************)
(* Webhooks and the audit log.                                             *)
(***************************************************************************)
CreateWebhook(b) ==
    /\ Asked("hooks", 1)
    /\ hooks' = With(hooks, ids + 1, b)
    /\ inserted' = inserted \cup {ids + 1}
    /\ UNCHANGED <<audit, costVars, comboVars, modelVars, chatVars>>

\* The end of create_webhook, in a critical section of its own.
AuditWebhook(id) ==
    /\ id \in inserted /\ Goes
    /\ inserted' = inserted \ {id}
    /\ audit' = IF shared THEN Append(audit, <<"webhook", id>>) ELSE audit
    /\ UNCHANGED <<hooks, costVars, comboVars, modelVars, chatVars>>

UpdateWebhook(id, b) ==
    /\ Asked("hooks", 0)
    /\ hooks' = IF id \in DOMAIN hooks THEN [hooks EXCEPT ![id] = b] ELSE hooks
    /\ UNCHANGED <<inserted, audit, costVars, comboVars, modelVars, chatVars>>

DeleteWebhook(id) ==
    /\ Asked("hooks", 0)
    /\ hooks' = Without(hooks, id)
    /\ UNCHANGED <<inserted, audit, costVars, comboVars, modelVars, chatVars>>

\* The task of a delivery is over: posted, refused, or timed out after 5 s.
Deliver(d) ==
    /\ d \in deliveries /\ Goes
    /\ deliveries' = deliveries \ {d}
    /\ UNCHANGED <<log, fired, cache, chat, begun, costVars, hookVars, comboVars, modelVars>>

-----------------------------------------------------------------------------
(***************************************************************************)
(* Combos.  The name of an automatic combo is a pair.                      *)
(***************************************************************************)
CreateCombo(b) ==
    /\ Asked("combos", 1)
    /\ combos' = combos \cup {[id |-> ids + 1, name |-> b.name, kind |-> "model",
                               models |-> b.models]}
    /\ UNCHANGED <<conns, checked, costVars, hookVars, modelVars, chatVars>>

DeleteCombo(id) ==
    /\ Asked("combos", 0)
    /\ combos' = {c \in combos : c.id # id}
    /\ UNCHANGED <<conns, checked, costVars, hookVars, modelVars, chatVars>>

\* A provider's first connection comes, or its last one goes.
Connection(p) ==
    /\ Asked("combos", 0)
    /\ conns' = IF p \in conns THEN conns \ {p} ELSE conns \cup {p}
    /\ UNCHANGED <<combos, checked, costVars, hookVars, modelVars, chatVars>>

\* Mutant: only the names an operator has given are taken.
TakenByHand(m) == \E c \in combos : c.kind = "model" /\ c.name = <<"auto", m>>

\* auto_combo_create: some combo has the name.
Taken(m) == \E c \in combos : c.name = <<"auto", m>>

\* create_combo_row
AutoRow(m, id) ==
    [id |-> id, name |-> <<"auto", m>>, kind |-> "auto", models |-> SuggestChain(m, log, conns)]

\* auto_combo_create under the lock of the shared connection
AutoCreate(m) ==
    /\ shared /\ Asked("combos", 1)
    /\ combos' = IF Taken(m) THEN combos ELSE combos \cup {AutoRow(m, ids + 1)}
    /\ UNCHANGED <<conns, checked, costVars, hookVars, modelVars, chatVars>>

\* The same on a connection of its own, which excludes nobody.
AutoCheck(o, m) ==
    /\ ~ shared /\ checked[o] = NoModel /\ Asked("combos", 0)
    /\ checked' = IF Taken(m) THEN checked ELSE [checked EXCEPT ![o] = m]
    /\ UNCHANGED <<combos, conns, costVars, hookVars, modelVars, chatVars>>

AutoInsert(o) ==
    /\ checked[o] # NoModel
    /\ combos' = combos \cup {AutoRow(checked[o], ids + 1)}
    /\ ids' = ids + 1
    /\ checked' = [checked EXCEPT ![o] = NoModel]
    /\ UNCHANGED <<now, shared, desk, left, cut, conns, costVars, hookVars, modelVars, chatVars>>

-----------------------------------------------------------------------------
(***************************************************************************)
(* The response cache.                                                     *)
(***************************************************************************)
\* Mutant: entries are served whatever their age.
UnexpiredAlways(e) == TRUE

\* Times are compared in whole seconds: an entry is good at expires_at.
Unexpired(e) == e.expires >= now

\* list_cache deletes what has expired, then reads.
ListCache ==
    /\ Asked("cache", 0)
    /\ cache' = [k \in {j \in DOMAIN cache : cache[j].expires >= now} |-> cache[k]]
    /\ UNCHANGED <<log, fired, deliveries, chat, begun, costVars, hookVars, comboVars, modelVars>>

ClearCache ==
    /\ Asked("cache", 0)
    /\ cache' = <<>>
    /\ UNCHANGED <<log, fired, deliveries, chat, begun, costVars, hookVars, comboVars, modelVars>>

DeleteCacheEntry(k) ==
    /\ Asked("cache", 0)
    /\ cache' = Without(cache, k)
    /\ UNCHANGED <<log, fired, deliveries, chat, begun, costVars, hookVars, comboVars, modelVars>>

-----------------------------------------------------------------------------
(***************************************************************************)
(* Synchronised models of one provider.                                    *)
(***************************************************************************)
NoSync == [at |-> "idle", models |-> NoModels, n |-> 0]

\* The provider changes its list.
LiveChange(l) ==
    /\ "models" \in desk /\ l # live /\ live' = l /\ Goes
    /\ UNCHANGED <<synced, syncing, fetches, newest, overtaken,
                   costVars, hookVars, comboVars, chatVars>>

\* sync_provider_models up to the answer; an empty list is a 502.
SyncFetch(o) ==
    /\ syncing[o].at = "idle" /\ Asked("models", 0)
    /\ IF live = NoModels
       THEN UNCHANGED <<syncing, fetches>>
       ELSE /\ syncing' = [syncing EXCEPT ![o] = [at |-> "fetched", models |-> live,
                                                  n |-> fetches + 1]]
            /\ fetches' = fetches + 1
    /\ UNCHANGED <<live, synced, newest, overtaken, costVars, hookVars, comboVars, chatVars>>

\* Mutant: a model that is there keeps the name it has.
MergedInto(old, new) == [m \in Model |-> IF old[m] # 0 THEN old[m] ELSE new[m]]

\* upsert_many: names are updated, and nothing is removed.
Merged(old, new) == [m \in Model |-> IF new[m] # 0 THEN new[m] ELSE old[m]]

SyncStore(o) ==
    /\ syncing[o].at = "fetched" /\ Goes
    /\ syncing' = [syncing EXCEPT ![o].at = "stored"]
    /\ IF shared
       THEN /\ synced' = Merged(synced, syncing[o].models)
            /\ newest' = IF syncing[o].n > newest.n
                         THEN [models |-> syncing[o].models, n |-> syncing[o].n] ELSE newest
            /\ overtaken' = (overtaken \/ syncing[o].n < newest.n)
       ELSE UNCHANGED <<synced, newest, overtaken>>
    /\ UNCHANGED <<live, fetches, costVars, hookVars, comboVars, chatVars>>

SyncAudit(o) ==
    /\ syncing[o].at = "stored" /\ Goes
    /\ syncing' = [syncing EXCEPT ![o] = NoSync]
    /\ audit' = IF shared THEN Append(audit, <<"models", syncing[o].n>>) ELSE audit
    /\ UNCHANGED <<hooks, inserted, live, synced, fetches, newest, overtaken,
                   costVars, comboVars, chatVars>>

-----------------------------------------------------------------------------
(***************************************************************************)
(* A chat, as far as it touches these tables.                              *)
(***************************************************************************)
NoChat == [at |-> "idle"]

AdminVars == <<costVars, hookVars, comboVars, modelVars>>

\* The chat enters the engine.
Begin(r, k) ==
    /\ shared /\ "chats" \in desk /\ chat = NoChat /\ begun < MaxChats /\ Goes
    /\ begun' = begun + 1
    /\ chat' = [at |-> IF r \in Caching THEN "lookup" ELSE "calling", req |-> r, key |-> k,
                row |-> 0, from |-> r, age |-> 0]
    /\ UNCHANGED <<log, fired, deliveries, cache, AdminVars>>

\* Cache::get: a hit is answered without a call, a row or an event.
Hit ==
    /\ chat.at = "lookup" /\ Goes
    /\ LET k == KeyOf[chat.req]
       IN  /\ k \in DOMAIN cache /\ Unexpired(cache[k])
           /\ cache' = [cache EXCEPT ![k].hits = @ + 1]
           /\ chat' = [chat EXCEPT !.at = "hit", !.row = cache[k].row,
                                   !.from = cache[k].req, !.age = now - cache[k].created]
    /\ UNCHANGED <<log, fired, deliveries, begun, AdminVars>>

Miss ==
    /\ chat.at = "lookup" /\ Goes
    /\ LET k == KeyOf[chat.req]
       IN  /\ k \in DOMAIN cache => ~ Unexpired(cache[k])
           /\ cache' = Without(cache, k)
    /\ chat' = [chat EXCEPT !.at = "calling"]
    /\ UNCHANGED <<log, fired, deliveries, begun, AdminVars>>

\* record_chat: the upstream has answered.
Answered(c, tokens) ==
    /\ chat.at = "calling" /\ Len(log) < MaxRows /\ Goes
    /\ log' = Append(log, [ts |-> now, provider |-> c[1], model |-> c[2], ok |-> TRUE,
                           tokens |-> tokens, key |-> chat.key])
    /\ chat' = [chat EXCEPT !.at = "logged", !.row = Len(log) + 1]
    /\ UNCHANGED <<fired, deliveries, cache, begun, AdminVars>>

Failed(c) ==
    /\ chat.at = "calling" /\ Len(log) < MaxRows /\ Goes
    /\ log' = Append(log, [ts |-> now, provider |-> c[1], model |-> c[2], ok |-> FALSE,
                           tokens |-> 0, key |-> chat.key])
    /\ chat' = [chat EXCEPT !.at = "erred", !.row = Len(log) + 1]
    /\ UNCHANGED <<fired, deliveries, cache, begun, AdminVars>>

\* Cache::set
Store ==
    /\ chat.at = "logged" /\ chat.req \in Caching /\ Goes
    /\ cache' = With(cache, KeyOf[chat.req],
                     [row |-> chat.row, created |-> now, expires |-> now + Ttl[chat.req],
                      hits |-> 0, req |-> chat.req])
    /\ chat' = [chat EXCEPT !.at = "stored"]
    /\ UNCHANGED <<log, fired, deliveries, begun, AdminVars>>

\* for_event
Subscribed(event) == {id \in DOMAIN hooks : hooks[id].active /\ event \in hooks[id].events}

\* Mutant: the error path dispatches nothing.
DispatchesSuccess(row) == IF log[row].ok THEN {row} ELSE {}

\* Events::dispatch, after the cache if there is something to cache.
Dispatches(row) == {row}

Dispatch ==
    /\ \/ chat.at \in {"stored", "erred"}
       \/ chat.at = "logged" /\ chat.req \notin Caching
    /\ Goes
    /\ fired' = fired \cup Dispatches(chat.row)
    /\ deliveries' = deliveries \cup
          {<<row, id>> : row \in Dispatches(chat.row),
                         id \in Subscribed(IF log[chat.row].ok THEN "success" ELSE "error")}
    /\ \/ chat' = NoChat
       \/ chat.at = "erred" /\ chat' = [chat EXCEPT !.at = "calling", !.row = 0]
    /\ UNCHANGED <<log, cache, begun, AdminVars>>

\* The cached answer is sent; or no candidate is left, or the client leaves.
Leave ==
    /\ chat.at \in {"hit", "calling"} /\ Goes
    /\ chat' = NoChat
    /\ UNCHANGED <<log, fired, deliveries, cache, begun, AdminVars>>

\* Telemetry::record: any other HTTP request has a row of no provider.
OtherRow ==
    /\ shared /\ "chats" \in desk /\ Len(log) < MaxRows /\ Goes
    /\ log' = Append(log, [ts |-> now, provider |-> NoProvider, model |-> NoModel, ok |-> TRUE,
                           tokens |-> 0, key |-> NoKey])
    /\ UNCHANGED <<fired, deliveries, cache, chat, begun, AdminVars>>

Tick ==
    /\ now < MaxTime /\ "clock" \in desk
    /\ now' = now + 1
    /\ UNCHANGED <<shared, desk, left, ids, cut, AdminVars, chatVars>>

\* The rows of the chat under way that have not raised their event yet.
Unfired == IF chat.at \in {"logged", "erred", "stored"} THEN {chat.row} ELSE {}

\* The process stops at any point and is started again on the same file: the
\* tables are there, and what was under way in memory is not.
Restart ==
    /\ cut' = cut \cup Unfired
    /\ chat' = NoChat /\ deliveries' = {} /\ inserted' = {}
    /\ checked' = [o \in Operator |-> NoModel] /\ syncing' = [o \in Operator |-> NoSync]
    /\ UNCHANGED <<now, shared, desk, left, ids, log, fired, cache, begun, costVars, hooks, audit,
                   combos, conns, live, synced, fetches, newest, overtaken>>

-----------------------------------------------------------------------------
Init ==
    /\ now = 0 /\ shared \in BOOLEAN /\ desk \in Desks /\ left = MaxAdmin /\ ids = 0
    /\ log = <<>> /\ prices = {} /\ budgets = {}
    /\ hooks = <<>> /\ inserted = {} /\ audit = <<>> /\ fired = {} /\ deliveries = {}
    /\ combos = {} /\ conns = {} /\ checked = [o \in Operator |-> NoModel]
    /\ cache = <<>>
    /\ live = NoModels /\ synced = NoModels /\ syncing = [o \in Operator |-> NoSync]
    /\ chat = NoChat /\ begun = 0
    /\ fetches = 0 /\ newest = [models |-> NoModels, n |-> 0] /\ overtaken = FALSE
    /\ cut = {}

CostsNext ==
    \/ \E b \in PriceBody, given \in {0} \cup {r.id : r \in prices} : UpsertPricing(b, given)
    \/ \E b \in BudgetBody : UpsertBudget(b)
    \/ \E id \in 1 .. ids : DeletePricing(id) \/ DeleteBudget(id)

HooksNext ==
    \/ \E b \in HookBody : CreateWebhook(b) \/ \E id \in 1 .. ids : UpdateWebhook(id, b)
    \/ \E id \in 1 .. ids : AuditWebhook(id) \/ DeleteWebhook(id)

CombosNext ==
    \/ \E b \in ComboBody : CreateCombo(b)
    \/ \E id \in 1 .. ids : DeleteCombo(id)
    \/ \E p \in Provider : Connection(p)
    \/ \E m \in Model : AutoCreate(m) \/ \E o \in Operator : AutoCheck(o, m)
    \/ \E o \in Operator : AutoInsert(o)

CacheNext == ListCache \/ ClearCache \/ \E k \in DOMAIN cache : DeleteCacheEntry(k)

ModelsNext ==
    \/ \E l \in LiveLists : LiveChange(l)
    \/ \E o \in Operator : SyncFetch(o) \/ SyncStore(o) \/ SyncAudit(o)

ChatNext ==
    \/ \E rk \in Sent : Begin(rk[1], rk[2])
    \/ Hit \/ Miss \/ Store \/ Dispatch \/ Leave \/ OtherRow
    \/ \E c \in Called : Failed(c) \/ \E t \in TokenCounts : Answered(c, t)
    \/ \E d \in deliveries : Deliver(d)

Next ==
    \/ CostsNext \/ HooksNext \/ CombosNext \/ CacheNext \/ ModelsNext \/ ChatNext
    \/ Tick \/ Restart

Spec == Init /\ [][Next]_vars

-----------------------------------------------------------------------------
\* The values of the tables: among others, an automatic chain has three
\* models at most, and prices, budgets and combos have distinct keys.
TypeOK ==
    /\ now \in 0 .. MaxTime /\ left \in 0 .. MaxAdmin /\ ids \in Nat
    /\ log \in Seq(Row)
    /\ \A r, s \in prices : (r.provider = s.provider /\ r.model = s.model) \/ r.id = s.id => r = s
    /\ \A r, s \in budgets : (r.provider = s.provider /\ r.month = s.month) \/ r.id = s.id => r = s
    /\ DOMAIN hooks \subseteq 1 .. ids /\ inserted \subseteq 1 .. ids
    /\ fired \subseteq DOMAIN log /\ cut \subseteq DOMAIN log
    /\ deliveries \subseteq fired \X (1 .. ids)
    /\ \A c, d \in combos : c.id = d.id => c = d
    /\ \A c \in combos : c.models \in Seq(Model) /\ (c.kind = "auto" => Len(c.models) \in 1 .. 3)
    /\ conns \subseteq Provider
    /\ \A k \in DOMAIN cache : cache[k].row \in DOMAIN log /\ cache[k].hits \in 0 .. MaxChats
    /\ live \in ModelList /\ synced \in ModelList
    /\ chat.at \in {"idle", "lookup", "hit", "calling", "logged", "erred", "stored"}

\* The cost report adds up: its total is what the rows of the month cost one by
\* one, to half of the unit it rounds to, and what it says a provider has spent
\* of its budget is off by half a unit for each of the provider's models.
ReportExact ==
    \A month \in MonthOf(0) .. MonthOf(now) :
        LET report == Report(log, prices, budgets, month)
            paid(rows) == SumOf([i \in rows |-> CostAt(Applicable(prices, log[i].provider,
                                                                 log[i].model),
                                                      log[i].tokens)])
            rowsOf(p) == {i \in OfMonth(log, month) : log[i].provider = p}
            close(x, y, units) == x - y \in - 5 * units .. 5 * units
        IN  /\ close(report.total, paid(OfMonth(log, month)), 1)
            /\ \A b \in DOMAIN report.spent :
                  close(report.spent[b], paid(rowsOf(b.provider)),
                        Cardinality({log[i].model : i \in rowsOf(b.provider)}))

\* Quotas and the cost report agree on who pays: what the usage of all keys costs
\* in any window is no more than the report has for the months the window touches.
LedgersAgree ==
    \A since \in 0 .. now :
        LET months == MonthOf(since) .. MonthOf(now)
        IN  SumOf([k \in Key |-> Usage(log, prices, k, since).cost])
            <= SumOf([m \in months |-> Report(log, prices, budgets, m).total])
               + 5 * Cardinality(months)

\* Whatever administrators delete meanwhile, a cached answer is one that some
\* request with the same key has got and paid for, no longer ago than the
\* cache_ttl of that request.
CacheHonest ==
    /\ \A k \in DOMAIN cache : log[cache[k].row].ok /\ KeyOf[cache[k].req] = k
    /\ chat.at = "hit" =>
          /\ log[chat.row].ok
          /\ KeyOf[chat.from] = KeyOf[chat.req] /\ chat.age <= Ttl[chat.from]

\* request_logs and the webhooks tell the same story: each attempt that is logged
\* has raised its event, but for the one of the chat that is still under way and
\* those of chats that a stop of the process cut off between the row and the event.
EventsMatchLog ==
    fired = {i \in DOMAIN log : log[i].provider # NoProvider} \ (cut \cup Unfired)

\* With the shared connection, two operators who ask for the automatic combo of
\* a model at once get one combo.
AutoOnce ==
    shared => \A c, d \in combos :
                 c.kind = "auto" /\ d.kind = "auto" /\ c.name = d.name => c = d

\* Synchronised models have the names of the newest list that was stored, unless
\* a list that was fetched before it has been stored after it.
SyncedAsFetched ==
    ~ overtaken => \A m \in Model : newest.models[m] # 0 => synced[m] = newest.models[m]
=============================================================================
