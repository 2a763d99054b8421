# omniroute-rs: models, checks and proofs

TLA+ models of the omniroute-rs gateway, the TLC runs that check them, and the
theorems the TLA+ proof system (TLAPS) proves about them. Paths below are
relative to the repository; `core/` stands for
`rust-core/omniroute-core/src/` and `db/` for `rust-core/omniroute-db/src/`.

## 1. The system

omniroute-rs is an OpenAI-compatible gateway: it takes chat requests, finds the
providers that can serve the model, picks an account of one of them, calls it
and falls back to the next candidate when that fails. State lives in one SQLite
database and in an engine in memory that is rebuilt from it.

| Component | State | Operations | What makes it correct |
|---|---|---|---|
| Account pool (`core/account.rs`) | accounts (key, enabled, cooldown, errors), `next_idx` | `next_key`, `prefer_key`, `report` | a usable account is found; every account gets its turn; a rate-limited one rests; only auth failures disable |
| Routing and persistence (`core/router.rs`, `db/repos/provider_connection_repo.rs`) | pools per provider, `providerConnections` rows | `from_env`, `load_from_db`, `route_prefer`, `update_health` | health survives reloads and restarts |
| Reload and start (`core/proxy.rs`) | the engine behind one `RwLock` | `reload_accounts`, `start_server` | no outcome is charged to the wrong pool; whoever waits for the lock is answered |
| Combo engine (`core/combo.rs`) | locals of a chat: candidates, attempts, target | `execute`, `execute_stream` | each candidate tried at most once, failure only when all are used up, lock released on every path |
| Scorer (`core/scorer.rs`) | per provider: active, total, failed, latency | `begin_request`, `end_request`, `record_*`, `score` | counters mean what they say |
| Session affinity (`db/repos/session_affinity_repo.rs`) | session -> account | `get`, `upsert` | follow-up chats prefer the account |
| Response cache (`core/cache.rs`) | key -> answer, expiry | `get`, `set`, list, clear, delete | an answer is reused only for the same request and while it is fresh |
| Compression (`core/compress.rs`) | none | `rtk_select` | stays in budget, keeps what is important |
| Upstream executor (`core/executor*`, `core/translator.rs`, `core/sanitize.rs`) | none | build the request, read the answer or error | every provider is told the same conversation; the client gets what was answered, with a true status |
| SSE parser (`core/executor/streaming.rs`) | byte buffer | `parse_sse_stream` | no event lost, split or reordered |
| Gateway keys (`core/auth.rs`) | key list | `from_db`, `auth_middleware`, `key_id_for_token` | the list follows the table |
| Quotas (`core/proxy.rs`, `db/repos/request_log_repo.rs`) | quotas, request logs | `quota_check`, `record_chat` | hard limits hold but for what is in flight |
| Batches, A2A, MCP (`core/batch.rs`, `core/a2a.rs`, `core/mcp.rs`) | job and task tables in memory | `submit`, `cancel`, `message/send`, `tools/call` | what can be read of a job is true; nobody is kept out of the engine |
| Rate limiter (`core/ratelimit.rs`) | timestamps per IP | `check` | no more than the limit per window |
| Log buffer (`core/logs.rs`) | pending map, ring of 200 | `stage`, `finalize`, `push` | bounded, one entry per request |
| Admin API (`core/admin.rs`) | rows of the database | CRUD, followed by a reload or an audit entry | no request undoes what another wrote |
| Costs and pricing (`core/costs.rs`) | prices, budgets | `report` | the report adds up and agrees with the quotas |
| Events and webhooks (`core/events.rs`) | subscriptions, deliveries | `dispatch` | every logged attempt raises its event |
| Auto-combo (`core/auto_combo.rs`), catalogue, synchronised models | combos, `synced_models` | suggest, create, sync | one combo per model; names are the provider's newest |
| Database plumbing (`db/lib.rs`, `db/migrations.rs`) | the schema | `run_migrations` | whoever opens the file finds the whole schema |
| Desktop shell (`src-tauri/src/lib.rs`) | handle of the sidecar | start, stop, status, auto-start | the commands reach the sidecar that runs |

The dashboard, the N-API binding, the parsing of the environment and the build
scripts are not modelled; section 5 says why.

### How the components interact

A chat (`handle_chat`) passes authentication and quota, and takes the engine's
write lock (`state.combo.write().await`), which tokio grants in order of
arrival. It holds the lock over the upstream call. Under it, the combo engine
asks the router for an account (`route_prefer`), calls upstream, tells the
scorer and the pool what came of it, and the pool's manager writes the health
to the account's row. Batches and A2A tasks use the same lock in the same way.

An admin write changes rows under the database mutex and then, in the same
request but after letting go of the mutex, calls `reload_accounts`: read the
rows into a new pool, and swap the engine if `try_write` gets the lock.

On its way to the provider the request is compressed and put into the format of
the provider; on the way back the answer is parsed and, for a stream, cut into
events. Each attempt leaves a row in `request_logs`, an entry in the cache and
an event for the webhooks, three visits to the database's lock. Around every
handler are the layers of the router: rate limiter, log buffer, telemetry.

The desktop application runs the whole gateway as a sidecar process, which
migrates the database file when it starts.

### What is hard about it

* The rows are read before the lock is tried, the swap comes after, and a chat
  or another reload may do something between the two.
* A chat's future is dropped at its await when the client leaves: the lock is
  released, the upstream call is gone, and nothing after the await runs.
* The in-memory and the persisted health of an account differ (whole seconds,
  no `enabled`, outcomes by key on one side and by connection on the other).
* The streamed path is a second copy of the plain path with some calls left out.
* One lock serves everybody: whatever keeps it stops the gateway.
* Three tables that belong together are written one after the other, while
  administrators list, clear and delete.
* Migrations run statement by statement without a transaction, possibly in two
  processes on one file.
* The network cuts a stream of events wherever it likes.

Every one of these is a line of `hazards` in PROJECT.json, with the properties
that watch it, or a note that tells what they leave open. What the code does in
those places is in section 5.

## 2. The modules

| Module | Models | Role |
|---|---|---|
| `AccountPool` | `core/account.rs`, `route_prefer` | operators on one pool, used by `Rotation`, `Routing` and `Fallback` |
| `Rotation` | one pool under a sequence of chats | fairness of the round robin, disabling |
| `Routing`, `MCRouting` | pool, rows, chats, admin requests, reload, restart | account health across everything that can disturb it |
| `FallbackPromise` | what a client of the combo engine is promised | abstract specification |
| `Fallback`, `MCFallback` | `core/combo.rs` with scorer, affinity, cache, lock queue | implements `FallbackPromise` |
| `Gate`, `MCGate` | `core/auth.rs`, `quota_check`, `core/telemetry.rs`, `db/repos/request_log_repo.rs` | what a chat passes before the engine, and what is recorded for its key |
| `Compress` | `core/compress.rs` | operators on a request's messages |
| `Wire` | `core/executor.rs`, `request_builder.rs`, `response_parser.rs`, `core/translator.rs`, `core/sanitize.rs`, the answer to an error in `core/proxy.rs` | operators on requests, answers and errors; extends `Compress` |
| `SseStream` | `core/executor/streaming.rs` | operators on a stream's bytes |
| `Exchange`, `MCExchange` | one call of a provider | composes `Wire` and `SseStream` |
| `Serving`, `MCServing` | `core/batch.rs`, `core/a2a.rs`, `core/mcp.rs`, `core/ratelimit.rs`, `core/logs.rs`, the lock and layers of `core/proxy.rs` | requests of several calls and what outlives them |
| `Costs` | `core/costs.rs`, `pricing_repo.rs`, usage of a key | operators on the log and the prices |
| `AutoCombo` | `core/auto_combo.rs` | operators on the log and the catalogue; extends `Costs` |
| `Admin`, `MCAdmin` | `core/admin.rs`, `core/cache.rs`, `core/events.rs`, `db/repos/*` | the tables behind the chats and who edits them; extends `AutoCombo` |
| `Desktop`, `MCDesktop` | `src-tauri/src/lib.rs`, `db/migrations.rs`, `start_server` | the shell, its sidecars and the file they migrate |
| `RoutingProofs`, `RotationProofs`, `FallbackProofs`, `GateProofs`, `ExchangeProofs`, `ServingProofs`, `AdminProofs`, `DesktopProofs` | | the theorems |

The MC modules are instances for TLC.

`AccountPool` keeps the vector of accounts as a sequence (index i is slot
i + 1), `next_idx` as in the code, and time as a natural number; cooldown
`None` is instant 0. `NextKey` and `PreferKey` give the slot the code would
return, as a set with at most one element; `Advance` is what either does to
`next_idx`; `Report` is `AccountPool::report`.

### Routing

`now` is the clock, `rows` the table, `pool` the pool of the one provider
modelled, `call` the account of the chat in flight. Because a chat holds the
engine's lock, there is at most one call and `call = NoCall` says that the lock
is free. `step`, `draft` and `snap` are the program counters and locals of the
admin requests: a PUT reads (`UpdateRead`) and writes (`UpdateWrite`) in two
critical sections; every admin write but `AddFreeProvider` is followed by
`ReloadRead` (load the rows) and `ReloadSwap` (swap if `try_write` succeeds).
`Deliver` is `AccountManager::report` with its write to the row; a stream or a
client that left ends with `EndUnreported`. `Restart` stops the process at any
point. `rest`, `missed` and `exposed` are history: they are read by properties
only.

Choices: the candidates of one chat appear as separate calls, so a reload may
come between them, which the code does not allow (the model does more than the
code). Rows with equal priority are ordered by `updated_at`; the model takes
any order. The 60 seconds that `AccountManager::report` writes to the row and
the pool's `cooldown_secs` are both 60 in the code and are one constant here.
A `backoff_level` given at creation is not modelled: nothing reads the column.
Errors of the database are not modelled.

### Rotation

One pool of `Accounts` accounts, one chat at a time: pick by rotation
(`Rotate`) or by session (`Prefer`), then `Finish` with an outcome, or not at
all. `passed[s]` counts the turns the rotation gave to others while s was
usable and no preference moved the rotation; `auths[s]` the auth failures in a
row. A session's preference sets `next_idx` past its account, the turns of the
accounts between are lost, and with sessions an account can be passed over for
ever: `RoundRobin` is about the rotation between two preferences.

### Fallback

`holder` and `queue` are the RwLock; `chat[c]` holds what the handler of chat c
has in its locals. `Arrive` is the part of `handle_chat` before the lock,
`CacheHit` and `Begin` what happens as it is taken, `RouteToAccount`,
`RouteWithoutKey`, `RouteUnsupported` and `RouteRefused` the outcomes of
`route_prefer` for the candidate the loop is at, `Succeed` and `FailCall` the
two arms after the upstream returned. Plain and streamed chats differ exactly
where `execute` and `execute_stream` do: a stream does not begin or end a
request at the scorer, reports no success, is not cached, and falls back on
every error. `Disconnect` drops the future of a handler: from the queue, or
from the upstream call. `Reload` needs the lock free and nobody waiting, as
`try_write` does; `Restart` ends all chats.

Choices: `score_order` sorts by a float that depends on measured latencies;
the model takes every order that a score per provider can give with a stable
sort. Which provider a candidate resolves to is fixed for a run. The accounts
are connections with distinct keys, and an instant is a second. Compression is
in `Exchange`; telemetry and events are in `Admin`.

A fact the model shows and no run checks: a failed stream calls
`record_failure` without `record_latency`, which is what counts a request, so
`failed` can exceed `total`, and while `total` is 0 the scorer applies no
penalty to the provider.

### Gate

A chat goes through `Arrive` (`auth_middleware` reads the list `keys`),
`Identify` (`key_id_for_token` reads the table `rows`), `CheckQuota`, and
`TakeLock`; the engine that it then runs is reduced to what is recorded:
`Answer`, `Fail`, `Skip`, at most `max_attempts` candidates, one row for each
upstream call of a plain chat and none for a stream (`execute_stream` does not
use its `api_key_id`). `Leave` is a client that goes, or a hit of the cache.
Each change of a key is one statement (`Save`), `ReloadRead` and `ReloadSwap`
are `reload_gateway_keys`, which every reload runs whether or not it gets the
engine's lock; a write of a row that is not there shows as `OtherWrite`.
`newer`, `raced` and `stale` are history: which reloads have read after which,
and whether the last list to be swapped in had been overtaken. `base` in a
quota is history, too.

Choices: the log keeps counts per instant instead of rows; the unit usd, floats
and errors of the database are left out; MCP, A2A and batches pass no key id
and record nothing for one.

Two overlapping reloads can leave the list stale for good: the first reads,
another request changes the table, reads and swaps, and then the first swaps
its older list in. A key that was deleted or disabled stays in the list, or a
new one is missing, until the next admin write. `KeysLiveUnlessStale` says that
this is the only way, for any number of requests.

### Exchange

One call of one provider. `Prepare` is what the engine and the executor do up to
the moment the request goes out: compression (plain chats only), URL, credential
and body. `Refuse`, `Unanswered`, `AnswerUnreadable`, `AnswerPanics` and `Answer`
are what may come back, `Unrouted` the errors before a call. A stream is
`Establish`, then the upstream writes (`Write`) and the network delivers any
part of what it has written (`Receive`), until the connection breaks (`Break`)
or closes (`Close`). `Close` drops what is left in the buffer, as the code of
`parse_sse_stream` does and its comment does not (section 5): `ChunkingInvisible`
is about the complete events and leaves open what becomes of that rest.
`asked`, `said` and `read` are history.

Choices: texts are named by the position of their message and have a size in
tokens, so that what is lost, moved or doubled shows. Bytes are letters: a
newline, a carriage return, a `data:` prefix, anything else, and four kinds of
payload; where a cut falls inside of one of these makes no difference to the
parser. An error's text is the set of the phrases that `parse_executor_error` looks
for, its own and the upstream's. The system prompt of a request to Gemini is
lost (`build_gemini`), and `SameConversation` is about the other messages. Tool
schemas and usage numbers are left out.

### Serving

A request is a kind and a sequence of items: a `chat` is a call of the engine
under its lock, a `read` looks at the engine under its lock, a `call` is an
outbound request without it, `ping` and `bad` need nothing. `Arrive` is the way
in through the layers up to the handler's first wait, `Acquire` takes the lock
in order of arrival, `Executed` and `Relayed` end an item and go on with the
handler (`Proceed`), whose end stores what is kept, and on the way out writes
the log row and the entry of the ring. `Leave` drops the future, `Restart`
loses all but `request_logs`. A batch enters the table with the answer to its
last item (`Store`), as in `Batch::submit`: before that it cannot be read and a
cancel does not find it, and afterwards its status is one that `cancel` leaves
alone, so that the code's branch that writes `cancelled` is never reached.
`BatchWhole` is about batches that were answered and says nothing of those in
progress, for which the module's comment promises another life cycle (section 5).

Choices: three properties of the code are in the model and not in a property.
The middleware makes a limiter for each request, so `Check` always finds an
empty one; a request that left stays in `pending` for ever (`LogExact` says so);
and a task whose client left stays `working` (`TaskTruth`). MCP's tool calls and
A2A's skills are one item each. Ids are those of the requests.

### Admin

The tables `request_logs`, `pricing`, `budgets`, `webhooks`, `audit_logs`,
`combos`, `cache_entries` and `synced_models`, with one chat at a time, as the
engine's lock has it: `Begin`, `Hit` or `Miss`, `Answered` or `Failed`, `Store`,
`Dispatch`, each an entry of its own into the database's lock, between which
administrators do what they like. `shared` says whether the server has the one
shared connection: without it every admin request opens its own, and the check
and the insert of an automatic combo come apart (`AutoCheck`, `AutoInsert`).
`SyncFetch` and `SyncStore` are the two ends of a synchronisation's outbound
request. `Restart` stops the process at any point and starts it again on the same
file: the tables stay, and the chat under way, the deliveries, the
synchronisations and the audits that were to follow are lost. `cut` has the rows
of the attempts that a stop cut off between the row and the event (`Unfired`).
`fired`, `cut`, `newest`, `overtaken`, `from` and `age` are history.

Choices: money is counted in 1/10 000 $, a tenth of what the report rounds to;
a row has one count of tokens where the code adds the same product for input
and output. A sum is the number of the units of its terms, which is what can be
reasoned about. In `AutoCombo` every request takes a second, for which the
latency part of a score is the 0.5 it is without telemetry. A month has
`MonthLength` instants. Only one area of the API is used in a behaviour,
together with chats (`Desks`; synchronisation alone, for chats do not touch its
table): the areas share no table but the ones chats write. Instants are the
whole seconds the tables keep, and the clock runs beside the areas whose tables
have times that matter, costs and cache. Whether the one connection is shared is
taken to be the same after a restart.

### Desktop

`app`, `autostart`, `child` and `call` are the shell: `child` is the handle in
`ProxyState`, `call` the pings that each `proxy_start` has left. A process is at
one step of `Steps`, the statements of `run_migrations` in their order, or
binding, serving or over. A batch can be cut off after any of its tables, and a
process may end at any point (`Crash`). Two may be in the migrations at once:
`DuplicateColumn` is the `ALTER TABLE` that another process has been ahead of,
after which `start_server` goes on without a database, as after any error.

Choices: a file may have been made by an earlier version that had the first n
steps (`Older`). What happens to a sidecar when the application is left is up
to the operating system: it may go on or end. The port has one owner, and only
this machine's sidecars want it. `init_database` of the N-API binding is not
a process here.

## 3. What the runs check

"States" are distinct states.

| Run | Expect | States | Question |
|---|---|---|---|
| `routing_races` | pass | 2.7 M | one connection (may lose its key), one env key, two concurrent admin requests of every kind, chats, restarts, two clock ticks per second: `TypeOK`, `RestUnlessExposed`, `RestPersisted`, `ReportFindsCaller` |
| `rotation` | pass | 75 501 | three accounts, sessions: `TypeOK`, `NoneMissed`, `RoundRobin`, `DisabledByAuthFailure` |
| `fallback_chats` | pass | 277 497 | two chats, four providers, session, cache, a clock, fairness: `TypeOK`, `LockAccounted`, `ActiveExact`, `NoReturnWhileCooling`, `KeepsPromise`, `Answered` |
| `gate_keys_and_quotas` | pass | 2.7 M | two chats, one key, two admin requests, a quota, restarts: `TypeOK`, `KeysLiveUnlessStale`, `OvershootBounded` |
| `exchange` | pass | 271 426 | conversations of up to four messages, three budgets, every answer of the instance, every stream of nine letters cut in every way: `TypeOK`, `CompressionFits`, `SameConversation`, `AnswerKept`, `StatusTrue`, `ChunkingInvisible` |
| `serving` | pass | 252 241 | three requests of eight kinds, clients that leave, restarts, fairness: `TypeOK`, `TaskTruth`, `BatchWhole`, `LogExact`, `NoOvertakingTwice`, `EveryoneAnswered` |
| `admin` | pass | 1 391 478 | two chats, two admin requests on any one area, restarts, a month's end, with and without the shared connection: `TypeOK`, `ReportExact`, `LedgersAgree`, `CacheHonest`, `EventsMatchLog`, `AutoOnce`, `SyncedAsFetched` |
| `desktop` | pass | 253 228 | two sidecars on one file, sessions of the application, crashes, fairness: `TypeOK`, `AttachedComplete`, `OnlyChild`, `ComesUp` |
| `routing_reload_race` | violation | | `RestAfterRateLimit`: a reload swaps in rows read before a rate limit |
| `exchange_endpoint` | violation | | `EndpointOnce`: a stream's URL has the endpoint twice |
| `exchange_compression` | violation | | `ImportantKept`: a compressed request loses its system prompt or its question |
| `desktop_stop` | violation | | `StopStops`: the auto-started sidecar survives `proxy_stop` |

The violated properties quote a comment of the repository; the `findings` of
PROJECT.json give the lines. Where a property fails in one identified way, a
passing property says that this is the only way: `RestUnlessExposed` beside
`RestAfterRateLimit`, `OnlyChild` beside `StopStops`.

Every property of a passing run has a mutant in PROJECT.json, a one-operator
change of the modelled code that makes TLC report it violated.

### Bounds

* `MaxTime` ends the clock. A property about cooldowns needs to see one begin
  and run out: the last instant is at least `Cooldown` in every run where that
  matters.
* `routing_races` has two admin requests because a race of two reloads needs
  two, and one connection because the rows do not interact when credentials are
  distinct. `Second` is 2 there, so that a reload loses the half second that
  `num_seconds` truncates. For any number of connections the properties are
  proved.
* Three accounts are enough for an account to be passed over by two others in
  either order. `MaxErrors` caps the errors in a row at the threshold.
* Two chats give one that holds the lock and one that waits. The chains are
  longer than `max_attempts` in `fallback_chats`, and have two candidates of
  one provider, one that needs no key, one without endpoint and one that is
  unknown.
* In `gate_keys_and_quotas` a key's chats arrive while it has fewer than
  `MaxRows` = 2 rows: one more than the limit, so that chats meet a quota before,
  at and beyond its limit, and the rows slide out of the window of the quota on
  requests. Two attempts per chat, two chats: the bound of `OvershootBounded` is
  reached.
* `exchange`: `KeepTail` is 2 where the code has 6, so that four messages have a
  head, a middle and a tail; the budgets 0, 4 and 7 fit nothing, less than the
  tail, and more than it. `MaxBytes` = 9 letters hold two events with their
  blank lines and the beginning of a third.
* `serving`: three requests let two overtake one, a batch of two chats and a bad
  item waits for the lock twice, and `LogCap` = 2 fills the ring.
* `admin`: two chats and two admin requests are one race of each kind; prices of
  4 and 16 units make lines that round down and up; `MonthLength` = 1 and
  `MaxTime` = 1 put a month's end between any two steps. Restarts are not bounded.
* `desktop`: two sidecars are the smallest number that migrate together, one of
  the auto-start and one of a command, over any number of sessions. Two files:
  a new one, and one whose migration stopped between two columns of a table;
  for every other earlier file the property is proved. One ping stands for 25.

`CHECK_DEADLOCK FALSE` is there because the models stop when clocks, arrivals
and requests are used up.

### Fairness

* `Fallback`: weak fairness of `Step(c)`, the work a handler does without waiting
  for anybody (tokio runs every task that is ready), and of `Return(c)`, the
  upstream's answer: `ProviderExecutor::new` sets a timeout of 120 s on the HTTP
  client, so each call ends in a result or an error.
* `Serving`: weak fairness of `Acquire`, because tokio's lock wakes its waiters
  in order, and of `Executed` and `Relayed`, for the same timeout. Fairness is
  per request, not per outcome.
* `Desktop`: weak fairness of `Ping`, whose loop sleeps 200 ms at a time, and of
  the steps of a process that runs (`Open`, `Bind`). A process may still crash.

Nothing is assumed of clients, administrators, operators or the clock.

## 4. What is proved

The theorems hold for every value of the constants that their `ASSUME` admits.

**Routing.** `TypeCorrect`, then one inductive invariant, `IInv`, for the three
safety theorems `RestSafety`, `PersistenceSafety` and `ReportSafety`. The
properties are not inductive by themselves: whether a connection rests is
decided by accounts in the pool, by pools that reloads have already built, and
by rows that later reloads will read. `IInv` therefore says, under
`DistinctCredentials`: keys in rows and in PUT drafts are keys of their
connection (`RowKeys`, `DraftKeys`); the row of a connection that must rest
remembers it (`RowsRemember`); a pool is good when each account has a key of
its connection, no connection occurs twice and every account of a connection
that must rest is cooling (`Good`), and this holds of the engine's pool and, up
to the connections rate limited since it was read, of every snapshot
(`SnapsGood`); and the call in flight has its account in the pool, usable
(`HasCaller`). The proof goes action by action. `RestUnlessExposed` is why
`exposed` exists: it records the connections of the snapshot race, and the
theorem says that there is no other way to lose a cooldown. The assumption is
real: when two connections share a key, `report` finds the first account with
the key only, and the other's cooldown is lost.

**Rotation.** `NextKeyComplete` shows that `next_key`'s n probes reach every
slot exactly once, wherever `next_idx` stands; it rests on lemmas about `%` and
on a least-number principle obtained from the well-foundedness of the naturals.
`RoundRobinBetweenPreferences` needs the strengthening `Waits`: the turns an
account has been passed over and its distance from the rotation's index add up
to less than the number of accounts, so each turn of another brings it closer.
`OnlyAuthFailuresDisable` and `TypeCorrect` are inductive with the types.

**Fallback.** `TypeCorrect` and `LockKeptExactly` come from one invariant, `Inv`:
the types, of which a pool's keys and the shape of each phase's locals are part,
and `LockOK`, that the holder is the one chat in the loop and each chat that waits
is queued once. `ActiveCountExact` counts the calls in flight as one or none,
because the lock is held during a call. `RefusersAreLeftAlone` proves
`NoReturnWhileCooling` under `DistinctKeys`, which says that no two accounts of a
provider share a key: while a chat is in the loop, the account of each attempt of
its that was refused cools until the attempt's instant plus the cooldown, an
outcome only moves a cooldown forward, and the rotation picks an account only when
its cooldown is over (`AllCooling`). With a shared key `report` cools the first
account with the key, not the one that refused. `PromiseKept` is the step simulation: under the
mapping each action is an action of `FallbackPromise` or leaves its variables
alone. The case that needs the invariant is the end of a chain: the attempts are
those of the first candidates of the order, all different, so that their number
is that of the candidates that refused.

**Gate.** `KeysAgree` proves `KeysLiveUnlessStale`. The invariant adds what a
list in flight is worth (`ListFollowed`): it is what the table says, or its
reload has been overtaken, or a request with newer rows is still to swap. The
last request to swap has nobody after it, so its list is right or stale.
`OvershootWithinBound` needs `QInv`: the lock has one owner, nothing in the log
is in the future, and for each quota the use in its window plus what the chats
that passed the check may still add is within the bound of the limit. The use
is counted as the cardinality of a set (`Consumed`), so that a window that slides
takes elements away and an answer adds one. It assumes that there are finitely
many chats.

**Exchange.** The six invariants of the run are proved, for requests of any
length, any `keep_tail` and budget, answers of any shape the parsers accept and
streams of any length. The operators are recursive functions and concatenations
(`FlattenSeq`), and what such a definition computes needs induction: the module
derives it from the least element of a set of naturals (`Induct`, `Recursion`),
which is stated without a parameter that is an operator.
`SInv` holds the types (`CallOK`, `StreamOK`) and `WholeEvents`, from which
`ChunkingInvisible` follows and which also says what is in the buffer: what has
been read is the events the client got followed by the buffer, and the scan of a
buffer and what is appended to it is the scan of the buffer followed by that of
its rest and what is appended. `StatusIsTrue` goes through the
phrases in the order in which `parse_executor_error` looks for them.
`AnswerIsKept` shows that joining the texts of the parts and selecting the tool
calls loses nothing. `CompressionDoesFit` follows the budget: `KeepFitting` leaves
exactly what it has not spent, `KeepNewest` keeps a suffix that fits, head, middle
and tail are in order and their tokens add up, and the note is apart from
the messages. `ConversationIsSame` is that a filter of the messages and the map
to the wire's commute.

**Serving.** One invariant, `Inv`, gives the five theorems. A request in progress
has the results of its first items and waits for an item that needs waiting
(`RequestsOK`), the stored jobs are those of the batches answered (`BatchesOK`),
the ring is a suffix of the answers (`RingOK`), and who waits in front of
another has not been passed by it (`FairOK`): whoever is served goes to the end
of the queue. Two assumptions on the constants are about the code's types: a
message/send is one chat or is refused for want of a text, and the mark of no batch
is not a batch.

**Admin.** `TypeCorrect` has that a chain built by `auto_combo` has at most the
models that the builder takes. Three more inductive invariants. `AutoInv` adds
to `AutoOnce` that on the
shared connection nobody is between the check and the insert. `SyncInv` adds
`Numbering`: the lists in flight are numbered apart, and none of them is the
newest that was stored, so that storing one either makes it the newest or marks
it as overtaken. `ChatInv`
relates the cache, the log and the chat under way: the row it stands at exists
and is its own, entries of the cache come from successful rows with the same
key and live as long as their writer said, and events have been raised for
exactly the attempts that are over, but for those in `cut`; a stop moves the one
under way there, and no later chat stands at a row that is cut (`CutHonest`).
`CacheHonest` and `EventsMatchLog` follow
(`CacheAnswers`, `NoEventMissed`). The steps that leave the chat's tables alone
are dealt with once (`ChatApart`).

`ReportAddsUp` and `QuotasWithinReport` are about sums. `SumOf` counts the pairs of
an argument and a unit of its value, so that two sums are compared by a bijection
or an inclusion of finite sets, without induction: a sum is that of its parts
(`SumByParts`), n times each value is n times the sum, and values that are at most
d more make a sum at most d more for each. With them, a line of the report is what
its rows cost one by one, the rounded lines of a budget are off by half a unit
each, and of their sum the rounding takes nothing more. For the quotas, the rows
of all keys in a window are among those of the months it touches, for no row is
from the future (`LedgerOK`), and the price that a quota finds is the report's
or none. Prices are assumed not to be negative, which the handler does not check.

Every invariant that a passing run checks is stated by a theorem, and so is the
refinement `KeepsPromise`. Only model-checked is liveness (`Answered`,
`EveryoneAnswered`, `ComesUp`): fairness and `ENABLED` are out of the prover's
reach. The mutants and the properties of the runs that expect a violation are
TLC's alone.

## 5. Not modelled, and known differences

### Not modelled

* The dashboard and the build scripts: no state of the gateway's.
* The N-API binding: `init_database` sets the one database of a process;
  the server never goes through it.
* Parsing of the environment and of settings, the list of the router's paths,
  listings that only read, the test of a connection (one call), the relay of
  batches to other endpoints, `sse.rs` and `session_dedup`, which nothing calls.
* `resolve_provider` is a constant: a search in static tables by the model's
  name. `score_order` sorts by floats over measured latencies: `Fallback` allows
  every order. The host guard compares a header with a constant list.

### Differences without a run

The models follow the code in each of these; none is claimed to be harmless.

* An admin change is not applied while a chat is in progress (`try_write` fails,
  `core/proxy.rs:58`), and the free-provider endpoint never reloads
  (`core/admin.rs:175`). README.md:48 of the repository says "Admin API changes
  apply live (hot reload)". `Routing` has both.
* Two connections with one key: outcomes reach the first only
  (`core/account.rs:146`).
* `enabled = false` is not persisted; a reload enables the account again. One
  auth failure after rate limits disables at once, for the counter is shared
  (`core/account.rs:156`, against the comment at line 59), and any reload starts
  the count anew. A health update is
  written by connection, also when a PUT has changed its key since.
* Two PUTs on one row: the second writes back the columns it read before the
  first wrote (`core/admin.rs:565`).
* Concurrent chats pass a hard limit together (`core/proxy.rs:133`); streams,
  batches, MCP and A2A count for no quota; a key whose row changes between the
  list and the table runs without its quota (`core/proxy.rs:183`); a quota in
  usd ignores the "*" price that the report uses; budgets limit nothing.
* A client that leaves during a call leaves `active_requests` one too high
  (`core/combo.rs:257`); a failed stream counts as failed and not as a request,
  so that `failed` can exceed `total`; a sticky session is not kept when the
  scores have changed (`core/combo.rs:228`).
* Streams are not compressed, cached or logged; a Claude body never says
  `"stream": true` (`request_builder.rs:121`), and no event is found in the
  answer. A Gemini stream has a Done for each chunk with a finish reason.
* An event without a blank line behind it is lost when the upstream closes. The
  comment at `core/executor/streaming.rs:134` says "Flush any trailing event
  without double-newline"; what is flushed there is `events`, which is always
  empty at that point, and the buffer is dropped. A provider whose last chunk or
  `[DONE]` ends with one newline loses it.
* A batch has no life before it is over. `core/batch.rs:12` says "validating ->
  in_progress -> completed" of POST /v1/batch, and line 14 has an endpoint to
  cancel it; `submit` stores the job once, when all items have answered
  (`core/batch.rs:122-124`), with a status that `cancel` refuses to change. So
  nothing can be cancelled, a batch in progress is not found, and one whose client
  leaves runs no further and is never found.
* An attempt's row, its cache entry and its event are separate
  (`core/combo.rs:262-309`): when the process stops between them, the row is never
  followed by its event. A webhook whose creation is cut off is never audited.
* The cache's key has the model, the roles and contents of the messages, the
  temperature, `max_tokens` and the number of tools (`core/cache.rs:11-31`):
  requests that differ in `top_p`, `stop` or in the tools themselves share an
  answer. A chat that was looking when the cache was cleared stores its answer
  afterwards (`core/combo.rs:292`), so a cleared cache need not be empty.
* Of several system messages only the last reaches Claude
  (`request_builder.rs:96`), and none reaches Gemini (`request_builder.rs:154`).
* The text of an upstream's error may have the words that
  `parse_executor_error` looks for (`core/proxy.rs:298`): the status is then that
  of another error. A Gemini answer without candidates panics
  (`response_parser.rs:207`); the client gets no answer, and the request begun is
  not ended, as when a client leaves.
* The rate limiter never refuses (a limiter per request, `core/ratelimit.rs:74`).
  It stands around the TraceLayer that `core/proxy.rs:371` calls outermost.
* A negative price is taken as it is (`core/admin.rs:810`).
* Without the shared connection, two operators who ask for the automatic combo of
  one model at once may both get one (`core/admin.rs:98`).
* Automatic combos count inactive connections (`free_providers.rs:517`, against
  `core/auto_combo.rs:37-38`), and may name a model twice. `missing_pricing`
  counts the group of the requests that are no chats. The id answered for a
  price or budget that exists is not the row's. A model that a provider
  withdraws stays in `synced_models`. Deliveries are not repeated. Webhooks are
  audited when they are created only.
* A sidecar that has crashed is still the child: `proxy_status` says it runs
  and `proxy_start` does nothing until a stop (`src-tauri/src/lib.rs:131`).
  `proxy_start` answers `running: true` when its pings are used up, whether or not
  the server has come up (`src-tauri/src/lib.rs:153`).

## 6. What is left

1. `resolve_provider` over a small catalogue; the order of the scores as bounded
   arithmetic, with the stickiness of sessions.
