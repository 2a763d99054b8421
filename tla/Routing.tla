------------------------------ MODULE Routing ------------------------------
(***************************************************************************)
(* Account health across chats, admin requests and restarts: the pool of   *)
(* one provider in memory, the providerConnections rows it is loaded from  *)
(* and writes its health back to, and AppState::reload_accounts, which     *)
(* every admin write runs to rebuild the engine.                           *)
(*                                                                         *)
(* Sources: omniroute-core/src/{account,router,proxy,admin}.rs and         *)
(* omniroute-db/src/repos/provider_connection_repo.rs.                     *)
(*                                                                         *)
(* The engine sits behind one RwLock.  A chat holds it for writing from    *)
(* before its account is picked until after the outcome is reported, so    *)
(* at most one upstream call is in flight and `call` is also the lock: it  *)
(* is held iff call # NoCall.  Admin requests run on other threads.        *)
(***************************************************************************)
EXTENDS AccountPool, SequencesExt

CONSTANTS
    Conn, NoConn,   \* ids of providerConnections rows; none, for an env key
    Key, NoKey,     \* credentials; the empty key of a no-auth connection
    EnvKeys,        \* the provider's keys in OMNIROUTE_PROVIDER_KEYS
    KeysOf,         \* the keys an operator ever gives each connection
    Prio,           \* the priority column of each connection
    Admin,          \* admin requests that can be in progress together
    AdminOps,       \* the admin endpoints in use
    Second,         \* clock ticks in a second
    MaxTime         \* bound: the last instant of the clock

ASSUME RoutingAssumption ==
    /\ NoConn \notin Conn
    /\ NoKey \notin Key
    /\ EnvKeys \in Seq(Key)
    /\ KeysOf \in [Conn -> SUBSET (Key \cup {NoKey})]
    /\ Prio \in [Conn -> Nat]
    /\ IsFiniteSet(Conn)
    /\ Second \in Nat \ {0}
    /\ MaxTime \in Nat

VARIABLES
    now,    \* the clock
    rows,   \* the providerConnections table
    pool,   \* the AccountPool of the engine
    call,   \* the account of the upstream call in flight
    step,   \* how far each admin request has got
    draft,  \* the row a PUT has read, to modify and write back
    snap,   \* the pool a reload has built and not yet swapped in
    \* History, read by the properties and `missed` only:
    rest,   \* until when each connection was told to rest by its upstream
    missed, \* connections rate limited since the snapshot was read
    exposed \* connections whose rest a swap of such a snapshot has dropped

vars == <<now, rows, pool, call, step, draft, snap, rest, missed, exposed>>
adminVars == <<step, draft, snap>>

-----------------------------------------------------------------------------
Row == [status : {"unused", "active", "inactive", "deleted"},
        key : Key \cup {NoKey}, rlu : Nat, backoff : 0 .. 5]

Unused == [status |-> "unused", key |-> NoKey, rlu |-> 0, backoff |-> 0]

Deleted == [Unused EXCEPT !.status = "deleted"]

Exists(c) == rows[c].status \in {"active", "inactive"}

NoCall == [key |-> NoKey, conn |-> NoConn]

Pool == PoolOf(Key, Conn \cup {NoConn})

NoPool == [accounts |-> <<>>, next_idx |-> 0]

-----------------------------------------------------------------------------
(***************************************************************************)
(* Loading.  from_env makes a pool of the environment's keys; load_from_db *)
(* appends the active rows that have a key, by priority (ties are ordered  *)
(* by updated_at, here in any order).  A row still rate limited starts     *)
(* with the whole seconds that are left of its cooldown.                   *)
(***************************************************************************)
Loadable(c) == rows[c].status = "active" /\ rows[c].key # NoKey

LoadOrder ==
    {o \in SetToSeqs({c \in Conn : Loadable(c)}) :
        \A i, j \in DOMAIN o : i < j => Prio[o[i]] <= Prio[o[j]]}

WholeSeconds(d) == (d \div Second) * Second

\* Mutant: a reload forgets the persisted cooldown.
InitialCoolIgnored(rlu) == 0

InitialCool(rlu) ==
    IF rlu > now /\ WholeSeconds(rlu - now) > 0
    THEN now + WholeSeconds(rlu - now) ELSE 0

FromEnv == [i \in 1 .. Len(EnvKeys) |-> NewAccount(EnvKeys[i], NoConn, 0)]

LoadFromDb(o) ==
    [i \in DOMAIN o |-> NewAccount(rows[o[i]].key, o[i], InitialCool(rows[o[i]].rlu))]

\* The pools a rebuild of the engine can produce now.
Rebuilt == {[accounts |-> FromEnv \o LoadFromDb(o), next_idx |-> 0] : o \in LoadOrder}

-----------------------------------------------------------------------------
(***************************************************************************)
(* Chats.                                                                  *)
(***************************************************************************)
\* A candidate is routed: to the account `pref` of its session (NoKey: no
\* session) when it is usable, else to the next one of the rotation.
Route(pref) ==
    /\ call = NoCall
    /\ \E s \in RoutePrefer(pool, pref, now) :
          /\ pool' = Advance(pool, s)
          /\ call' = [key |-> pool.accounts[s].key, conn |-> pool.accounts[s].conn]
    /\ UNCHANGED <<now, rows, adminVars, rest, missed, exposed>>

\* The outcome reaches the pool and, for an account that has a connection,
\* its row (AccountManager::report, update_health).
UpdateHealth(r, o, errs) ==
    [r EXCEPT !.rlu = IF o = "RateLimited" THEN now + Cooldown ELSE 0,
              !.backoff = IF errs < 5 THEN errs ELSE 5]

Deliver(o) ==
    /\ call # NoCall
    /\ pool' = Report(pool, call.key, o, now)
    /\ rows' = [c \in Conn |->
                  IF /\ Exists(c)
                     /\ \E s \in FirstWith(pool, call.key) : pool.accounts[s].conn = c
                  THEN UpdateHealth(rows[c], o,
                         pool'.accounts[CHOOSE s \in FirstWith(pool, call.key) : TRUE].errs)
                  ELSE rows[c]]
    /\ call' = NoCall
    /\ IF o = "RateLimited" /\ call.conn # NoConn
       THEN /\ rest' = [rest EXCEPT ![call.conn] = now + Cooldown]
            /\ missed' = [a \in Admin |-> IF step[a] = "loaded"
                                          THEN missed[a] \cup {call.conn}
                                          ELSE missed[a]]
       ELSE UNCHANGED <<rest, missed>>
    /\ UNCHANGED <<now, adminVars, exposed>>

\* The call ends and nothing is reported: a stream has been established, or
\* the client is gone and its handler was dropped at the await.
EndUnreported ==
    /\ call # NoCall
    /\ call' = NoCall
    /\ UNCHANGED <<now, rows, pool, adminVars, rest, missed, exposed>>

-----------------------------------------------------------------------------
(***************************************************************************)
(* Admin requests.  Each writes its row under the database lock, and then  *)
(* runs reload_accounts, which is two more steps: build a pool from the    *)
(* rows, then swap it in if the engine's lock is free (try_write).         *)
(***************************************************************************)
Draft == [conn : Conn \cup {NoConn}, key : Key \cup {NoKey},
          status : {"unused", "active", "inactive"}]

NoDraft == [conn |-> NoConn, key |-> NoKey, status |-> "unused"]

SetStep(a, st) == step' = [step EXCEPT ![a] = st]

\* POST /admin/providers.  The body may carry a rate_limited_until.
CreateConnection(a, c) ==
    /\ "create" \in AdminOps
    /\ step[a] = "idle" /\ rows[c].status = "unused"
    /\ \E k \in KeysOf[c], st \in {"active", "inactive"}, t \in {0, now + Cooldown} :
          rows' = [rows EXCEPT ![c] =
                     [status |-> st, key |-> k, rlu |-> t, backoff |-> 0]]
    /\ SetStep(a, "saved")
    /\ UNCHANGED <<now, pool, call, draft, snap, rest, missed, exposed>>

\* POST /admin/free-providers/{id}/add.  It ends without a reload.
AddFreeProvider(a, c) ==
    /\ "add_free" \in AdminOps
    /\ step[a] = "idle" /\ rows[c].status = "unused"
    /\ \E k \in KeysOf[c] :
          rows' = [rows EXCEPT ![c] =
                     [status |-> "active", key |-> k, rlu |-> 0, backoff |-> 0]]
    /\ UNCHANGED <<now, pool, call, adminVars, rest, missed, exposed>>

\* PUT /admin/providers/{id} reads the row in one critical section of the
\* database lock and writes all its columns but the health back in another.
UpdateRead(a, c) ==
    /\ "update" \in AdminOps
    /\ step[a] = "idle" /\ Exists(c)
    /\ draft' = [draft EXCEPT ![a] =
                    [conn |-> c, key |-> rows[c].key, status |-> rows[c].status]]
    /\ SetStep(a, "editing")
    /\ UNCHANGED <<now, rows, pool, call, snap, rest, missed, exposed>>

\* Mutant: a PUT writes every column back.
WriteColumnsAndHealth(r, k, st) == [r EXCEPT !.key = k, !.status = st, !.rlu = 0]

WriteColumns(r, k, st) == [r EXCEPT !.key = k, !.status = st]

UpdateWrite(a) ==
    LET c == draft[a].conn IN
    /\ step[a] = "editing"
    /\ \E k \in KeysOf[c] \cup {draft[a].key},
          st \in {"active", "inactive"} :
          rows' = [rows EXCEPT ![c] = IF Exists(c) THEN WriteColumns(@, k, st) ELSE @]
    /\ draft' = [draft EXCEPT ![a] = NoDraft]
    /\ SetStep(a, "saved")
    /\ UNCHANGED <<now, pool, call, snap, rest, missed, exposed>>

\* DELETE /admin/providers/{id}; ids are fresh uuids and never come back.
DeleteConnection(a, c) ==
    /\ "delete" \in AdminOps
    /\ step[a] = "idle" /\ Exists(c)
    /\ rows' = [rows EXCEPT ![c] = Deleted]
    /\ SetStep(a, "saved")
    /\ UNCHANGED <<now, pool, call, draft, snap, rest, missed, exposed>>

\* The writes of gateway keys and of combos reload the engine as well.
OtherWrite(a) ==
    /\ "other" \in AdminOps
    /\ step[a] = "idle"
    /\ SetStep(a, "saved")
    /\ UNCHANGED <<now, rows, pool, call, draft, snap, rest, missed, exposed>>

ReloadRead(a) ==
    /\ step[a] = "saved"
    /\ \E p \in Rebuilt : snap' = [snap EXCEPT ![a] = p]
    /\ missed' = [missed EXCEPT ![a] = {}]
    /\ SetStep(a, "loaded")
    /\ UNCHANGED <<now, rows, pool, call, draft, rest, exposed>>

\* Mutant: the swap does not wait for the lock.
NoLockCheck == TRUE

\* try_write: the swap takes place only when no chat holds the lock.
LockFree == call = NoCall

ReloadSwap(a) ==
    /\ step[a] = "loaded"
    /\ IF LockFree
       THEN pool' = snap[a] /\ exposed' = exposed \cup missed[a]
       ELSE UNCHANGED <<pool, exposed>>
    /\ snap' = [snap EXCEPT ![a] = NoPool]
    /\ missed' = [missed EXCEPT ![a] = {}]
    /\ SetStep(a, "idle")
    /\ UNCHANGED <<now, rows, call, draft, rest>>

-----------------------------------------------------------------------------
\* The process stops at any point and start_server builds a new engine from
\* the environment and the database.
Restart ==
    /\ pool' \in Rebuilt
    /\ call' = NoCall
    /\ step' = [a \in Admin |-> "idle"]
    /\ draft' = [a \in Admin |-> NoDraft]
    /\ snap' = [a \in Admin |-> NoPool]
    /\ missed' = [a \in Admin |-> {}]
    /\ UNCHANGED <<now, rows, rest, exposed>>

Tick ==
    /\ now < MaxTime
    /\ now' = now + 1
    /\ UNCHANGED <<rows, pool, call, adminVars, rest, missed, exposed>>

\* A fresh database, or one the migrations have filled: any connections that
\* are there at startup were never rate limited.
Init ==
    /\ now = 0
    /\ rows \in [Conn -> {Unused} \cup
                  [status : {"active"}, key : UNION {KeysOf[c] : c \in Conn},
                   rlu : {0}, backoff : {0}]]
    /\ \A c \in Conn : rows[c] # Unused => rows[c].key \in KeysOf[c]
    /\ pool \in Rebuilt
    /\ call = NoCall
    /\ step = [a \in Admin |-> "idle"]
    /\ draft = [a \in Admin |-> NoDraft]
    /\ snap = [a \in Admin |-> NoPool]
    /\ rest = [c \in Conn |-> 0]
    /\ missed = [a \in Admin |-> {}]
    /\ exposed = {}

AdminStep(a) ==
    \/ \E c \in Conn : \/ CreateConnection(a, c) \/ AddFreeProvider(a, c)
                       \/ UpdateRead(a, c) \/ DeleteConnection(a, c)
    \/ UpdateWrite(a) \/ OtherWrite(a) \/ ReloadRead(a) \/ ReloadSwap(a)

Next ==
    \/ \E k \in Key \cup {NoKey} : Route(k)
    \/ \E o \in Outcome : Deliver(o)
    \/ EndUnreported
    \/ \E a \in Admin : AdminStep(a)
    \/ Restart
    \/ Tick

Spec == Init /\ [][Next]_vars

-----------------------------------------------------------------------------
TypeOK ==
    /\ now \in Nat
    /\ rows \in [Conn -> Row]
    /\ pool \in Pool
    /\ pool.accounts # <<>> => pool.next_idx < Len(pool.accounts)
    /\ call \in [key : Key \cup {NoKey}, conn : Conn \cup {NoConn}]
    /\ step \in [Admin -> {"idle", "editing", "saved", "loaded"}]
    /\ draft \in [Admin -> Draft]
    /\ snap \in [Admin -> Pool]
    /\ rest \in [Conn -> Nat]
    /\ missed \in [Admin -> SUBSET Conn]
    /\ exposed \in SUBSET Conn

\* No credential is configured twice: not in the environment, not for two
\* connections, not in both places.
DistinctCredentials ==
    /\ \A i, j \in DOMAIN EnvKeys : EnvKeys[i] = EnvKeys[j] => i = j
    /\ \A c \in Conn : \A i \in DOMAIN EnvKeys : EnvKeys[i] \notin KeysOf[c]
    /\ \A c, d \in Conn : \A k \in Key : k \in KeysOf[c] \cap KeysOf[d] => c = d

\* Connection c has rested since its upstream last rate limited it, but for
\* the fraction of a second that whole-second cooldowns lose on a reload.
Rested(c) == now + Second > rest[c]

(***************************************************************************)
(* A rate-limited account rests for the cooldown before it is used again   *)
(* (account.rs, cooldown_secs), through hot reloads and restarts.          *)
(***************************************************************************)
RestAfterRateLimit == call.conn # NoConn => Rested(call.conn)

(***************************************************************************)
(* The same, except for a connection whose rate limit came between the     *)
(* read and the swap of a reload that then went through: that race is the  *)
(* only way to lose a cooldown when credentials are distinct.              *)
(***************************************************************************)
RestUnlessExposed ==
    DistinctCredentials /\ call.conn # NoConn /\ call.conn \notin exposed
        => Rested(call.conn)

(***************************************************************************)
(* The cooldown is persisted: whatever admin requests are in progress, the *)
(* row of a connection that must still rest says so, for the engine a      *)
(* restart would build now.                                                *)
(***************************************************************************)
RestPersisted ==
    DistinctCredentials =>
        \A c \in Conn \ exposed : Exists(c) => Rested(c) \/ rows[c].rlu >= rest[c]

(***************************************************************************)
(* The account an outcome will be charged to is the account that made the  *)
(* call, and nothing has disabled or cooled it meanwhile: no reload        *)
(* replaces the pool under a call in flight.                               *)
(***************************************************************************)
ReportFindsCaller ==
    DistinctCredentials /\ call # NoCall =>
        \E s \in FirstWith(pool, call.key) :
            /\ pool.accounts[s].conn = call.conn
            /\ Available(pool.accounts[s], now)

=============================================================================
