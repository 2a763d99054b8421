------------------------------ MODULE Fallback ------------------------------
(***************************************************************************)
(* The combo engine (omniroute-core/src/combo.rs): how a chat request      *)
(* falls back along its candidates while other requests wait for the lock  *)
(* of the engine, clients disconnect, the engine is reloaded and the       *)
(* process restarts.  Plain and streamed chats, session affinity, the      *)
(* response cache and the counters of the scorer are part of it.           *)
(*                                                                         *)
(* Providers have the pools of AccountPool.  A request kind fixes the      *)
(* model, the body and the flags; its chain is given by the provider that  *)
(* each candidate resolves to, candidate i being position i of the chain.  *)
(* An instant is a second.                                                 *)
(***************************************************************************)
EXTENDS AccountPool, SequencesExt

CONSTANTS
    Chat, NoChat,
    Provider, NoProvider, \* providers; a model no provider is known for
    Key, NoKey,           \* credentials; the empty one of no-auth providers
    KeysIn,               \* the keys of each provider's pool, <<>>: no pool
    NoAuth,               \* providers that need no key
    NoEndpoint,           \* providers of the catalogue without a base URL
    Request, NoRequest,   \* kinds of requests
    ChainOf,              \* the providers of the candidates of a request
    Streamed,             \* the requests with stream: true
    Cacheable,            \* the requests with cache: true
    Session, NoSession,   \* values of X-Session-Id
    MaxAttempts,          \* max_attempts of the engine
    MaxTime               \* bound: the last instant of the clock

ASSUME FallbackAssumption ==
    /\ NoChat \notin Chat
    /\ NoProvider \notin Provider
    /\ NoKey \notin Key
    /\ KeysIn \in [Provider -> Seq(Key)]
    /\ NoAuth \subseteq Provider
    /\ NoEndpoint \subseteq Provider
    /\ NoRequest \notin Request
    /\ ChainOf \in [Request -> Seq(Provider \cup {NoProvider}) \ {<<>>}]
    /\ Streamed \subseteq Request
    /\ Cacheable \subseteq Request
    /\ NoSession \notin Session
    /\ MaxAttempts \in Nat \ {0}
    /\ MaxTime \in Nat

VARIABLES
    now,      \* the clock
    pools,    \* the AccountPool of each provider
    scorer,   \* ProviderStats of each provider, without the latency
    affinity, \* the session_account_affinity table
    cached,   \* the requests whose answer the cache holds
    holder,   \* the chat that holds the engine's lock for writing
    queue,    \* the chats that wait for it, first in first out
    chat,     \* the progress of each chat
    \* History, read by the properties only:
    leaked    \* calls whose client left, by provider, since the engine was built

vars == <<now, pools, scorer, affinity, cached, holder, queue, chat, leaked>>

-----------------------------------------------------------------------------
Phase == {"new", "queued", "routing", "calling", "answered", "failed", "gone"}

\* Transient: network, timeout, or another upstream status.
CallError == {"RateLimited", "AuthFailed", "Transient", "InvalidResponse"}

Target == [provider : Provider \cup {NoProvider}, key : Key \cup {NoKey}]

NoTarget == [provider |-> NoProvider, key |-> NoKey]

Attempt == [cand : Nat, target : Target,
            error : CallError \cup {"Unsupported"}, at : Nat]

NewChat == [phase |-> "new", req |-> NoRequest, session |-> NoSession,
            order |-> <<>>, pref |-> NoTarget, attempts |-> <<>>, target |-> NoTarget]

\* A chat after its handler: the locals are gone, the attempts are in the answer.
Over(c, phase) ==
    [NewChat EXCEPT !.phase = phase, !.req = chat[c].req, !.attempts = chat[c].attempts]

Streams(c) == chat[c].req \in Streamed

\* The candidate the loop has come to, and its provider.
Candidate(c) == chat[c].order[Len(chat[c].attempts) + 1]
Resolved(c) == ChainOf[chat[c].req][Candidate(c)]

InFlight(p) ==
    {c \in Chat : chat[c].phase = "calling" /\ chat[c].target.provider = p /\ ~ Streams(c)}

FreshPool(p) ==
    [accounts |-> [i \in DOMAIN KeysIn[p] |-> NewAccount(KeysIn[p][i], KeysIn[p][i], 0)],
     next_idx |-> 0]

(***************************************************************************)
(* score_order: a stable sort, best score first.  Candidates of a provider *)
(* have the score of the provider; which provider is best depends on       *)
(* latencies and is left open.                                             *)
(***************************************************************************)
ScoreOrders == [r \in Request |->
    LET chain == ChainOf[r]
        served == {chain[i] : i \in DOMAIN chain}
    IN  {o \in SetToSeqs(DOMAIN chain) :
           \E score \in [served -> 1 .. Len(chain)] :
              \A i, j \in DOMAIN o : i < j =>
                  \/ score[chain[o[i]]] > score[chain[o[j]]]
                  \/ score[chain[o[i]]] = score[chain[o[j]]] /\ o[i] < o[j]}]

-----------------------------------------------------------------------------
(***************************************************************************)
(* A request comes (handle_chat) and waits for the lock, which tokio hands *)
(* over in the order it was asked for.                                     *)
(***************************************************************************)
Arrive(c, r, s) ==
    /\ chat[c].phase = "new"
    /\ chat' = [chat EXCEPT ![c] = [@ EXCEPT !.phase = "queued", !.req = r, !.session = s]]
    /\ queue' = Append(queue, c)
    /\ UNCHANGED <<now, pools, scorer, affinity, cached, holder, leaked>>

Acquire(c) ==
    /\ holder = NoChat /\ queue # <<>> /\ c = Head(queue)
    /\ queue' = Tail(queue)
    /\ UNCHANGED <<now, pools, scorer, affinity, cached, leaked>>

CacheHit(c) ==
    /\ Acquire(c)
    /\ chat[c].req \in (cached \cap Cacheable) \ Streamed
    /\ chat' = [chat EXCEPT ![c] = Over(c, "answered")]
    /\ UNCHANGED holder

\* The order of the candidates and the session's account are read once.
Begin(c) ==
    /\ Acquire(c)
    /\ chat[c].req \notin (cached \cap Cacheable) \ Streamed
    /\ \E o \in ScoreOrders[chat[c].req] :
          chat' = [chat EXCEPT ![c] =
                     [@ EXCEPT !.phase = "routing", !.order = o,
                               !.pref = IF chat[c].session = NoSession THEN NoTarget
                                        ELSE affinity[chat[c].session]]]
    /\ holder' = c

-----------------------------------------------------------------------------
(***************************************************************************)
(* The loop over the candidates.  A refusal ends the chat when no further  *)
(* candidate may be tried; the lock is then free.                          *)
(***************************************************************************)
\* Mutant: a transient error is not worth a fallback.
RateLimitedOnly(e) == e = "RateLimited"

\* should_fallback.  A stream falls back whatever the error was.
ShouldFallback(e) == e # "InvalidResponse"

Exhausted(c, n) == n = Len(chat[c].order) \/ n >= MaxAttempts

Refused(c, target, e) ==
    LET attempts == Append(chat[c].attempts,
                      [cand |-> Candidate(c), target |-> target, error |-> e, at |-> now])
        over == \/ Exhausted(c, Len(attempts))
                \/ ~ Streams(c) /\ ~ ShouldFallback(e)
    IN  /\ chat' = [chat EXCEPT ![c] =
                      [(IF over THEN Over(c, "failed")
                        ELSE [@ EXCEPT !.phase = "routing", !.target = NoTarget])
                       EXCEPT !.attempts = attempts]]
        /\ holder' = IF over THEN NoChat ELSE c

\* begin_request; a stream is not counted.
Call(c, p, k) ==
    /\ chat' = [chat EXCEPT ![c] =
                  [@ EXCEPT !.phase = "calling", !.target = [provider |-> p, key |-> k]]]
    /\ scorer' = IF Streams(c) THEN scorer ELSE [scorer EXCEPT ![p].active = @ + 1]

\* The session's account, for the first candidate and its own provider only.
Preferred(c) ==
    IF chat[c].attempts = <<>> /\ chat[c].pref.provider = Resolved(c)
    THEN chat[c].pref.key ELSE NoKey

HasPool(p) == p \in Provider /\ KeysIn[p] # <<>>

\* Providers the candidate can be sent to.
Servable(p) == p \in Provider \ NoEndpoint

RouteToAccount(c) ==
    LET p == Resolved(c) IN
    /\ chat[c].phase = "routing" /\ HasPool(p) /\ Servable(p)
    /\ \E s \in RoutePrefer(pools[p], Preferred(c), now) :
          /\ pools' = [pools EXCEPT ![p] = Advance(@, s)]
          /\ Call(c, p, pools[p].accounts[s].key)
    /\ UNCHANGED <<now, affinity, cached, holder, queue, leaked>>

RouteWithoutKey(c) ==
    LET p == Resolved(c) IN
    /\ chat[c].phase = "routing" /\ p \in NoAuth /\ ~ HasPool(p) /\ Servable(p)
    /\ Call(c, p, NoKey)
    /\ UNCHANGED <<now, pools, affinity, cached, holder, queue, leaked>>

\* There is no upstream to call: the account that was picked has had its turn.
RouteUnsupported(c) ==
    LET p == Resolved(c) IN
    /\ chat[c].phase = "routing" /\ ~ Servable(p)
    /\ IF HasPool(p)
       THEN \E s \in RoutePrefer(pools[p], Preferred(c), now) :
               pools' = [pools EXCEPT ![p] = Advance(@, s)]
       ELSE p \in NoAuth \cup {NoProvider} /\ UNCHANGED pools
    /\ Refused(c, NoTarget, "Unsupported")
    /\ UNCHANGED <<now, scorer, affinity, cached, queue, leaked>>

\* The pool has no account to give, or the provider has neither pool nor
\* need of one.
RouteRefused(c) ==
    LET p == Resolved(c) IN
    /\ chat[c].phase = "routing" /\ p \in Provider
    /\ IF HasPool(p) THEN RoutePrefer(pools[p], Preferred(c), now) = {} ELSE p \notin NoAuth
    /\ Refused(c, NoTarget,
         IF AllCoolingDown(pools[p], now) THEN "RateLimited" ELSE "AuthFailed")
    /\ UNCHANGED <<now, pools, scorer, affinity, cached, queue, leaked>>

-----------------------------------------------------------------------------
(***************************************************************************)
(* The upstream returns: within 120 s, the timeout of the HTTP client.     *)
(***************************************************************************)
\* Mutant: the call is still counted as active.
NotEnded(st) == [st EXCEPT !.total = @ + 1]

\* record_latency and end_request (saturating).
Ended(st) ==
    [st EXCEPT !.total = @ + 1, !.active = IF @ = 0 THEN 0 ELSE @ - 1]

\* A stream that is established reports no outcome and is not cached.
Succeed(c) ==
    LET t == chat[c].target IN
    /\ chat[c].phase = "calling"
    /\ IF Streams(c)
       THEN UNCHANGED <<pools, scorer, cached>>
       ELSE /\ pools' = [pools EXCEPT ![t.provider] = Report(@, t.key, "Success", now)]
            /\ scorer' = [scorer EXCEPT ![t.provider] = Ended(@)]
            /\ cached' = cached \cup ({chat[c].req} \cap Cacheable)
    /\ affinity' = IF chat[c].session = NoSession THEN affinity
                   ELSE [affinity EXCEPT ![chat[c].session] = t]
    /\ chat' = [chat EXCEPT ![c] = Over(c, "answered")]
    /\ holder' = NoChat
    /\ UNCHANGED <<now, queue, leaked>>

\* Mutant: only a 429 cools the account down.
OutcomeBy429(e) == IF e = "RateLimited" THEN "RateLimited" ELSE "AuthFailed"

\* Whatever is no auth failure cools the account down.
OutcomeOf(e) == IF e = "AuthFailed" THEN "AuthFailed" ELSE "RateLimited"

\* record_failure; only a plain request ends here.
Failed(c, st) ==
    LET counted == IF Streams(c) THEN st ELSE Ended(st)
    IN  [counted EXCEPT !.failed = @ + 1]

FailCall(c, e) ==
    LET t == chat[c].target IN
    /\ chat[c].phase = "calling"
    /\ pools' = [pools EXCEPT ![t.provider] = Report(@, t.key, OutcomeOf(e), now)]
    /\ scorer' = [scorer EXCEPT ![t.provider] = Failed(c, @)]
    /\ Refused(c, t, e)
    /\ UNCHANGED <<now, affinity, cached, queue, leaked>>

\* Mutants: a request that is dropped keeps its place, or the lock.
PlaceKept(c) == queue
LockKept(c) == holder

\* The lock and its queue when the future of a request is dropped.
QueueWithout(c) ==
    LET places == {i \in DOMAIN queue : queue[i] = c}
    IN  IF places = {} THEN queue ELSE RemoveAt(queue, CHOOSE i \in places : TRUE)
HolderWithout(c) == IF holder = c THEN NoChat ELSE holder

\* The client closes the connection: the handler is dropped at its await,
\* with its place in the queue or with the lock and the upstream call.
Disconnect(c) ==
    /\ chat[c].phase \in {"queued", "calling"}
    /\ chat' = [chat EXCEPT ![c] = Over(c, "gone")]
    /\ queue' = QueueWithout(c)
    /\ holder' = HolderWithout(c)
    /\ leaked' = [p \in Provider |-> IF c \in InFlight(p) THEN leaked[p] + 1 ELSE leaked[p]]
    /\ UNCHANGED <<now, pools, scorer, affinity, cached>>

-----------------------------------------------------------------------------
(***************************************************************************)
(* A new engine.  The accounts are connections: a cooldown that has not    *)
(* run out comes back from the database, as do the scorer's totals.        *)
(***************************************************************************)
Rebuild ==
    /\ pools' = [p \in Provider |->
                  [FreshPool(p) EXCEPT !.accounts =
                     [i \in DOMAIN KeysIn[p] |->
                        NewAccount(KeysIn[p][i], KeysIn[p][i],
                          IF pools[p].accounts[i].cool > now THEN pools[p].accounts[i].cool ELSE 0)]]]
    /\ scorer' = [p \in Provider |-> [scorer[p] EXCEPT !.active = 0]]
    /\ leaked' = [p \in Provider |-> 0]

\* reload_accounts, when try_write gets the lock: nobody holds or awaits it.
Reload ==
    /\ holder = NoChat /\ queue = <<>>
    /\ Rebuild
    /\ UNCHANGED <<now, affinity, cached, holder, queue, chat>>

Restart ==
    /\ Rebuild
    /\ chat' = [c \in Chat |-> IF chat[c].phase \in {"queued", "routing", "calling"}
                               THEN Over(c, "gone") ELSE chat[c]]
    /\ holder' = NoChat
    /\ queue' = <<>>
    /\ UNCHANGED <<now, affinity, cached>>

\* cache_ttl is over, or an administrator clears the cache.
CacheExpire(r) ==
    /\ r \in cached
    /\ cached' = cached \ {r}
    /\ UNCHANGED <<now, pools, scorer, affinity, holder, queue, chat, leaked>>

Tick ==
    /\ now < MaxTime
    /\ now' = now + 1
    /\ UNCHANGED <<pools, scorer, affinity, cached, holder, queue, chat, leaked>>

Init ==
    /\ now = 0
    /\ pools = [p \in Provider |-> FreshPool(p)]
    /\ scorer = [p \in Provider |-> [active |-> 0, total |-> 0, failed |-> 0]]
    /\ affinity = [s \in Session |-> NoTarget]
    /\ cached = {}
    /\ holder = NoChat
    /\ queue = <<>>
    /\ chat = [c \in Chat |-> NewChat]
    /\ leaked = [p \in Provider |-> 0]

\* What the handler of chat c does on its own, and when the upstream returns.
Step(c) ==
    \/ CacheHit(c) \/ Begin(c)
    \/ RouteToAccount(c) \/ RouteWithoutKey(c) \/ RouteUnsupported(c) \/ RouteRefused(c)

Return(c) == Succeed(c) \/ \E e \in CallError : FailCall(c, e)

Next ==
    \/ \E c \in Chat : \/ \E r \in Request, s \in Session \cup {NoSession} : Arrive(c, r, s)
                       \/ Step(c)
                       \/ Return(c)
                       \/ Disconnect(c)
    \/ Reload
    \/ Restart
    \/ \E r \in Request : CacheExpire(r)
    \/ Tick

Spec == Init /\ [][Next]_vars

\* The runtime runs every task that can go on; every upstream call returns.
FairSpec ==
    /\ Spec
    /\ \A c \in Chat : WF_vars(Step(c)) /\ WF_vars(Return(c))

-----------------------------------------------------------------------------
TypeOK ==
    /\ now \in Nat
    /\ pools \in [Provider -> PoolOf(Key, Key)]
    /\ \A p \in Provider : HasPool(p) => pools[p].next_idx < Len(KeysIn[p])
    /\ scorer \in [Provider -> [active : Nat, total : Nat, failed : Nat]]
    /\ affinity \in [Session -> Target]
    /\ cached \in SUBSET Request
    /\ holder \in Chat \cup {NoChat}
    /\ queue \in Seq(Chat)
    /\ chat \in [Chat -> [phase : Phase, req : Request \cup {NoRequest},
                          session : Session \cup {NoSession}, order : Seq(Nat),
                          pref : Target, attempts : Seq(Attempt), target : Target]]
    /\ leaked \in [Provider -> Nat]

(***************************************************************************)
(* The lock and its queue account for every chat in progress: the holder   *)
(* is the one chat that routes or calls, the waiting chats are each queued *)
(* once, and no chat that has ended keeps the lock or a place.             *)
(***************************************************************************)
LockAccounted ==
    /\ \A c \in Chat : (chat[c].phase \in {"routing", "calling"}) <=> (holder = c)
    /\ \A c \in Chat : (chat[c].phase = "queued") <=> (\E i \in DOMAIN queue : queue[i] = c)
    /\ \A i, j \in DOMAIN queue : queue[i] = queue[j] => i = j

(***************************************************************************)
(* The engine keeps the promise to each client (execute, execute_stream):  *)
(* no candidate is tried twice, an answer comes from a candidate that has  *)
(* not refused, and the chat fails exactly when its candidates, or its     *)
(* max_attempts, are used up or an answer was unusable.                    *)
(***************************************************************************)
Promise == INSTANCE FallbackPromise WITH
    Candidates <- [r \in Request |-> DOMAIN ChainOf[r]],
    asked <- [c \in Chat |-> chat[c].req],
    refused <- [c \in Chat |->
        {chat[c].attempts[i].cand : i \in DOMAIN chat[c].attempts}],
    unusable <- [c \in Chat |->
        {chat[c].attempts[i].cand :
            i \in {j \in DOMAIN chat[c].attempts :
                     chat[c].attempts[j].error = "InvalidResponse"}}],
    verdict <- [c \in Chat |->
        CASE chat[c].phase \in {"new", "queued", "routing", "calling"} -> "pending"
          [] chat[c].phase = "gone" -> "left"
          [] OTHER -> chat[c].phase]

KeepsPromise == Promise!Spec

(***************************************************************************)
(* One chat does not return to an account that refused it, but for an auth *)
(* failure, before the account's cooldown is over: the later candidates of *)
(* the same provider are served by other accounts, or skipped.             *)
(***************************************************************************)
NoReturnWhileCooling ==
    \A c \in Chat : chat[c].phase = "calling" /\ chat[c].target.key # NoKey =>
        \A i \in DOMAIN chat[c].attempts :
            LET a == chat[c].attempts[i] IN
            a.target = chat[c].target /\ a.error # "AuthFailed" => now >= a.at + Cooldown

(***************************************************************************)
(* active_requests counts the plain calls in flight and, until the engine  *)
(* is rebuilt, those whose client left; nothing else.                      *)
(***************************************************************************)
ActiveExact ==
    \A p \in Provider : scorer[p].active = Cardinality(InFlight(p)) + leaked[p]

(***************************************************************************)
(* Every chat that waits for the engine is answered, fails or is left by   *)
(* its client: no path through the handler keeps the lock.                 *)
(***************************************************************************)
Answered ==
    \A c \in Chat : chat[c].phase = "queued" ~> chat[c].phase \in {"answered", "failed", "gone"}

=============================================================================
