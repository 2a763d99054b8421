--------------------------- MODULE FallbackProofs ---------------------------
(***************************************************************************)
(* Proofs about Fallback, for any number of chats, providers, candidates   *)
(* and accounts, and any order of their steps: who holds the engine's      *)
(* lock, what the counter of active requests counts, which accounts one    *)
(* chat returns to, and that the engine keeps the promise of               *)
(* FallbackPromise.                                                        *)
(***************************************************************************)
EXTENDS Fallback, FiniteSetTheorems, SequenceTheorems, TLAPS

ChatRecord == [phase : Phase, req : Request \cup {NoRequest},
               session : Session \cup {NoSession}, order : Seq(Nat),
               pref : Target, attempts : Seq(Attempt), target : Target]

Account == AccountOf(Key, Key)
Pool == PoolOf(Key, Key)

InLoop == {"routing", "calling"}

(***************************************************************************)
(* The inductive invariant.  The order of the candidates is a permutation  *)
(* of the chain, the attempts are its prefix, and a chat in the loop has a *)
(* candidate left; the accounts of a pool are the provider's keys, slot by *)
(* slot.                                                                   *)
(***************************************************************************)
ValidOrder(r, o) ==
    /\ o \in Seq(Nat)
    /\ Len(o) = Len(ChainOf[r])
    /\ \A i \in 1 .. Len(o) : o[i] \in 1 .. Len(o)
    /\ \A i, j \in 1 .. Len(o) : o[i] = o[j] => i = j

Looping(ch) ==
    LET n == Len(ch.attempts) IN
    /\ ValidOrder(ch.req, ch.order)
    /\ n < Len(ch.order) /\ n < MaxAttempts
    /\ \A i \in 1 .. n : ch.attempts[i].cand = ch.order[i]

ChatShape(ch) ==
    /\ (ch.phase = "new") <=> (ch.req = NoRequest)
    /\ ch.phase \in {"new", "queued"} => ch.attempts = <<>>
    /\ ch.phase \in InLoop => Looping(ch)
    /\ ch.phase = "calling" => ch.target.provider \in Provider

Keyed(p, pool) ==
    /\ Len(pool.accounts) = Len(KeysIn[p])
    /\ \A s \in 1 .. Len(KeysIn[p]) : pool.accounts[s].key = KeysIn[p][s]

InRange(p, pool) == HasPool(p) => pool.next_idx < Len(KeysIn[p])

PoolsOK ==
    /\ pools \in [Provider -> Pool]
    /\ \A p \in Provider : Keyed(p, pools[p]) /\ InRange(p, pools[p])

ChatsOK ==
    /\ chat \in [Chat -> ChatRecord]
    /\ \A c \in Chat : ChatShape(chat[c])

ScorerOK == scorer \in [Provider -> [active : Nat, total : Nat, failed : Nat]]

RestOK ==
    /\ now \in Nat
    /\ affinity \in [Session -> Target]
    /\ cached \in SUBSET Request
    /\ holder \in Chat \cup {NoChat}
    /\ queue \in Seq(Chat)
    /\ leaked \in [Provider -> Nat]

TInv == PoolsOK /\ ChatsOK /\ ScorerOK /\ RestOK

-----------------------------------------------------------------------------
(***************************************************************************)
(* The pools.                                                              *)
(***************************************************************************)
LEMMA FunctionIsSequence ==
    ASSUME NEW n \in Nat, NEW S, NEW f \in [1 .. n -> S]
    PROVE  f \in Seq(S) /\ Len(f) = n
BY SMT

LEMMA ModRange ==
    ASSUME NEW n \in Nat \ {0}, NEW s \in Nat
    PROVE  s % n \in 0 .. n - 1
BY SMT

LEMMA KeysFacts ==
    ASSUME NEW p \in Provider
    PROVE  /\ KeysIn[p] \in Seq(Key)
           /\ Len(KeysIn[p]) \in Nat
           /\ DOMAIN KeysIn[p] = 1 .. Len(KeysIn[p])
           /\ \A s \in 1 .. Len(KeysIn[p]) : KeysIn[p][s] \in Key
           /\ KeysIn[p] # <<>> => Len(KeysIn[p]) > 0
<1>1. KeysIn[p] \in Seq(Key)
  BY FallbackAssumption
<1> QED
  BY <1>1

LEMMA PoolFacts ==
    ASSUME NEW p \in Pool
    PROVE  /\ p.accounts \in Seq(Account)
           /\ Slots(p) = 1 .. Len(p.accounts)
           /\ Len(p.accounts) \in Nat
           /\ p.next_idx \in Nat
           /\ \A s \in Slots(p) : p.accounts[s] \in Account
BY DEF Pool, PoolOf, Slots, Account

LEMMA OutcomeType ==
    ASSUME NEW acc \in Account, NEW o \in Outcome, NEW n \in Nat
    PROVE  /\ AfterOutcome(acc, o, n) \in Account
           /\ AfterOutcome(acc, o, n).key = acc.key
<1>1. acc.errs + 1 \in Nat /\ n + Cooldown \in Nat /\ acc.enabled \in BOOLEAN
  BY PoolAssumption DEF Account, AccountOf
<1>2. CASE o = "Success"
  BY <1>2 DEF AfterOutcome, Account, AccountOf
<1>3. CASE o = "RateLimited"
  <2>1. AfterOutcome(acc, o, n) = [acc EXCEPT !.errs = acc.errs + 1, !.cool = n + Cooldown]
    BY <1>3 DEF AfterOutcome
  <2> QED
    BY <1>1, <2>1 DEF Account, AccountOf
<1>4. CASE o = "AuthFailed"
  <2> DEFINE e == acc.enabled /\ acc.errs + 1 < MaxAuthFailures
  <2>1. AfterOutcome(acc, o, n) = [acc EXCEPT !.errs = acc.errs + 1, !.enabled = e]
    BY <1>4 DEF AfterOutcome
  <2>2. e \in BOOLEAN
    OBVIOUS
  <2> HIDE DEF e
  <2> QED
    BY <1>1, <2>1, <2>2 DEF Account, AccountOf
<1> QED
  BY <1>2, <1>3, <1>4 DEF Outcome

\* A report changes one account at most, and no key.
LEMMA ReportType ==
    ASSUME NEW p \in Pool, NEW k \in Key \cup {NoKey}, NEW o \in Outcome, NEW n \in Nat
    PROVE  /\ Report(p, k, o, n) \in Pool
           /\ Len(Report(p, k, o, n).accounts) = Len(p.accounts)
           /\ Report(p, k, o, n).next_idx = p.next_idx
           /\ \A s \in Slots(p) :
                 /\ Report(p, k, o, n).accounts[s].key = p.accounts[s].key
                 /\ Report(p, k, o, n).accounts[s] =
                      IF s \in FirstWith(p, k) THEN AfterOutcome(p.accounts[s], o, n)
                                               ELSE p.accounts[s]
<1> DEFINE f == [s \in Slots(p) |-> IF s \in FirstWith(p, k)
                                    THEN AfterOutcome(p.accounts[s], o, n)
                                    ELSE p.accounts[s]]
<1>1. \A s \in Slots(p) : f[s] \in Account /\ f[s].key = p.accounts[s].key
  BY PoolFacts, OutcomeType
<1>2. f \in [1 .. Len(p.accounts) -> Account]
  BY PoolFacts, <1>1
<1>3. f \in Seq(Account) /\ Len(f) = Len(p.accounts)
  BY PoolFacts, <1>2, FunctionIsSequence
<1>4. Report(p, k, o, n) = [p EXCEPT !.accounts = f]
  BY DEF Report
<1>5. \A s \in Slots(p) : f[s] = IF s \in FirstWith(p, k) THEN AfterOutcome(p.accounts[s], o, n)
                                 ELSE p.accounts[s]
  OBVIOUS
<1> HIDE DEF f
<1>6. /\ Report(p, k, o, n).accounts = f
      /\ Report(p, k, o, n).next_idx = p.next_idx
      /\ Report(p, k, o, n) \in Pool
  BY <1>3, <1>4 DEF Pool, PoolOf, Account
<1> QED
  BY <1>1, <1>3, <1>5, <1>6

LEMMA AdvanceType ==
    ASSUME NEW p \in Pool, NEW s \in Slots(p)
    PROVE  /\ Advance(p, s) \in Pool
           /\ Advance(p, s).accounts = p.accounts
           /\ Advance(p, s).next_idx < Len(p.accounts)
<1>1. /\ Len(p.accounts) \in Nat \ {0}
      /\ s \in Nat
  BY PoolFacts
<1>2. s % Len(p.accounts) \in 0 .. Len(p.accounts) - 1
  BY <1>1, ModRange
<1> QED
  BY <1>1, <1>2 DEF Pool, PoolOf, Advance

\* What the rotation picks is a slot of an available account.
LEMMA PickedIsAvailable ==
    ASSUME NEW p, NEW k, NEW n, NEW s \in RoutePrefer(p, k, n)
    PROVE  s \in Slots(p) /\ Available(p.accounts[s], n)
BY DEF RoutePrefer, PreferKey, NextKey

LEMMA FreshPoolType ==
    ASSUME NEW p \in Provider, NEW cool \in [1 .. Len(KeysIn[p]) -> Nat],
           NEW pool, pool = [accounts |-> [i \in DOMAIN KeysIn[p] |->
                                NewAccount(KeysIn[p][i], KeysIn[p][i], cool[i])],
                             next_idx |-> 0]
    PROVE  pool \in Pool /\ Keyed(p, pool) /\ pool.next_idx = 0
<1> DEFINE f == [i \in DOMAIN KeysIn[p] |-> NewAccount(KeysIn[p][i], KeysIn[p][i], cool[i])]
<1>1. f \in [1 .. Len(KeysIn[p]) -> Account]
  BY KeysFacts DEF NewAccount, Account, AccountOf
<1>2. f \in Seq(Account) /\ Len(f) = Len(KeysIn[p])
  BY <1>1, KeysFacts, FunctionIsSequence
<1>3. \A s \in 1 .. Len(KeysIn[p]) : f[s].key = KeysIn[p][s]
  BY KeysFacts DEF NewAccount
<1> HIDE DEF f
<1>4. pool = [accounts |-> f, next_idx |-> 0]
  BY DEF f
<1> QED
  BY <1>2, <1>3, <1>4 DEF Pool, PoolOf, Account, Keyed

LEMMA FreshPoolsTyped ==
    ASSUME NEW p \in Provider
    PROVE  FreshPool(p) \in Pool /\ Keyed(p, FreshPool(p)) /\ FreshPool(p).next_idx = 0
<1> DEFINE cool == [i \in 1 .. Len(KeysIn[p]) |-> 0]
<1>1. cool \in [1 .. Len(KeysIn[p]) -> Nat]
  OBVIOUS
<1>2. FreshPool(p) = [accounts |-> [i \in DOMAIN KeysIn[p] |->
                                      NewAccount(KeysIn[p][i], KeysIn[p][i], cool[i])],
                      next_idx |-> 0]
  BY KeysFacts DEF FreshPool
<1> HIDE DEF cool
<1> QED
  BY <1>1, <1>2, FreshPoolType

LEMMA PoolUpdate ==
    ASSUME PoolsOK, NEW p, NEW q,
           p \in Provider => q \in Pool /\ Keyed(p, q) /\ InRange(p, q),
           pools' = [pools EXCEPT ![p] = q]
    PROVE  PoolsOK'
BY DEF PoolsOK, Keyed, InRange, HasPool

LEMMA AdvancedPool ==
    ASSUME PoolsOK, NEW p \in Provider, NEW k, HasPool(p),
           NEW s \in RoutePrefer(pools[p], k, now)
    PROVE  LET q == Advance(pools[p], s) IN q \in Pool /\ Keyed(p, q) /\ InRange(p, q)
<1>1. pools[p] \in Pool /\ s \in Slots(pools[p])
  BY PickedIsAvailable DEF PoolsOK
<1> QED
  BY <1>1, AdvanceType DEF PoolsOK, Keyed, InRange

LEMMA ReportedPool ==
    ASSUME NEW p \in Provider, NEW pool \in Pool, Keyed(p, pool), InRange(p, pool),
           NEW k \in Key \cup {NoKey}, NEW o \in Outcome, NEW n \in Nat
    PROVE  LET q == Report(pool, k, o, n) IN q \in Pool /\ Keyed(p, q) /\ InRange(p, q)
<1> DEFINE q == Report(pool, k, o, n)
<1>1. Slots(pool) = 1 .. Len(KeysIn[p])
  BY PoolFacts DEF Keyed
<1>2. /\ q \in Pool
      /\ Len(q.accounts) = Len(pool.accounts)
      /\ q.next_idx = pool.next_idx
      /\ \A s \in Slots(pool) : q.accounts[s].key = pool.accounts[s].key
  BY ReportType
<1> HIDE DEF q
<1>3. q \in Pool /\ Keyed(p, q) /\ InRange(p, q)
  BY <1>1, <1>2 DEF Keyed, InRange
<1> QED
  BY <1>3 DEF q

\* After a reload or a restart the pools are the provider's keys again.
LEMMA RebuiltPools ==
    ASSUME PoolsOK, now \in Nat, Rebuild
    PROVE  PoolsOK'
<1> DEFINE cool(p) == [i \in 1 .. Len(KeysIn[p]) |->
                         IF pools[p].accounts[i].cool > now
                         THEN pools[p].accounts[i].cool ELSE 0]
           pool(p) == [accounts |-> [i \in DOMAIN KeysIn[p] |->
                                       NewAccount(KeysIn[p][i], KeysIn[p][i], cool(p)[i])],
                       next_idx |-> 0]
<1>1. pools' = [p \in Provider |-> pool(p)]
  <2>1. ASSUME NEW p \in Provider
        PROVE  [i \in DOMAIN KeysIn[p] |->
                  NewAccount(KeysIn[p][i], KeysIn[p][i],
                    IF pools[p].accounts[i].cool > now THEN pools[p].accounts[i].cool ELSE 0)]
               = [i \in DOMAIN KeysIn[p] |-> NewAccount(KeysIn[p][i], KeysIn[p][i], cool(p)[i])]
    <3>1. \A i \in DOMAIN KeysIn[p] :
             cool(p)[i] = IF pools[p].accounts[i].cool > now THEN pools[p].accounts[i].cool ELSE 0
      BY KeysFacts
    <3> HIDE DEF cool
    <3> QED
      BY <3>1
  <2>2. \A a, f : [[accounts |-> a, next_idx |-> 0] EXCEPT !.accounts = f]
                  = [accounts |-> f, next_idx |-> 0]
    OBVIOUS
  <2>3. pools' = [p \in Provider |->
           [accounts |-> [i \in DOMAIN KeysIn[p] |->
              NewAccount(KeysIn[p][i], KeysIn[p][i],
                IF pools[p].accounts[i].cool > now THEN pools[p].accounts[i].cool ELSE 0)],
            next_idx |-> 0]]
    BY <2>2 DEF Rebuild, FreshPool
  <2> QED
    BY <2>1, <2>3
<1>2. \A p \in Provider : cool(p) \in [1 .. Len(KeysIn[p]) -> Nat]
  <2> SUFFICES ASSUME NEW p \in Provider, NEW i \in 1 .. Len(KeysIn[p])
               PROVE  pools[p].accounts[i].cool \in Nat
    OBVIOUS
  <2>1. pools[p] \in Pool /\ i \in Slots(pools[p])
    BY PoolFacts DEF PoolsOK, Keyed
  <2> QED
    BY <2>1, PoolFacts DEF Account, AccountOf
<1>3. \A p \in Provider : pool(p) \in Pool /\ Keyed(p, pool(p)) /\ pool(p).next_idx = 0
  BY <1>2, FreshPoolType
<1> HIDE DEF pool
<1> QED
  BY <1>1, <1>3, KeysFacts DEF PoolsOK, InRange, HasPool, Keyed

-----------------------------------------------------------------------------
(***************************************************************************)
(* The candidates of a chat.                                               *)
(***************************************************************************)
LEMMA ChainFacts ==
    ASSUME NEW r \in Request
    PROVE  /\ Len(ChainOf[r]) \in Nat \ {0}
           /\ DOMAIN ChainOf[r] = 1 .. Len(ChainOf[r])
           /\ \A i \in 1 .. Len(ChainOf[r]) : ChainOf[r][i] \in Provider \cup {NoProvider}
<1>1. ChainOf[r] \in Seq(Provider \cup {NoProvider}) /\ ChainOf[r] # <<>>
  BY FallbackAssumption
<1> QED
  BY <1>1

\* score_order leaves no candidate out and names none twice.
LEMMA OrdersValid ==
    ASSUME NEW r \in Request, NEW o \in ScoreOrders[r]
    PROVE  ValidOrder(r, o)
<1> DEFINE n == Len(ChainOf[r])
<1>1. n \in Nat /\ DOMAIN ChainOf[r] = 1 .. n
  BY ChainFacts
<1>2. o \in SetToSeqs(1 .. n)
  BY <1>1 DEF ScoreOrders
<1>3. Cardinality(1 .. n) = n
  BY <1>1, FS_Interval
<1>4. o \in [1 .. n -> 1 .. n] /\ \A i, j \in 1 .. n : i # j => o[i] # o[j]
  BY <1>2, <1>3 DEF SetToSeqs
<1>5. 1 .. n \subseteq Nat
  BY <1>1
<1>6. o \in [1 .. n -> Nat]
  BY <1>4, <1>5
<1>7. o \in Seq(Nat) /\ Len(o) = n
  BY <1>1, <1>6, FunctionIsSequence
<1> QED
  BY <1>4, <1>7 DEF ValidOrder

LEMMA CandidateFacts ==
    ASSUME ChatsOK, NEW c \in Chat, chat[c].phase \in InLoop
    PROVE  /\ chat[c].req \in Request
           /\ chat[c].attempts \in Seq(Attempt)
           /\ Len(chat[c].attempts) \in Nat
           /\ Looping(chat[c])
           /\ Candidate(c) = chat[c].order[Len(chat[c].attempts) + 1]
           /\ Candidate(c) \in 1 .. Len(ChainOf[chat[c].req])
           /\ Candidate(c) \in Nat
           /\ Resolved(c) \in Provider \cup {NoProvider}
<1>1. chat[c] \in ChatRecord /\ ChatShape(chat[c])
  BY DEF ChatsOK
<1>2. /\ chat[c].req \in Request
      /\ chat[c].attempts \in Seq(Attempt)
      /\ Looping(chat[c])
  BY <1>1 DEF ChatRecord, ChatShape, InLoop
<1>3. Len(chat[c].attempts) \in Nat
  BY <1>2
<1>4. Candidate(c) = chat[c].order[Len(chat[c].attempts) + 1]
  BY DEF Candidate
<1>5. Len(chat[c].attempts) + 1 \in 1 .. Len(ChainOf[chat[c].req])
  BY <1>2, <1>3, ChainFacts DEF Looping, ValidOrder
<1>6. Candidate(c) \in 1 .. Len(ChainOf[chat[c].req])
  BY <1>2, <1>4, <1>5 DEF Looping, ValidOrder
<1>7. Candidate(c) \in Nat
  BY <1>2, <1>6, ChainFacts
<1> QED
  BY <1>2, <1>3, <1>4, <1>6, <1>7, ChainFacts DEF Resolved

LEMMA ChatUpdate ==
    ASSUME ChatsOK, NEW c \in Chat, NEW x \in ChatRecord, ChatShape(x),
           chat' = [chat EXCEPT ![c] = x]
    PROVE  ChatsOK'
BY DEF ChatsOK, ChatShape

LEMMA NoTargetType == NoTarget \in Target
BY DEF NoTarget, Target

LEMMA NewChatType == NewChat \in ChatRecord /\ ChatShape(NewChat)
BY NoTargetType DEF NewChat, ChatRecord, ChatShape, Phase, InLoop

\* A chat that is over keeps its request and its attempts.
LEMMA OverFacts ==
    ASSUME ChatsOK, NEW c \in Chat, chat[c].phase # "new",
           NEW ph \in {"answered", "failed", "gone"}
    PROVE  /\ Over(c, ph) \in ChatRecord
           /\ ChatShape(Over(c, ph))
           /\ Over(c, ph) = [phase |-> ph, req |-> chat[c].req, session |-> NoSession,
                             order |-> <<>>, pref |-> NoTarget,
                             attempts |-> chat[c].attempts, target |-> NoTarget]
<1> DEFINE x == [phase |-> ph, req |-> chat[c].req, session |-> NoSession,
                 order |-> <<>>, pref |-> NoTarget,
                 attempts |-> chat[c].attempts, target |-> NoTarget]
<1>1. Over(c, ph) = x
  <2> DEFINE y == [NewChat EXCEPT !.phase = ph, !.req = chat[c].req, !.attempts = chat[c].attempts]
  <2>1. chat[c].req \in Request \cup {NoRequest} /\ chat[c].attempts \in Seq(Attempt)
    BY DEF ChatsOK, ChatRecord
  <2>2. /\ y \in ChatRecord
        /\ y.phase = ph /\ y.req = chat[c].req /\ y.attempts = chat[c].attempts
        /\ y.session = NewChat.session /\ y.order = NewChat.order
        /\ y.pref = NewChat.pref /\ y.target = NewChat.target
    BY <2>1, NewChatType DEF ChatRecord, Phase
  <2> HIDE DEF y
  <2>3. y = [phase |-> y.phase, req |-> y.req, session |-> y.session, order |-> y.order,
             pref |-> y.pref, attempts |-> y.attempts, target |-> y.target]
    BY <2>2 DEF ChatRecord
  <2>4. y = x
    BY <2>2, <2>3 DEF NewChat
  <2> QED
    BY <2>4 DEF Over, y
<1>2. chat[c] \in ChatRecord /\ ChatShape(chat[c])
  BY DEF ChatsOK
<1>3. x \in ChatRecord
  BY <1>2, NoTargetType DEF ChatRecord, Phase
<1>4. ChatShape(x)
  BY <1>2 DEF ChatShape, InLoop
<1> QED
  BY <1>1, <1>3, <1>4

(***************************************************************************)
(* What a refusal does to its chat: it is over, or it goes on with one     *)
(* attempt more, and then it has a candidate left.                         *)
(***************************************************************************)
TheAttempt(c, target, e) == [cand |-> Candidate(c), target |-> target, error |-> e, at |-> now]

LEMMA RefusedFacts ==
    ASSUME ChatsOK, now \in Nat, NEW c \in Chat, chat[c].phase \in InLoop,
           NEW target \in Target, NEW e \in CallError \cup {"Unsupported"},
           Refused(c, target, e)
    PROVE  /\ ChatsOK'
           /\ \A d \in Chat : d # c => chat'[d] = chat[d]
           /\ chat'[c].req = chat[c].req
           /\ chat'[c].attempts = Append(chat[c].attempts, TheAttempt(c, target, e))
           /\ \/ /\ chat'[c].phase = "routing"
                 /\ holder' = c
                 /\ ~ Exhausted(c, Len(chat[c].attempts) + 1)
              \/ /\ chat'[c].phase = "failed"
                 /\ holder' = NoChat
                 /\ Exhausted(c, Len(chat[c].attempts) + 1) \/ e = "InvalidResponse"
<1> DEFINE ch == chat[c]
           atts == Append(ch.attempts, TheAttempt(c, target, e))
           over == \/ Exhausted(c, Len(atts))
                   \/ ~ Streams(c) /\ ~ ShouldFallback(e)
           failed == [phase |-> "failed", req |-> ch.req, session |-> NoSession,
                      order |-> <<>>, pref |-> NoTarget, attempts |-> atts,
                      target |-> NoTarget]
           next == [phase |-> "routing", req |-> ch.req, session |-> ch.session,
                    order |-> ch.order, pref |-> ch.pref, attempts |-> atts,
                    target |-> NoTarget]
<1>1. ch \in ChatRecord /\ ChatShape(ch) /\ ch.phase # "new" /\ ch.req \in Request
  BY CandidateFacts DEF ChatsOK, InLoop
<1>2. TheAttempt(c, target, e) \in Attempt
  BY CandidateFacts DEF TheAttempt, Attempt
<1>3. atts \in Seq(Attempt) /\ Len(atts) = Len(ch.attempts) + 1
  BY <1>2, CandidateFacts
<1>4. chat' = [chat EXCEPT ![c] = IF over THEN failed ELSE next]
  <2>1. [Over(c, "failed") EXCEPT !.attempts = atts] = failed
    <3>1. Over(c, "failed") = [phase |-> "failed", req |-> ch.req, session |-> NoSession,
                               order |-> <<>>, pref |-> NoTarget,
                               attempts |-> ch.attempts, target |-> NoTarget]
      BY <1>1, OverFacts
    <3> HIDE DEF atts
    <3> QED
      BY <3>1
  <2>2. [[ch EXCEPT !.phase = "routing", !.target = NoTarget] EXCEPT !.attempts = atts] = next
    <3> DEFINE y == [ch EXCEPT !.phase = "routing", !.target = NoTarget]
    <3>1. /\ y \in ChatRecord
          /\ y.phase = "routing" /\ y.target = NoTarget
          /\ y.req = ch.req /\ y.session = ch.session /\ y.order = ch.order /\ y.pref = ch.pref
      BY <1>1, NoTargetType DEF ChatRecord, Phase
    <3> HIDE DEF y, atts
    <3>2. [y EXCEPT !.attempts = atts]
          = [phase |-> y.phase, req |-> y.req, session |-> y.session, order |-> y.order,
             pref |-> y.pref, attempts |-> atts, target |-> y.target]
      BY <3>1 DEF ChatRecord
    <3>3. [y EXCEPT !.attempts = atts] = next
      BY <3>1, <3>2
    <3> QED
      BY <3>3 DEF y
  <2>3. chat' = [chat EXCEPT ![c] =
                  [(IF over THEN Over(c, "failed")
                    ELSE [ch EXCEPT !.phase = "routing", !.target = NoTarget])
                   EXCEPT !.attempts = atts]]
    BY DEF Refused, TheAttempt
  <2> HIDE DEF atts, over, failed, next
  <2> QED
    BY <2>1, <2>2, <2>3
<1>5. holder' = IF over THEN NoChat ELSE c
  BY DEF Refused, TheAttempt
<1>6. failed \in ChatRecord /\ ChatShape(failed)
  <2> HIDE DEF atts
  <2>1. failed \in ChatRecord
    BY <1>1, <1>3, NoTargetType DEF ChatRecord, Phase
  <2>2. ChatShape(failed)
    BY <1>1 DEF ChatShape, InLoop
  <2> QED
    BY <2>1, <2>2
<1>7. ASSUME ~ over PROVE next \in ChatRecord /\ ChatShape(next)
  <2>1. next \in ChatRecord
    <3> HIDE DEF atts
    <3> QED
      BY <1>1, <1>3, NoTargetType DEF ChatRecord, Phase
  <2>2. Len(atts) < Len(ch.order) /\ Len(atts) < MaxAttempts
    <3>1. Len(ch.attempts) < Len(ch.order) /\ Len(ch.attempts) < MaxAttempts
      BY CandidateFacts DEF Looping
    <3>2. Len(ch.order) \in Nat /\ MaxAttempts \in Nat /\ Len(ch.attempts) \in Nat
      BY CandidateFacts, FallbackAssumption DEF Looping, ValidOrder
    <3>3. Len(atts) # Len(ch.order) /\ ~ (Len(atts) >= MaxAttempts)
      BY <1>7 DEF Exhausted
    <3> QED
      BY <1>3, <3>1, <3>2, <3>3
  <2>3. \A i \in 1 .. Len(atts) : atts[i].cand = ch.order[i]
    <3> SUFFICES ASSUME NEW i \in 1 .. Len(atts) PROVE atts[i].cand = ch.order[i]
      OBVIOUS
    <3>1. CASE i \in 1 .. Len(ch.attempts)
      BY <3>1, CandidateFacts DEF Looping
    <3>2. CASE i = Len(ch.attempts) + 1
      BY <3>2, CandidateFacts DEF TheAttempt
    <3> QED
      BY <1>3, <3>1, <3>2, CandidateFacts
  <2>4. Looping(next)
    <3>1. ValidOrder(ch.req, ch.order)
      BY CandidateFacts DEF Looping
    <3> HIDE DEF atts
    <3> QED
      BY <2>2, <2>3, <3>1 DEF Looping
  <2> HIDE DEF atts
  <2> QED
    BY <1>1, <2>1, <2>4 DEF ChatShape
<1>8. ChatsOK'
  <2> HIDE DEF atts, over, failed, next
  <2> QED
    BY <1>4, <1>6, <1>7, ChatUpdate
<1>9. chat'[c] = IF over THEN failed ELSE next
  BY <1>1, <1>4 DEF ChatsOK
<1>10. \A d \in Chat : d # c => chat'[d] = chat[d]
  BY <1>4 DEF ChatsOK
<1>11. over => Exhausted(c, Len(ch.attempts) + 1) \/ e = "InvalidResponse"
  BY <1>3 DEF ShouldFallback
<1>12. ~ over => ~ Exhausted(c, Len(ch.attempts) + 1)
  BY <1>3
<1>13. /\ chat'[c].req = ch.req
       /\ chat'[c].attempts = atts
       /\ over => chat'[c].phase = "failed"
       /\ ~ over => chat'[c].phase = "routing"
  BY <1>9
<1> HIDE DEF atts, over, failed, next
<1>14. /\ over => holder' = NoChat
       /\ ~ over => holder' = c
  BY <1>5
<1> QED
  BY <1>8, <1>10, <1>11, <1>12, <1>13, <1>14 DEF atts

\* What sending a chat's candidate to an account does to the chat.
LEMMA CallFacts ==
    ASSUME ChatsOK, NEW c \in Chat, chat[c].phase = "routing",
           NEW p \in Provider, NEW k \in Key \cup {NoKey}, Call(c, p, k)
    PROVE  /\ ChatsOK'
           /\ \A d \in Chat : d # c => chat'[d] = chat[d]
           /\ chat'[c].phase = "calling"
           /\ chat'[c].target = [provider |-> p, key |-> k]
           /\ chat'[c].req = chat[c].req
           /\ chat'[c].attempts = chat[c].attempts
<1> DEFINE ch == chat[c]
           t == [provider |-> p, key |-> k]
           x == [ch EXCEPT !.phase = "calling", !.target = t]
<1>1. ch \in ChatRecord /\ ChatShape(ch) /\ Looping(ch)
  BY CandidateFacts DEF ChatsOK, InLoop
<1>2. t \in Target /\ t.provider = p
  BY DEF Target
<1>3. chat' = [chat EXCEPT ![c] = x]
  BY DEF Call
<1> HIDE DEF t
<1>4. /\ x \in ChatRecord
      /\ x.phase = "calling" /\ x.target = t
      /\ x.req = ch.req /\ x.order = ch.order /\ x.attempts = ch.attempts
  BY <1>1, <1>2 DEF ChatRecord, Phase
<1> HIDE DEF x
<1>5. Looping(x)
  BY <1>1, <1>4 DEF Looping
<1>6. ChatShape(x)
  BY <1>1, <1>2, <1>4, <1>5 DEF ChatShape
<1>7. ChatsOK'
  BY <1>3, <1>4, <1>6, ChatUpdate
<1>8. chat'[c] = x /\ \A d \in Chat : d # c => chat'[d] = chat[d]
  BY <1>3 DEF ChatsOK
<1> QED
  BY <1>4, <1>7, <1>8 DEF t

LEMMA EndFacts ==
    ASSUME ChatsOK, NEW c \in Chat, chat[c].phase # "new",
           NEW ph \in {"answered", "failed", "gone"},
           chat' = [chat EXCEPT ![c] = Over(c, ph)]
    PROVE  /\ ChatsOK'
           /\ \A d \in Chat : d # c => chat'[d] = chat[d]
           /\ chat'[c].phase = ph
           /\ chat'[c].req = chat[c].req
           /\ chat'[c].attempts = chat[c].attempts
<1>1. ChatsOK'
  BY OverFacts, ChatUpdate
<1>2. chat'[c] = Over(c, ph) /\ \A d \in Chat : d # c => chat'[d] = chat[d]
  BY DEF ChatsOK
<1> QED
  BY <1>1, <1>2, OverFacts

LEMMA ArriveFacts ==
    ASSUME ChatsOK, NEW c \in Chat, NEW r \in Request, NEW s \in Session \cup {NoSession},
           Arrive(c, r, s)
    PROVE  /\ ChatsOK'
           /\ \A d \in Chat : d # c => chat'[d] = chat[d]
           /\ chat[c].attempts = <<>>
           /\ chat'[c].phase = "queued"
           /\ chat'[c].req = r
           /\ chat'[c].attempts = <<>>
<1> DEFINE ch == chat[c]
           x == [ch EXCEPT !.phase = "queued", !.req = r, !.session = s]
<1>1. ch \in ChatRecord /\ ChatShape(ch) /\ ch.attempts = <<>>
  BY DEF ChatsOK, Arrive, ChatShape
<1>2. chat' = [chat EXCEPT ![c] = x]
  BY DEF Arrive
<1>3. /\ x \in ChatRecord
      /\ x.phase = "queued" /\ x.req = r /\ x.attempts = <<>>
  BY <1>1 DEF ChatRecord, Phase
<1> HIDE DEF x
<1>4. ChatShape(x)
  BY <1>3, FallbackAssumption DEF ChatShape, InLoop
<1>5. ChatsOK'
  BY <1>2, <1>3, <1>4, ChatUpdate
<1>6. chat'[c] = x /\ \A d \in Chat : d # c => chat'[d] = chat[d]
  BY <1>2 DEF ChatsOK
<1> QED
  BY <1>1, <1>3, <1>5, <1>6

LEMMA BeginFacts ==
    ASSUME ChatsOK, affinity \in [Session -> Target], NEW c \in Chat,
           chat[c].phase = "queued", Begin(c)
    PROVE  /\ ChatsOK'
           /\ \A d \in Chat : d # c => chat'[d] = chat[d]
           /\ chat'[c].phase = "routing"
           /\ chat'[c].req = chat[c].req
           /\ chat[c].attempts = <<>>
           /\ chat'[c].attempts = <<>>
<1> DEFINE ch == chat[c]
           q == IF ch.session = NoSession THEN NoTarget ELSE affinity[ch.session]
<1>1. PICK o \in ScoreOrders[ch.req] :
         chat' = [chat EXCEPT ![c] = [ch EXCEPT !.phase = "routing", !.order = o, !.pref = q]]
  BY DEF Begin
<1> DEFINE x == [ch EXCEPT !.phase = "routing", !.order = o, !.pref = q]
<1>2. /\ ch \in ChatRecord /\ ChatShape(ch) /\ ch.attempts = <<>>
      /\ ch.req \in Request /\ ch.session \in Session \cup {NoSession}
  BY DEF ChatsOK, ChatShape, ChatRecord
<1>3. q \in Target
  BY <1>2, NoTargetType
<1>4. ValidOrder(ch.req, o) /\ o \in Seq(Nat)
  BY <1>2, OrdersValid DEF ValidOrder
<1> HIDE DEF q
<1>5. /\ x \in ChatRecord
      /\ x.phase = "routing" /\ x.req = ch.req /\ x.attempts = <<>> /\ x.order = o
  BY <1>2, <1>3, <1>4 DEF ChatRecord, Phase
<1>6. chat' = [chat EXCEPT ![c] = x]
  BY <1>1
<1> HIDE DEF x
<1>7. Looping(x)
  <2>1. Len(<<>>) = 0 /\ Len(x.order) \in Nat \ {0}
    BY <1>2, <1>4, <1>5, ChainFacts DEF ValidOrder
  <2> QED
    BY <1>4, <1>5, <2>1, FallbackAssumption DEF Looping
<1>8. ChatShape(x)
  BY <1>2, <1>5, <1>7, FallbackAssumption DEF ChatShape, InLoop
<1>9. ChatsOK'
  BY <1>5, <1>6, <1>8, ChatUpdate
<1>10. chat'[c] = x /\ \A d \in Chat : d # c => chat'[d] = chat[d]
  BY <1>6 DEF ChatsOK
<1> QED
  BY <1>2, <1>5, <1>9, <1>10

LEMMA RestartFacts ==
    ASSUME ChatsOK, Restart
    PROVE  /\ ChatsOK'
           /\ \A c \in Chat :
                /\ chat'[c].req = chat[c].req
                /\ chat'[c].attempts = chat[c].attempts
                /\ chat'[c].phase = IF chat[c].phase \in {"queued", "routing", "calling"}
                                    THEN "gone" ELSE chat[c].phase
<1> DEFINE In(c) == chat[c].phase \in {"queued", "routing", "calling"}
<1>1. chat' = [c \in Chat |-> IF In(c) THEN Over(c, "gone") ELSE chat[c]]
  BY DEF Restart
<1>2. \A c \in Chat : In(c) =>
        /\ Over(c, "gone") \in ChatRecord
        /\ ChatShape(Over(c, "gone"))
        /\ Over(c, "gone").req = chat[c].req
        /\ Over(c, "gone").attempts = chat[c].attempts
        /\ Over(c, "gone").phase = "gone"
  <2> SUFFICES ASSUME NEW c \in Chat, In(c)
               PROVE  /\ Over(c, "gone") \in ChatRecord
                      /\ ChatShape(Over(c, "gone"))
                      /\ Over(c, "gone").req = chat[c].req
                      /\ Over(c, "gone").attempts = chat[c].attempts
                      /\ Over(c, "gone").phase = "gone"
    OBVIOUS
  <2>1. chat[c].phase # "new"
    OBVIOUS
  <2> QED
    BY <2>1, OverFacts
<1>3. \A c \in Chat : chat[c] \in ChatRecord /\ ChatShape(chat[c])
  BY DEF ChatsOK
<1>4. \A c \in Chat : chat'[c] = IF In(c) THEN Over(c, "gone") ELSE chat[c]
  BY <1>1
<1>5. chat' \in [Chat -> ChatRecord] /\ \A c \in Chat : ChatShape(chat'[c])
  BY <1>1, <1>2, <1>3
<1>6. ChatsOK'
  BY <1>5 DEF ChatsOK, ChatShape, Looping
<1> QED
  BY <1>2, <1>4, <1>6

-----------------------------------------------------------------------------
(***************************************************************************)
(* The queue of the lock: who is in it, and that nobody is in it twice.    *)
(***************************************************************************)
Waits(q, c) == \E i \in DOMAIN q : q[i] = c

OnceEach(q) == \A i, j \in DOMAIN q : q[i] = q[j] => i = j

LEMMA JoinedQueue ==
    ASSUME NEW q \in Seq(Chat), NEW c \in Chat, OnceEach(q), ~ Waits(q, c)
    PROVE  /\ Append(q, c) \in Seq(Chat)
           /\ OnceEach(Append(q, c))
           /\ \A d \in Chat : Waits(Append(q, c), d) <=> Waits(q, d) \/ d = c
<1>1. /\ Append(q, c) \in Seq(Chat)
      /\ Len(Append(q, c)) = Len(q) + 1
      /\ \A i \in 1 .. Len(q) : Append(q, c)[i] = q[i]
      /\ Append(q, c)[Len(q) + 1] = c
      /\ Len(q) \in Nat
      /\ DOMAIN q = 1 .. Len(q)
      /\ DOMAIN Append(q, c) = 1 .. Len(q) + 1
  OBVIOUS
<1>2. OnceEach(Append(q, c))
  BY <1>1 DEF OnceEach, Waits
<1>3. \A d \in Chat : Waits(Append(q, c), d) <=> Waits(q, d) \/ d = c
  BY <1>1 DEF Waits
<1> QED
  BY <1>1, <1>2, <1>3

LEMMA ServedQueue ==
    ASSUME NEW q \in Seq(Chat), q # <<>>, OnceEach(q)
    PROVE  /\ Head(q) \in Chat
           /\ Waits(q, Head(q))
           /\ Tail(q) \in Seq(Chat)
           /\ OnceEach(Tail(q))
           /\ \A d \in Chat : Waits(Tail(q), d) <=> Waits(q, d) /\ d # Head(q)
<1>1. /\ Head(q) = q[1] /\ Head(q) \in Chat
      /\ Tail(q) \in Seq(Chat)
      /\ Len(q) \in Nat \ {0}
      /\ DOMAIN q = 1 .. Len(q)
      /\ DOMAIN Tail(q) = 1 .. Len(q) - 1
      /\ \A i \in 1 .. Len(q) - 1 : Tail(q)[i] = q[i + 1]
  OBVIOUS
<1>2. OnceEach(Tail(q))
  BY <1>1 DEF OnceEach
<1>3. ASSUME NEW d \in Chat
      PROVE  Waits(Tail(q), d) <=> Waits(q, d) /\ d # Head(q)
  <2>1. ASSUME Waits(Tail(q), d) PROVE Waits(q, d) /\ d # Head(q)
    <3>1. PICK i \in 1 .. Len(q) - 1 : q[i + 1] = d
      BY <1>1, <2>1 DEF Waits
    <3>2. i + 1 \in DOMAIN q /\ 1 \in DOMAIN q /\ i + 1 # 1
      BY <1>1
    <3> QED
      BY <1>1, <3>1, <3>2 DEF Waits, OnceEach
  <2>2. ASSUME Waits(q, d), d # Head(q) PROVE Waits(Tail(q), d)
    <3>1. PICK i \in 1 .. Len(q) : q[i] = d
      BY <1>1, <2>2 DEF Waits
    <3>2. i - 1 \in 1 .. Len(q) - 1 /\ Tail(q)[i - 1] = q[(i - 1) + 1] /\ (i - 1) + 1 = i
      BY <1>1, <2>2, <3>1
    <3> QED
      BY <1>1, <3>1, <3>2 DEF Waits
  <2> QED
    BY <2>1, <2>2
<1>4. Waits(q, Head(q))
  BY <1>1 DEF Waits
<1> QED
  BY <1>1, <1>2, <1>3, <1>4

LEMMA Behind ==
    ASSUME NEW A, NEW a \in Seq(A), NEW b \in Seq(A), NEW i \in 1 .. Len(b)
    PROVE  (a \o b)[Len(a) + i] = b[i]
OBVIOUS

LEMMA LeftQueue ==
    ASSUME queue \in Seq(Chat), OnceEach(queue), NEW c \in Chat
    PROVE  /\ QueueWithout(c) \in Seq(Chat)
           /\ OnceEach(QueueWithout(c))
           /\ \A d \in Chat : Waits(QueueWithout(c), d) <=> Waits(queue, d) /\ d # c
<1> DEFINE places == {i \in DOMAIN queue : queue[i] = c}
<1>1. CASE places = {}
  BY <1>1 DEF QueueWithout, Waits
<1>2. CASE places # {}
  <2> DEFINE n == CHOOSE i \in places : TRUE
             q == SubSeq(queue, 1, n - 1) \o SubSeq(queue, n + 1, Len(queue))
  <2>1. n \in DOMAIN queue /\ queue[n] = c
    BY <1>2
  <2>2. QueueWithout(c) = q
    BY <1>2 DEF QueueWithout, RemoveAt
  <2> HIDE DEF n
  <2>3. n \in 1 .. Len(queue) /\ Len(queue) \in Nat
    BY <2>1
  <2>4. /\ q \in Seq(Chat)
        /\ DOMAIN q = 1 .. Len(queue) - 1
        /\ \A i \in 1 .. Len(queue) - 1 : q[i] = IF i < n THEN queue[i] ELSE queue[i + 1]
    <3>1. /\ SubSeq(queue, 1, n - 1) \in Seq(Chat)
          /\ Len(SubSeq(queue, 1, n - 1)) = n - 1
          /\ \A i \in 1 .. n - 1 : SubSeq(queue, 1, n - 1)[i] = queue[i]
      BY <2>3
    <3>2. /\ SubSeq(queue, n + 1, Len(queue)) \in Seq(Chat)
          /\ Len(SubSeq(queue, n + 1, Len(queue))) = Len(queue) - n
          /\ \A i \in 1 .. Len(queue) - n :
                SubSeq(queue, n + 1, Len(queue))[i] = queue[n + i]
      BY <2>3
    <3> DEFINE a == SubSeq(queue, 1, n - 1)
               b == SubSeq(queue, n + 1, Len(queue))
    <3>3. q = a \o b
      OBVIOUS
    <3> HIDE DEF a, b, q
    <3>4. /\ a \in Seq(Chat) /\ Len(a) = n - 1 /\ \A i \in 1 .. n - 1 : a[i] = queue[i]
          /\ b \in Seq(Chat) /\ Len(b) = Len(queue) - n
          /\ \A i \in 1 .. Len(queue) - n : b[i] = queue[n + i]
      BY <3>1, <3>2 DEF a, b
    <3>5. q \in Seq(Chat) /\ Len(q) = Len(queue) - 1
      <4>1. Len(q) = Len(a) + Len(b)
        BY <3>3, <3>4, ConcatProperties
      <4> QED
        BY <2>3, <3>3, <3>4, <4>1, ConcatProperties
    <3>6. DOMAIN q = 1 .. Len(queue) - 1
      BY <3>5
    <3>7. ASSUME NEW i \in 1 .. Len(queue) - 1
          PROVE  q[i] = IF i < n THEN queue[i] ELSE queue[i + 1]
      <4>1. CASE i < n
        BY <2>3, <3>3, <3>4, <4>1
      <4>2. CASE ~ (i < n)
        <5>1. i - (n - 1) \in 1 .. Len(queue) - n /\ n + (i - (n - 1)) = i + 1
          BY <2>3, <4>2
        <5>2. PICK j \in 1 .. Len(b) : j = i - (n - 1) /\ Len(a) + j = i
          BY <2>3, <3>4, <5>1
        <5>3. (a \o b)[Len(a) + j] = b[j]
          BY <3>4, Behind
        <5>4. q[i] = b[i - (n - 1)]
          BY <3>3, <5>2, <5>3
        <5> QED
          BY <3>4, <4>2, <5>1, <5>4
      <4> QED
        BY <4>1, <4>2
    <3> QED
      BY <3>5, <3>6, <3>7
  <2> HIDE DEF q
  <2>5. OnceEach(q)
    <3> SUFFICES ASSUME NEW i \in 1 .. Len(queue) - 1, NEW j \in 1 .. Len(queue) - 1, q[i] = q[j]
                 PROVE  i = j
      BY <2>4 DEF OnceEach
    <3> DEFINE f(k) == IF k < n THEN k ELSE k + 1
    <3>1. f(i) \in DOMAIN queue /\ f(j) \in DOMAIN queue
      BY <2>3
    <3>2. queue[f(i)] = queue[f(j)]
      BY <2>4
    <3>3. f(i) = f(j)
      BY <3>1, <3>2 DEF OnceEach
    <3> QED
      BY <2>3, <3>3
  <2>6. ASSUME NEW d \in Chat
        PROVE  Waits(q, d) <=> Waits(queue, d) /\ d # c
    <3>1. ASSUME Waits(q, d) PROVE Waits(queue, d) /\ d # c
      <4>1. PICK i \in 1 .. Len(queue) - 1 : q[i] = d
        BY <2>4, <3>1 DEF Waits
      <4> DEFINE k == IF i < n THEN i ELSE i + 1
      <4>2. k \in DOMAIN queue /\ k # n /\ queue[k] = d
        BY <2>3, <2>4, <4>1
      <4> QED
        BY <2>1, <4>2 DEF Waits, OnceEach
    <3>2. ASSUME Waits(queue, d), d # c PROVE Waits(q, d)
      <4>1. PICK k \in 1 .. Len(queue) : queue[k] = d
        BY <3>2 DEF Waits
      <4>2. k # n
        BY <2>1, <3>2, <4>1
      <4> DEFINE i == IF k < n THEN k ELSE k - 1
      <4>3. i \in 1 .. Len(queue) - 1 /\ q[i] = queue[k]
        BY <2>3, <2>4, <4>1, <4>2
      <4> QED
        BY <2>4, <4>1, <4>3 DEF Waits
    <3> QED
      BY <3>1, <3>2
  <2> QED
    BY <2>2, <2>4, <2>5, <2>6
<1> QED
  BY <1>1, <1>2

-----------------------------------------------------------------------------
(***************************************************************************)
(* Types and the lock, together: that the head of the queue is a chat that *)
(* waits is needed for the types, and the types for the queue.             *)
(***************************************************************************)
LockOK ==
    /\ OnceEach(queue)
    /\ \A c \in Chat : (chat[c].phase \in InLoop) <=> (holder = c)
    /\ \A c \in Chat : (chat[c].phase = "queued") <=> Waits(queue, c)

Inv == TInv /\ LockOK

LEMMA InitInv == Init => Inv
<1> SUFFICES ASSUME Init PROVE Inv
  OBVIOUS
<1>1. PoolsOK
  <2>1. \A p \in Provider : /\ pools[p] = FreshPool(p)
                           /\ pools[p] \in Pool /\ Keyed(p, pools[p]) /\ pools[p].next_idx = 0
    BY FreshPoolsTyped DEF Init
  <2>2. pools \in [Provider -> Pool]
    BY <2>1 DEF Init
  <2> QED
    BY <2>1, <2>2, KeysFacts DEF PoolsOK, InRange, HasPool
<1>2. ChatsOK
  BY NewChatType DEF Init, ChatsOK
<1>3. ScorerOK /\ RestOK
  BY NoTargetType DEF Init, ScorerOK, RestOK
<1>4. \A c \in Chat : chat[c].phase = "new"
  BY DEF Init, NewChat
<1>5. LockOK
  BY <1>4, FallbackAssumption DEF Init, LockOK, OnceEach, Waits, InLoop
<1> QED
  BY <1>1, <1>2, <1>3, <1>5 DEF Inv, TInv

LEMMA EndedType ==
    ASSUME NEW st \in [active : Nat, total : Nat, failed : Nat]
    PROVE  /\ Ended(st) \in [active : Nat, total : Nat, failed : Nat]
           /\ Ended(st).active = IF st.active = 0 THEN 0 ELSE st.active - 1
           /\ Ended(st).failed = st.failed
<1> DEFINE t == st.total + 1
           a == IF st.active = 0 THEN 0 ELSE st.active - 1
<1>1. Ended(st) = [st EXCEPT !.total = t, !.active = a]
  BY DEF Ended
<1>2. t \in Nat /\ a \in Nat
  OBVIOUS
<1>3. a = IF st.active = 0 THEN 0 ELSE st.active - 1
  OBVIOUS
<1> HIDE DEF t, a
<1>4. /\ [st EXCEPT !.total = t, !.active = a] \in [active : Nat, total : Nat, failed : Nat]
      /\ [st EXCEPT !.total = t, !.active = a].active = a
      /\ [st EXCEPT !.total = t, !.active = a].failed = st.failed
  BY <1>2
<1> QED
  BY <1>1, <1>3, <1>4

\* How a refused attempt leaves the lock.
LEMMA RefusedLock ==
    ASSUME Inv, NEW c \in Chat, chat[c].phase \in InLoop,
           NEW target \in Target, NEW e \in CallError \cup {"Unsupported"},
           Refused(c, target, e), UNCHANGED queue
    PROVE  ChatsOK' /\ LockOK' /\ holder' \in Chat \cup {NoChat}
<1>1. /\ ChatsOK'
      /\ \A d \in Chat : d # c => chat'[d] = chat[d]
      /\ \/ chat'[c].phase = "routing" /\ holder' = c
         \/ chat'[c].phase = "failed" /\ holder' = NoChat
  BY RefusedFacts DEF Inv, TInv, RestOK
<1>2. holder = c /\ \A d \in Chat : d # c => chat[d].phase \notin InLoop
  BY DEF Inv, LockOK
<1>3. OnceEach(queue) /\ \A d \in Chat : (chat[d].phase = "queued") <=> Waits(queue, d)
  BY DEF Inv, LockOK
<1>4. \A d \in Chat : (chat'[d].phase \in InLoop) <=> (holder' = d)
  BY <1>1, <1>2, FallbackAssumption DEF InLoop
<1>5. \A d \in Chat : (chat'[d].phase = "queued") <=> (chat[d].phase = "queued")
  BY <1>1 DEF InLoop
<1> QED
  BY <1>1, <1>3, <1>4, <1>5 DEF LockOK, OnceEach, Waits

LEMMA ArriveInv ==
    ASSUME Inv, NEW c \in Chat, NEW r \in Request, NEW s \in Session \cup {NoSession},
           Arrive(c, r, s)
    PROVE  Inv'
<1>1. /\ ChatsOK'
      /\ \A d \in Chat : d # c => chat'[d] = chat[d]
      /\ chat'[c].phase = "queued"
  BY ArriveFacts DEF Inv, TInv
<1>2. chat[c].phase = "new" /\ queue' = Append(queue, c)
  BY DEF Arrive
<1>3. UNCHANGED <<now, pools, scorer, affinity, cached, holder, leaked>>
  BY DEF Arrive
<1>4. queue \in Seq(Chat) /\ OnceEach(queue) /\ ~ Waits(queue, c)
  BY <1>2 DEF Inv, TInv, RestOK, LockOK
<1>5. /\ queue' \in Seq(Chat)
      /\ OnceEach(queue')
      /\ \A d \in Chat : Waits(queue', d) <=> Waits(queue, d) \/ d = c
  BY <1>2, <1>4, JoinedQueue
<1>6. \A d \in Chat : (chat'[d].phase \in InLoop) <=> (chat[d].phase \in InLoop)
  BY <1>1, <1>2 DEF InLoop
<1>7. \A d \in Chat : (chat'[d].phase = "queued") <=> (chat[d].phase = "queued" \/ d = c)
  BY <1>1
<1>8. LockOK'
  BY <1>3, <1>5, <1>6, <1>7 DEF Inv, LockOK, OnceEach, Waits
<1>9. PoolsOK' /\ ScorerOK' /\ RestOK'
  BY <1>3, <1>5 DEF Inv, TInv, PoolsOK, ScorerOK, RestOK, Keyed, InRange, HasPool
<1> QED
  BY <1>1, <1>8, <1>9 DEF Inv, TInv

LEMMA AcquireFacts ==
    ASSUME Inv, NEW c \in Chat, Acquire(c)
    PROVE  /\ chat[c].phase = "queued"
           /\ queue' \in Seq(Chat)
           /\ OnceEach(queue')
           /\ \A d \in Chat : Waits(queue', d) <=> Waits(queue, d) /\ d # c
           /\ \A d \in Chat : chat[d].phase \notin InLoop
           /\ UNCHANGED <<now, pools, scorer, affinity, cached, leaked>>
<1>1. queue \in Seq(Chat) /\ queue # <<>> /\ OnceEach(queue)
  BY DEF Inv, TInv, RestOK, LockOK, Acquire
<1>2. c = Head(queue) /\ queue' = Tail(queue) /\ holder = NoChat
  BY DEF Acquire
<1>3. Waits(queue, c)
  BY <1>1, <1>2, ServedQueue
<1>4. \A d \in Chat : Waits(queue', d) <=> Waits(queue, d) /\ d # c
  BY <1>1, <1>2, ServedQueue
<1>5. queue' \in Seq(Chat) /\ OnceEach(queue')
  BY <1>1, <1>2, ServedQueue
<1>6. \A d \in Chat : chat[d].phase \notin InLoop
  BY <1>2, FallbackAssumption DEF Inv, LockOK
<1> QED
  BY <1>3, <1>4, <1>5, <1>6 DEF Inv, LockOK, Acquire

LEMMA CacheHitInv ==
    ASSUME Inv, NEW c \in Chat, CacheHit(c)
    PROVE  Inv'
<1>1. Acquire(c) /\ UNCHANGED holder /\ chat' = [chat EXCEPT ![c] = Over(c, "answered")]
  BY DEF CacheHit
<1>2. /\ chat[c].phase = "queued"
      /\ queue' \in Seq(Chat)
      /\ OnceEach(queue')
      /\ \A d \in Chat : Waits(queue', d) <=> Waits(queue, d) /\ d # c
      /\ UNCHANGED <<now, pools, scorer, affinity, cached, leaked>>
  BY <1>1, AcquireFacts
<1>3. /\ ChatsOK'
      /\ \A d \in Chat : d # c => chat'[d] = chat[d]
      /\ chat'[c].phase = "answered"
  BY <1>1, <1>2, EndFacts DEF Inv, TInv
<1>4. LockOK'
  BY <1>1, <1>2, <1>3 DEF Inv, LockOK, OnceEach, Waits, InLoop
<1>5. PoolsOK' /\ ScorerOK' /\ RestOK'
  BY <1>1, <1>2 DEF Inv, TInv, PoolsOK, ScorerOK, RestOK, Keyed, InRange, HasPool
<1> QED
  BY <1>3, <1>4, <1>5 DEF Inv, TInv

LEMMA BeginInv ==
    ASSUME Inv, NEW c \in Chat, Begin(c)
    PROVE  Inv'
<1>1. Acquire(c) /\ holder' = c
  BY DEF Begin
<1>2. /\ chat[c].phase = "queued"
      /\ queue' \in Seq(Chat)
      /\ OnceEach(queue')
      /\ \A d \in Chat : Waits(queue', d) <=> Waits(queue, d) /\ d # c
      /\ \A d \in Chat : chat[d].phase \notin InLoop
      /\ UNCHANGED <<now, pools, scorer, affinity, cached, leaked>>
  BY <1>1, AcquireFacts
<1>3. /\ ChatsOK'
      /\ \A d \in Chat : d # c => chat'[d] = chat[d]
      /\ chat'[c].phase = "routing"
  BY <1>2, BeginFacts DEF Inv, TInv, RestOK
<1>4. LockOK'
  BY <1>1, <1>2, <1>3 DEF Inv, LockOK, OnceEach, Waits, InLoop
<1>5. PoolsOK' /\ ScorerOK' /\ RestOK'
  BY <1>1, <1>2 DEF Inv, TInv, PoolsOK, ScorerOK, RestOK, Keyed, InRange, HasPool
<1> QED
  BY <1>3, <1>4, <1>5 DEF Inv, TInv

\* What a call leaves behind, whatever account it is for.
LEMMA CallInv ==
    ASSUME Inv, NEW c \in Chat, chat[c].phase = "routing",
           NEW p \in Provider, NEW k \in Key \cup {NoKey}, Call(c, p, k), PoolsOK',
           UNCHANGED <<now, affinity, cached, holder, queue, leaked>>
    PROVE  Inv'
<1>1. /\ ChatsOK'
      /\ \A d \in Chat : d # c => chat'[d] = chat[d]
      /\ chat'[c].phase = "calling"
  BY CallFacts DEF Inv, TInv
<1>2. LockOK'
  BY <1>1 DEF Inv, LockOK, OnceEach, Waits, InLoop
<1>3. RestOK'
  BY DEF Inv, TInv, RestOK
<1>4. ScorerOK'
  <2>1. scorer[p] \in [active : Nat, total : Nat, failed : Nat]
    BY DEF Inv, TInv, ScorerOK
  <2>2. [scorer[p] EXCEPT !.active = @ + 1] \in [active : Nat, total : Nat, failed : Nat]
    BY <2>1
  <2> QED
    BY <2>2 DEF Call, Inv, TInv, ScorerOK
<1> QED
  BY <1>1, <1>2, <1>3, <1>4 DEF Inv, TInv

LEMMA RouteInv ==
    ASSUME Inv, NEW c \in Chat, RouteToAccount(c) \/ RouteWithoutKey(c)
    PROVE  Inv'
<1>1. CASE RouteToAccount(c)
  <2> DEFINE p == Resolved(c)
  <2>1. p \in Provider /\ HasPool(p) /\ chat[c].phase = "routing"
    BY <1>1 DEF RouteToAccount, HasPool
  <2>2. PICK s \in RoutePrefer(pools[p], Preferred(c), now) :
           /\ pools' = [pools EXCEPT ![p] = Advance(@, s)]
           /\ Call(c, p, pools[p].accounts[s].key)
    BY <1>1 DEF RouteToAccount
  <2> HIDE DEF p
  <2>3. pools[p] \in Pool /\ s \in Slots(pools[p])
    BY <2>1, PickedIsAvailable DEF Inv, TInv, PoolsOK
  <2>4. pools[p].accounts[s].key \in Key
    BY <2>3, PoolFacts DEF Account, AccountOf
  <2>5. PoolsOK'
    <3> DEFINE q == Advance(pools[p], s)
    <3>1. q \in Pool /\ Keyed(p, q) /\ InRange(p, q)
      BY <2>1, AdvancedPool DEF Inv, TInv
    <3>2. pools' = [pools EXCEPT ![p] = q]
      BY <2>2
    <3> HIDE DEF q
    <3> QED
      BY <3>1, <3>2, PoolUpdate DEF Inv, TInv
  <2>6. UNCHANGED <<now, affinity, cached, holder, queue, leaked>>
    BY <1>1 DEF RouteToAccount
  <2> QED
    BY <2>1, <2>2, <2>4, <2>5, <2>6, CallInv
<1>2. CASE RouteWithoutKey(c)
  <2>1. /\ Resolved(c) \in Provider
        /\ chat[c].phase = "routing"
        /\ Call(c, Resolved(c), NoKey)
        /\ UNCHANGED <<now, pools, affinity, cached, holder, queue, leaked>>
    BY <1>2 DEF RouteWithoutKey, Servable
  <2>2. PoolsOK'
    BY <2>1 DEF Inv, TInv, PoolsOK, Keyed, InRange, HasPool
  <2> QED
    BY <2>1, <2>2, CallInv
<1> QED
  BY <1>1, <1>2

LEMMA RouteFailsInv ==
    ASSUME Inv, NEW c \in Chat, RouteUnsupported(c) \/ RouteRefused(c)
    PROVE  Inv'
<1>1. PICK e \in {"Unsupported", "RateLimited", "AuthFailed"} :
         /\ Refused(c, NoTarget, e)
         /\ chat[c].phase = "routing"
         /\ UNCHANGED <<now, scorer, affinity, cached, queue, leaked>>
  <2>1. CASE RouteUnsupported(c)
    BY <2>1 DEF RouteUnsupported
  <2>2. CASE RouteRefused(c)
    BY <2>2 DEF RouteRefused
  <2> QED
    BY <2>1, <2>2
<1>2. ChatsOK' /\ LockOK' /\ holder' \in Chat \cup {NoChat}
  <2>1. e \in CallError \cup {"Unsupported"} /\ chat[c].phase \in InLoop
    BY <1>1 DEF CallError, InLoop
  <2> QED
    BY <1>1, <2>1, NoTargetType, RefusedLock
<1>3. PoolsOK'
  <2>1. CASE UNCHANGED pools
    BY <2>1 DEF Inv, TInv, PoolsOK, Keyed, InRange, HasPool
  <2>2. CASE ~ UNCHANGED pools
    <3> DEFINE p == Resolved(c)
    <3>1. HasPool(p) /\ p \in Provider
      BY <2>2 DEF RouteUnsupported, RouteRefused, HasPool
    <3>2. PICK s \in RoutePrefer(pools[p], Preferred(c), now) :
             pools' = [pools EXCEPT ![p] = Advance(@, s)]
      BY <2>2, <3>1 DEF RouteUnsupported, RouteRefused
    <3> HIDE DEF p
    <3> DEFINE q == Advance(pools[p], s)
    <3>3. q \in Pool /\ Keyed(p, q) /\ InRange(p, q)
      BY <3>1, <3>2, AdvancedPool DEF Inv, TInv
    <3>4. pools' = [pools EXCEPT ![p] = q]
      BY <3>2
    <3> HIDE DEF q
    <3> QED
      BY <3>3, <3>4, PoolUpdate DEF Inv, TInv
  <2> QED
    BY <2>1, <2>2
<1>4. ScorerOK' /\ RestOK'
  BY <1>1, <1>2 DEF Inv, TInv, ScorerOK, RestOK
<1> QED
  BY <1>2, <1>3, <1>4 DEF Inv, TInv

LEMMA CallingFacts ==
    ASSUME Inv, NEW c \in Chat, chat[c].phase = "calling"
    PROVE  /\ chat[c].target \in Target
           /\ chat[c].target.provider \in Provider
           /\ chat[c].target.key \in Key \cup {NoKey}
           /\ chat[c].session \in Session \cup {NoSession}
           /\ chat[c].req \in Request
           /\ holder = c
           /\ \A d \in Chat : d # c => chat[d].phase \notin InLoop
<1>1. chat[c] \in ChatRecord /\ ChatShape(chat[c])
  BY DEF Inv, TInv, ChatsOK
<1>2. chat[c].target \in Target /\ chat[c].target.provider \in Provider
  BY <1>1 DEF ChatRecord, ChatShape
<1>3. chat[c].target.key \in Key \cup {NoKey}
  BY <1>2 DEF Target
<1>4. chat[c].session \in Session \cup {NoSession} /\ chat[c].req \in Request
  BY <1>1 DEF ChatRecord, ChatShape
<1>5. holder = c /\ \A d \in Chat : d # c => chat[d].phase \notin InLoop
  BY DEF Inv, LockOK, InLoop
<1> QED
  BY <1>2, <1>3, <1>4, <1>5

LEMMA ReportedPools ==
    ASSUME Inv, NEW p \in Provider, NEW k \in Key \cup {NoKey}, NEW o \in Outcome,
           pools' = [pools EXCEPT ![p] = Report(@, k, o, now)]
    PROVE  PoolsOK'
<1> DEFINE q == Report(pools[p], k, o, now)
<1>1. q \in Pool /\ Keyed(p, q) /\ InRange(p, q)
  <2>1. pools[p] \in Pool /\ Keyed(p, pools[p]) /\ InRange(p, pools[p]) /\ now \in Nat
    BY DEF Inv, TInv, PoolsOK, RestOK
  <2> QED
    BY <2>1, ReportedPool
<1>2. pools' = [pools EXCEPT ![p] = q]
  OBVIOUS
<1> HIDE DEF q
<1> QED
  BY <1>1, <1>2, PoolUpdate DEF Inv, TInv

LEMMA SucceedInv ==
    ASSUME Inv, NEW c \in Chat, Succeed(c)
    PROVE  Inv'
<1> DEFINE t == chat[c].target
<1>1. /\ chat[c].phase = "calling"
      /\ chat' = [chat EXCEPT ![c] = Over(c, "answered")]
      /\ holder' = NoChat
      /\ UNCHANGED <<now, queue, leaked>>
      /\ affinity' = IF chat[c].session = NoSession THEN affinity
                     ELSE [affinity EXCEPT ![chat[c].session] = t]
      /\ IF Streams(c)
         THEN UNCHANGED <<pools, scorer, cached>>
         ELSE /\ pools' = [pools EXCEPT ![t.provider] = Report(@, t.key, "Success", now)]
              /\ scorer' = [scorer EXCEPT ![t.provider] = Ended(@)]
              /\ cached' = cached \cup ({chat[c].req} \cap Cacheable)
  BY DEF Succeed
<1>2. /\ t \in Target /\ t.provider \in Provider /\ t.key \in Key \cup {NoKey}
      /\ chat[c].session \in Session \cup {NoSession} /\ chat[c].req \in Request
      /\ holder = c /\ \A d \in Chat : d # c => chat[d].phase \notin InLoop
  BY <1>1, CallingFacts
<1> HIDE DEF t
<1>3. /\ ChatsOK'
      /\ \A d \in Chat : d # c => chat'[d] = chat[d]
      /\ chat'[c].phase = "answered"
  BY <1>1, EndFacts DEF Inv, TInv
<1>4. LockOK'
  <2>1. \A d \in Chat : (chat'[d].phase \in InLoop) <=> (holder' = d)
    BY <1>1, <1>2, <1>3, FallbackAssumption DEF InLoop
  <2>2. \A d \in Chat : (chat'[d].phase = "queued") <=> (chat[d].phase = "queued")
    BY <1>1, <1>3
  <2> QED
    BY <1>1, <2>1, <2>2 DEF Inv, LockOK, OnceEach, Waits
<1>5. PoolsOK'
  <2>1. CASE Streams(c)
    BY <1>1, <2>1 DEF Inv, TInv, PoolsOK, Keyed, InRange, HasPool
  <2>2. CASE ~ Streams(c)
    BY <1>1, <1>2, <2>2, ReportedPools DEF Outcome
  <2> QED
    BY <2>1, <2>2
<1>6. ScorerOK'
  BY <1>1, <1>2, EndedType DEF Inv, TInv, ScorerOK
<1>7. RestOK'
  BY <1>1, <1>2 DEF Inv, TInv, RestOK
<1> QED
  BY <1>3, <1>4, <1>5, <1>6, <1>7 DEF Inv, TInv

LEMMA FailCallInv ==
    ASSUME Inv, NEW c \in Chat, NEW e \in CallError, FailCall(c, e)
    PROVE  Inv'
<1> DEFINE t == chat[c].target
           st == IF Streams(c) THEN scorer[t.provider] ELSE Ended(scorer[t.provider])
<1>1. /\ chat[c].phase = "calling"
      /\ pools' = [pools EXCEPT ![t.provider] = Report(@, t.key, OutcomeOf(e), now)]
      /\ scorer' = [scorer EXCEPT ![t.provider] = [st EXCEPT !.failed = @ + 1]]
      /\ Refused(c, t, e)
      /\ UNCHANGED <<now, affinity, cached, queue, leaked>>
  BY DEF FailCall, Failed
<1>2. t \in Target /\ t.provider \in Provider /\ t.key \in Key \cup {NoKey}
  BY <1>1, CallingFacts
<1>3. ChatsOK' /\ LockOK' /\ holder' \in Chat \cup {NoChat}
  BY <1>1, <1>2, RefusedLock DEF InLoop
<1>4. PoolsOK'
  BY <1>1, <1>2, ReportedPools DEF Outcome, OutcomeOf
<1>5. ScorerOK'
  <2>1. st \in [active : Nat, total : Nat, failed : Nat]
    BY <1>2, EndedType DEF Inv, TInv, ScorerOK
  <2> HIDE DEF st
  <2>2. [st EXCEPT !.failed = @ + 1] \in [active : Nat, total : Nat, failed : Nat]
    BY <2>1
  <2> QED
    BY <1>1, <1>2, <2>2 DEF Inv, TInv, ScorerOK
<1>6. RestOK'
  BY <1>1, <1>3 DEF Inv, TInv, RestOK
<1> QED
  BY <1>3, <1>4, <1>5, <1>6 DEF Inv, TInv

LEMMA DisconnectInv ==
    ASSUME Inv, NEW c \in Chat, Disconnect(c)
    PROVE  Inv'
<1>1. /\ chat[c].phase \in {"queued", "calling"}
      /\ chat' = [chat EXCEPT ![c] = Over(c, "gone")]
      /\ queue' = QueueWithout(c)
      /\ holder' = HolderWithout(c)
      /\ leaked' = [p \in Provider |-> IF c \in InFlight(p) THEN leaked[p] + 1 ELSE leaked[p]]
      /\ UNCHANGED <<now, pools, scorer, affinity, cached>>
  BY DEF Disconnect
<1>2. /\ ChatsOK'
      /\ \A d \in Chat : d # c => chat'[d] = chat[d]
      /\ chat'[c].phase = "gone"
  BY <1>1, EndFacts DEF Inv, TInv
<1>3. queue \in Seq(Chat) /\ OnceEach(queue)
  BY DEF Inv, TInv, RestOK, LockOK
<1>4. queue' \in Seq(Chat) /\ OnceEach(queue')
  BY <1>1, <1>3, LeftQueue
<1>5. \A d \in Chat : Waits(queue', d) <=> Waits(queue, d) /\ d # c
  BY <1>1, <1>3, LeftQueue
<1>6. LockOK'
  <2>1. holder' = IF holder = c THEN NoChat ELSE holder
    BY <1>1 DEF HolderWithout
  <2>2. \A d \in Chat : (chat'[d].phase \in InLoop) <=> (holder' = d)
    BY <1>2, <2>1, FallbackAssumption DEF Inv, LockOK, InLoop
  <2>3. \A d \in Chat : (chat'[d].phase = "queued") <=> Waits(queue', d)
    BY <1>2, <1>5 DEF Inv, LockOK
  <2> QED
    BY <1>4, <2>2, <2>3 DEF LockOK, OnceEach, Waits
<1>7. PoolsOK' /\ ScorerOK'
  BY <1>1 DEF Inv, TInv, PoolsOK, ScorerOK, Keyed, InRange, HasPool
<1>8. RestOK'
  <2>1. leaked' \in [Provider -> Nat]
    BY <1>1 DEF Inv, TInv, RestOK
  <2> QED
    BY <1>1, <1>4, <2>1 DEF HolderWithout, Inv, TInv, RestOK
<1> QED
  BY <1>2, <1>6, <1>7, <1>8 DEF Inv, TInv

LEMMA ZeroedScorer ==
    ASSUME ScorerOK, Rebuild
    PROVE  ScorerOK' /\ \A p \in Provider : scorer'[p].active = 0
<1>1. \A p \in Provider :
        /\ [scorer[p] EXCEPT !.active = 0] \in [active : Nat, total : Nat, failed : Nat]
        /\ [scorer[p] EXCEPT !.active = 0].active = 0
  BY DEF ScorerOK
<1>2. scorer' = [p \in Provider |-> [scorer[p] EXCEPT !.active = 0]]
  BY DEF Rebuild
<1> QED
  BY <1>1, <1>2 DEF ScorerOK

LEMMA RebuildInv ==
    ASSUME Inv, Reload \/ Restart
    PROVE  Inv'
<1>1. Rebuild
  BY DEF Reload, Restart
<1>2. PoolsOK' /\ ScorerOK'
  BY <1>1, RebuiltPools, ZeroedScorer DEF Inv, TInv, RestOK
<1>3. leaked' = [p \in Provider |-> 0]
  BY <1>1 DEF Rebuild
<1>4. CASE Reload
  <2>1. UNCHANGED <<now, affinity, cached, holder, queue, chat>>
    BY <1>4 DEF Reload
  <2> QED
    BY <1>2, <1>3, <2>1
       DEF Inv, TInv, RestOK, ChatsOK, ChatShape, Looping, LockOK, OnceEach, Waits
<1>5. CASE Restart
  <2>1. holder' = NoChat /\ queue' = <<>> /\ UNCHANGED <<now, affinity, cached>>
    BY <1>5 DEF Restart
  <2>2. ChatsOK' /\ \A c \in Chat : chat'[c].phase =
           IF chat[c].phase \in {"queued", "routing", "calling"} THEN "gone" ELSE chat[c].phase
    BY <1>5, RestartFacts DEF Inv, TInv
  <2>3. LockOK'
    BY <2>1, <2>2, FallbackAssumption DEF LockOK, OnceEach, Waits, InLoop
  <2>4. RestOK'
    BY <1>3, <2>1 DEF Inv, TInv, RestOK
  <2> QED
    BY <1>2, <2>2, <2>3, <2>4 DEF Inv, TInv
<1> QED
  BY <1>4, <1>5

LEMMA OthersInv ==
    ASSUME Inv, (\E r \in Request : CacheExpire(r)) \/ Tick \/ UNCHANGED vars
    PROVE  Inv'
<1>1. /\ UNCHANGED <<pools, scorer, affinity, holder, queue, chat, leaked>>
      /\ now' \in Nat /\ cached' \in SUBSET Request
  <2>1. now \in Nat /\ cached \in SUBSET Request
    BY DEF Inv, TInv, RestOK
  <2>2. CASE \E r \in Request : CacheExpire(r)
    BY <2>1, <2>2 DEF CacheExpire
  <2>3. CASE Tick
    BY <2>1, <2>3 DEF Tick
  <2>4. CASE UNCHANGED vars
    BY <2>1, <2>4 DEF vars
  <2> QED
    BY <2>2, <2>3, <2>4
<1>2. PoolsOK' /\ ScorerOK' /\ RestOK' /\ LockOK'
  BY <1>1 DEF Inv, TInv, PoolsOK, Keyed, InRange, HasPool, ScorerOK, RestOK,
              LockOK, OnceEach, Waits
<1>3. ChatsOK'
  BY <1>1 DEF Inv, TInv, ChatsOK, ChatShape, Looping
<1> QED
  BY <1>2, <1>3 DEF Inv, TInv

LEMMA NextInv == Inv /\ [Next]_vars => Inv'
<1> SUFFICES ASSUME Inv, [Next]_vars PROVE Inv'
  OBVIOUS
<1>1. ASSUME NEW c \in Chat, NEW r \in Request, NEW s \in Session \cup {NoSession}, Arrive(c, r, s)
      PROVE  Inv'
  BY <1>1, ArriveInv
<1>2. ASSUME NEW c \in Chat, Step(c) PROVE Inv'
  BY <1>2, CacheHitInv, BeginInv, RouteInv, RouteFailsInv DEF Step
<1>3. ASSUME NEW c \in Chat, Return(c) PROVE Inv'
  BY <1>3, SucceedInv, FailCallInv DEF Return
<1>4. ASSUME NEW c \in Chat, Disconnect(c) PROVE Inv'
  BY <1>4, DisconnectInv
<1> QED
  BY <1>1, <1>2, <1>3, <1>4, RebuildInv, OthersInv DEF Next

LEMMA InvImplies == Inv => TypeOK /\ LockAccounted
<1> SUFFICES ASSUME Inv PROVE TypeOK /\ LockAccounted
  OBVIOUS
<1>1. TypeOK
  BY DEF Inv, TInv, PoolsOK, ChatsOK, ScorerOK, RestOK, TypeOK, InRange, Pool, ChatRecord
<1>2. LockAccounted
  BY DEF Inv, LockOK, LockAccounted, OnceEach, Waits, InLoop
<1> QED
  BY <1>1, <1>2

LEMMA Invariance == Spec => []Inv
BY InitInv, NextInv, PTL DEF Spec

(***************************************************************************)
(* Types, whatever happens.                                                *)
(***************************************************************************)
THEOREM TypeCorrect == Spec => []TypeOK
BY Invariance, InvImplies, PTL

(***************************************************************************)
(* The lock of the engine and its queue account for every chat in          *)
(* progress, whenever clients come and leave, upstreams return, the engine *)
(* is reloaded and the process restarts.                                   *)
(***************************************************************************)
THEOREM LockKeptExactly == Spec => []LockAccounted
BY Invariance, InvImplies, PTL

-----------------------------------------------------------------------------
(***************************************************************************)
(* The counter of active requests.  The calls in flight are counted as one *)
(* or none: the lock is held during a call.                                *)
(***************************************************************************)
Calls(p) == IF InFlight(p) = {} THEN 0 ELSE 1

Counted == \A p \in Provider : scorer[p].active = Calls(p) + leaked[p]

LEMMA CallsCount ==
    ASSUME Inv, NEW p
    PROVE  Cardinality(InFlight(p)) = Calls(p)
<1>1. CASE InFlight(p) = {}
  BY <1>1, FS_EmptySet DEF Calls
<1>2. CASE InFlight(p) # {}
  <2>1. PICK c \in InFlight(p) : TRUE
    BY <1>2
  <2>2. \A d \in InFlight(p) : d = c
    BY <2>1 DEF Inv, LockOK, InFlight, InLoop
  <2>3. InFlight(p) = {c}
    BY <2>1, <2>2
  <2> QED
    BY <1>2, <2>3, FS_Singleton DEF Calls
<1> QED
  BY <1>1, <1>2

\* Only a chat that calls is in flight, to the provider it calls.
LEMMA NoCallNoFlight ==
    ASSUME \A c \in Chat : chat[c].phase # "calling", NEW p
    PROVE  Calls(p) = 0
BY DEF Calls, InFlight

LEMMA OneCall ==
    ASSUME NEW c \in Chat, chat[c].phase = "calling",
           \A d \in Chat : d # c => chat[d].phase # "calling", NEW p
    PROVE  Calls(p) = IF chat[c].target.provider = p /\ ~ Streams(c) THEN 1 ELSE 0
<1>1. CASE chat[c].target.provider = p /\ ~ Streams(c)
  BY <1>1 DEF Calls, InFlight
<1>2. CASE ~ (chat[c].target.provider = p /\ ~ Streams(c))
  BY <1>2 DEF Calls, InFlight
<1> QED
  BY <1>1, <1>2

LEMMA CountUntouched ==
    ASSUME Counted, UNCHANGED <<scorer, leaked>>, NEW c,
           \A d \in Chat : d # c => chat'[d] = chat[d],
           chat[c].phase # "calling", chat'[c].phase # "calling"
    PROVE  Counted'
<1>1. \A p \in Provider : InFlight(p)' = InFlight(p)
  BY DEF InFlight, Streams
<1> QED
  BY <1>1 DEF Counted, Calls

LEMMA CallCount ==
    ASSUME Inv, Counted, NEW c \in Chat, chat[c].phase = "routing",
           NEW p \in Provider, NEW k \in Key \cup {NoKey}, Call(c, p, k), UNCHANGED leaked
    PROVE  Counted'
<1>1. /\ \A d \in Chat : d # c => chat'[d] = chat[d]
      /\ chat'[c].phase = "calling" /\ chat'[c].target.provider = p
      /\ chat'[c].req = chat[c].req
  <2>1. /\ \A d \in Chat : d # c => chat'[d] = chat[d]
        /\ chat'[c].phase = "calling" /\ chat'[c].target = [provider |-> p, key |-> k]
        /\ chat'[c].req = chat[c].req
    BY CallFacts DEF Inv, TInv
  <2> QED
    BY <2>1
<1>2. \A d \in Chat : chat[d].phase # "calling"
  BY DEF Inv, LockOK, InLoop
<1>3. \A q \in Provider : Calls(q) = 0
  BY <1>2, NoCallNoFlight
<1>4. \A q \in Provider : Calls(q)' = IF q = p /\ ~ Streams(c) THEN 1 ELSE 0
  <2>1. \A q \in Provider : Calls(q)' = IF chat'[c].target.provider = q /\ ~ Streams(c)' THEN 1 ELSE 0
    <3>1. \A d \in Chat : d # c => chat'[d].phase # "calling"
      BY <1>1, <1>2
    <3>2. ASSUME NEW q \in Provider, chat'[c].target.provider = q /\ ~ Streams(c)'
          PROVE  Calls(q)' = 1
      BY <1>1, <3>2 DEF Calls, InFlight
    <3>3. ASSUME NEW q \in Provider, ~ (chat'[c].target.provider = q /\ ~ Streams(c)')
          PROVE  Calls(q)' = 0
      BY <3>1, <3>3 DEF Calls, InFlight
    <3> QED
      BY <3>2, <3>3
  <2>2. Streams(c)' <=> Streams(c)
    BY <1>1 DEF Streams
  <2> QED
    BY <1>1, <2>1, <2>2
<1>5. \A q \in Provider : scorer[q].active \in Nat /\ leaked[q] \in Nat
  BY DEF Inv, TInv, ScorerOK, RestOK
<1>6. \A q \in Provider : scorer'[q].active =
         IF q = p /\ ~ Streams(c) THEN scorer[q].active + 1 ELSE scorer[q].active
  <2>1. \A q \in Provider : scorer[q] \in [active : Nat, total : Nat, failed : Nat]
    BY DEF Inv, TInv, ScorerOK
  <2>2. \A q \in Provider : [scorer[q] EXCEPT !.active = @ + 1].active = scorer[q].active + 1
    BY <2>1
  <2> QED
    BY <2>2 DEF Call, Inv, TInv, ScorerOK
<1> QED
  BY <1>3, <1>4, <1>5, <1>6 DEF Counted

\* When the upstream returns, the call is counted no more.
LEMMA ReturnCount ==
    ASSUME Inv, Counted, NEW c \in Chat, Return(c)
    PROVE  Counted'
<1> DEFINE p == chat[c].target.provider
<1>1. chat[c].phase = "calling" /\ UNCHANGED leaked
  BY DEF Return, Succeed, FailCall
<1>2. p \in Provider /\ holder = c /\ \A d \in Chat : d # c => chat[d].phase # "calling"
  BY <1>1, CallingFacts DEF InLoop
<1>3. /\ \A d \in Chat : d # c => chat'[d] = chat[d]
      /\ chat'[c].phase # "calling"
  <2>1. CASE Succeed(c)
    <3>1. chat' = [chat EXCEPT ![c] = Over(c, "answered")]
      BY <2>1 DEF Succeed
    <3> QED
      BY <1>1, <3>1, EndFacts DEF Inv, TInv
  <2>2. ASSUME NEW e \in CallError, FailCall(c, e)
        PROVE  /\ \A d \in Chat : d # c => chat'[d] = chat[d]
               /\ chat'[c].phase # "calling"
    <3>1. Refused(c, chat[c].target, e) /\ chat[c].target \in Target
      BY <1>1, <2>2, CallingFacts DEF FailCall
    <3> QED
      BY <1>1, <3>1, RefusedFacts DEF Inv, TInv, RestOK, InLoop
  <2> QED
    BY <2>1, <2>2 DEF Return
<1>4. \A q \in Provider : Calls(q) = IF p = q /\ ~ Streams(c) THEN 1 ELSE 0
  BY <1>1, <1>2, OneCall
<1>5. \A q \in Provider : Calls(q)' = 0
  BY <1>2, <1>3 DEF Calls, InFlight
<1>6. \A q \in Provider : /\ scorer[q] \in [active : Nat, total : Nat, failed : Nat]
                         /\ leaked[q] \in Nat
  BY DEF Inv, TInv, ScorerOK, RestOK
<1>7. \A q \in Provider : scorer'[q].active =
         IF q = p /\ ~ Streams(c) THEN Ended(scorer[q]).active ELSE scorer[q].active
  <2>1. CASE Succeed(c)
    <3>1. scorer' = IF Streams(c) THEN scorer ELSE [scorer EXCEPT ![p] = Ended(@)]
      BY <2>1 DEF Succeed
    <3> QED
      BY <1>2, <3>1 DEF Inv, TInv, ScorerOK
  <2>2. CASE \E e \in CallError : FailCall(c, e)
    <3>1. scorer' = [scorer EXCEPT ![p] = Failed(c, scorer[p])]
      BY <2>2 DEF FailCall
    <3>2. Failed(c, scorer[p]).active =
            IF Streams(c) THEN scorer[p].active ELSE Ended(scorer[p]).active
      <4>1. \A st \in [active : Nat, total : Nat, failed : Nat] :
               [st EXCEPT !.failed = @ + 1].active = st.active
        OBVIOUS
      <4> QED
        BY <1>2, <1>6, <4>1, EndedType DEF Failed
    <3> QED
      BY <1>2, <3>1, <3>2 DEF Inv, TInv, ScorerOK
  <2> QED
    BY <2>1, <2>2 DEF Return
<1>8. \A q \in Provider : Ended(scorer[q]).active =
                             IF scorer[q].active = 0 THEN 0 ELSE scorer[q].active - 1
  BY <1>6, EndedType
<1>9. \A q \in Provider : scorer[q].active \in Nat /\ leaked[q] \in Nat
  BY <1>6
<1> HIDE DEF p
<1> QED
  BY <1>1, <1>4, <1>5, <1>7, <1>8, <1>9 DEF Counted

\* A client that leaves takes its call out of the flight, not off the counter.
LEMMA DisconnectCount ==
    ASSUME Inv, Counted, NEW c \in Chat, Disconnect(c)
    PROVE  Counted'
<1>1. /\ chat[c].phase \in {"queued", "calling"}
      /\ chat' = [chat EXCEPT ![c] = Over(c, "gone")]
      /\ leaked' = [p \in Provider |-> IF c \in InFlight(p) THEN leaked[p] + 1 ELSE leaked[p]]
      /\ UNCHANGED scorer
  BY DEF Disconnect
<1>2. /\ \A d \in Chat : d # c => chat'[d] = chat[d]
      /\ chat'[c].phase = "gone"
  BY <1>1, EndFacts DEF Inv, TInv
<1>3. \A p \in Provider : leaked'[p] = IF c \in InFlight(p) THEN leaked[p] + 1 ELSE leaked[p]
  BY <1>1
<1>4. \A p \in Provider : leaked[p] \in Nat
  BY DEF Inv, TInv, RestOK
<1>5. CASE chat[c].phase = "queued"
  <2>1. \A p \in Provider : c \notin InFlight(p)
    BY <1>5 DEF InFlight
  <2>2. \A p \in Provider : InFlight(p)' = InFlight(p)
    BY <1>2, <1>5 DEF InFlight, Streams
  <2> QED
    BY <1>1, <1>3, <2>1, <2>2 DEF Counted, Calls
<1>6. CASE chat[c].phase = "calling"
  <2>1. \A d \in Chat : d # c => chat[d].phase # "calling"
    BY <1>6, CallingFacts DEF InLoop
  <2>2. \A p \in Provider : Calls(p) = IF c \in InFlight(p) THEN 1 ELSE 0
    BY <2>1 DEF Calls, InFlight
  <2>3. \A p \in Provider : Calls(p)' = 0
    BY <1>2, <2>1 DEF Calls, InFlight
  <2> QED
    BY <1>1, <1>3, <1>4, <2>2, <2>3 DEF Counted
<1> QED
  BY <1>1, <1>5, <1>6

LEMMA RebuildCount ==
    ASSUME Inv, Reload \/ Restart
    PROVE  Counted'
<1>1. Rebuild
  BY DEF Reload, Restart
<1>2. \A p \in Provider : scorer'[p].active = 0 /\ leaked'[p] = 0
  BY <1>1, ZeroedScorer DEF Inv, TInv, Rebuild
<1>3. \A c \in Chat : chat'[c].phase # "calling"
  <2>1. CASE Reload
    BY <2>1, FallbackAssumption DEF Reload, Inv, LockOK, InLoop
  <2>2. CASE Restart
    BY <2>2, RestartFacts DEF Inv, TInv
  <2> QED
    BY <2>1, <2>2
<1>4. \A p \in Provider : Calls(p)' = 0
  BY <1>3 DEF Calls, InFlight
<1> QED
  BY <1>2, <1>4 DEF Counted

LEMMA NextCount == Inv /\ Counted /\ [Next]_vars => Counted'
<1> SUFFICES ASSUME Inv, Counted, [Next]_vars PROVE Counted'
  OBVIOUS
<1>1. ASSUME NEW c \in Chat, NEW r \in Request, NEW s \in Session \cup {NoSession}, Arrive(c, r, s)
      PROVE  Counted'
  <2>1. chat[c].phase = "new" /\ UNCHANGED <<scorer, leaked>>
    BY <1>1 DEF Arrive
  <2>2. chat'[c].phase = "queued" /\ \A d \in Chat : d # c => chat'[d] = chat[d]
    BY <1>1, ArriveFacts DEF Inv, TInv
  <2> QED
    BY <2>1, <2>2, CountUntouched
<1>2. ASSUME NEW c \in Chat, CacheHit(c) PROVE Counted'
  <2>1. Acquire(c) /\ chat' = [chat EXCEPT ![c] = Over(c, "answered")]
    BY <1>2 DEF CacheHit
  <2>2. chat[c].phase = "queued" /\ UNCHANGED <<scorer, leaked>>
    BY <2>1, AcquireFacts
  <2>3. chat'[c].phase = "answered" /\ \A d \in Chat : d # c => chat'[d] = chat[d]
    BY <2>1, <2>2, EndFacts DEF Inv, TInv
  <2> QED
    BY <2>2, <2>3, CountUntouched
<1>3. ASSUME NEW c \in Chat, Begin(c) PROVE Counted'
  <2>1. chat[c].phase = "queued" /\ UNCHANGED <<scorer, leaked>>
    BY <1>3, AcquireFacts DEF Begin
  <2>2. chat'[c].phase = "routing" /\ \A d \in Chat : d # c => chat'[d] = chat[d]
    BY <1>3, <2>1, BeginFacts DEF Inv, TInv, RestOK
  <2> QED
    BY <2>1, <2>2, CountUntouched
<1>4. ASSUME NEW c \in Chat, RouteToAccount(c) \/ RouteWithoutKey(c) PROVE Counted'
  <2>1. PICK p \in Provider, k \in Key \cup {NoKey} :
           Call(c, p, k) /\ chat[c].phase = "routing" /\ UNCHANGED leaked
    <3>1. CASE RouteToAccount(c)
      <4>1. Resolved(c) \in Provider /\ chat[c].phase = "routing" /\ UNCHANGED leaked
        BY <3>1 DEF RouteToAccount, HasPool
      <4>2. PICK s \in RoutePrefer(pools[Resolved(c)], Preferred(c), now) :
               Call(c, Resolved(c), pools[Resolved(c)].accounts[s].key)
        BY <3>1 DEF RouteToAccount
      <4>3. pools[Resolved(c)] \in Pool /\ s \in Slots(pools[Resolved(c)])
        BY <4>1, PickedIsAvailable DEF Inv, TInv, PoolsOK
      <4>4. pools[Resolved(c)].accounts[s].key \in Key
        BY <4>3, PoolFacts DEF Account, AccountOf
      <4> QED
        BY <4>1, <4>2, <4>4
    <3>2. CASE RouteWithoutKey(c)
      BY <3>2 DEF RouteWithoutKey, Servable
    <3> QED
      BY <1>4, <3>1, <3>2
  <2> QED
    BY <2>1, CallCount
<1>5. ASSUME NEW c \in Chat, RouteUnsupported(c) \/ RouteRefused(c) PROVE Counted'
  <2>1. PICK e \in {"Unsupported", "RateLimited", "AuthFailed"} :
           Refused(c, NoTarget, e) /\ chat[c].phase = "routing" /\ UNCHANGED <<scorer, leaked>>
    BY <1>5 DEF RouteUnsupported, RouteRefused
  <2>2. /\ chat'[c].phase # "calling"
        /\ \A d \in Chat : d # c => chat'[d] = chat[d]
    <3>1. e \in CallError \cup {"Unsupported"} /\ chat[c].phase \in InLoop
      BY <2>1 DEF CallError, InLoop
    <3> QED
      BY <2>1, <3>1, NoTargetType, RefusedFacts DEF Inv, TInv, RestOK
  <2> QED
    BY <2>1, <2>2, CountUntouched
<1>6. ASSUME NEW c \in Chat, Step(c) PROVE Counted'
  BY <1>2, <1>3, <1>4, <1>5, <1>6 DEF Step
<1>7. CASE (\E r \in Request : CacheExpire(r)) \/ Tick \/ UNCHANGED vars
  <2>1. UNCHANGED <<scorer, chat, leaked>>
    BY <1>7 DEF CacheExpire, Tick, vars
  <2> QED
    BY <2>1 DEF Counted, Calls, InFlight, Streams
<1> QED
  BY <1>1, <1>6, <1>7, ReturnCount, DisconnectCount, RebuildCount DEF Next

LEMMA InitCount == Init => Counted
BY NoCallNoFlight DEF Init, NewChat, Counted

(***************************************************************************)
(* active_requests is the plain calls in flight and those whose client     *)
(* left since the engine was built: each route, return, disconnect, reload *)
(* and restart keeps the count.                                            *)
(***************************************************************************)
THEOREM ActiveCountExact == Spec => []ActiveExact
<1>1. Spec => []Counted
  BY InitCount, NextCount, Invariance, PTL DEF Spec
<1>2. Inv /\ Counted => ActiveExact
  BY CallsCount DEF Counted, ActiveExact
<1> QED
  BY <1>1, <1>2, Invariance, PTL

-----------------------------------------------------------------------------
(***************************************************************************)
(* The accounts that refused a chat rest while the chat goes on: the pools *)
(* are the chat's alone until it gives the lock back, an outcome only      *)
(* moves a cooldown forward, and the rotation picks an account only when   *)
(* its cooldown is over.  Two accounts of a provider with one key cannot   *)
(* be told apart by a report; the theorem is about pools without them.     *)
(***************************************************************************)
DistinctKeys ==
    \A p \in Provider : \A i, j \in 1 .. Len(KeysIn[p]) :
        KeysIn[p][i] = KeysIn[p][j] => i = j

\* A refusal that put its account to rest.
Rested(a) == a.target.key # NoKey /\ a.error # "AuthFailed"

Rests(a) ==
    /\ a.at <= now
    /\ Rested(a) =>
         /\ a.target.provider \in Provider
         /\ \A s \in 1 .. Len(KeysIn[a.target.provider]) :
              KeysIn[a.target.provider][s] = a.target.key =>
                pools[a.target.provider].accounts[s].cool >= a.at + Cooldown

Cooling(c) ==
    \A i \in 1 .. Len(chat[c].attempts) :
        LET a == chat[c].attempts[i] IN
        /\ Rests(a)
        /\ chat[c].phase = "calling" /\ a.target = chat[c].target /\ Rested(a) =>
              now >= a.at + Cooldown

AllCooling == \A c \in Chat : chat[c].phase \in InLoop => Cooling(c)

\* No account in use comes back earlier than it would have.
NotSooner ==
    \A p \in Provider : \A s \in 1 .. Len(KeysIn[p]) :
        \/ pools'[p].accounts[s].cool >= pools[p].accounts[s].cool
        \/ pools'[p].accounts[s].cool >= now + Cooldown

LEMMA CoolType ==
    ASSUME PoolsOK, NEW p \in Provider, NEW s \in 1 .. Len(KeysIn[p])
    PROVE  /\ s \in Slots(pools[p])
           /\ pools[p].accounts[s] \in Account
           /\ pools[p].accounts[s].cool \in Nat
           /\ pools[p].accounts[s].key = KeysIn[p][s]
<1>1. pools[p] \in Pool /\ Len(pools[p].accounts) = Len(KeysIn[p])
  BY DEF PoolsOK, Keyed
<1>2. s \in Slots(pools[p]) /\ pools[p].accounts[s] \in Account
  BY <1>1, PoolFacts
<1> QED
  BY <1>2 DEF Account, AccountOf, PoolsOK, Keyed

LEMMA RestsKept ==
    ASSUME PoolsOK, PoolsOK', now \in Nat, now' \in Nat, now' >= now, NotSooner,
           NEW a \in Attempt, Rests(a)
    PROVE  Rests(a)'
<1>1. a.at \in Nat /\ a.at <= now /\ Cooldown \in Nat
  BY PoolAssumption DEF Attempt, Rests
<1>2. a.at <= now'
  BY <1>1
<1>3. ASSUME Rested(a), NEW s \in 1 .. Len(KeysIn[a.target.provider]),
             KeysIn[a.target.provider][s] = a.target.key
      PROVE  /\ a.target.provider \in Provider
             /\ pools'[a.target.provider].accounts[s].cool >= a.at + Cooldown
  <2> DEFINE p == a.target.provider
  <2>1. p \in Provider /\ pools[p].accounts[s].cool >= a.at + Cooldown
    BY <1>3 DEF Rests
  <2>2. pools[p].accounts[s].cool \in Nat
    BY <1>3, <2>1, CoolType
  <2>3. pools'[p].accounts[s].cool \in Nat
    <3>1. pools'[p] \in Pool /\ Len(pools'[p].accounts) = Len(KeysIn[p])
      BY <2>1 DEF PoolsOK, Keyed
    <3>2. s \in Slots(pools'[p])
      BY <1>3, <3>1, PoolFacts
    <3>3. pools'[p].accounts[s] \in Account
      BY <3>1, <3>2, PoolFacts
    <3> QED
      BY <3>3 DEF Account, AccountOf
  <2>4. \/ pools'[p].accounts[s].cool >= pools[p].accounts[s].cool
        \/ pools'[p].accounts[s].cool >= now + Cooldown
    BY <1>3, <2>1 DEF NotSooner
  <2> HIDE DEF p
  <2>5. pools'[p].accounts[s].cool >= a.at + Cooldown
    BY <1>1, <2>1, <2>2, <2>3, <2>4
  <2> QED
    BY <2>1, <2>5 DEF p
<1>4. Rested(a) => a.target.provider \in Provider
  BY DEF Rests
<1> QED
  BY <1>2, <1>3, <1>4 DEF Rests, Rested

\* A step that touches neither the attempts of the chats in the loop nor
\* the accounts.
LEMMA CoolingUntouched ==
    ASSUME Inv, Inv', AllCooling, now' >= now, UNCHANGED pools,
           \A d \in Chat : chat'[d].phase \in InLoop =>
              /\ chat[d].phase \in InLoop
              /\ chat'[d].attempts = chat[d].attempts
              /\ chat'[d].phase = chat[d].phase
              /\ chat'[d].target = chat[d].target
    PROVE  AllCooling'
<1> SUFFICES ASSUME NEW d \in Chat, chat'[d].phase \in InLoop PROVE Cooling(d)'
  BY DEF AllCooling
<1>1. /\ chat[d].phase \in InLoop
      /\ chat'[d].attempts = chat[d].attempts
      /\ chat'[d].phase = chat[d].phase
      /\ chat'[d].target = chat[d].target
  OBVIOUS
<1>2. chat[d].attempts \in Seq(Attempt) /\ Cooling(d)
  BY <1>1, CandidateFacts DEF Inv, TInv, AllCooling
<1>3. PoolsOK /\ PoolsOK' /\ now \in Nat /\ now' \in Nat
  BY DEF Inv, TInv, RestOK
<1>4. NotSooner
  <2>1. \A p \in Provider : \A s \in 1 .. Len(KeysIn[p]) : pools[p].accounts[s].cool \in Nat
    BY <1>3, CoolType
  <2> QED
    BY <2>1 DEF NotSooner
<1> SUFFICES ASSUME NEW i \in 1 .. Len(chat[d].attempts),
                    NEW a, a = chat[d].attempts[i]
             PROVE  /\ Rests(a)'
                    /\ chat[d].phase = "calling" /\ a.target = chat[d].target /\ Rested(a) =>
                          now' >= a.at + Cooldown
  BY <1>1 DEF Cooling, Rested, Rests
<1>5. a \in Attempt /\ Rests(a)
  BY <1>2 DEF Cooling
<1>6. /\ chat[d].phase = "calling" /\ a.target = chat[d].target /\ Rested(a) =>
            now >= a.at + Cooldown
      /\ a.at \in Nat /\ Cooldown \in Nat
  BY <1>2, <1>5, PoolAssumption DEF Cooling, Attempt
<1>7. Rests(a)'
  BY <1>3, <1>4, <1>5, RestsKept
<1>8. chat[d].phase = "calling" /\ a.target = chat[d].target /\ Rested(a) =>
            now' >= a.at + Cooldown
  BY <1>3, <1>6
<1> QED
  BY <1>7, <1>8

LEMMA NobodyCooling ==
    ASSUME \A d \in Chat : chat'[d].phase \notin InLoop
    PROVE  AllCooling'
BY DEF AllCooling

LEMMA SameAccounts ==
    ASSUME PoolsOK, \A p \in Provider : pools'[p].accounts = pools[p].accounts
    PROVE  NotSooner
<1>1. \A p \in Provider : \A s \in 1 .. Len(KeysIn[p]) : pools[p].accounts[s].cool \in Nat
  BY CoolType
<1> QED
  BY <1>1 DEF NotSooner

LEMMA AdvancedAccounts ==
    ASSUME PoolsOK, NEW p, NEW s, pools' = [pools EXCEPT ![p] = Advance(@, s)]
    PROVE  \A q \in Provider : pools'[q].accounts = pools[q].accounts
<1>1. \A q \in Provider : pools[q] \in Pool
  BY DEF PoolsOK
<1>2. \A q \in Provider : Advance(pools[q], s).accounts = pools[q].accounts
  BY <1>1 DEF Advance, Pool, PoolOf
<1> QED
  BY <1>2 DEF PoolsOK

\* A refused chat: what it knew still holds, and so does the new refusal.
LEMMA RefusedCooling ==
    ASSUME Inv, Inv', AllCooling, UNCHANGED now, NEW c \in Chat, chat[c].phase \in InLoop,
           NEW target \in Target, NEW e \in CallError \cup {"Unsupported"},
           Refused(c, target, e), NotSooner,
           NEW new, new = TheAttempt(c, target, e), Rests(new)'
    PROVE  AllCooling'
<1>1. /\ \A d \in Chat : d # c => chat'[d] = chat[d]
      /\ chat'[c].attempts = Append(chat[c].attempts, new)
      /\ chat'[c].phase \in {"routing", "failed"}
  BY RefusedFacts DEF Inv, TInv, RestOK
<1>2. \A d \in Chat : d # c => chat[d].phase \notin InLoop
  BY DEF Inv, LockOK
<1>3. /\ PoolsOK /\ PoolsOK' /\ now \in Nat /\ now' = now
      /\ chat[c].attempts \in Seq(Attempt)
      /\ Cooling(c)
  BY CandidateFacts DEF Inv, TInv, RestOK, AllCooling
<1> SUFFICES ASSUME NEW i \in 1 .. Len(chat'[c].attempts), NEW a, a = chat'[c].attempts[i]
             PROVE  Rests(a)'
  BY <1>1, <1>2 DEF AllCooling, Cooling, Rests
<1>4. CASE i \in 1 .. Len(chat[c].attempts)
  <2>1. a = chat[c].attempts[i] /\ a \in Attempt
    BY <1>1, <1>3, <1>4
  <2>2. Rests(a)
    BY <1>3, <1>4, <2>1 DEF Cooling
  <2> QED
    BY <1>3, <2>1, <2>2, RestsKept
<1>5. CASE i = Len(chat[c].attempts) + 1
  BY <1>1, <1>3, <1>5
<1> QED
  BY <1>1, <1>3, <1>4, <1>5

LEMMA RouteFailsCooling ==
    ASSUME Inv, Inv', AllCooling, NEW c \in Chat, RouteUnsupported(c) \/ RouteRefused(c)
    PROVE  AllCooling'
<1>1. PICK e \in {"Unsupported", "RateLimited", "AuthFailed"} :
         /\ Refused(c, NoTarget, e)
         /\ chat[c].phase = "routing"
         /\ UNCHANGED now
  BY DEF RouteUnsupported, RouteRefused
<1>2. NotSooner
  <2>1. \/ UNCHANGED pools
        \/ \E p, s : pools' = [pools EXCEPT ![p] = Advance(@, s)]
    BY DEF RouteUnsupported, RouteRefused
  <2> QED
    BY <2>1, SameAccounts, AdvancedAccounts DEF Inv, TInv
<1>3. e \in CallError \cup {"Unsupported"} /\ chat[c].phase \in InLoop
  BY <1>1 DEF CallError, InLoop
<1>4. PICK new : new = TheAttempt(c, NoTarget, e)
  OBVIOUS
<1>5. Rests(new)'
  <2>1. new.at = now /\ new.target.key = NoKey /\ now \in Nat
    BY <1>4 DEF TheAttempt, NoTarget, Inv, TInv, RestOK
  <2> QED
    BY <1>1, <2>1 DEF Rests, Rested
<1> QED
  BY <1>1, <1>2, <1>3, <1>4, <1>5, NoTargetType, RefusedCooling

LEMMA FailCallCooling ==
    ASSUME DistinctKeys, Inv, Inv', AllCooling, NEW c \in Chat, NEW e \in CallError, FailCall(c, e)
    PROVE  AllCooling'
<1> PICK t : t = chat[c].target
  OBVIOUS
<1>1. /\ chat[c].phase = "calling"
      /\ pools' = [pools EXCEPT ![t.provider] = Report(@, t.key, OutcomeOf(e), now)]
      /\ Refused(c, t, e)
      /\ UNCHANGED now
  BY DEF FailCall
<1>2. t \in Target /\ t.provider \in Provider /\ t.key \in Key \cup {NoKey}
  BY <1>1, CallingFacts
<1> DEFINE p == t.provider
<1>3. /\ pools[p] \in Pool /\ now \in Nat /\ OutcomeOf(e) \in {"AuthFailed", "RateLimited"}
      /\ Slots(pools[p]) = 1 .. Len(KeysIn[p])
      /\ \A s \in 1 .. Len(KeysIn[p]) : pools[p].accounts[s].key = KeysIn[p][s]
  <2>1. pools[p] \in Pool /\ Keyed(p, pools[p])
    BY <1>2 DEF Inv, TInv, PoolsOK
  <2> QED
    BY <2>1, PoolFacts DEF Inv, TInv, RestOK, OutcomeOf, Keyed
<1>4. \A s \in 1 .. Len(KeysIn[p]) :
        pools'[p].accounts[s] =
          IF s \in FirstWith(pools[p], t.key) THEN AfterOutcome(pools[p].accounts[s], OutcomeOf(e), now)
          ELSE pools[p].accounts[s]
  <2>1. pools'[p] = Report(pools[p], t.key, OutcomeOf(e), now)
    BY <1>1, <1>2 DEF Inv, TInv, PoolsOK
  <2>2. OutcomeOf(e) \in Outcome
    BY <1>3 DEF Outcome
  <2> QED
    BY <1>2, <1>3, <2>1, <2>2, ReportType
<1>5. \A s \in 1 .. Len(KeysIn[p]) :
         AfterOutcome(pools[p].accounts[s], OutcomeOf(e), now).cool =
           IF e # "AuthFailed" THEN now + Cooldown ELSE pools[p].accounts[s].cool
  <2> SUFFICES ASSUME NEW s \in 1 .. Len(KeysIn[p])
               PROVE  AfterOutcome(pools[p].accounts[s], OutcomeOf(e), now).cool =
                        IF e # "AuthFailed" THEN now + Cooldown ELSE pools[p].accounts[s].cool
    OBVIOUS
  <2> PICK acc \in Account : acc = pools[p].accounts[s]
    BY <1>3, PoolFacts
  <2>1. CASE e # "AuthFailed"
    <3>1. AfterOutcome(acc, OutcomeOf(e), now) = [acc EXCEPT !.errs = acc.errs + 1, !.cool = now + Cooldown]
      BY <2>1 DEF AfterOutcome, OutcomeOf
    <3> QED
      BY <2>1, <3>1 DEF Account, AccountOf
  <2>2. CASE e = "AuthFailed"
    <3> DEFINE b == acc.enabled /\ acc.errs + 1 < MaxAuthFailures
    <3>1. AfterOutcome(acc, OutcomeOf(e), now) = [acc EXCEPT !.errs = acc.errs + 1, !.enabled = b]
      BY <2>2 DEF AfterOutcome, OutcomeOf
    <3> HIDE DEF b
    <3> QED
      BY <2>2, <3>1 DEF Account, AccountOf
  <2> QED
    BY <2>1, <2>2
<1>6. NotSooner
  <2> SUFFICES ASSUME NEW q \in Provider, NEW s \in 1 .. Len(KeysIn[q])
               PROVE  \/ pools'[q].accounts[s].cool >= pools[q].accounts[s].cool
                      \/ pools'[q].accounts[s].cool >= now + Cooldown
    BY DEF NotSooner
  <2>1. pools[q].accounts[s].cool \in Nat /\ now + Cooldown \in Nat
    BY <1>3, CoolType, PoolAssumption DEF Inv, TInv
  <2>2. CASE q = p
    BY <1>4, <1>5, <2>1, <2>2
  <2>3. CASE q # p
    BY <1>1, <2>1, <2>3 DEF Inv, TInv, PoolsOK
  <2> QED
    BY <2>2, <2>3
<1>7. PICK new : new = TheAttempt(c, t, e)
  OBVIOUS
<1>8. Rests(new)'
  <2>1. new.at = now /\ new.target = t /\ new.error = e
    BY <1>7 DEF TheAttempt
  <2>2. ASSUME e # "AuthFailed", NEW s \in 1 .. Len(KeysIn[p]), KeysIn[p][s] = t.key
        PROVE  pools'[p].accounts[s].cool >= now + Cooldown
    <3>1. \A r \in 1 .. Len(KeysIn[p]) : KeysIn[p][r] = KeysIn[p][s] => r = s
      BY <1>2 DEF DistinctKeys
    <3>2. Len(KeysIn[p]) \in Nat
      BY <1>2, KeysFacts
    <3>3. s \in FirstWith(pools[p], t.key)
      BY <1>3, <2>2, <3>1, <3>2 DEF FirstWith
    <3>4. now + Cooldown \in Nat
      BY <1>3, PoolAssumption
    <3> QED
      BY <1>4, <1>5, <2>2, <3>3, <3>4
  <2> HIDE DEF p
  <2>3. new.at <= now'
    BY <1>1, <1>3, <2>1
  <2> QED
    BY <1>2, <2>1, <2>2, <2>3 DEF Rests, Rested, p
<1> QED
  BY <1>1, <1>2, <1>6, <1>7, <1>8, RefusedCooling DEF InLoop

\* The account that is called is none that still rests.
LEMMA RouteCooling ==
    ASSUME Inv, Inv', AllCooling, NEW c \in Chat, RouteToAccount(c) \/ RouteWithoutKey(c)
    PROVE  AllCooling'
<1>1. PICK p \in Provider, k \in Key \cup {NoKey} :
         /\ Call(c, p, k) /\ chat[c].phase = "routing" /\ UNCHANGED now
         /\ \A q \in Provider : pools'[q].accounts = pools[q].accounts
         /\ k # NoKey => \E s \in 1 .. Len(KeysIn[p]) :
                            KeysIn[p][s] = k /\ now >= pools[p].accounts[s].cool
  <2>1. CASE RouteToAccount(c)
    <3>1. Resolved(c) \in Provider /\ chat[c].phase = "routing" /\ UNCHANGED now
      BY <2>1 DEF RouteToAccount, HasPool
    <3>2. PICK s \in RoutePrefer(pools[Resolved(c)], Preferred(c), now) :
             /\ Call(c, Resolved(c), pools[Resolved(c)].accounts[s].key)
             /\ pools' = [pools EXCEPT ![Resolved(c)] = Advance(@, s)]
      BY <2>1 DEF RouteToAccount
    <3>3. PICK p \in Provider : p = Resolved(c)
      BY <3>1
    <3>4. /\ pools[p] \in Pool /\ s \in Slots(pools[p]) /\ Available(pools[p].accounts[s], now)
          /\ Slots(pools[p]) = 1 .. Len(KeysIn[p])
      BY <3>2, <3>3, PickedIsAvailable, PoolFacts DEF Inv, TInv, PoolsOK, Keyed
    <3>5. /\ pools[p].accounts[s].key = KeysIn[p][s] /\ KeysIn[p][s] \in Key
          /\ now >= pools[p].accounts[s].cool
      BY <3>3, <3>4, CoolType, KeysFacts DEF Available, Inv, TInv
    <3>6. \A q \in Provider : pools'[q].accounts = pools[q].accounts
      BY <3>2, AdvancedAccounts DEF Inv, TInv
    <3> QED
      BY <3>1, <3>2, <3>3, <3>4, <3>5, <3>6
  <2>2. CASE RouteWithoutKey(c)
    <3>1. /\ Resolved(c) \in Provider /\ chat[c].phase = "routing"
          /\ Call(c, Resolved(c), NoKey)
          /\ UNCHANGED <<now, pools>>
      BY <2>2 DEF RouteWithoutKey, Servable
    <3> QED
      BY <3>1
  <2> QED
    BY <2>1, <2>2
<1> PICK t : t = [provider |-> p, key |-> k]
  OBVIOUS
<1>2. /\ \A d \in Chat : d # c => chat'[d] = chat[d]
      /\ chat'[c].target = t
      /\ chat'[c].attempts = chat[c].attempts
  BY <1>1, CallFacts DEF Inv, TInv
<1>3. \A d \in Chat : d # c => chat[d].phase \notin InLoop
  BY <1>1 DEF Inv, LockOK, InLoop
<1>4. /\ PoolsOK /\ PoolsOK' /\ now \in Nat /\ now' = now /\ NotSooner
      /\ chat[c].attempts \in Seq(Attempt)
      /\ Cooling(c)
  BY <1>1, SameAccounts, CandidateFacts DEF Inv, TInv, RestOK, AllCooling, InLoop
<1> SUFFICES ASSUME NEW i \in 1 .. Len(chat[c].attempts), NEW a, a = chat[c].attempts[i]
             PROVE  /\ Rests(a)'
                    /\ a.target = t /\ Rested(a) => now >= a.at + Cooldown
  <2>1. ASSUME Cooling(c)' PROVE AllCooling'
    BY <1>2, <1>3, <2>1 DEF AllCooling
  <2>2. Cooling(c)'
    BY <1>2, <1>4 DEF Cooling, Rests, Rested
  <2> QED
    BY <2>1, <2>2
<1>5. a \in Attempt /\ Rests(a)
  BY <1>4 DEF Cooling
<1>6. Rests(a)'
  BY <1>4, <1>5, RestsKept
<1>7. ASSUME a.target = t, Rested(a) PROVE now >= a.at + Cooldown
  <2>1. t.provider = p /\ t.key = k /\ k # NoKey
    BY <1>7 DEF Rested
  <2>2. PICK s \in 1 .. Len(KeysIn[p]) : KeysIn[p][s] = k /\ now >= pools[p].accounts[s].cool
    BY <1>1, <2>1
  <2>3. pools[p].accounts[s].cool >= a.at + Cooldown
    BY <1>5, <1>7, <2>1, <2>2 DEF Rests
  <2>4. PICK cool \in Nat : cool = pools[p].accounts[s].cool
    BY <1>4, CoolType
  <2>5. a.at \in Nat /\ Cooldown \in Nat /\ now \in Nat
    BY <1>4, <1>5, PoolAssumption DEF Attempt
  <2> QED
    BY <2>2, <2>3, <2>4, <2>5
<1> QED
  BY <1>6, <1>7

LEMMA NextCooling == DistinctKeys /\ Inv /\ Inv' /\ AllCooling /\ [Next]_vars => AllCooling'
<1> SUFFICES ASSUME DistinctKeys, Inv, Inv', AllCooling, [Next]_vars PROVE AllCooling'
  OBVIOUS
<1>0. now \in Nat
  BY DEF Inv, TInv, RestOK
<1>1. ASSUME NEW c \in Chat, NEW r \in Request, NEW s \in Session \cup {NoSession}, Arrive(c, r, s)
      PROVE  AllCooling'
  <2>1. chat'[c].phase = "queued" /\ \A d \in Chat : d # c => chat'[d] = chat[d]
    BY <1>1, ArriveFacts DEF Inv, TInv
  <2>2. UNCHANGED <<now, pools>>
    BY <1>1 DEF Arrive
  <2> QED
    BY <1>0, <2>1, <2>2, CoolingUntouched DEF InLoop
<1>2. ASSUME NEW c \in Chat, CacheHit(c) PROVE AllCooling'
  <2>1. Acquire(c) /\ chat' = [chat EXCEPT ![c] = Over(c, "answered")]
    BY <1>2 DEF CacheHit
  <2>2. chat[c].phase = "queued" /\ UNCHANGED <<now, pools>>
    BY <2>1, AcquireFacts
  <2>3. chat'[c].phase = "answered" /\ \A d \in Chat : d # c => chat'[d] = chat[d]
    BY <2>1, <2>2, EndFacts DEF Inv, TInv
  <2> QED
    BY <1>0, <2>2, <2>3, CoolingUntouched DEF InLoop
<1>3. ASSUME NEW c \in Chat, Begin(c) PROVE AllCooling'
  <2>1. chat[c].phase = "queued" /\ \A d \in Chat : chat[d].phase \notin InLoop
    BY <1>3, AcquireFacts DEF Begin
  <2>2. /\ chat'[c].attempts = <<>>
        /\ \A d \in Chat : d # c => chat'[d] = chat[d]
    BY <1>3, <2>1, BeginFacts DEF Inv, TInv, RestOK
  <2>3. Len(chat'[c].attempts) = 0
    BY <2>2
  <2> QED
    BY <2>1, <2>2, <2>3 DEF AllCooling, Cooling
<1>4. ASSUME NEW c \in Chat, Succeed(c) PROVE AllCooling'
  <2>1. chat[c].phase = "calling" /\ chat' = [chat EXCEPT ![c] = Over(c, "answered")]
    BY <1>4 DEF Succeed
  <2>2. chat'[c].phase = "answered" /\ \A d \in Chat : d # c => chat'[d] = chat[d]
    BY <2>1, EndFacts DEF Inv, TInv
  <2>3. \A d \in Chat : d # c => chat[d].phase \notin InLoop
    BY <2>1, CallingFacts
  <2> QED
    BY <2>2, <2>3, NobodyCooling DEF InLoop
<1>5. ASSUME NEW c \in Chat, Disconnect(c) PROVE AllCooling'
  <2>1. /\ chat[c].phase \in {"queued", "calling"}
        /\ chat' = [chat EXCEPT ![c] = Over(c, "gone")]
        /\ UNCHANGED <<now, pools>>
    BY <1>5 DEF Disconnect
  <2>2. chat'[c].phase = "gone" /\ \A d \in Chat : d # c => chat'[d] = chat[d]
    BY <2>1, EndFacts DEF Inv, TInv
  <2> QED
    BY <1>0, <2>1, <2>2, CoolingUntouched DEF InLoop
<1>6. CASE Reload \/ Restart
  <2>1. \A d \in Chat : chat'[d].phase \notin InLoop
    <3>1. CASE Reload
      BY <3>1, FallbackAssumption DEF Reload, Inv, LockOK
    <3>2. CASE Restart
      BY <3>2, RestartFacts DEF Inv, TInv, InLoop
    <3> QED
      BY <1>6, <3>1, <3>2
  <2> QED
    BY <2>1, NobodyCooling
<1>7. CASE (\E r \in Request : CacheExpire(r)) \/ Tick \/ UNCHANGED vars
  <2>1. UNCHANGED <<pools, chat>> /\ now' >= now
    <3>1. CASE (\E r \in Request : CacheExpire(r)) \/ UNCHANGED vars
      BY <1>0, <3>1 DEF CacheExpire, vars
    <3>2. CASE Tick
      BY <1>0, <3>2 DEF Tick
    <3> QED
      BY <1>7, <3>1, <3>2
  <2> QED
    BY <2>1, CoolingUntouched
<1>8. ASSUME NEW c \in Chat, Step(c) PROVE AllCooling'
  BY <1>2, <1>3, <1>8, RouteCooling, RouteFailsCooling DEF Step
<1>9. ASSUME NEW c \in Chat, Return(c) PROVE AllCooling'
  BY <1>4, <1>9, FailCallCooling DEF Return
<1> QED
  BY <1>1, <1>5, <1>6, <1>7, <1>8, <1>9 DEF Next

LEMMA InitCooling == Init => AllCooling
BY DEF Init, NewChat, AllCooling, InLoop

LEMMA CoolingImplies ==
    ASSUME Inv, AllCooling
    PROVE  NoReturnWhileCooling
<1> SUFFICES ASSUME NEW c \in Chat, chat[c].phase = "calling", chat[c].target.key # NoKey,
                    NEW i \in DOMAIN chat[c].attempts,
                    chat[c].attempts[i].target = chat[c].target,
                    chat[c].attempts[i].error # "AuthFailed"
             PROVE  now >= chat[c].attempts[i].at + Cooldown
  BY DEF NoReturnWhileCooling
<1>1. Cooling(c) /\ i \in 1 .. Len(chat[c].attempts)
  BY CandidateFacts DEF AllCooling, InLoop, Inv, TInv
<1> QED
  BY <1>1 DEF Cooling, Rested

(***************************************************************************)
(* No chat returns to an account that refused it before the account's      *)
(* cooldown is over, when no provider has a key twice: in the candidates   *)
(* of one provider the rotation, the session's account and the reports of  *)
(* other errors in between do not bring it back.                           *)
(***************************************************************************)
THEOREM RefusersAreLeftAlone ==
    ASSUME DistinctKeys
    PROVE  Spec => []NoReturnWhileCooling
<1>1. Inv /\ Inv' /\ AllCooling /\ [Next]_vars => AllCooling'
  BY NextCooling
<1>2. Spec => []AllCooling
  BY <1>1, InitCooling, Invariance, PTL DEF Spec
<1>3. Inv /\ AllCooling => NoReturnWhileCooling
  BY CoolingImplies
<1> QED
  BY <1>2, <1>3, Invariance, PTL

-----------------------------------------------------------------------------
(***************************************************************************)
(* The promise: every step of the engine is a step of FallbackPromise or   *)
(* none that the client sees.                                              *)
(***************************************************************************)
RefusedBy(atts) == {atts[i].cand : i \in DOMAIN atts}

UnusableBy(atts) ==
    {atts[i].cand : i \in {j \in DOMAIN atts : atts[j].error = "InvalidResponse"}}

VerdictOf(phase) ==
    CASE phase \in {"new", "queued", "routing", "calling"} -> "pending"
      [] phase = "gone" -> "left"
      [] OTHER -> phase

LEMMA RefusedCount ==
    ASSUME ChatsOK, NEW c \in Chat, chat[c].phase \in InLoop
    PROVE  /\ IsFiniteSet(RefusedBy(chat[c].attempts))
           /\ Cardinality(RefusedBy(chat[c].attempts)) = Len(chat[c].attempts)
           /\ Candidate(c) \notin RefusedBy(chat[c].attempts)
           /\ Cardinality(RefusedBy(chat[c].attempts) \cup {Candidate(c)})
                 = Len(chat[c].attempts) + 1
<1> PICK atts, order : atts = chat[c].attempts /\ order = chat[c].order
  OBVIOUS
<1> PICK n : n = Len(atts)
  OBVIOUS
<1>1. /\ n \in Nat /\ DOMAIN atts = 1 .. n
      /\ Len(order) \in Nat /\ n < Len(order)
      /\ \A i \in 1 .. n : atts[i].cand = order[i]
      /\ \A i, j \in 1 .. Len(order) : order[i] = order[j] => i = j
      /\ Candidate(c) = order[n + 1]
  BY CandidateFacts DEF Looping, ValidOrder
<1>2. RefusedBy(atts) = {order[i] : i \in 1 .. n}
  <2>1. RefusedBy(atts) = {atts[i].cand : i \in 1 .. n}
    BY <1>1 DEF RefusedBy
  <2>2. \A i \in 1 .. n : atts[i].cand = order[i]
    BY <1>1
  <2> QED
    BY <2>1, <2>2
<1> DEFINE f == [i \in 1 .. n |-> order[i]]
           S == {order[i] : i \in 1 .. n}
<1>3. f \in Bijection(1 .. n, S)
  <2>1. f \in [1 .. n -> S] /\ \A i, j \in 1 .. n : f[i] = f[j] => i = j
    BY <1>1
  <2>2. \A x \in S : \E i \in 1 .. n : f[i] = x
    OBVIOUS
  <2> HIDE DEF f, S
  <2> QED
    BY <2>1, <2>2 DEF Bijection, Injection, Surjection, IsInjective
<1>4. IsFiniteSet(1 .. n) /\ Cardinality(1 .. n) = n
  BY <1>1, FS_Interval
<1> HIDE DEF f, S
<1>5. IsFiniteSet(S) /\ Cardinality(S) = n
  BY <1>3, <1>4, FS_Bijection DEF ExistsBijection
<1>6. order[n + 1] \notin S
  BY <1>1 DEF S
<1>7. Cardinality(S \cup {order[n + 1]}) = n + 1
  BY <1>5, <1>6, FS_AddElement
<1> QED
  BY <1>1, <1>2, <1>5, <1>6, <1>7 DEF S

LEMMA SameCardinality == \A S : Promise!Cardinality(S) = Cardinality(S)
BY DEF Promise!Cardinality, Cardinality

LEMMA LimitOf ==
    ASSUME NEW r \in Request
    PROVE  Promise!Limit(r) = IF Len(ChainOf[r]) < MaxAttempts THEN Len(ChainOf[r]) ELSE MaxAttempts
<1>1. Cardinality(DOMAIN ChainOf[r]) = Len(ChainOf[r])
  BY ChainFacts, FS_Interval
<1> QED
  BY <1>1, SameCardinality DEF Promise!Limit

LEMMA OneMoreRefused ==
    ASSUME NEW atts \in Seq(Attempt), NEW a \in Attempt
    PROVE  /\ RefusedBy(Append(atts, a)) = RefusedBy(atts) \cup {a.cand}
           /\ UnusableBy(Append(atts, a)) =
                IF a.error = "InvalidResponse" THEN UnusableBy(atts) \cup {a.cand}
                ELSE UnusableBy(atts)
<1> PICK n \in Nat : n = Len(atts)
  OBVIOUS
<1> PICK b : b = Append(atts, a)
  OBVIOUS
<1>1. /\ DOMAIN atts = 1 .. n
      /\ DOMAIN b = 1 .. n + 1
      /\ \A i \in 1 .. n : b[i] = atts[i]
      /\ b[n + 1] = a
      /\ 1 .. n + 1 = (1 .. n) \cup {n + 1}
  OBVIOUS
<1>2. RefusedBy(b) = RefusedBy(atts) \cup {a.cand}
  BY <1>1 DEF RefusedBy
<1>3. UnusableBy(b) = IF a.error = "InvalidResponse" THEN UnusableBy(atts) \cup {a.cand}
                      ELSE UnusableBy(atts)
  <2>1. CASE a.error = "InvalidResponse"
    BY <1>1, <2>1 DEF UnusableBy
  <2>2. CASE a.error # "InvalidResponse"
    BY <1>1, <2>2 DEF UnusableBy
  <2> QED
    BY <2>1, <2>2
<1> QED
  BY <1>2, <1>3

Asked == [c \in Chat |-> chat[c].req]
AllRefused == [c \in Chat |-> RefusedBy(chat[c].attempts)]
AllUnusable == [c \in Chat |-> UnusableBy(chat[c].attempts)]
Verdicts == [c \in Chat |-> VerdictOf(chat[c].phase)]

LEMMA VerdictFacts ==
    /\ \A ph \in {"new", "queued", "routing", "calling"} : VerdictOf(ph) = "pending"
    /\ VerdictOf("gone") = "left"
    /\ VerdictOf("answered") = "answered"
    /\ VerdictOf("failed") = "failed"
BY DEF VerdictOf

\* The four kinds of steps, over the named functions.
LEMMA PromiseAsk ==
    ASSUME NEW c \in Chat, NEW r \in Request,
           Asked[c] = NoRequest, Asked' = [Asked EXCEPT ![c] = r],
           UNCHANGED <<AllRefused, AllUnusable, Verdicts>>
    PROVE  Promise!Ask(c, r)
BY DEF Promise!Ask, Asked, AllRefused, AllUnusable, Verdicts, RefusedBy, UnusableBy, VerdictOf

LEMMA PromiseAnswer ==
    ASSUME NEW c \in Chat, Asked[c] # NoRequest, Verdicts[c] = "pending",
           Cardinality(AllRefused[c]) < Promise!Limit(Asked[c]),
           Verdicts' = [Verdicts EXCEPT ![c] = "answered"],
           UNCHANGED <<Asked, AllRefused, AllUnusable>>
    PROVE  Promise!Answer(c)
BY SameCardinality DEF Promise!Answer, Promise!Pending, Asked, AllRefused, AllUnusable, Verdicts,
                       RefusedBy, UnusableBy, VerdictOf

LEMMA PromiseLeave ==
    ASSUME NEW C \in SUBSET Chat,
           \A d \in C : Asked[d] # NoRequest /\ Verdicts[d] = "pending",
           Verdicts' = [d \in Chat |-> IF d \in C THEN "left" ELSE Verdicts[d]],
           UNCHANGED <<Asked, AllRefused, AllUnusable>>
    PROVE  Promise!Leave(C)
BY DEF Promise!Leave, Promise!Pending, Asked, AllRefused, AllUnusable, Verdicts,
       RefusedBy, UnusableBy, VerdictOf

LEMMA PromiseRefuse ==
    ASSUME NEW c, NEW i, NEW bad \in BOOLEAN, NEW r \in Request,
           Asked[c] = r, Verdicts[c] = "pending",
           i \in (DOMAIN ChainOf[r]) \ AllRefused[c],
           AllRefused' = [AllRefused EXCEPT ![c] = @ \cup {i}],
           AllUnusable' = [AllUnusable EXCEPT ![c] = IF bad THEN @ \cup {i} ELSE @],
           \/ /\ Cardinality(AllRefused'[c]) = Promise!Limit(r) \/ bad
              /\ Verdicts' = [Verdicts EXCEPT ![c] = "failed"]
           \/ /\ Cardinality(AllRefused'[c]) < Promise!Limit(r)
              /\ UNCHANGED Verdicts,
           UNCHANGED Asked
    PROVE  Promise!Refuse(c, i, bad)
<1>1. Promise!Refuse(c, i, bad) <=>
         /\ Asked[c] # NoRequest /\ Verdicts[c] = "pending"
         /\ i \in [q \in Request |-> DOMAIN ChainOf[q]][Asked[c]] \ AllRefused[c]
         /\ AllRefused' = [AllRefused EXCEPT ![c] = @ \cup {i}]
         /\ AllUnusable' = [AllUnusable EXCEPT ![c] = IF bad THEN @ \cup {i} ELSE @]
         /\ \/ /\ Cardinality(AllRefused'[c]) = Promise!Limit(Asked[c]) \/ bad
               /\ Verdicts' = [Verdicts EXCEPT ![c] = "failed"]
            \/ /\ Cardinality(AllRefused'[c]) < Promise!Limit(Asked[c])
               /\ UNCHANGED Verdicts
         /\ UNCHANGED Asked
  BY SameCardinality DEF Promise!Refuse, Promise!Pending, Asked, AllRefused, AllUnusable, Verdicts,
                         RefusedBy, UnusableBy, VerdictOf
<1>2. [q \in Request |-> DOMAIN ChainOf[q]][r] = DOMAIN ChainOf[r]
  OBVIOUS
<1> QED
  BY <1>1, <1>2, FallbackAssumption

LEMMA Stutters ==
    ASSUME \A c \in Chat : /\ chat'[c].req = chat[c].req
                          /\ chat'[c].attempts = chat[c].attempts
                          /\ VerdictOf(chat'[c].phase) = VerdictOf(chat[c].phase)
    PROVE  UNCHANGED Promise!vars
<1>1. Asked' = Asked /\ AllRefused' = AllRefused /\ AllUnusable' = AllUnusable
  BY DEF Asked, AllRefused, AllUnusable
<1>2. Verdicts' = Verdicts
  BY DEF Verdicts
<1> QED
  BY <1>1, <1>2 DEF Promise!vars, Asked, AllRefused, AllUnusable, Verdicts,
                    RefusedBy, UnusableBy, VerdictOf

\* A refusal of the engine is one of the promise.
LEMMA RefusedRefuses ==
    ASSUME Inv, NEW c \in Chat, chat[c].phase \in InLoop,
           NEW target \in Target, NEW e \in CallError \cup {"Unsupported"},
           Refused(c, target, e)
    PROVE  Promise!Next
<1> PICK a : a = TheAttempt(c, target, e)
  OBVIOUS
<1> PICK atts \in Seq(Attempt) : atts = chat[c].attempts
  BY CandidateFacts DEF Inv, TInv
<1> PICK r \in Request : r = chat[c].req
  BY CandidateFacts DEF Inv, TInv
<1> PICK i : i = Candidate(c)
  OBVIOUS
<1> PICK n \in Nat : n = Len(atts)
  OBVIOUS
<1> DEFINE bad == e = "InvalidResponse"
<1>1. a \in Attempt /\ a.cand = i /\ a.error = e
  BY CandidateFacts DEF TheAttempt, Attempt, Inv, TInv, RestOK
<1>2. /\ \A d \in Chat : d # c => chat'[d] = chat[d]
      /\ chat'[c].req = r
      /\ chat'[c].attempts = Append(atts, a)
      /\ \/ /\ chat'[c].phase = "routing"
            /\ ~ Exhausted(c, n + 1)
         \/ /\ chat'[c].phase = "failed"
            /\ Exhausted(c, n + 1) \/ bad
  BY RefusedFacts DEF Inv, TInv, RestOK
<1>3. /\ RefusedBy(Append(atts, a)) = RefusedBy(atts) \cup {i}
      /\ UnusableBy(Append(atts, a)) =
            IF bad THEN UnusableBy(atts) \cup {i} ELSE UnusableBy(atts)
  <2>1. RefusedBy(Append(atts, a)) = RefusedBy(atts) \cup {a.cand}
    BY <1>1, OneMoreRefused
  <2>2. UnusableBy(Append(atts, a)) =
          IF a.error = "InvalidResponse" THEN UnusableBy(atts) \cup {a.cand} ELSE UnusableBy(atts)
    BY <1>1, OneMoreRefused
  <2> QED
    BY <1>1, <2>1, <2>2
<1>4. /\ i \notin RefusedBy(atts)
      /\ Cardinality(RefusedBy(atts) \cup {i}) = n + 1
  BY RefusedCount DEF Inv, TInv
<1>5. i \in DOMAIN ChainOf[r]
  BY CandidateFacts, ChainFacts DEF Inv, TInv
<1>6. /\ Asked[c] = r /\ AllRefused[c] = RefusedBy(atts) /\ AllUnusable[c] = UnusableBy(atts)
      /\ Verdicts[c] = "pending"
  BY DEF Asked, AllRefused, AllUnusable, Verdicts, VerdictOf, InLoop
<1>7. UNCHANGED Asked
  BY <1>2 DEF Asked
<1>8. AllRefused' = [AllRefused EXCEPT ![c] = @ \cup {i}]
  <2>1. \A d \in Chat : RefusedBy(chat'[d].attempts) =
                         IF d = c THEN RefusedBy(atts) \cup {i} ELSE RefusedBy(chat[d].attempts)
    BY <1>2, <1>3
  <2> QED
    BY <1>6, <2>1 DEF AllRefused
<1>9. AllUnusable' = [AllUnusable EXCEPT ![c] = IF bad THEN @ \cup {i} ELSE @]
  <2>1. \A d \in Chat : UnusableBy(chat'[d].attempts) =
                         IF d = c THEN (IF bad THEN UnusableBy(atts) \cup {i} ELSE UnusableBy(atts))
                         ELSE UnusableBy(chat[d].attempts)
    BY <1>2, <1>3
  <2> QED
    BY <1>6, <2>1 DEF AllUnusable
<1>10. Cardinality(AllRefused'[c]) = n + 1
  BY <1>4, <1>6, <1>8 DEF AllRefused
<1>11. /\ Exhausted(c, n + 1) => n + 1 = Promise!Limit(r)
       /\ ~ Exhausted(c, n + 1) => n + 1 < Promise!Limit(r)
  <2>1. /\ n < Len(chat[c].order) /\ n < MaxAttempts
        /\ Len(chat[c].order) = Len(ChainOf[r])
    BY CandidateFacts DEF Looping, ValidOrder, Inv, TInv
  <2>2. Len(ChainOf[r]) \in Nat /\ MaxAttempts \in Nat
    BY ChainFacts, FallbackAssumption
  <2> QED
    BY <2>1, <2>2, LimitOf DEF Exhausted
<1>12. CASE chat'[c].phase = "failed"
  <2>1. Verdicts' = [Verdicts EXCEPT ![c] = "failed"]
    BY <1>2, <1>12 DEF Verdicts, VerdictOf
  <2>2. Cardinality(AllRefused'[c]) = Promise!Limit(r) \/ bad
    BY <1>2, <1>10, <1>11, <1>12
  <2>3. Promise!Refuse(c, i, bad)
    BY <1>4, <1>5, <1>6, <1>7, <1>8, <1>9, <2>1, <2>2, PromiseRefuse
  <2> QED
    BY <1>5, <2>3 DEF Promise!Next
<1>13. CASE chat'[c].phase = "routing"
  <2>1. UNCHANGED Verdicts
    BY <1>2, <1>13 DEF Verdicts, VerdictOf, InLoop
  <2>2. Cardinality(AllRefused'[c]) < Promise!Limit(r)
    BY <1>2, <1>10, <1>11, <1>13
  <2>3. Promise!Refuse(c, i, bad)
    BY <1>4, <1>5, <1>6, <1>7, <1>8, <1>9, <2>1, <2>2, PromiseRefuse
  <2> QED
    BY <1>5, <2>3 DEF Promise!Next
<1> QED
  BY <1>2, <1>12, <1>13

\* An end of a chat is an answer or a disconnection of the promise.
LEMMA EndEnds ==
    ASSUME Inv, NEW c \in Chat, chat[c].phase \in {"queued", "calling"},
           NEW ph \in {"answered", "gone"}, chat' = [chat EXCEPT ![c] = Over(c, ph)]
    PROVE  Promise!Next
<1>1. /\ \A d \in Chat : d # c => chat'[d] = chat[d]
      /\ chat'[c].phase = ph
      /\ chat'[c].req = chat[c].req
      /\ chat'[c].attempts = chat[c].attempts
  BY EndFacts DEF Inv, TInv
<1>2. UNCHANGED <<Asked, AllRefused, AllUnusable>>
  BY <1>1 DEF Asked, AllRefused, AllUnusable
<1>3. Asked[c] \in Request /\ Asked[c] = chat[c].req /\ Asked[c] # NoRequest
  <2>1. chat[c] \in ChatRecord /\ ChatShape(chat[c])
    BY DEF Inv, TInv, ChatsOK
  <2> QED
    BY <2>1, FallbackAssumption DEF Asked, ChatRecord, ChatShape
<1>4. Verdicts[c] = "pending"
  BY VerdictFacts DEF Verdicts
<1>5. CASE ph = "answered"
  <2>1. Verdicts' = [Verdicts EXCEPT ![c] = "answered"]
    <3>1. \A d \in Chat : VerdictOf(chat'[d].phase) =
                           IF d = c THEN "answered" ELSE VerdictOf(chat[d].phase)
      BY <1>1, <1>5, VerdictFacts
    <3> QED
      BY <3>1 DEF Verdicts
  <2>2. Cardinality(AllRefused[c]) < Promise!Limit(Asked[c])
    <3>1. Len(ChainOf[chat[c].req]) \in Nat \ {0} /\ MaxAttempts \in Nat \ {0}
      BY <1>3, ChainFacts, FallbackAssumption
    <3>2. CASE chat[c].phase = "queued"
      <4>1. chat[c].attempts = <<>>
        BY <3>2 DEF Inv, TInv, ChatsOK, ChatShape
      <4>2. AllRefused[c] = {}
        BY <4>1 DEF AllRefused, RefusedBy
      <4> QED
        BY <1>3, <3>1, <4>2, FS_EmptySet, LimitOf
    <3>3. CASE chat[c].phase = "calling"
      <4>1. AllRefused[c] = RefusedBy(chat[c].attempts)
        BY DEF AllRefused
      <4>2. Cardinality(AllRefused[c]) = Len(chat[c].attempts)
        BY <3>3, <4>1, RefusedCount DEF InLoop, Inv, TInv
      <4>3. /\ Len(chat[c].attempts) < Len(ChainOf[chat[c].req])
            /\ Len(chat[c].attempts) < MaxAttempts
        BY <3>3, CandidateFacts DEF InLoop, Inv, TInv, Looping, ValidOrder
      <4> QED
        BY <1>3, <4>2, <4>3, LimitOf
    <3> QED
      BY <3>2, <3>3
  <2>3. Promise!Answer(c)
    BY <1>2, <1>3, <1>4, <2>1, <2>2, PromiseAnswer
  <2> QED
    BY <2>3 DEF Promise!Next
<1>6. CASE ph = "gone"
  <2>1. Verdicts' = [d \in Chat |-> IF d \in {c} THEN "left" ELSE Verdicts[d]]
    BY <1>1, <1>6, VerdictFacts DEF Verdicts
  <2>2. Promise!Leave({c})
    BY <1>2, <1>3, <1>4, <2>1, PromiseLeave
  <2> QED
    BY <2>2 DEF Promise!Next
<1> QED
  BY <1>5, <1>6

LEMMA RestartLeaves ==
    ASSUME Inv, Restart
    PROVE  Promise!Next
<1> PICK C \in SUBSET Chat : C = {c \in Chat : chat[c].phase \in {"queued", "routing", "calling"}}
  OBVIOUS
<1>1. \A c \in Chat : /\ chat'[c].req = chat[c].req
                     /\ chat'[c].attempts = chat[c].attempts
                     /\ chat'[c].phase = IF c \in C THEN "gone" ELSE chat[c].phase
  BY RestartFacts DEF Inv, TInv
<1>2. UNCHANGED <<Asked, AllRefused, AllUnusable>>
  BY <1>1 DEF Asked, AllRefused, AllUnusable
<1>3. \A c \in C : Asked[c] # NoRequest /\ Verdicts[c] = "pending"
  BY VerdictFacts DEF Inv, TInv, ChatsOK, ChatShape, Asked, Verdicts
<1>4. Verdicts' = [d \in Chat |-> IF d \in C THEN "left" ELSE Verdicts[d]]
  <2>1. \A d \in Chat : VerdictOf(chat'[d].phase) =
                         IF d \in C THEN "left" ELSE VerdictOf(chat[d].phase)
    BY <1>1, VerdictFacts
  <2> QED
    BY <2>1 DEF Verdicts
<1>5. Promise!Leave(C)
  BY <1>2, <1>3, <1>4, PromiseLeave
<1> QED
  BY <1>5 DEF Promise!Next

LEMMA ArriveAsks ==
    ASSUME Inv, NEW c \in Chat, NEW r \in Request, NEW s \in Session \cup {NoSession}, Arrive(c, r, s)
    PROVE  Promise!Next
<1>1. /\ \A d \in Chat : d # c => chat'[d] = chat[d]
      /\ chat[c].attempts = <<>>
      /\ chat'[c].phase = "queued"
      /\ chat'[c].req = r
      /\ chat'[c].attempts = <<>>
  BY ArriveFacts DEF Inv, TInv
<1>2. chat[c].phase = "new" /\ chat[c].req = NoRequest
  BY DEF Arrive, Inv, TInv, ChatsOK, ChatShape
<1>3. UNCHANGED <<AllRefused, AllUnusable>>
  BY <1>1 DEF AllRefused, AllUnusable
<1>4. UNCHANGED Verdicts
  BY <1>1, <1>2 DEF Verdicts, VerdictOf
<1>5. Asked[c] = NoRequest /\ Asked' = [Asked EXCEPT ![c] = r]
  BY <1>1, <1>2 DEF Asked
<1>6. Promise!Ask(c, r)
  BY <1>3, <1>4, <1>5, PromiseAsk
<1> QED
  BY <1>6 DEF Promise!Next

LEMMA NextPromise == Inv /\ [Next]_vars => [Promise!Next]_(Promise!vars)
<1> SUFFICES ASSUME Inv, [Next]_vars PROVE Promise!Next \/ UNCHANGED Promise!vars
  OBVIOUS
<1>1. ASSUME NEW c \in Chat, CacheHit(c) PROVE Promise!Next
  <2>1. Acquire(c) /\ chat' = [chat EXCEPT ![c] = Over(c, "answered")]
    BY <1>1 DEF CacheHit
  <2> QED
    BY <2>1, AcquireFacts, EndEnds
<1>2. ASSUME NEW c \in Chat, Begin(c) PROVE UNCHANGED Promise!vars
  <2>1. chat[c].phase = "queued"
    BY <1>2, AcquireFacts DEF Begin
  <2>2. /\ \A d \in Chat : d # c => chat'[d] = chat[d]
        /\ chat'[c].phase = "routing" /\ chat'[c].req = chat[c].req
        /\ chat'[c].attempts = chat[c].attempts
    BY <1>2, <2>1, BeginFacts DEF Inv, TInv, RestOK
  <2> QED
    BY <2>1, <2>2, Stutters DEF VerdictOf
<1>3. ASSUME NEW c \in Chat, RouteToAccount(c) \/ RouteWithoutKey(c) PROVE UNCHANGED Promise!vars
  <2>1. PICK p \in Provider, k \in Key \cup {NoKey} : Call(c, p, k) /\ chat[c].phase = "routing"
    <3>1. CASE RouteToAccount(c)
      <4>1. Resolved(c) \in Provider /\ chat[c].phase = "routing"
        BY <3>1 DEF RouteToAccount, HasPool
      <4>2. PICK s \in RoutePrefer(pools[Resolved(c)], Preferred(c), now) :
               Call(c, Resolved(c), pools[Resolved(c)].accounts[s].key)
        BY <3>1 DEF RouteToAccount
      <4>3. pools[Resolved(c)] \in Pool /\ s \in Slots(pools[Resolved(c)])
        BY <4>1, PickedIsAvailable DEF Inv, TInv, PoolsOK
      <4>4. pools[Resolved(c)].accounts[s].key \in Key
        BY <4>3, PoolFacts DEF Account, AccountOf
      <4> QED
        BY <4>1, <4>2, <4>4
    <3>2. CASE RouteWithoutKey(c)
      BY <3>2 DEF RouteWithoutKey, Servable
    <3> QED
      BY <1>3, <3>1, <3>2
  <2>2. /\ \A d \in Chat : d # c => chat'[d] = chat[d]
        /\ chat'[c].phase = "calling" /\ chat'[c].req = chat[c].req
        /\ chat'[c].attempts = chat[c].attempts
    BY <2>1, CallFacts DEF Inv, TInv
  <2> QED
    BY <2>1, <2>2, Stutters DEF VerdictOf
<1>4. ASSUME NEW c \in Chat, RouteUnsupported(c) \/ RouteRefused(c) PROVE Promise!Next
  <2>1. PICK e \in {"Unsupported", "RateLimited", "AuthFailed"} :
           Refused(c, NoTarget, e) /\ chat[c].phase = "routing"
    BY <1>4 DEF RouteUnsupported, RouteRefused
  <2> QED
    BY <2>1, NoTargetType, RefusedRefuses DEF CallError, InLoop
<1>5. ASSUME NEW c \in Chat, Return(c) PROVE Promise!Next
  <2>1. CASE Succeed(c)
    <3>1. chat[c].phase = "calling" /\ chat' = [chat EXCEPT ![c] = Over(c, "answered")]
      BY <2>1 DEF Succeed
    <3> QED
      BY <3>1, EndEnds
  <2>2. ASSUME NEW e \in CallError, FailCall(c, e) PROVE Promise!Next
    <3>1. chat[c].phase = "calling" /\ Refused(c, chat[c].target, e)
      BY <2>2 DEF FailCall
    <3>2. chat[c].target \in Target
      BY <3>1, CallingFacts
    <3> QED
      BY <3>1, <3>2, RefusedRefuses DEF InLoop
  <2> QED
    BY <1>5, <2>1, <2>2 DEF Return
<1>6. ASSUME NEW c \in Chat, Disconnect(c) PROVE Promise!Next
  <2>1. chat[c].phase \in {"queued", "calling"} /\ chat' = [chat EXCEPT ![c] = Over(c, "gone")]
    BY <1>6 DEF Disconnect
  <2> QED
    BY <2>1, EndEnds
<1>7. CASE Reload \/ (\E r \in Request : CacheExpire(r)) \/ Tick \/ UNCHANGED vars
  <2>1. UNCHANGED chat
    BY <1>7 DEF Reload, CacheExpire, Tick, vars
  <2> QED
    BY <2>1, Stutters
<1>8. ASSUME NEW c \in Chat, Step(c) PROVE Promise!Next \/ UNCHANGED Promise!vars
  BY <1>1, <1>2, <1>3, <1>4, <1>8 DEF Step
<1> QED
  BY <1>5, <1>6, <1>7, <1>8, ArriveAsks, RestartLeaves DEF Next

LEMMA InitPromise == Init => Promise!Init
<1> SUFFICES ASSUME Init PROVE Promise!Init
  OBVIOUS
<1>1. \A c \in Chat : chat[c].req = NoRequest /\ chat[c].attempts = <<>> /\ chat[c].phase = "new"
  BY DEF Init, NewChat
<1>2. /\ Asked = [c \in Chat |-> NoRequest]
      /\ AllRefused = [c \in Chat |-> {}]
      /\ AllUnusable = [c \in Chat |-> {}]
      /\ Verdicts = [c \in Chat |-> "pending"]
  BY <1>1 DEF Asked, AllRefused, AllUnusable, Verdicts, RefusedBy, UnusableBy, VerdictOf
<1> QED
  BY <1>2 DEF Promise!Init, Asked, AllRefused, AllUnusable, Verdicts, RefusedBy, UnusableBy, VerdictOf

(***************************************************************************)
(* The engine implements what it promises its clients: no candidate is     *)
(* tried twice, an answer comes before the candidates and max_attempts are *)
(* used up, and a chat fails exactly when they are, or an answer was       *)
(* unusable.                                                               *)
(***************************************************************************)
THEOREM PromiseKept == Spec => KeepsPromise
BY InitPromise, NextPromise, Invariance, PTL DEF Spec, KeepsPromise, Promise!Spec

=============================================================================
