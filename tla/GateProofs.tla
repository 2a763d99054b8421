----------------------------- MODULE GateProofs -----------------------------
(***************************************************************************)
(* Proofs about Gate, for any keys, tokens, chats, quotas and admin        *)
(* requests: when the list of gateway keys can be wrong, and how far usage *)
(* can pass a hard limit.                                                  *)
(***************************************************************************)
EXTENDS Gate, FiniteSetTheorems, TLAPS

keyVars == <<rows, keys, adminVars>>

(***************************************************************************)
(* What the argument needs to know of the types, and that no reload has    *)
(* newer rows than itself.                                                 *)
(***************************************************************************)
Typed ==
    /\ step \in [Admin -> {"idle", "saved", "loaded"}]
    /\ list \in [Admin -> SUBSET Token]
    /\ newer \in [Admin -> SUBSET Admin]
    /\ rows \in [KeyId -> {"unused", "active", "inactive", "deleted"}]
    /\ \A a \in Admin : a \notin newer[a]

\* Some admin request has changed the rows and not read them yet.
SomeSaved == \E b \in Admin : step[b] = "saved"

(***************************************************************************)
(* A list that has been built and not swapped in is what the table says,   *)
(* or its reload has been overtaken, or one with newer rows is to follow.  *)
(***************************************************************************)
ListFollowed(a) ==
    \/ list[a] = LiveTokens
    \/ a \in raced
    \/ SomeSaved
    \/ \E b \in newer[a] : step[b] = "loaded"

ListsFollowed == \A a \in Admin : step[a] = "loaded" => ListFollowed(a)

KInv == Typed /\ ListsFollowed /\ KeysLiveUnlessStale

-----------------------------------------------------------------------------
LEMMA KeysInit == Init => KInv
BY DEF Init, KInv, Typed, ListsFollowed, KeysLiveUnlessStale, FromDb, LiveTokens, Active

\* Chats, quotas and the clock do not touch what KInv is about.
LEMMA KeysUntouched == KInv /\ UNCHANGED keyVars => KInv'
BY DEF keyVars, adminVars, KInv, Typed, ListsFollowed, ListFollowed, SomeSaved,
       KeysLiveUnlessStale, NoReload, LiveTokens, Active

LEMMA ChatLeavesKeys == ASSUME NEW c \in Chat, ChatStep(c) PROVE UNCHANGED keyVars
BY DEF keyVars, adminVars, ChatStep, Arrive, Identify, CheckQuota, TakeLock, Answer,
       Fail, Skip, Leave

LEMMA SaveKeeps ==
    ASSUME KInv, NEW a \in Admin, NEW table, Save(a, table),
           table \in [KeyId -> {"unused", "active", "inactive", "deleted"}]
    PROVE  KInv'
<1>1. Typed'
  BY DEF KInv, Typed, Save, SetStep
<1>2. step'[a] = "saved"
  BY DEF KInv, Typed, Save, SetStep
<1>3. SomeSaved' /\ ~ NoReload'
  BY <1>2 DEF SomeSaved, NoReload
<1> QED
  BY <1>1, <1>3 DEF KInv, ListsFollowed, ListFollowed, KeysLiveUnlessStale

LEMMA KeyWritesKeep ==
    ASSUME KInv, NEW a \in Admin,
           \/ \E k \in KeyId : CreateKey(a, k) \/ UpdateKey(a, k) \/ DeleteKey(a, k)
           \/ OtherWrite(a)
    PROVE  KInv'
<1> DEFINE Tables == [KeyId -> {"unused", "active", "inactive", "deleted"}]
<1>1. rows \in Tables
  BY DEF KInv, Typed
<1>2. ASSUME NEW k \in KeyId, NEW st \in {"active", "inactive", "deleted"}
      PROVE  [rows EXCEPT ![k] = st] \in Tables
  BY <1>1, <1>2
<1>3. PICK table \in Tables : Save(a, table)
  BY <1>1, <1>2 DEF CreateKey, UpdateKey, DeleteKey, OtherWrite
<1> QED
  BY <1>3, SaveKeeps

LEMMA ReadKeeps == ASSUME KInv, NEW a \in Admin, ReloadRead(a) PROVE KInv'
<1>1. Typed'
  <2>1. FromDb \in SUBSET Token
    BY GateAssumption DEF FromDb, Active
  <2>2. list' \in [Admin -> SUBSET Token] /\ step' \in [Admin -> {"idle", "saved", "loaded"}]
    BY <2>1 DEF KInv, Typed, ReloadRead, SetStep
  <2>3. newer' \in [Admin -> SUBSET Admin]
    BY DEF KInv, Typed, ReloadRead
  <2> QED
    BY <2>2, <2>3 DEF KInv, Typed, ReloadRead
<1>2. /\ step'[a] = "loaded" /\ list'[a] = FromDb /\ FromDb = LiveTokens
      /\ LiveTokens' = LiveTokens
      /\ \A b \in Admin \ {a} : step'[b] = step[b] /\ list'[b] = list[b]
  BY DEF KInv, Typed, ReloadRead, SetStep, FromDb, LiveTokens, Active
<1>3. ASSUME NEW b \in Admin, step'[b] = "loaded" PROVE ListFollowed(b)'
  <2>1. CASE b = a
    BY <1>2, <2>1 DEF ListFollowed
  <2>2. CASE b # a
    \* This reload has newer rows than b's, and is to follow.
    <3>1. a \in newer'[b]
      BY <1>2, <1>3, <2>2 DEF ReloadRead
    <3> QED
      BY <1>2, <3>1 DEF ListFollowed
  <2> QED
    BY <2>1, <2>2
<1>4. ~ NoReload'
  BY <1>2 DEF NoReload
<1> QED
  BY <1>1, <1>3, <1>4 DEF KInv, ListsFollowed, KeysLiveUnlessStale

LEMMA SwapKeeps == ASSUME KInv, NEW a \in Admin, ReloadSwap(a) PROVE KInv'
<1>1. Typed'
  BY DEF KInv, Typed, ReloadSwap, SetStep
<1>2. /\ step[a] = "loaded" /\ step'[a] = "idle" /\ LiveTokens' = LiveTokens
      /\ keys' = list[a] /\ stale' = (a \in raced)
      /\ \A b \in Admin \ {a} : step'[b] = step[b] /\ list'[b] = list[b]
                               /\ newer'[b] = newer[b]
  BY DEF KInv, Typed, ReloadSwap, SetStep, LiveTokens, Active
<1>3. ASSUME NEW b \in Admin, step'[b] = "loaded" PROVE ListFollowed(b)'
  <2>1. b # a /\ step[b] = "loaded" /\ ListFollowed(b)
    BY <1>2, <1>3 DEF KInv, ListsFollowed
  <2>2. CASE list[b] = LiveTokens
    BY <1>2, <2>1, <2>2 DEF ListFollowed
  <2>3. CASE b \in raced
    BY <2>1, <2>3 DEF ListFollowed, ReloadSwap
  <2>4. CASE SomeSaved
    BY <1>2, <2>4 DEF ListFollowed, SomeSaved
  <2>5. ASSUME NEW d \in newer[b], step[d] = "loaded" PROVE ListFollowed(b)'
    \* If the reload that was to follow is this one, it has overtaken b's.
    <3>1. CASE d = a
      BY <2>1, <2>5, <3>1 DEF ListFollowed, ReloadSwap
    <3>2. CASE d # a
      BY <1>2, <2>1, <2>5, <3>2 DEF ListFollowed, KInv, Typed
    <3> QED
      BY <3>1, <3>2
  <2> QED
    BY <2>1, <2>2, <2>3, <2>4, <2>5 DEF ListFollowed
<1>4. KeysLiveUnlessStale'
  <2> SUFFICES ASSUME NoReload', ~ stale' PROVE list[a] = LiveTokens
    BY <1>2 DEF KeysLiveUnlessStale
  <2>1. \A b \in Admin \ {a} : step[b] = "idle"
    BY <1>2 DEF NoReload
  <2>2. a \notin raced /\ ~ SomeSaved /\ ListFollowed(a)
    BY <1>2, <2>1 DEF SomeSaved, KInv, ListsFollowed
  <2>3. a \notin newer[a]
    BY DEF KInv, Typed
  <2> QED
    BY <1>2, <2>1, <2>2, <2>3 DEF ListFollowed, KInv, Typed
<1> QED
  BY <1>1, <1>3, <1>4 DEF KInv, ListsFollowed

LEMMA RestartKeeps == ASSUME KInv, Restart PROVE KInv'
<1>1. keys' = LiveTokens'
  BY DEF Restart, FromDb, LiveTokens, Active
<1> QED
  BY <1>1 DEF Restart, KInv, Typed, ListsFollowed, KeysLiveUnlessStale

LEMMA KeysStep == KInv /\ [Next]_vars => KInv'
<1> SUFFICES ASSUME KInv, [Next]_vars PROVE KInv'
  OBVIOUS
<1>1. ASSUME NEW c \in Chat, ChatStep(c) PROVE KInv'
  BY <1>1, ChatLeavesKeys, KeysUntouched
<1>2. ASSUME NEW a \in Admin, AdminStep(a) PROVE KInv'
  BY <1>2, KeyWritesKeep, ReadKeeps, SwapKeeps DEF AdminStep
<1>3. CASE CreateQuota \/ DeleteQuota \/ Tick \/ UNCHANGED vars
  BY <1>3, KeysUntouched DEF CreateQuota, DeleteQuota, Tick, vars, keyVars, adminVars
<1>4. CASE Restart
  BY <1>4, RestartKeeps
<1> QED
  BY <1>1, <1>2, <1>3, <1>4 DEF Next

(***************************************************************************)
(* Whatever admin requests overlap, the list of gateway keys agrees with   *)
(* the table when they are over, unless a reload that had been overtaken   *)
(* was the last to swap its list in (reload_gateway_keys, proxy.rs).       *)
(***************************************************************************)
THEOREM KeysAgree == Spec => []KeysLiveUnlessStale
<1>1. KInv => KeysLiveUnlessStale
  BY DEF KInv
<1> QED
  BY <1>1, KeysInit, KeysStep, PTL DEF Spec
-----------------------------------------------------------------------------
(***************************************************************************)
(* The types.                                                              *)
(***************************************************************************)
ChatRecord ==
    [at : {"idle", "admitted", "identified", "waiting", "running"},
     token : Token \cup {NoToken}, id : KeyId \cup {NoKeyId},
     stream : BOOLEAN, tried : 0 .. MaxAttempts - 1]

QuotaRecord == [key : KeyId, unit : Unit, limit : Nat, window : Nat,
                policy : {"hard", "soft"}, base : Nat]

ChatsTyped == chat \in [Chat -> ChatRecord] /\ holder \in Chat \cup {NoChat}

UsageTyped ==
    /\ now \in 0 .. MaxTime
    /\ quotas \subseteq QuotaRecord
    /\ log \in [KeyId -> [0 .. MaxTime -> [Unit -> Nat]]]

KeysTyped ==
    /\ rows \in [KeyId -> {"unused", "active", "inactive", "deleted"}]
    /\ keys \in SUBSET Token
    /\ step \in [Admin -> {"idle", "saved", "loaded"}]
    /\ list \in [Admin -> SUBSET Token]
    /\ newer \in [Admin -> SUBSET Admin]
    /\ raced \in SUBSET Admin
    /\ stale \in BOOLEAN

LEMMA TypesTogether == TypeOK <=> ChatsTyped /\ UsageTyped /\ KeysTyped
  BY DEF TypeOK, ChatsTyped, UsageTyped, KeysTyped, ChatRecord, QuotaRecord

(***************************************************************************)
(* What the log has for one key, l, of a unit at some instants, and how    *)
(* its amount changes.                                                     *)
(***************************************************************************)
KeyLog == [0 .. MaxTime -> [Unit -> Nat]]

In(l, unit, T) == UNION {{t} \X (1 .. l[t][unit]) : t \in T}

LEMMA InElements ==
    ASSUME NEW l \in KeyLog, NEW unit \in Unit, NEW T \in SUBSET (0 .. MaxTime)
    PROVE  In(l, unit, T) = {e \in T \X Nat : e[2] \in 1 .. l[e[1]][unit]}
<1> DEFINE E == {e \in T \X Nat : e[2] \in 1 .. l[e[1]][unit]}
<1>1. ASSUME NEW e \in In(l, unit, T) PROVE e \in E
  <2>1. PICK t \in T : e \in {t} \X (1 .. l[t][unit])
    BY <1>1 DEF In
  <2>2. l[t][unit] \in Nat
    BY DEF KeyLog
  <2> QED
    BY <2>1, <2>2
<1>2. ASSUME NEW e \in E PROVE e \in In(l, unit, T)
  <2>1. e[1] \in T /\ e \in {e[1]} \X (1 .. l[e[1]][unit])
    OBVIOUS
  <2> QED
    BY <2>1 DEF In
<1> QED
  BY <1>1, <1>2

LEMMA InFinite ==
    ASSUME NEW l \in KeyLog, NEW unit \in Unit, NEW T \in SUBSET (0 .. MaxTime)
    PROVE  IsFiniteSet(In(l, unit, T)) /\ Cardinality(In(l, unit, T)) \in Nat
<1> DEFINE f == [t \in T |-> {t} \X (1 .. l[t][unit])]
           parts == {f[t] : t \in T}
<1>1. IsFiniteSet(T)
  <2>1. 0 \in Int /\ MaxTime \in Int
    BY GateAssumption
  <2>2. IsFiniteSet(0 .. MaxTime)
    BY <2>1, FS_Interval
  <2> QED
    BY <2>2, FS_Subset
<1>2. IsFiniteSet(parts)
  <2>1. f \in Surjection(T, parts)
    BY DEF Surjection
  <2> QED
    BY <1>1, <2>1, FS_Surjection
<1>3. \A p \in parts : IsFiniteSet(p)
  <2> SUFFICES ASSUME NEW t \in T PROVE IsFiniteSet({t} \X (1 .. l[t][unit]))
    OBVIOUS
  <2>1. PICK n \in Nat : n = l[t][unit]
    BY DEF KeyLog
  <2>2. IsFiniteSet({t})
    BY FS_Singleton
  <2>3. IsFiniteSet(1 .. n)
    BY FS_Interval
  <2> QED
    BY <2>1, <2>2, <2>3, FS_Product
<1>4. In(l, unit, T) = UNION parts
  BY DEF In
<1>5. IsFiniteSet(In(l, unit, T))
  <2> HIDE DEF parts
  <2> QED
    BY <1>2, <1>3, <1>4, FS_UNION
<1> QED
  BY <1>5, FS_CardinalityType

\* One set without another leaves what its size says.
LEMMA Parted ==
    ASSUME NEW S, IsFiniteSet(S), NEW D \in SUBSET S, NEW R \in SUBSET (S \ D)
    PROVE  /\ IsFiniteSet(R) /\ Cardinality(R) \in Nat /\ Cardinality(D) \in Nat
           /\ Cardinality(S) \in Nat /\ Cardinality(R) + Cardinality(D) <= Cardinality(S)
<1>1. S \cap D = D
  OBVIOUS
<1>2. IsFiniteSet(S \ D) /\ Cardinality(S \ D) = Cardinality(S) - Cardinality(S \cap D)
  BY FS_Difference
<1>3. IsFiniteSet(R) /\ Cardinality(R) <= Cardinality(S \ D)
  BY <1>2, FS_Subset
<1>4. IsFiniteSet(D)
  BY FS_Subset
<1>5. /\ Cardinality(R) \in Nat /\ Cardinality(D) \in Nat /\ Cardinality(S) \in Nat
      /\ Cardinality(S \ D) \in Nat
  BY <1>2, <1>3, <1>4, FS_CardinalityType
<1>6. Cardinality(S \ D) = Cardinality(S) - Cardinality(D)
  BY <1>1, <1>2
<1> QED
  BY <1>3, <1>5, <1>6

\* n more at one instant are n more in the log.
LEMMA MoreConsumed ==
    ASSUME NEW l \in KeyLog, NEW m \in KeyLog, NEW unit \in Unit,
           NEW T \in SUBSET (0 .. MaxTime), NEW s \in T, NEW n \in Nat,
           m[s][unit] = l[s][unit] + n,
           \A t \in T : t # s => m[t][unit] = l[t][unit]
    PROVE  Cardinality(In(m, unit, T)) = Cardinality(In(l, unit, T)) + n
<1> DEFINE a == l[s][unit]
           new == {s} \X (a + 1 .. a + n)
           old == In(l, unit, T)
<1>1. a \in Nat /\ \A t \in T : l[t][unit] \in Nat /\ m[t][unit] \in Nat
  BY DEF KeyLog
<1>2. In(m, unit, T) = old \cup new /\ old \cap new = {}
  <2>1. /\ In(m, unit, T) = {e \in T \X Nat : e[2] \in 1 .. m[e[1]][unit]}
        /\ old = {e \in T \X Nat : e[2] \in 1 .. l[e[1]][unit]}
    BY InElements
  <2> HIDE DEF old
  <2>2. ASSUME NEW e \in T \X Nat
        PROVE  /\ e[2] \in 1 .. m[e[1]][unit] <=> (e \in old \/ e \in new)
               /\ ~ (e \in old /\ e \in new)
    <3>1. CASE e[1] = s
      <4>1. e \in new <=> e[2] \in a + 1 .. a + n
        BY <3>1
      <4>2. e \in old <=> e[2] \in 1 .. a
        BY <2>1, <3>1
      <4>3. m[e[1]][unit] = a + n
        BY <3>1
      <4> HIDE DEF a, new
      <4> QED
        BY <1>1, <4>1, <4>2, <4>3
    <3>2. CASE e[1] # s
      BY <2>1, <3>2
    <3> QED
      BY <3>1, <3>2
  <2>3. new \subseteq T \X Nat
    BY <1>1
  <2> HIDE DEF new
  <2> QED
    BY <2>1, <2>2, <2>3
<1>3. IsFiniteSet(new) /\ Cardinality(new) = n
  <2>1. IsFiniteSet({s}) /\ Cardinality({s}) = 1
    BY FS_Singleton
  <2>2. IsFiniteSet(a + 1 .. a + n) /\ Cardinality(a + 1 .. a + n) = n
    <3> HIDE DEF a
    <3>1. a + 1 \in Int /\ a + n \in Int
      BY <1>1
    <3>2. /\ IsFiniteSet(a + 1 .. a + n)
          /\ Cardinality(a + 1 .. a + n) = IF a + 1 > a + n THEN 0 ELSE (a + n) - (a + 1) + 1
      BY <3>1, FS_Interval
    <3> QED
      BY <1>1, <3>2
  <2>3. /\ IsFiniteSet(new)
        /\ Cardinality(new) = Cardinality({s}) * Cardinality(a + 1 .. a + n)
    BY <2>1, <2>2, FS_Product
  <2> QED
    BY <2>1, <2>2, <2>3
<1>4. IsFiniteSet(old) /\ Cardinality(old) \in Nat
  BY InFinite
<1> HIDE DEF old, new
<1>5. Cardinality(old \cup new) = Cardinality(old) + Cardinality(new) - Cardinality(old \cap new)
  BY <1>3, <1>4, FS_Union
<1>6. Cardinality(old \cap new) = 0
  BY <1>2, FS_EmptySet
<1>7. Cardinality(In(m, unit, T)) = Cardinality(old \cup new)
  BY <1>2
<1>8. Cardinality(old \cup new) = Cardinality(old) + n
  BY <1>3, <1>4, <1>5, <1>6
<1> QED
  BY <1>7, <1>8 DEF old
-----------------------------------------------------------------------------
(***************************************************************************)
(* What the chats may still add: one for each candidate that has not been  *)
(* tried, and MaxTokens for each answer, as many pairs.                    *)
(***************************************************************************)
Chats == [Chat -> ChatRecord]

Passed(ch, k) == {c \in Chat : ch[c].at \in {"waiting", "running"} /\ ch[c].id = k}

ToCome(ch, k, unit) ==
    {e \in Passed(ch, k) \X (1 .. PerChat(unit)) :
        unit = "requests" => e[2] > ch[e[1]].tried}

LEMMA PerChatType == \A unit \in Unit : PerChat(unit) \in Nat
  BY GateAssumption DEF PerChat, Unit

LEMMA ToComeBounded ==
    ASSUME NEW ch \in Chats, NEW k \in KeyId, NEW unit \in Unit
    PROVE  /\ IsFiniteSet(ToCome(ch, k, unit))
           /\ Cardinality(ToCome(ch, k, unit)) \in Nat
           /\ Cardinality(Passed(ch, k)) \in Nat
           /\ Cardinality(Chat) \in Nat
           /\ Cardinality(ToCome(ch, k, unit)) <= PerChat(unit) * Cardinality(Passed(ch, k))
           /\ Cardinality(ToCome(ch, k, unit)) <= PerChat(unit) * Cardinality(Chat)
<1> DEFINE U == Passed(ch, k)
           S == ToCome(ch, k, unit)
<1>1. PICK n \in Nat : n = PerChat(unit)
  BY PerChatType
<1>2. IsFiniteSet(Chat) /\ U \subseteq Chat
  BY GateAssumption DEF Passed
<1>3. S \subseteq U \X (1 .. n)
  BY <1>1 DEF ToCome
<1> HIDE DEF U, S
<1>4. IsFiniteSet(U) /\ Cardinality(U) <= Cardinality(Chat)
  BY <1>2, FS_Subset
<1>5. Cardinality(U) \in Nat /\ Cardinality(Chat) \in Nat
  BY <1>2, <1>4, FS_CardinalityType
<1>6. IsFiniteSet(1 .. n) /\ Cardinality(1 .. n) = n
  BY FS_Interval
<1>7. /\ IsFiniteSet(U \X (1 .. n))
      /\ Cardinality(U \X (1 .. n)) = Cardinality(U) * Cardinality(1 .. n)
  BY <1>4, <1>6, FS_Product
<1>8. IsFiniteSet(S) /\ Cardinality(S) <= Cardinality(U \X (1 .. n))
  BY <1>3, <1>7, FS_Subset
<1>9. Cardinality(S) \in Nat
  BY <1>8, FS_CardinalityType
<1>10. Cardinality(S) <= Cardinality(U) * n
  BY <1>6, <1>7, <1>8
<1>11. \A u, v, p \in Nat : u <= v => u * p = p * u /\ p * u <= p * v
  OBVIOUS
<1>12. Cardinality(S) <= n * Cardinality(U) /\ n * Cardinality(U) <= n * Cardinality(Chat)
  BY <1>4, <1>5, <1>10, <1>11
<1>13. n * Cardinality(U) \in Nat /\ n * Cardinality(Chat) \in Nat
  BY <1>5
<1>14. Cardinality(S) <= n * Cardinality(Chat)
  BY <1>9, <1>12, <1>13
<1> QED
  BY <1>1, <1>5, <1>8, <1>9, <1>12, <1>14 DEF U, S

\* The chats change and nothing more is to come.
LEMMA NoMoreToCome ==
    ASSUME NEW ch \in Chats, NEW d \in Chats, NEW k \in KeyId, NEW unit \in Unit,
           \A c \in Passed(d, k) : c \in Passed(ch, k) /\ d[c].tried >= ch[c].tried
    PROVE  Cardinality(ToCome(d, k, unit)) <= Cardinality(ToCome(ch, k, unit))
<1>1. \A c \in Chat : d[c].tried \in Nat /\ ch[c].tried \in Nat
  BY DEF Chats, ChatRecord
<1>2. PICK n \in Nat : n = PerChat(unit)
  BY PerChatType
<1>3. Passed(d, k) \subseteq Chat
  BY DEF Passed
<1>4. ASSUME NEW e \in ToCome(d, k, unit) PROVE e \in ToCome(ch, k, unit)
  <2>1. e \in Passed(d, k) \X (1 .. n) /\ (unit = "requests" => e[2] > d[e[1]].tried)
    BY <1>2, <1>4 DEF ToCome
  <2>2. e[1] \in Passed(d, k) /\ e[1] \in Chat /\ e[2] \in Nat
    BY <1>3, <2>1
  <2>3. e \in Passed(ch, k) \X (1 .. n)
    BY <2>1, <2>2
  <2>4. unit = "requests" => e[2] > ch[e[1]].tried
    BY <1>1, <2>1, <2>2
  <2> QED
    BY <1>2, <2>3, <2>4 DEF ToCome
<1>5. ToCome(d, k, unit) \subseteq ToCome(ch, k, unit)
  BY <1>4
<1> QED
  BY <1>5, ToComeBounded, FS_Subset

\* A chat tries a candidate: one request less is to come.
LEMMA OneTried ==
    ASSUME NEW ch \in Chats, NEW d \in Chats, NEW k \in KeyId, NEW c \in Passed(ch, k),
           \A x \in Chat : x # c => d[x] = ch[x],
           c \in Passed(d, k) => d[c].tried = ch[c].tried + 1
    PROVE  Cardinality(ToCome(d, k, "requests")) + 1 <= Cardinality(ToCome(ch, k, "requests"))
<1> DEFINE S == ToCome(ch, k, "requests")
           R == ToCome(d, k, "requests")
           e == <<c, ch[c].tried + 1>>
<1>1. "requests" \in Unit /\ PerChat("requests") = MaxAttempts
  BY DEF Unit, PerChat
<1>2. c \in Chat /\ \A x \in Chat : ch[x].tried \in 0 .. MaxAttempts - 1
  BY DEF Chats, ChatRecord, Passed
<1>3. e \in S
  BY <1>1, <1>2, GateAssumption DEF ToCome
<1>4. ASSUME NEW f \in R PROVE f \in S \ {e}
  <2>1. f \in Passed(d, k) \X (1 .. MaxAttempts) /\ f[2] > d[f[1]].tried
    BY <1>1, <1>4 DEF ToCome
  <2>2. f[1] \in Passed(d, k) /\ f[1] \in Chat /\ f[2] \in 1 .. MaxAttempts /\ f = <<f[1], f[2]>>
    BY <2>1 DEF Passed
  <2>3. CASE f[1] = c
    <3>1. d[c].tried = ch[c].tried + 1 /\ f[2] > ch[c].tried + 1
      BY <2>1, <2>2, <2>3
    <3>2. f # e /\ f[2] > ch[f[1]].tried
      BY <1>2, <2>2, <2>3, <3>1, GateAssumption
    <3> QED
      BY <1>1, <2>2, <2>3, <3>2 DEF ToCome
  <2>4. CASE f[1] # c
    <3>1. d[f[1]] = ch[f[1]]
      BY <2>2, <2>4
    <3>2. f[1] \in Passed(ch, k)
      BY <2>2, <3>1 DEF Passed
    <3>3. f # e
      BY <2>4
    <3> QED
      BY <1>1, <2>1, <2>2, <3>1, <3>2, <3>3 DEF ToCome
  <2> QED
    BY <2>3, <2>4
<1>5. IsFiniteSet(S)
  BY <1>1, ToComeBounded
<1> HIDE DEF S, R, e
<1>6. R \in SUBSET (S \ {e}) /\ {e} \in SUBSET S
  BY <1>3, <1>4
<1>7. Cardinality(R) + Cardinality({e}) <= Cardinality(S)
  BY <1>5, <1>6, Parted
<1>8. Cardinality({e}) = 1
  BY FS_Singleton
<1> QED
  BY <1>7, <1>8 DEF S, R

\* A chat is answered: MaxTokens less are to come.
LEMMA OneAnswered ==
    ASSUME NEW ch \in Chats, NEW d \in Chats, NEW k \in KeyId, NEW c \in Passed(ch, k),
           \A x \in Chat : x # c => d[x] = ch[x], c \notin Passed(d, k)
    PROVE  Cardinality(ToCome(d, k, "tokens")) + MaxTokens <= Cardinality(ToCome(ch, k, "tokens"))
<1> DEFINE S == ToCome(ch, k, "tokens")
           R == ToCome(d, k, "tokens")
           D == {c} \X (1 .. MaxTokens)
<1>1. "tokens" \in Unit /\ PerChat("tokens") = MaxTokens
  BY DEF Unit, PerChat
<1>2. S = Passed(ch, k) \X (1 .. MaxTokens) /\ R = Passed(d, k) \X (1 .. MaxTokens)
  BY <1>1 DEF ToCome
<1>3. ASSUME NEW x \in Passed(d, k) PROVE x \in Passed(ch, k) /\ x # c
  BY DEF Passed
<1>4. R \in SUBSET (S \ D) /\ D \in SUBSET S
  BY <1>2, <1>3
<1>5. IsFiniteSet(S)
  BY <1>1, ToComeBounded
<1> HIDE DEF S, R
<1>6. Cardinality(R) + Cardinality(D) <= Cardinality(S)
  <2> HIDE DEF D
  <2> QED
    BY <1>4, <1>5, Parted
<1>7. Cardinality(D) = MaxTokens
  <2>1. IsFiniteSet({c}) /\ Cardinality({c}) = 1
    BY FS_Singleton
  <2>2. IsFiniteSet(1 .. MaxTokens) /\ Cardinality(1 .. MaxTokens) = MaxTokens
    BY FS_Interval, GateAssumption
  <2>3. Cardinality(D) = Cardinality({c}) * Cardinality(1 .. MaxTokens)
    BY <2>1, <2>2, FS_Product
  <2> QED
    BY <2>1, <2>2, <2>3, GateAssumption
<1> QED
  BY <1>6, <1>7 DEF S, R
-----------------------------------------------------------------------------
(***************************************************************************)
(* The types are kept.                                                     *)
(***************************************************************************)
LEMMA UsedType ==
    ASSUME UsageTyped, NEW k \in KeyId, NEW unit \in Unit, NEW window \in Nat
    PROVE  /\ log[k] \in KeyLog
           /\ Instants(window) \in SUBSET (0 .. MaxTime)
           /\ Usage(k, unit, window) = Cardinality(In(log[k], unit, Instants(window)))
           /\ Usage(k, unit, window) \in Nat
<1>1. log[k] \in KeyLog
  BY DEF UsageTyped, KeyLog
<1>2. Instants(window) \in SUBSET (0 .. MaxTime)
  BY GateAssumption DEF UsageTyped, Instants
<1>3. Usage(k, unit, window) = Cardinality(In(log[k], unit, Instants(window)))
  BY DEF Usage, Consumed, In
<1> QED
  BY <1>1, <1>2, <1>3, InFinite

LEMMA FromDbTyped == FromDb \in SUBSET Token
<1>1. \A k \in Active : TokenOf[k] \in Token
  BY GateAssumption DEF Active
<1> QED
  BY <1>1, GateAssumption DEF FromDb

LEMMA IdleTyped == Idle \in ChatRecord
  BY GateAssumption DEF Idle, ChatRecord

LEMMA RecordTyped ==
    ASSUME UsageTyped, NEW c \in Chat, NEW tokens \in Nat, Record(c, tokens)
    PROVE  log' \in [KeyId -> KeyLog]
<1>1. now \in 0 .. MaxTime /\ \A k \in KeyId : log[k] \in KeyLog
  BY DEF UsageTyped, KeyLog
<1>2. ASSUME NEW f \in [Unit -> Nat]
      PROVE  [requests |-> f.requests + 1, tokens |-> f.tokens + tokens] \in [Unit -> Nat]
  BY DEF Unit
<1>3. ASSUME NEW l \in KeyLog
      PROVE  [l EXCEPT ![now] = [requests |-> @.requests + 1, tokens |-> @.tokens + tokens]] \in KeyLog
  <2>1. l[now] \in [Unit -> Nat]
    BY <1>1 DEF KeyLog
  <2>2. [requests |-> l[now].requests + 1, tokens |-> l[now].tokens + tokens] \in [Unit -> Nat]
    BY <1>2, <2>1
  <2> QED
    BY <1>1, <2>2 DEF KeyLog
<1> QED
  BY <1>1, <1>3 DEF Record

LEMMA ChatTypes ==
    ASSUME TypeOK, NEW c \in Chat, ChatStep(c)
    PROVE  TypeOK'
<1>1. ChatsTyped /\ UsageTyped /\ KeysTyped
  BY TypesTogether
<1>2. KeysTyped'
  BY <1>1, ChatLeavesKeys DEF KeysTyped, keyVars, adminVars
<1>3. now' = now /\ quotas' = quotas
  BY DEF ChatStep, Arrive, Identify, CheckQuota, TakeLock, Answer, Fail, Skip, Leave
<1>4. log' \in [KeyId -> KeyLog]
  <2>1. CASE log' = log
    BY <1>1, <2>1 DEF UsageTyped, KeyLog
  <2>2. ASSUME Answer(c) PROVE log' \in [KeyId -> KeyLog]
    <3>1. PICK tokens \in 0 .. MaxTokens : Record(c, tokens)
      BY <2>2 DEF Answer
    <3>2. tokens \in Nat
      BY GateAssumption
    <3> QED
      BY <1>1, <3>1, <3>2, RecordTyped
  <2>3. ASSUME Fail(c) PROVE log' \in [KeyId -> KeyLog]
    <3>1. Record(c, 0) /\ 0 \in Nat
      BY <2>3 DEF Fail
    <3> QED
      BY <1>1, <3>1, RecordTyped
  <2> QED
    BY <2>1, <2>2, <2>3 DEF ChatStep, Arrive, Identify, CheckQuota, TakeLock, Skip, Leave
<1>5. UsageTyped'
  BY <1>1, <1>3, <1>4 DEF UsageTyped, KeyLog
<1>6. End(c) => chat' \in [Chat -> ChatRecord]
  BY <1>1, IdleTyped DEF End, ChatsTyped
<1>7. chat[c] \in ChatRecord
  BY <1>1 DEF ChatsTyped
<1>8. GoOn(c) => chat' \in [Chat -> ChatRecord] /\ holder' = holder
  <2> SUFFICES ASSUME GoOn(c) PROVE chat' \in [Chat -> ChatRecord] /\ holder' = holder
    OBVIOUS
  <2>1. chat' = [chat EXCEPT ![c].tried = @ + 1] /\ holder' = holder
    BY DEF GoOn
  <2>2. chat[c].tried + 1 \in 0 .. MaxAttempts - 1
    BY <1>7, GateAssumption DEF GoOn, MayGoOn, ChatRecord
  <2>3. [chat[c] EXCEPT !.tried = @ + 1] \in ChatRecord
    BY <1>7, <2>2 DEF ChatRecord
  <2> QED
    BY <1>1, <2>1, <2>3 DEF ChatsTyped
<1>9. ChatsTyped'
  <2>1. CASE Arrive(c)
    <3>1. PICK t \in Token \cup {NoToken}, s \in BOOLEAN :
             chat' = [chat EXCEPT ![c] = [Idle EXCEPT !.at = "admitted", !.token = t, !.stream = s]]
      BY <2>1 DEF Arrive
    <3>2. [Idle EXCEPT !.at = "admitted", !.token = t, !.stream = s] \in ChatRecord
      BY IdleTyped DEF ChatRecord
    <3>3. holder' = holder
      BY <2>1 DEF Arrive
    <3> QED
      BY <1>1, <3>1, <3>2, <3>3 DEF ChatsTyped
  <2>2. CASE Identify(c)
    <3>1. PICK id \in KeyId \cup {NoKeyId} :
             chat' = [chat EXCEPT ![c].at = "identified", ![c].id = id, ![c].token = NoToken]
      BY <2>2 DEF Identify
    <3>2. [[[chat[c] EXCEPT !.at = "identified"] EXCEPT !.id = id] EXCEPT !.token = NoToken]
             \in ChatRecord
      BY <1>7 DEF ChatRecord
    <3>3. holder' = holder
      BY <2>2 DEF Identify
    <3> QED
      BY <1>1, <3>1, <3>2, <3>3 DEF ChatsTyped
  <2>3. CASE CheckQuota(c)
    <3>1. [chat[c] EXCEPT !.at = "waiting"] \in ChatRecord
      BY <1>7 DEF ChatRecord
    <3> QED
      BY <1>1, <1>6, <2>3, <3>1 DEF CheckQuota, ChatsTyped
  <2>4. CASE TakeLock(c)
    <3>1. [chat[c] EXCEPT !.at = "running"] \in ChatRecord
      BY <1>7 DEF ChatRecord
    <3> QED
      BY <1>1, <2>4, <3>1 DEF TakeLock, ChatsTyped
  <2>5. CASE Answer(c)
    BY <1>6, <2>5 DEF Answer, Release, ChatsTyped
  <2>6. CASE Fail(c)
    BY <1>1, <1>6, <1>8, <2>6 DEF Fail, Release, ChatsTyped
  <2>7. CASE Skip(c)
    BY <1>1, <1>6, <1>8, <2>7 DEF Skip, Release, ChatsTyped
  <2>8. CASE Leave(c)
    BY <1>1, <1>6, <2>8 DEF Leave, ChatsTyped
  <2> QED
    BY <2>1, <2>2, <2>3, <2>4, <2>5, <2>6, <2>7, <2>8 DEF ChatStep
<1> QED
  <2>1. TypeOK' <=> (ChatsTyped /\ UsageTyped /\ KeysTyped)'
    BY DEF TypeOK, ChatsTyped, UsageTyped, KeysTyped, ChatRecord, QuotaRecord
  <2> QED
    BY <1>2, <1>5, <1>9, <2>1

LEMMA AdminTypes ==
    ASSUME TypeOK, NEW a \in Admin, AdminStep(a)
    PROVE  TypeOK'
<1>1. ChatsTyped /\ UsageTyped /\ KeysTyped
  BY TypesTogether
<1>2. UNCHANGED <<now, quotas, log, chat, holder>>
  BY DEF AdminStep, CreateKey, UpdateKey, DeleteKey, OtherWrite, Save, ReloadRead, ReloadSwap
<1>3. FromDb \in SUBSET Token
  BY FromDbTyped
<1>4. KeysTyped'
  <2>1. ASSUME NEW table \in [KeyId -> {"unused", "active", "inactive", "deleted"}],
               Save(a, table)
        PROVE  KeysTyped'
    BY <1>1, <2>1 DEF KeysTyped, Save, SetStep
  <2>2. ASSUME NEW k \in KeyId, CreateKey(a, k) \/ UpdateKey(a, k) \/ DeleteKey(a, k)
        PROVE  KeysTyped'
    <3>1. PICK st \in {"active", "inactive", "deleted"} : Save(a, [rows EXCEPT ![k] = st])
      BY <2>2 DEF CreateKey, UpdateKey, DeleteKey
    <3>2. [rows EXCEPT ![k] = st] \in [KeyId -> {"unused", "active", "inactive", "deleted"}]
      BY <1>1 DEF KeysTyped
    <3> QED
      BY <2>1, <3>1, <3>2
  <2>3. CASE OtherWrite(a)
    BY <1>1, <2>1, <2>3 DEF OtherWrite, KeysTyped
  <2>4. CASE ReloadRead(a)
    BY <1>1, <1>3, <2>4 DEF ReloadRead, SetStep, KeysTyped
  <2>5. CASE ReloadSwap(a)
    BY <1>1, <2>5 DEF ReloadSwap, SetStep, KeysTyped
  <2> QED
    BY <2>2, <2>3, <2>4, <2>5 DEF AdminStep
<1>5. ChatsTyped' /\ UsageTyped'
  BY <1>1, <1>2 DEF ChatsTyped, UsageTyped
<1> QED
  <2>1. TypeOK' <=> (ChatsTyped /\ UsageTyped /\ KeysTyped)'
    BY DEF TypeOK, ChatsTyped, UsageTyped, KeysTyped, ChatRecord, QuotaRecord
  <2> QED
    BY <1>4, <1>5, <2>1
LEMMA InitTypes == Init => TypeOK
<1> SUFFICES ASSUME Init PROVE TypeOK
  OBVIOUS
<1>1. ChatsTyped
  BY IdleTyped DEF Init, ChatsTyped
<1>2. UsageTyped
  <2>1. [requests |-> 0, tokens |-> 0] \in [Unit -> Nat]
    BY DEF Unit
  <2> QED
    BY <2>1, GateAssumption DEF Init, UsageTyped
<1>3. KeysTyped
  <2>1. rows \in [KeyId -> {"unused", "active", "inactive", "deleted"}]
    BY DEF Init
  <2> QED
    BY <2>1, FromDbTyped DEF Init, KeysTyped
<1> QED
  BY <1>1, <1>2, <1>3, TypesTogether

LEMMA NextTypes == TypeOK /\ [Next]_vars => TypeOK'
<1> SUFFICES ASSUME TypeOK, [Next]_vars PROVE TypeOK'
  OBVIOUS
<1>1. ChatsTyped /\ UsageTyped /\ KeysTyped
  BY TypesTogether
<1>2. TypeOK' <=> (ChatsTyped /\ UsageTyped /\ KeysTyped)'
  BY DEF TypeOK, ChatsTyped, UsageTyped, KeysTyped, ChatRecord, QuotaRecord
<1>3. ASSUME CreateQuota PROVE TypeOK'
  <2>1. PICK q \in QuotaBody :
           quotas' = quotas \cup {[key |-> q.key, unit |-> q.unit, limit |-> q.limit,
                                   window |-> q.window, policy |-> q.policy,
                                   base |-> Used(q) + Underway(q.key, q.unit)]}
    BY <1>3 DEF CreateQuota
  <2>2. q \in [key : KeyId, unit : Unit, limit : Nat, window : Nat, policy : {"hard", "soft"}]
    BY GateAssumption
  <2>3. Used(q) \in Nat
    BY <1>1, <2>2, UsedType DEF Used
  <2>4. Underway(q.key, q.unit) \in Nat
    <3> DEFINE U == {c \in Chat : chat[c].at \in {"waiting", "running"} /\ chat[c].id = q.key}
    <3>1. IsFiniteSet(U)
      BY GateAssumption, FS_Subset
    <3>2. Cardinality(U) \in Nat
      <4> HIDE DEF U
      <4> QED
        BY <3>1, FS_CardinalityType
    <3>3. PICK n \in Nat : n = PerChat(q.unit)
      BY <2>2, PerChatType
    <3>4. Underway(q.key, q.unit) = n * Cardinality(U)
      BY <3>3 DEF Underway
    <3> HIDE DEF U
    <3> QED
      BY <3>2, <3>4
  <2>5. Used(q) + Underway(q.key, q.unit) \in Nat
    BY <2>3, <2>4
  <2>6. [key |-> q.key, unit |-> q.unit, limit |-> q.limit,
         window |-> q.window, policy |-> q.policy,
         base |-> Used(q) + Underway(q.key, q.unit)] \in QuotaRecord
    BY <2>2, <2>5 DEF QuotaRecord
  <2>7. quotas' \subseteq QuotaRecord
    BY <1>1, <2>1, <2>6 DEF UsageTyped
  <2> QED
    BY <1>1, <1>2, <1>3, <2>7 DEF CreateQuota, adminVars, ChatsTyped, UsageTyped, KeysTyped
<1>4. CASE DeleteQuota
  BY <1>1, <1>2, <1>4 DEF DeleteQuota, adminVars, ChatsTyped, UsageTyped, KeysTyped
<1>5. CASE Restart
  <2>1. ChatsTyped'
    BY <1>5, IdleTyped DEF Restart, ChatsTyped
  <2>2. UsageTyped'
    BY <1>1, <1>5 DEF Restart, UsageTyped
  <2>3. KeysTyped'
    BY <1>1, <1>5, FromDbTyped DEF Restart, KeysTyped
  <2> QED
    BY <1>2, <2>1, <2>2, <2>3
<1>6. CASE Tick
  BY <1>1, <1>2, <1>6, GateAssumption DEF Tick, adminVars, ChatsTyped, UsageTyped, KeysTyped
<1>7. CASE UNCHANGED vars
  BY <1>1, <1>2, <1>7 DEF vars, adminVars, ChatsTyped, UsageTyped, KeysTyped
<1> QED
  BY <1>3, <1>4, <1>5, <1>6, <1>7, ChatTypes, AdminTypes DEF Next

(***************************************************************************)
(* All tables, lists and requests have their types: in particular a chat   *)
(* never tries more candidates than max_attempts allows (auth.rs, quota.rs *)
(* and the loop of ComboEngine::execute).                                  *)
(***************************************************************************)
THEOREM TypeCorrect == Spec => []TypeOK
  BY InitTypes, NextTypes, PTL DEF Spec

-----------------------------------------------------------------------------
(***************************************************************************)
(* The overshoot.  What a key has used and what the chats that passed      *)
(* quota_check may still add stay within the bound together; the chat that *)
(* has the lock has passed the check; and the future is not in the log.    *)
(***************************************************************************)
Bound(q) == Max({q.base, q.limit - 1 + PerChat(q.unit) * Cardinality(Chat)})

Logs == [KeyId -> KeyLog]

UsedIn(l, n, q) == Cardinality(In(l[q.key], q.unit, {t \in 0 .. n : t >= n - q.window}))

Amount(l, n, ch, q) == UsedIn(l, n, q) + Cardinality(ToCome(ch, q.key, q.unit))

WithinBounds ==
    \A q \in quotas : q.policy = "hard" => Amount(log, now, chat, q) <= Bound(q)

LockHeld == \A c \in Chat : (holder = c) <=> (chat[c].at = "running")

FutureEmpty ==
    \A k \in KeyId, t \in 0 .. MaxTime, unit \in Unit : t > now => log[k][t][unit] = 0

QInv == TypeOK /\ LockHeld /\ FutureEmpty /\ WithinBounds

LEMMA MaxOfTwo ==
    ASSUME NEW a \in Int, NEW b \in Int
    PROVE  Max({a, b}) \in {a, b} /\ a <= Max({a, b}) /\ b <= Max({a, b})
<1> DEFINE m == IF a >= b THEN a ELSE b
<1>1. m \in {a, b} /\ \A y \in {a, b} : m >= y
  OBVIOUS
<1> HIDE DEF m
<1>2. \E x \in {a, b} : \A y \in {a, b} : x >= y
  BY <1>1
<1>3. Max({a, b}) \in {a, b} /\ \A y \in {a, b} : Max({a, b}) >= y
  BY <1>2 DEF Max
<1> QED
  BY <1>3

\* The terms of the bound are numbers.
LEMMA BoundFacts ==
    ASSUME NEW q \in QuotaRecord
    PROVE  /\ q.key \in KeyId /\ q.unit \in Unit /\ q.window \in Nat /\ q.limit \in Nat
           /\ PerChat(q.unit) * Cardinality(Chat) \in Nat
           /\ Bound(q) \in Int /\ q.base <= Bound(q)
           /\ q.limit - 1 + PerChat(q.unit) * Cardinality(Chat) <= Bound(q)
<1>1. /\ q.key \in KeyId /\ q.unit \in Unit /\ q.window \in Nat /\ q.limit \in Nat /\ q.base \in Nat
  BY DEF QuotaRecord
<1>2. Cardinality(Chat) \in Nat
  BY GateAssumption, FS_CardinalityType
<1>3. PICK n \in Nat : n = PerChat(q.unit)
  BY <1>1, PerChatType
<1>4. PerChat(q.unit) * Cardinality(Chat) \in Nat
  BY <1>2, <1>3
<1>5. PICK b \in Int : b = q.limit - 1 + PerChat(q.unit) * Cardinality(Chat)
  BY <1>1, <1>4
<1>6. PICK a \in Int : a = q.base
  BY <1>1
<1>7. Bound(q) = Max({a, b})
  BY <1>5, <1>6 DEF Bound
<1>8. Max({a, b}) \in {a, b} /\ a <= Max({a, b}) /\ b <= Max({a, b})
  BY MaxOfTwo
<1> QED
  BY <1>1, <1>4, <1>5, <1>6, <1>7, <1>8
LEMMA WindowIn ==
    ASSUME NEW n \in 0 .. MaxTime, NEW q \in QuotaRecord
    PROVE  {t \in 0 .. n : t >= n - q.window} \in SUBSET (0 .. MaxTime)
<1>1. 0 .. n \subseteq 0 .. MaxTime
  BY GateAssumption
<1> QED
  BY <1>1

LEMMA AmountFacts ==
    ASSUME NEW l \in Logs, NEW n \in 0 .. MaxTime, NEW ch \in Chats, NEW q \in QuotaRecord
    PROVE  /\ {t \in 0 .. n : t >= n - q.window} \in SUBSET (0 .. MaxTime)
           /\ l[q.key] \in KeyLog
           /\ UsedIn(l, n, q) \in Nat
           /\ Cardinality(ToCome(ch, q.key, q.unit)) \in Nat
           /\ Amount(l, n, ch, q) \in Nat
           /\ UsedIn(l, n, q) <= Amount(l, n, ch, q)
<1>1. q.key \in KeyId /\ q.unit \in Unit
  BY BoundFacts
<1>2. l[q.key] \in KeyLog
  BY <1>1 DEF Logs
<1>3. PICK T \in SUBSET (0 .. MaxTime) : T = {t \in 0 .. n : t >= n - q.window}
  BY WindowIn
<1>4. UsedIn(l, n, q) \in Nat
  BY <1>1, <1>2, <1>3, InFinite DEF UsedIn
<1>5. Cardinality(ToCome(ch, q.key, q.unit)) \in Nat
  BY <1>1, ToComeBounded
<1> QED
  BY <1>2, <1>3, <1>4, <1>5 DEF Amount

\* Telemetry::record_chat adds its one row and the tokens to the usage.
LEMMA RecordedUse ==
    ASSUME UsageTyped, NEW c \in Chat, NEW tokens \in Nat, Record(c, tokens),
           NEW q \in QuotaRecord, NEW l \in Logs, l = log'
    PROVE  UsedIn(l, now, q) =
              UsedIn(log, now, q) + IF q.key = chat[c].id /\ ~ chat[c].stream
                                    THEN IF q.unit = "requests" THEN 1 ELSE tokens
                                    ELSE 0
<1>1. q.key \in KeyId /\ q.unit \in Unit /\ q.window \in Nat /\ now \in 0 .. MaxTime
  BY BoundFacts DEF UsageTyped
<1>2. log \in Logs
  BY DEF UsageTyped, Logs, KeyLog
<1>3. CASE q.key = chat[c].id /\ ~ chat[c].stream
  <2> DEFINE T == {t \in 0 .. now : t >= now - q.window}
             more == IF q.unit = "requests" THEN 1 ELSE tokens
  <2>1. T \in SUBSET (0 .. MaxTime) /\ now \in T
    BY <1>1, GateAssumption
  <2>2. log[q.key] \in KeyLog /\ l[q.key] \in KeyLog
    BY <1>1, <1>2 DEF Logs
  <2>3. log[q.key][now] \in [Unit -> Nat]
    BY <1>1, <2>2 DEF KeyLog
  <2>4. l[q.key] = [log[q.key] EXCEPT ![now] = [requests |-> log[q.key][now].requests + 1,
                                                tokens |-> log[q.key][now].tokens + tokens]]
    BY <1>1, <1>3 DEF Record
  <2>5. /\ l[q.key][now] = [requests |-> log[q.key][now].requests + 1,
                            tokens |-> log[q.key][now].tokens + tokens]
        /\ \A t \in T : t # now => l[q.key][t] = log[q.key][t]
    BY <1>1, <2>1, <2>2, <2>4 DEF KeyLog
  <2>6. l[q.key][now][q.unit] = log[q.key][now][q.unit] + more
    <3>1. CASE q.unit = "requests"
      BY <2>3, <2>5, <3>1 DEF Unit
    <3>2. CASE q.unit = "tokens"
      BY <2>3, <2>5, <3>2 DEF Unit
    <3> QED
      BY <1>1, <3>1, <3>2 DEF Unit
  <2>7. \A t \in T : t # now => l[q.key][t][q.unit] = log[q.key][t][q.unit]
    BY <2>5
  <2>8. more \in Nat
    OBVIOUS
  <2>9. PICK a \in KeyLog, b \in KeyLog, S \in SUBSET (0 .. MaxTime), n \in Nat :
           a = log[q.key] /\ b = l[q.key] /\ S = T /\ n = more
    BY <2>1, <2>2, <2>8
  <2>10. Cardinality(In(b, q.unit, S)) = Cardinality(In(a, q.unit, S)) + n
    <3> HIDE DEF T, more
    <3> QED
      BY <1>1, <2>1, <2>6, <2>7, <2>9, MoreConsumed
  <2> QED
    BY <1>3, <2>9, <2>10 DEF UsedIn
<1>4. CASE ~ (q.key = chat[c].id /\ ~ chat[c].stream)
  <2>1. l[q.key] = log[q.key]
    BY <1>1, <1>4 DEF Record
  <2>2. UsedIn(log, now, q) \in Nat
    <3>1. PICK T \in SUBSET (0 .. MaxTime) : T = {t \in 0 .. now : t >= now - q.window}
      BY <1>1, WindowIn
    <3>2. log[q.key] \in KeyLog
      BY <1>1, <1>2 DEF Logs
    <3> QED
      BY <1>1, <3>1, <3>2, InFinite DEF UsedIn
  <2>3. UsedIn(l, now, q) = UsedIn(log, now, q)
    BY <2>1 DEF UsedIn
  <2> QED
    BY <1>4, <2>2, <2>3
<1> QED
  BY <1>3, <1>4

\* The clock goes on: what is in the window then was in it before.
LEMMA LaterUse ==
    ASSUME NEW l \in Logs, NEW n \in 0 .. MaxTime - 1, NEW q \in QuotaRecord,
           l[q.key][n + 1][q.unit] = 0
    PROVE  UsedIn(l, n + 1, q) <= UsedIn(l, n, q)
<1> DEFINE T == {t \in 0 .. n : t >= n - q.window}
           U == {t \in 0 .. n + 1 : t >= (n + 1) - q.window}
<1>1. /\ q.key \in KeyId /\ q.unit \in Unit /\ q.window \in Nat
      /\ n \in Nat /\ n + 1 \in 0 .. MaxTime /\ n \in 0 .. MaxTime
  BY BoundFacts, GateAssumption
<1>2. T \in SUBSET (0 .. MaxTime) /\ U \in SUBSET (0 .. MaxTime)
  BY <1>1, GateAssumption
<1>3. \A t \in U : t \in T \/ t = n + 1
  BY <1>1
<1>4. l[q.key] \in KeyLog
  BY <1>1 DEF Logs
<1>5. PICK a \in KeyLog : a = l[q.key]
  BY <1>4
<1> HIDE DEF T, U
<1>6. /\ In(a, q.unit, T) = {e \in T \X Nat : e[2] \in 1 .. a[e[1]][q.unit]}
      /\ In(a, q.unit, U) = {e \in U \X Nat : e[2] \in 1 .. a[e[1]][q.unit]}
  BY <1>1, <1>2, InElements
<1>7. ASSUME NEW e \in In(a, q.unit, U) PROVE e \in In(a, q.unit, T)
  <2>1. e \in U \X Nat /\ e[2] \in 1 .. a[e[1]][q.unit]
    BY <1>6, <1>7
  <2>2. e[1] \in U /\ e[1] # n + 1
    BY <1>5, <2>1
  <2> QED
    BY <1>3, <1>6, <2>1, <2>2
<1>8. IsFiniteSet(In(a, q.unit, T))
  BY <1>1, <1>2, InFinite
<1>9. In(a, q.unit, U) \subseteq In(a, q.unit, T)
  BY <1>7
<1>10. Cardinality(In(a, q.unit, U)) <= Cardinality(In(a, q.unit, T))
  BY <1>8, <1>9, FS_Subset
<1> QED
  BY <1>5, <1>10 DEF UsedIn, T, U
LEMMA QTypes ==
    ASSUME TypeOK
    PROVE  /\ chat \in Chats /\ log \in Logs /\ now \in 0 .. MaxTime /\ quotas \subseteq QuotaRecord
           /\ holder \in Chat \cup {NoChat}
  BY DEF TypeOK, Chats, ChatRecord, Logs, KeyLog, QuotaRecord

\* What becomes of the bounds when quotas and the clock stay.
LEMMA BoundsKept ==
    ASSUME QInv, NEW l \in Logs, NEW d \in Chats, l = log', d = chat',
           now' = now, quotas' \subseteq quotas,
           \A q \in QuotaRecord :
              q \in quotas /\ q.policy = "hard" =>
                 Amount(l, now, d, q) <= Amount(log, now, chat, q) \/ Amount(l, now, d, q) <= Bound(q)
    PROVE  WithinBounds'
<1>1. /\ chat \in Chats /\ log \in Logs /\ now \in 0 .. MaxTime /\ quotas \subseteq QuotaRecord
  BY QTypes DEF QInv
<1>2. ASSUME NEW q \in quotas', q.policy = "hard"
      PROVE  Amount(l, now, d, q) <= Bound(q)
  <2>1. q \in quotas /\ q \in QuotaRecord
    BY <1>1
  <2>2. /\ Amount(l, now, d, q) \in Nat /\ Amount(log, now, chat, q) \in Nat
        /\ Bound(q) \in Int
    BY <1>1, <2>1, AmountFacts, BoundFacts
  <2>3. Amount(log, now, chat, q) <= Bound(q)
    BY <1>2, <2>1 DEF QInv, WithinBounds
  <2> QED
    BY <1>2, <2>1, <2>2, <2>3
<1>3. \A q \in quotas' : q.policy = "hard" => Amount(log', now', chat', q) <= Bound(q)
  BY <1>2
<1> QED
  BY <1>3 DEF WithinBounds, Amount, UsedIn, Bound

LEMMA LockStep ==
    ASSUME QInv, NEW c \in Chat, ChatStep(c), TypeOK'
    PROVE  LockHeld' /\ \A x \in Chat : x # c => chat'[x] = chat[x]
<1>1. /\ chat \in [Chat -> ChatRecord] /\ LockHeld /\ holder \in Chat \cup {NoChat}
      /\ chat[c] \in ChatRecord
  BY QTypes DEF QInv, Chats
<1>2. Idle.at = "idle"
  BY DEF Idle
<1>3. NoChat \notin Chat
  BY GateAssumption
<1>4. End(c) => chat'[c].at = "idle" /\ \A x \in Chat : x # c => chat'[x] = chat[x]
  BY <1>1, <1>2 DEF End
<1>5. GoOn(c) => /\ chat'[c].at = chat[c].at /\ holder' = holder
                 /\ \A x \in Chat : x # c => chat'[x] = chat[x]
  <2>1. GoOn(c) => chat' = [chat EXCEPT ![c].tried = @ + 1] /\ holder' = holder
    BY DEF GoOn
  <2> QED
    BY <1>1, <2>1 DEF ChatRecord
<1>6. CASE Arrive(c)
  <2>1. PICK t \in Token \cup {NoToken}, s \in BOOLEAN :
           chat' = [chat EXCEPT ![c] = [Idle EXCEPT !.at = "admitted", !.token = t, !.stream = s]]
    BY <1>6 DEF Arrive
  <2>2. [Idle EXCEPT !.at = "admitted", !.token = t, !.stream = s].at = "admitted"
    BY IdleTyped DEF ChatRecord
  <2>3. chat'[c].at = "admitted" /\ \A x \in Chat : x # c => chat'[x] = chat[x]
    BY <1>1, <2>1, <2>2
  <2>4. holder' = holder /\ chat[c].at = "idle"
    BY <1>6 DEF Arrive
  <2> QED
    BY <1>1, <2>3, <2>4 DEF LockHeld
<1>7. CASE Identify(c)
  <2>1. PICK id \in KeyId \cup {NoKeyId} :
           chat' = [chat EXCEPT ![c].at = "identified", ![c].id = id, ![c].token = NoToken]
    BY <1>7 DEF Identify
  <2>2. chat'[c].at = "identified" /\ \A x \in Chat : x # c => chat'[x] = chat[x]
    BY <1>1, <2>1 DEF ChatRecord
  <2>3. holder' = holder /\ chat[c].at = "admitted"
    BY <1>7 DEF Identify
  <2> QED
    BY <1>1, <2>2, <2>3 DEF LockHeld
<1>8. CASE CheckQuota(c)
  <2>1. chat' = [chat EXCEPT ![c].at = "waiting"] \/ End(c)
    BY <1>8 DEF CheckQuota
  <2>2. chat'[c].at \in {"waiting", "idle"} /\ \A x \in Chat : x # c => chat'[x] = chat[x]
    BY <1>1, <1>4, <2>1 DEF ChatRecord
  <2>3. holder' = holder /\ chat[c].at = "identified"
    BY <1>8 DEF CheckQuota
  <2> QED
    BY <1>1, <2>2, <2>3 DEF LockHeld
<1>9. CASE TakeLock(c)
  <2>1. chat' = [chat EXCEPT ![c].at = "running"] /\ holder = NoChat /\ holder' = c
    BY <1>9 DEF TakeLock
  <2>2. chat'[c].at = "running" /\ \A x \in Chat : x # c => chat'[x] = chat[x]
    BY <1>1, <2>1 DEF ChatRecord
  <2> QED
    BY <1>1, <1>3, <2>1, <2>2 DEF LockHeld
<1>10. CASE holder = c /\ (GoOn(c) \/ Release(c))
  <2>1. CASE GoOn(c)
    BY <1>1, <1>5, <1>10, <2>1 DEF LockHeld
  <2>2. CASE Release(c)
    BY <1>1, <1>3, <1>4, <1>10, <2>2 DEF LockHeld, Release
  <2> QED
    BY <1>10, <2>1, <2>2
<1>11. CASE Leave(c)
  <2>1. End(c) /\ holder' = IF holder = c THEN NoChat ELSE holder
    BY <1>11 DEF Leave
  <2> QED
    BY <1>1, <1>3, <1>4, <2>1 DEF LockHeld
<1> QED
  BY <1>6, <1>7, <1>8, <1>9, <1>10, <1>11 DEF ChatStep, Answer, Fail, Skip
\* What is recorded, is recorded now.
LEMMA FutureKept ==
    ASSUME QInv, NEW c \in Chat, ChatStep(c), TypeOK'
    PROVE  FutureEmpty'
<1>1. now' = now /\ now \in 0 .. MaxTime /\ log \in Logs
  BY QTypes DEF QInv, ChatStep, Arrive, Identify, CheckQuota, TakeLock, Answer, Fail, Skip, Leave
<1>2. log' = log \/ \E tokens \in Nat : Record(c, tokens)
  <2>1. CASE Answer(c)
    <3>1. PICK tokens \in 0 .. MaxTokens : Record(c, tokens)
      BY <2>1 DEF Answer
    <3>2. tokens \in Nat
      BY GateAssumption
    <3> QED
      BY <3>1, <3>2
  <2>2. CASE Fail(c)
    <3>1. Record(c, 0) /\ 0 \in Nat
      BY <2>2 DEF Fail
    <3> QED
      BY <3>1
  <2> QED
    BY <2>1, <2>2 DEF ChatStep, Arrive, Identify, CheckQuota, TakeLock, Skip, Leave
<1>3. ASSUME NEW k \in KeyId, NEW t \in 0 .. MaxTime, t # now
      PROVE  log'[k][t] = log[k][t]
  <2>1. CASE log' = log
    BY <2>1
  <2>2. ASSUME NEW tokens \in Nat, Record(c, tokens) PROVE log'[k][t] = log[k][t]
    <3>1. log[k] \in KeyLog
      BY <1>1 DEF Logs
    <3>2. log'[k] = log[k] \/ log'[k] = [log[k] EXCEPT ![now] = [requests |-> @.requests + 1,
                                                              tokens |-> @.tokens + tokens]]
      BY <2>2 DEF Record
    <3> QED
      BY <1>3, <3>1, <3>2 DEF KeyLog
  <2> QED
    BY <1>2, <2>1, <2>2
<1>4. \A k \in KeyId, t \in 0 .. MaxTime, unit \in Unit : t > now' => log'[k][t][unit] = 0
  BY <1>1, <1>3 DEF QInv, FutureEmpty
<1> QED
  BY <1>4 DEF FutureEmpty

\* Steps that record nothing, and after which no chat has passed the check anew.
LEMMA QuietBounds ==
    ASSUME QInv, TypeOK', log' = log, now' = now, quotas' = quotas,
           \A k \in KeyId : \A c \in Chat :
              c \in Passed(chat', k) => c \in Passed(chat, k) /\ chat'[c].tried >= chat[c].tried
    PROVE  WithinBounds'
<1>1. chat \in Chats /\ log \in Logs /\ now \in 0 .. MaxTime
  BY QTypes DEF QInv
<1>2. PICK d \in Chats : d = chat'
  BY DEF TypeOK, Chats, ChatRecord
<1>3. ASSUME NEW q \in QuotaRecord PROVE Amount(log, now, d, q) <= Amount(log, now, chat, q)
  <2>1. q.key \in KeyId /\ q.unit \in Unit
    BY BoundFacts
  <2>2. \A c \in Passed(d, q.key) : c \in Passed(chat, q.key) /\ d[c].tried >= chat[c].tried
    BY <1>2, <2>1 DEF Passed
  <2>3. Cardinality(ToCome(d, q.key, q.unit)) <= Cardinality(ToCome(chat, q.key, q.unit))
    BY <1>1, <2>1, <2>2, NoMoreToCome
  <2>4. /\ UsedIn(log, now, q) \in Nat
        /\ Cardinality(ToCome(d, q.key, q.unit)) \in Nat
        /\ Cardinality(ToCome(chat, q.key, q.unit)) \in Nat
    BY <1>1, AmountFacts
  <2> QED
    BY <2>3, <2>4 DEF Amount
<1> QED
  BY <1>1, <1>2, <1>3, BoundsKept

\* quota_check lets a chat pass only while the usage is below the limit.
LEMMA CheckBounds ==
    ASSUME QInv, TypeOK', NEW c \in Chat, CheckQuota(c)
    PROVE  WithinBounds'
<1>1. chat \in Chats /\ log \in Logs /\ now \in 0 .. MaxTime /\ chat[c] \in ChatRecord
  BY QTypes DEF QInv, Chats
<1>2. PICK d \in Chats : d = chat'
  BY DEF TypeOK, Chats, ChatRecord
<1>3. log' = log /\ now' = now /\ quotas' = quotas
  BY DEF CheckQuota
<1>4. CASE QuotaPasses(chat[c].id)
  <2>1. chat' = [chat EXCEPT ![c].at = "waiting"]
    BY <1>4 DEF CheckQuota
  <2>2. /\ d[c].id = chat[c].id /\ d[c].tried = chat[c].tried
        /\ \A x \in Chat : x # c => d[x] = chat[x]
    BY <1>1, <1>2, <2>1 DEF Chats, ChatRecord
  <2>3. ASSUME NEW q \in QuotaRecord, q \in quotas, q.policy = "hard"
        PROVE  Amount(log, now, d, q) <= Amount(log, now, chat, q) \/ Amount(log, now, d, q) <= Bound(q)
    <3>1. /\ q.key \in KeyId /\ q.unit \in Unit /\ q.window \in Nat /\ q.limit \in Nat
          /\ PerChat(q.unit) * Cardinality(Chat) \in Nat
          /\ Bound(q) \in Int /\ q.limit - 1 + PerChat(q.unit) * Cardinality(Chat) <= Bound(q)
      BY BoundFacts
    <3>2. /\ UsedIn(log, now, q) \in Nat
          /\ Cardinality(ToCome(d, q.key, q.unit)) \in Nat
          /\ Cardinality(ToCome(chat, q.key, q.unit)) \in Nat
      BY <1>1, AmountFacts
    <3>3. CASE q.key = chat[c].id
      <4>1. ~ Exceeded(q)
        BY <1>4, <2>3, <3>3 DEF QuotaPasses
      <4>2. UsedIn(log, now, q) = Used(q)
        BY DEF UsedIn, Used, Usage, Consumed, In, Instants
      <4>3. UsedIn(log, now, q) < q.limit
        BY <3>1, <3>2, <4>1, <4>2 DEF Exceeded
      <4>4. Cardinality(ToCome(d, q.key, q.unit)) <= PerChat(q.unit) * Cardinality(Chat)
        BY <3>1, ToComeBounded
      <4>5. PICK u \in Nat, v \in Nat, w \in Nat, b \in Int :
               /\ u = UsedIn(log, now, q) /\ v = Cardinality(ToCome(d, q.key, q.unit))
               /\ w = PerChat(q.unit) * Cardinality(Chat) /\ b = Bound(q)
        BY <3>1, <3>2
      <4>6. u < q.limit /\ v <= w /\ q.limit - 1 + w <= b
        BY <3>1, <4>3, <4>4, <4>5
      <4>7. u + v <= b
        BY <3>1, <4>6
      <4> QED
        BY <4>5, <4>7 DEF Amount
    <3>4. CASE q.key # chat[c].id
      <4>1. ASSUME NEW x \in Passed(d, q.key)
            PROVE  x \in Passed(chat, q.key) /\ d[x].tried >= chat[x].tried
        <5>1. x \in Chat /\ x # c
          BY <2>2, <3>4 DEF Passed
        <5>2. d[x] = chat[x] /\ d[x].tried \in Nat
          BY <2>2, <5>1 DEF Chats, ChatRecord
        <5> QED
          BY <5>1, <5>2 DEF Passed
      <4>2. Cardinality(ToCome(d, q.key, q.unit)) <= Cardinality(ToCome(chat, q.key, q.unit))
        BY <1>1, <3>1, <4>1, NoMoreToCome
      <4> QED
        BY <3>2, <4>2 DEF Amount
    <3> QED
      BY <3>3, <3>4
  <2> QED
    BY <1>1, <1>2, <1>3, <2>3, BoundsKept
<1>5. CASE ~ QuotaPasses(chat[c].id)
  <2>1. chat' = [chat EXCEPT ![c] = Idle]
    BY <1>5 DEF CheckQuota, End
  <2>2. ASSUME NEW k \in KeyId, NEW x \in Chat, x \in Passed(chat', k)
        PROVE  x \in Passed(chat, k) /\ chat'[x].tried >= chat[x].tried
    <3>1. x # c
      BY <1>1, <2>1, <2>2 DEF Passed, Idle, Chats
    <3>2. chat'[x] = chat[x] /\ chat[x].tried \in Nat
      BY <1>1, <2>1, <3>1 DEF Chats, ChatRecord
    <3> QED
      BY <2>2, <3>2 DEF Passed
  <2> QED
    BY <1>3, <2>2, QuietBounds
<1> QED
  BY <1>4, <1>5
\* The chat that has the lock is answered, or its candidate fails.
LEMMA RecordBounds ==
    ASSUME QInv, TypeOK', NEW c \in Chat, LockHeld', Answer(c) \/ Fail(c),
           \A x \in Chat : x # c => chat'[x] = chat[x]
    PROVE  WithinBounds'
<1>1. chat \in Chats /\ log \in Logs /\ now \in 0 .. MaxTime /\ chat[c] \in ChatRecord
  BY QTypes DEF QInv, Chats
<1>2. PICK d \in Chats, l \in Logs : d = chat' /\ l = log'
  BY DEF TypeOK, Chats, ChatRecord, Logs, KeyLog
<1>3. /\ now' = now /\ quotas' = quotas /\ holder = c /\ chat[c].at = "running"
      /\ UsageTyped
  BY TypesTogether DEF QInv, LockHeld, Answer, Fail
<1>4. PICK tokens \in 0 .. MaxTokens :
         /\ Record(c, tokens)
         /\ Release(c) \/ (tokens = 0 /\ GoOn(c))
  BY GateAssumption DEF Answer, Fail
<1>5. tokens \in Nat /\ tokens <= MaxTokens /\ MaxTokens \in Nat
  BY GateAssumption
<1>6. Release(c) => \A k \in KeyId : c \notin Passed(d, k)
  <2> SUFFICES ASSUME Release(c) PROVE d[c].at = "idle"
    BY DEF Passed
  <2> QED
    BY <1>1, <1>2 DEF Release, End, Idle, Chats
<1>7. GoOn(c) => d[c].tried = chat[c].tried + 1
  <2>1. GoOn(c) => chat' = [chat EXCEPT ![c].tried = @ + 1]
    BY DEF GoOn
  <2> QED
    BY <1>1, <1>2, <2>1 DEF Chats, ChatRecord
<1>8. \A k \in KeyId : chat[c].id = k => c \in Passed(chat, k)
  BY <1>3 DEF Passed
<1>9. \A k \in KeyId : c \in Passed(d, k) => d[c].id = k
  BY DEF Passed
<1>10. GoOn(c) => d[c].id = chat[c].id
  <2>1. GoOn(c) => chat' = [chat EXCEPT ![c].tried = @ + 1]
    BY DEF GoOn
  <2> QED
    BY <1>1, <1>2, <2>1 DEF Chats, ChatRecord
<1>11. ASSUME NEW q \in QuotaRecord
       PROVE  Amount(l, now, d, q) <= Amount(log, now, chat, q)
  <2>1. q.key \in KeyId /\ q.unit \in Unit
    BY BoundFacts
  <2>2. /\ UsedIn(log, now, q) \in Nat /\ UsedIn(l, now, q) \in Nat
        /\ Cardinality(ToCome(d, q.key, q.unit)) \in Nat
        /\ Cardinality(ToCome(chat, q.key, q.unit)) \in Nat
    BY <1>1, <1>2, AmountFacts
  <2>3. UsedIn(l, now, q) =
           UsedIn(log, now, q) + IF q.key = chat[c].id /\ ~ chat[c].stream
                                 THEN IF q.unit = "requests" THEN 1 ELSE tokens
                                 ELSE 0
    BY <1>2, <1>3, <1>4, <1>5, RecordedUse
  <2>4. PICK u \in Nat, v \in Nat, s \in Nat, r \in Nat :
           /\ u = UsedIn(log, now, q) /\ v = UsedIn(l, now, q)
           /\ s = Cardinality(ToCome(chat, q.key, q.unit))
           /\ r = Cardinality(ToCome(d, q.key, q.unit))
    BY <2>2
  <2>5. ASSUME q.key = chat[c].id, q.unit = "requests" PROVE r + 1 <= s
    <3>1. c \in Passed(chat, q.key)
      BY <1>8, <2>1, <2>5
    <3>2. c \in Passed(d, q.key) => d[c].tried = chat[c].tried + 1
      BY <1>4, <1>6, <1>7, <2>1
    <3>3. PICK k \in KeyId : k = q.key
      BY <2>1
    <3>4. Cardinality(ToCome(d, k, "requests")) + 1 <= Cardinality(ToCome(chat, k, "requests"))
      BY <1>1, <1>2, <3>1, <3>2, <3>3, OneTried
    <3> QED
      BY <2>4, <2>5, <3>3, <3>4
  <2>6. ASSUME q.key = chat[c].id, q.unit = "tokens", Release(c) PROVE r + MaxTokens <= s
    <3>1. PICK k \in KeyId : k = q.key
      BY <2>1
    <3>2. c \in Passed(chat, k) /\ c \notin Passed(d, k)
      BY <1>6, <1>8, <2>6, <3>1
    <3>3. Cardinality(ToCome(d, k, "tokens")) + MaxTokens <= Cardinality(ToCome(chat, k, "tokens"))
      BY <1>1, <1>2, <3>2, OneAnswered
    <3> QED
      BY <2>4, <2>6, <3>1, <3>3
  <2>7. r <= s
    <3>1. ASSUME NEW x \in Passed(d, q.key)
          PROVE  x \in Passed(chat, q.key) /\ d[x].tried >= chat[x].tried
      <4>1. CASE x = c
        <5>1. ~ Release(c)
          BY <1>6, <2>1, <3>1, <4>1
        <5>2. GoOn(c)
          BY <1>4, <5>1
        <5>3. d[c].id = q.key /\ d[c].tried = chat[c].tried + 1 /\ chat[c].tried \in Nat
          BY <1>1, <1>7, <1>9, <2>1, <3>1, <4>1, <5>2 DEF ChatRecord
        <5> QED
          BY <1>8, <1>10, <2>1, <4>1, <5>2, <5>3
      <4>2. CASE x # c
        <5>1. x \in Chat /\ d[x] = chat[x]
          BY <1>2, <4>2 DEF Passed
        <5>2. chat[x].tried \in Nat
          BY <1>1, <5>1 DEF Chats, ChatRecord
        <5> QED
          BY <3>1, <5>1, <5>2 DEF Passed
      <4> QED
        BY <4>1, <4>2
    <3>2. Cardinality(ToCome(d, q.key, q.unit)) <= Cardinality(ToCome(chat, q.key, q.unit))
      BY <1>1, <2>1, <3>1, NoMoreToCome
    <3> QED
      BY <2>4, <3>2
  <2>8. v + r <= u + s
    <3>1. CASE ~ (q.key = chat[c].id /\ ~ chat[c].stream)
      BY <2>3, <2>4, <2>7, <3>1
    <3>2. CASE q.key = chat[c].id /\ ~ chat[c].stream /\ q.unit = "requests"
      BY <2>3, <2>4, <2>5, <3>2
    <3>3. CASE q.key = chat[c].id /\ ~ chat[c].stream /\ q.unit = "tokens"
      <4>1. v = u + tokens
        BY <2>3, <2>4, <3>3
      <4>2. CASE Release(c)
        BY <1>5, <2>6, <3>3, <4>1, <4>2
      <4>3. CASE ~ Release(c)
        BY <1>4, <2>7, <4>1, <4>3
      <4> QED
        BY <4>2, <4>3
    <3> QED
      BY <2>1, <3>1, <3>2, <3>3 DEF Unit
  <2> QED
    BY <2>4, <2>8 DEF Amount
<1> QED
  BY <1>1, <1>2, <1>3, <1>11, BoundsKept
\* The other steps of a chat record nothing and let no chat pass.
LEMMA QuietChat ==
    ASSUME QInv, TypeOK', NEW c \in Chat,
           \A x \in Chat : x # c => chat'[x] = chat[x],
           Arrive(c) \/ Identify(c) \/ TakeLock(c) \/ Skip(c) \/ Leave(c)
    PROVE  WithinBounds'
<1>1. /\ chat \in [Chat -> ChatRecord] /\ chat[c] \in ChatRecord /\ LockHeld
  BY QTypes DEF QInv, Chats
<1>2. log' = log /\ now' = now /\ quotas' = quotas
  BY DEF Arrive, Identify, TakeLock, Skip, Leave
<1>3. End(c) => chat'[c].at = "idle"
  BY <1>1 DEF End, Idle
<1>4. \/ chat'[c].at \in {"idle", "admitted", "identified"}
      \/ /\ chat[c].at \in {"waiting", "running"}
         /\ chat'[c].id = chat[c].id
         /\ chat'[c].tried >= chat[c].tried
  <2>1. CASE Arrive(c)
    <3>1. PICK t \in Token \cup {NoToken}, s \in BOOLEAN :
             chat' = [chat EXCEPT ![c] = [Idle EXCEPT !.at = "admitted", !.token = t, !.stream = s]]
      BY <2>1 DEF Arrive
    <3>2. [Idle EXCEPT !.at = "admitted", !.token = t, !.stream = s].at = "admitted"
      BY IdleTyped DEF ChatRecord
    <3> QED
      BY <1>1, <3>1, <3>2
  <2>2. CASE Identify(c)
    <3>1. PICK id \in KeyId \cup {NoKeyId} :
             chat' = [chat EXCEPT ![c].at = "identified", ![c].id = id, ![c].token = NoToken]
      BY <2>2 DEF Identify
    <3> QED
      BY <1>1, <3>1 DEF ChatRecord
  <2>3. CASE TakeLock(c)
    <3>1. chat' = [chat EXCEPT ![c].at = "running"] /\ chat[c].at = "waiting"
      BY <2>3 DEF TakeLock
    <3>2. chat'[c].id = chat[c].id /\ chat'[c].tried = chat[c].tried /\ chat[c].tried \in Nat
      BY <1>1, <3>1 DEF ChatRecord
    <3> QED
      BY <3>1, <3>2
  <2>4. CASE Skip(c)
    <3>1. chat[c].at = "running"
      BY <1>1, <2>4 DEF Skip, LockHeld
    <3>2. ASSUME GoOn(c)
          PROVE  chat'[c].id = chat[c].id /\ chat'[c].tried >= chat[c].tried
      <4>1. chat' = [chat EXCEPT ![c].tried = @ + 1]
        BY <3>2 DEF GoOn
      <4>2. chat'[c].id = chat[c].id /\ chat'[c].tried = chat[c].tried + 1 /\ chat[c].tried \in Nat
        BY <1>1, <4>1 DEF ChatRecord
      <4> QED
        BY <4>2
    <3> QED
      BY <1>3, <2>4, <3>1, <3>2 DEF Skip, Release
  <2>5. CASE Leave(c)
    BY <1>3, <2>5 DEF Leave
  <2> QED
    BY <2>1, <2>2, <2>3, <2>4, <2>5
<1>5. ASSUME NEW k \in KeyId, NEW x \in Chat, x \in Passed(chat', k)
      PROVE  x \in Passed(chat, k) /\ chat'[x].tried >= chat[x].tried
  <2>1. CASE x = c
    BY <1>4, <1>5, <2>1 DEF Passed
  <2>2. CASE x # c
    <3>1. chat'[x] = chat[x] /\ chat[x].tried \in Nat
      BY <1>1, <2>2 DEF ChatRecord
    <3> QED
      BY <1>5, <3>1 DEF Passed
  <2> QED
    BY <2>1, <2>2
<1> QED
  BY <1>2, <1>5, QuietBounds

LEMMA ChatKeepsQ ==
    ASSUME QInv, NEW c \in Chat, ChatStep(c)
    PROVE  QInv'
<1>1. TypeOK'
  BY ChatTypes DEF QInv
<1>2. LockHeld' /\ \A x \in Chat : x # c => chat'[x] = chat[x]
  BY <1>1, LockStep
<1>3. FutureEmpty'
  BY <1>1, FutureKept
<1>4. CASE Answer(c) \/ Fail(c)
  BY <1>1, <1>2, <1>3, <1>4, RecordBounds DEF QInv
<1>5. CASE CheckQuota(c)
  BY <1>1, <1>2, <1>3, <1>5, CheckBounds DEF QInv
<1>6. CASE Arrive(c) \/ Identify(c) \/ TakeLock(c) \/ Skip(c) \/ Leave(c)
  BY <1>1, <1>2, <1>3, <1>6, QuietChat DEF QInv
<1> QED
  BY <1>4, <1>5, <1>6 DEF ChatStep

\* A quota that is created counts what is there and what is under way.
LEMMA CreateKeepsQ ==
    ASSUME QInv, TypeOK', CreateQuota
    PROVE  QInv'
<1>1. /\ chat \in Chats /\ log \in Logs /\ now \in 0 .. MaxTime /\ quotas \subseteq QuotaRecord
      /\ quotas' \subseteq QuotaRecord
  BY QTypes DEF QInv, TypeOK, QuotaRecord
<1>2. UNCHANGED <<now, log, chat, holder>>
  BY DEF CreateQuota
<1>3. PICK q \in QuotaBody :
         quotas' = quotas \cup {[key |-> q.key, unit |-> q.unit, limit |-> q.limit,
                                 window |-> q.window, policy |-> q.policy,
                                 base |-> Used(q) + Underway(q.key, q.unit)]}
  BY DEF CreateQuota
<1>4. PICK r \in QuotaRecord :
         /\ r = [key |-> q.key, unit |-> q.unit, limit |-> q.limit,
                 window |-> q.window, policy |-> q.policy,
                 base |-> Used(q) + Underway(q.key, q.unit)]
         /\ quotas' = quotas \cup {r}
  BY <1>1, <1>3
<1>5. r.key = q.key /\ r.unit = q.unit /\ r.window = q.window /\ r.base = Used(q) + Underway(q.key, q.unit)
  BY <1>4
<1>6. Amount(log, now, chat, r) <= Bound(r)
  <2>1. r.key \in KeyId /\ r.unit \in Unit /\ Bound(r) \in Int /\ r.base <= Bound(r)
    BY BoundFacts
  <2>2. UsedIn(log, now, r) = Used(q)
    BY <1>5 DEF UsedIn, Used, Usage, Consumed, In, Instants
  <2>3. Underway(q.key, q.unit) = PerChat(r.unit) * Cardinality(Passed(chat, r.key))
    BY <1>5 DEF Underway, Passed
  <2>4. Cardinality(ToCome(chat, r.key, r.unit)) <= PerChat(r.unit) * Cardinality(Passed(chat, r.key))
    BY <1>1, <2>1, ToComeBounded
  <2>5. UsedIn(log, now, r) \in Nat /\ Cardinality(ToCome(chat, r.key, r.unit)) \in Nat
    BY <1>1, AmountFacts
  <2>6. PerChat(r.unit) * Cardinality(Passed(chat, r.key)) \in Nat
    <3>1. PICK n \in Nat : n = PerChat(r.unit)
      BY <2>1, PerChatType
    <3>2. Cardinality(Passed(chat, r.key)) \in Nat
      BY <1>1, <2>1, ToComeBounded
    <3> QED
      BY <3>1, <3>2
  <2>7. PICK u \in Nat, s \in Nat, w \in Nat, b \in Int :
           /\ u = UsedIn(log, now, r) /\ s = Cardinality(ToCome(chat, r.key, r.unit))
           /\ w = PerChat(r.unit) * Cardinality(Passed(chat, r.key)) /\ b = Bound(r)
    BY <2>1, <2>5, <2>6
  <2>8. r.base = u + w
    BY <1>5, <2>2, <2>3, <2>7
  <2>9. s <= w /\ u + w <= b
    BY <2>1, <2>4, <2>7, <2>8
  <2>10. u + s <= b
    BY <2>9
  <2> QED
    BY <2>7, <2>10 DEF Amount
<1>7. \A p \in quotas' : p.policy = "hard" => Amount(log, now, chat, p) <= Bound(p)
  BY <1>4, <1>6 DEF QInv, WithinBounds
<1>8. \A p \in quotas' : p.policy = "hard" => Amount(log', now', chat', p) <= Bound(p)
  BY <1>2, <1>7
<1>9. WithinBounds'
  BY <1>8 DEF WithinBounds, Amount, UsedIn, Bound
<1>10. LockHeld' /\ FutureEmpty'
  BY <1>2 DEF QInv, LockHeld, FutureEmpty
<1> QED
  BY <1>9, <1>10 DEF QInv

\* A restart ends all chats: nothing is to come.
LEMMA RestartKeepsQ ==
    ASSUME QInv, TypeOK', Restart
    PROVE  QInv'
<1>1. UNCHANGED <<now, quotas, log>> /\ chat' = [x \in Chat |-> Idle] /\ holder' = NoChat
  BY DEF Restart
<1>2. \A x \in Chat : chat'[x].at = "idle"
  BY <1>1 DEF Idle
<1>3. WithinBounds'
  <2>1. ASSUME NEW k \in KeyId, NEW x \in Chat, x \in Passed(chat', k)
        PROVE  x \in Passed(chat, k) /\ chat'[x].tried >= chat[x].tried
    BY <1>2, <2>1 DEF Passed
  <2> QED
    BY <1>1, <2>1, QuietBounds
<1>4. LockHeld'
  BY <1>1, <1>2, GateAssumption DEF LockHeld
<1>5. FutureEmpty'
  BY <1>1 DEF QInv, FutureEmpty
<1> QED
  BY <1>3, <1>4, <1>5 DEF QInv

\* As time passes, rows leave the windows and none enters them.
LEMMA TickKeepsQ ==
    ASSUME QInv, TypeOK', Tick
    PROVE  QInv'
<1>1. /\ chat \in Chats /\ log \in Logs /\ now \in 0 .. MaxTime /\ quotas \subseteq QuotaRecord
  BY QTypes DEF QInv
<1>2. UNCHANGED <<quotas, log, chat, holder>> /\ now' = now + 1 /\ now < MaxTime
  BY DEF Tick
<1>3. now \in 0 .. MaxTime - 1 /\ now + 1 \in 0 .. MaxTime
  BY <1>1, <1>2, GateAssumption
<1>4. ASSUME NEW q \in quotas, q.policy = "hard"
      PROVE  Amount(log, now + 1, chat, q) <= Bound(q)
  <2>1. q \in QuotaRecord
    BY <1>1
  <2>2. q.key \in KeyId /\ q.unit \in Unit /\ Bound(q) \in Int
    BY <2>1, BoundFacts
  <2>3. log[q.key][now + 1][q.unit] = 0
    BY <1>1, <1>3, <2>2 DEF QInv, FutureEmpty
  <2>4. UsedIn(log, now + 1, q) <= UsedIn(log, now, q)
    BY <1>1, <1>3, <2>1, <2>3, LaterUse
  <2>5. /\ UsedIn(log, now, q) \in Nat
        /\ Cardinality(ToCome(chat, q.key, q.unit)) \in Nat
    BY <1>1, <2>1, AmountFacts
  <2>6. UsedIn(log, now + 1, q) \in Nat
    BY <1>1, <1>3, <2>1, AmountFacts
  <2>7. Amount(log, now, chat, q) <= Bound(q)
    BY <1>4 DEF QInv, WithinBounds
  <2> QED
    BY <2>2, <2>4, <2>5, <2>6, <2>7 DEF Amount
<1>5. \A q \in quotas' : q.policy = "hard" => Amount(log', now', chat', q) <= Bound(q)
  BY <1>2, <1>4
<1>6. WithinBounds'
  BY <1>5 DEF WithinBounds, Amount, UsedIn, Bound
<1>7. \A k \in KeyId, t \in 0 .. MaxTime, unit \in Unit : t > now' => log'[k][t][unit] = 0
  BY <1>1, <1>2 DEF QInv, FutureEmpty
<1>8. FutureEmpty' /\ LockHeld'
  BY <1>2, <1>7 DEF QInv, FutureEmpty, LockHeld
<1> QED
  BY <1>6, <1>8 DEF QInv

\* Steps that leave the clock, the log and the chats, and create no quota.
LEMMA FewerQuotas ==
    ASSUME QInv, TypeOK', UNCHANGED <<now, log, chat, holder>>, quotas' \subseteq quotas
    PROVE  QInv'
<1>1. \A q \in quotas' : q.policy = "hard" => Amount(log', now', chat', q) <= Bound(q)
  BY DEF QInv, WithinBounds
<1>2. WithinBounds'
  BY <1>1 DEF WithinBounds, Amount, UsedIn, Bound
<1> QED
  BY <1>2 DEF QInv, LockHeld, FutureEmpty

LEMMA InitQ == Init => QInv
<1> SUFFICES ASSUME Init PROVE QInv
  OBVIOUS
<1>1. TypeOK
  BY InitTypes
<1>2. LockHeld
  BY GateAssumption DEF Init, LockHeld, Idle
<1>3. FutureEmpty
  BY DEF Init, FutureEmpty, Unit
<1>4. WithinBounds
  BY DEF Init, WithinBounds
<1> QED
  BY <1>1, <1>2, <1>3, <1>4 DEF QInv

LEMMA QStep == QInv /\ [Next]_vars => QInv'
<1> SUFFICES ASSUME QInv, [Next]_vars PROVE QInv'
  OBVIOUS
<1>1. TypeOK'
  BY NextTypes DEF QInv
<1>2. ASSUME NEW a \in Admin, AdminStep(a) PROVE QInv'
  <2>1. UNCHANGED <<now, quotas, log, chat, holder>>
    BY <1>2 DEF AdminStep, CreateKey, UpdateKey, DeleteKey, OtherWrite, Save, ReloadRead, ReloadSwap
  <2> QED
    BY <1>1, <2>1, FewerQuotas
<1>3. CASE DeleteQuota
  <2>1. UNCHANGED <<now, log, chat, holder>> /\ quotas' \subseteq quotas
    BY <1>3 DEF DeleteQuota
  <2> QED
    BY <1>1, <2>1, FewerQuotas
<1>4. CASE UNCHANGED vars
  <2>1. UNCHANGED <<now, quotas, log, chat, holder>>
    BY <1>4 DEF vars
  <2> QED
    BY <1>1, <2>1, FewerQuotas
<1> QED
  BY <1>1, <1>2, <1>3, <1>4, ChatKeepsQ, CreateKeepsQ, RestartKeepsQ, TickKeepsQ DEF Next

(***************************************************************************)
(* quota_check reads the usage and reserves nothing (quota.rs), and every  *)
(* chat in progress can pass on the last free unit; but the usage of a key *)
(* never passes a hard limit by more than one chat's worth for each chat   *)
(* that can be in progress, apart from what was there or under way when    *)
(* the quota was created.  For every number of chats, keys and quotas.     *)
(***************************************************************************)
THEOREM OvershootWithinBound == Spec => []OvershootBounded
<1>1. QInv => OvershootBounded
  <2> SUFFICES ASSUME QInv, NEW q \in quotas, q.policy = "hard" PROVE Used(q) <= Bound(q)
    BY DEF OvershootBounded, Bound
  <2>1. /\ chat \in Chats /\ log \in Logs /\ now \in 0 .. MaxTime /\ q \in QuotaRecord
    BY QTypes DEF QInv
  <2>2. UsedIn(log, now, q) = Used(q)
    BY DEF UsedIn, Used, Usage, Consumed, In, Instants
  <2>3. /\ UsedIn(log, now, q) \in Nat /\ Amount(log, now, chat, q) \in Nat
        /\ UsedIn(log, now, q) <= Amount(log, now, chat, q)
    BY <2>1, AmountFacts
  <2>4. Amount(log, now, chat, q) <= Bound(q) /\ Bound(q) \in Int
    BY <2>1, BoundFacts DEF QInv, WithinBounds
  <2> QED
    BY <2>2, <2>3, <2>4
<1> QED
  BY <1>1, InitQ, QStep, PTL DEF Spec
=============================================================================
