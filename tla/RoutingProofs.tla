--------------------------- MODULE RoutingProofs ---------------------------
(***************************************************************************)
(* Proofs about Routing, for every value of the constants: any number of   *)
(* connections, keys, admin requests and ticks.                            *)
(***************************************************************************)
EXTENDS Routing, FiniteSetTheorems, TLAPS

LEMMA WholeSecondsBounds ==
    ASSUME NEW d \in Nat
    PROVE  /\ WholeSeconds(d) \in Nat
           /\ WholeSeconds(d) <= d
           /\ d < WholeSeconds(d) + Second
<1>1. Second \in Nat /\ Second > 0
  BY RoutingAssumption
<1> QED
  BY <1>1 DEF WholeSeconds

\* A loaded cooldown ends less than a second before the persisted one.
LEMMA InitialCoolBounds ==
    ASSUME now \in Nat, NEW r \in Nat
    PROVE  /\ InitialCool(r) \in Nat
           /\ InitialCool(r) + Second > r \/ now + Second > r
<1>1. Second \in Nat /\ Second > 0
  BY RoutingAssumption
<1>2. CASE r > now
  <2>1. r - now \in Nat
    BY <1>2
  <2>2. /\ WholeSeconds(r - now) \in Nat
        /\ r - now < WholeSeconds(r - now) + Second
    BY <2>1, WholeSecondsBounds
  <2> QED
    BY <1>1, <1>2, <2>2 DEF InitialCool
<1>3. CASE ~ (r > now)
  BY <1>1, <1>3 DEF InitialCool
<1> QED
  BY <1>2, <1>3

LEMMA FunctionIsSequence ==
    ASSUME NEW n \in Nat, NEW S, NEW f \in [1 .. n -> S]
    PROVE  f \in Seq(S) /\ Len(f) = n
BY SMT

LEMMA LoadOrderDomain ==
    ASSUME NEW o \in LoadOrder
    PROVE  /\ o \in Seq(Conn)
           /\ \A i \in 1..Len(o) : Loadable(o[i])
           /\ \A i, j \in 1..Len(o) : o[i] = o[j] => i = j
<1> DEFINE S == {c \in Conn : Loadable(c)}
<1>1. IsFiniteSet(S)
  BY RoutingAssumption, FS_Subset, S \subseteq Conn
<1>2. Cardinality(S) \in Nat
  BY <1>1, FS_CardinalityType
<1>3. o \in [1 .. Cardinality(S) -> S]
  BY DEF LoadOrder, SetToSeqs
<1>4. o \in Seq(S) /\ Len(o) = Cardinality(S)
  BY <1>2, <1>3, FunctionIsSequence
<1>5. \A i, j \in 1 .. Cardinality(S) : i # j => o[i] # o[j]
  BY DEF LoadOrder, SetToSeqs
<1> QED
  BY <1>3, <1>4, <1>5

-----------------------------------------------------------------------------
(***************************************************************************)
(* Types.  A PUT in progress edits the row of a connection, and a pool     *)
(* waiting in a reload is one the engine can rotate.                       *)
(***************************************************************************)
InRange(p) == p.accounts # <<>> => p.next_idx < Len(p.accounts)

TInv == /\ TypeOK
        /\ \A a \in Admin : step[a] = "editing" => draft[a].conn \in Conn
        /\ \A a \in Admin : InRange(snap[a])

LEMMA ModRange ==
    ASSUME NEW n \in Nat \ {0}, NEW s \in Nat
    PROVE  s % n \in 0 .. n - 1
BY SMT

LEMMA AdvanceType ==
    ASSUME NEW p \in Pool, NEW s \in Slots(p)
    PROVE  Advance(p, s) \in Pool /\ InRange(Advance(p, s))
<1>1. /\ Len(p.accounts) \in Nat \ {0}
      /\ s \in Nat
  BY DEF Pool, PoolOf, Slots
<1>2. s % Len(p.accounts) \in 0 .. Len(p.accounts) - 1
  BY <1>1, ModRange
<1> QED
  BY <1>1, <1>2 DEF Pool, PoolOf, Advance, InRange

LEMMA OutcomeType ==
    ASSUME NEW acc \in AccountOf(Key, Conn \cup {NoConn}), NEW o \in Outcome, NEW n \in Nat
    PROVE  /\ AfterOutcome(acc, o, n) \in AccountOf(Key, Conn \cup {NoConn})
           /\ AfterOutcome(acc, o, n).key = acc.key
           /\ AfterOutcome(acc, o, n).conn = acc.conn
<1>1. acc.errs + 1 \in Nat /\ n + Cooldown \in Nat /\ acc.enabled \in BOOLEAN
  BY PoolAssumption DEF AccountOf
<1>2. CASE o = "Success"
  BY <1>2 DEF AfterOutcome, AccountOf
<1>3. CASE o = "RateLimited"
  <2>1. AfterOutcome(acc, o, n) = [acc EXCEPT !.errs = acc.errs + 1, !.cool = n + Cooldown]
    BY <1>3 DEF AfterOutcome
  <2> QED
    BY <1>1, <2>1 DEF AccountOf
<1>4. CASE o = "AuthFailed"
  <2> DEFINE e == acc.enabled /\ acc.errs + 1 < MaxAuthFailures
  <2>1. AfterOutcome(acc, o, n) = [acc EXCEPT !.errs = acc.errs + 1, !.enabled = e]
    BY <1>4 DEF AfterOutcome
  <2>2. e \in BOOLEAN
    OBVIOUS
  <2> HIDE DEF e
  <2> QED
    BY <1>1, <2>1, <2>2 DEF AccountOf
<1> QED
  BY <1>2, <1>3, <1>4 DEF Outcome

LEMMA ReportType ==
    ASSUME NEW p \in Pool, NEW k \in Key \cup {NoKey}, NEW o \in Outcome, NEW n \in Nat
    PROVE  /\ Report(p, k, o, n) \in Pool
           /\ Slots(Report(p, k, o, n)) = Slots(p)
           /\ Len(Report(p, k, o, n).accounts) = Len(p.accounts)
           /\ Report(p, k, o, n).next_idx = p.next_idx
           /\ \A s \in Slots(p) :
                 Report(p, k, o, n).accounts[s] =
                   IF s \in FirstWith(p, k) THEN AfterOutcome(p.accounts[s], o, n)
                                            ELSE p.accounts[s]
<1> DEFINE f == [s \in Slots(p) |-> IF s \in FirstWith(p, k)
                                    THEN AfterOutcome(p.accounts[s], o, n)
                                    ELSE p.accounts[s]]
           A == AccountOf(Key, Conn \cup {NoConn})
<1>1. /\ p.accounts \in Seq(A)
      /\ Slots(p) = 1 .. Len(p.accounts)
      /\ Len(p.accounts) \in Nat
  BY DEF Pool, PoolOf, Slots
<1>2. \A s \in Slots(p) : p.accounts[s] \in A
  BY <1>1
<1>3. f \in [1 .. Len(p.accounts) -> A]
  BY <1>1, <1>2, OutcomeType
<1>4. f \in Seq(A) /\ Len(f) = Len(p.accounts)
  BY <1>1, <1>3, FunctionIsSequence
<1>5. Report(p, k, o, n) = [p EXCEPT !.accounts = f]
  BY DEF Report
<1> HIDE DEF f
<1>6. /\ Report(p, k, o, n).accounts = f
      /\ Report(p, k, o, n).next_idx = p.next_idx
      /\ Report(p, k, o, n) \in Pool
  BY <1>4, <1>5 DEF Pool, PoolOf
<1>7. DOMAIN f = Slots(p)
  BY <1>1, <1>3
<1> QED
  BY <1>4, <1>6, <1>7 DEF Slots, f

LEMMA ReportedAccount ==
    ASSUME NEW p \in Pool, NEW k, NEW o, NEW n, NEW s \in Slots(p)
    PROVE  Report(p, k, o, n).accounts[s] =
             IF s \in FirstWith(p, k) THEN AfterOutcome(p.accounts[s], o, n) ELSE p.accounts[s]
BY DEF Report, Pool, PoolOf

LEMMA ReportedSlots ==
    ASSUME NEW p \in Pool, NEW k, NEW o, NEW n
    PROVE  Slots(Report(p, k, o, n)) = Slots(p)
BY DEF Report, Slots, Pool, PoolOf

\* What a rebuilt pool holds, slot by slot.
LEMMA RebuiltPool ==
    ASSUME now \in Nat, rows \in [Conn -> Row], NEW p \in Rebuilt
    PROVE  /\ p \in Pool
           /\ InRange(p)
           /\ \E o \in LoadOrder :
                 /\ Len(p.accounts) = Len(EnvKeys) + Len(o)
                 /\ \A s \in 1 .. Len(p.accounts) :
                      p.accounts[s] =
                        IF s <= Len(EnvKeys)
                        THEN NewAccount(EnvKeys[s], NoConn, 0)
                        ELSE NewAccount(rows[o[s - Len(EnvKeys)]].key, o[s - Len(EnvKeys)],
                                        InitialCool(rows[o[s - Len(EnvKeys)]].rlu))
<1> DEFINE A == AccountOf(Key, Conn \cup {NoConn})
<1>1. PICK o \in LoadOrder : p = [accounts |-> FromEnv \o LoadFromDb(o), next_idx |-> 0]
  BY DEF Rebuilt
<1>2. /\ EnvKeys \in Seq(Key)
      /\ Len(EnvKeys) \in Nat
      /\ \A i \in 1 .. Len(EnvKeys) : EnvKeys[i] \in Key
  BY RoutingAssumption
<1>3. FromEnv \in [1 .. Len(EnvKeys) -> A]
  BY <1>2 DEF FromEnv, NewAccount, AccountOf
<1>4. FromEnv \in Seq(A) /\ Len(FromEnv) = Len(EnvKeys)
  BY <1>2, <1>3, FunctionIsSequence
<1>5. o \in Seq(Conn) /\ DOMAIN o = 1 .. Len(o) /\ Len(o) \in Nat
  BY LoadOrderDomain
<1>6. \A i \in 1 .. Len(o) :
         NewAccount(rows[o[i]].key, o[i], InitialCool(rows[o[i]].rlu)) \in A
  <2> SUFFICES ASSUME NEW i \in 1 .. Len(o)
               PROVE  NewAccount(rows[o[i]].key, o[i], InitialCool(rows[o[i]].rlu)) \in A
    OBVIOUS
  <2>1. o[i] \in Conn /\ Loadable(o[i])
    BY <1>5, LoadOrderDomain
  <2>2. rows[o[i]].key \in Key /\ rows[o[i]].rlu \in Nat
    BY <2>1 DEF Row, Loadable
  <2>3. InitialCool(rows[o[i]].rlu) \in Nat
    BY <2>2, InitialCoolBounds
  <2> QED
    BY <2>1, <2>2, <2>3 DEF NewAccount, AccountOf
<1>7. LoadFromDb(o) \in [1 .. Len(o) -> A]
  BY <1>5, <1>6 DEF LoadFromDb
<1>8. LoadFromDb(o) \in Seq(A) /\ Len(LoadFromDb(o)) = Len(o)
  BY <1>5, <1>7, FunctionIsSequence
<1>9. /\ FromEnv \o LoadFromDb(o) \in Seq(A)
      /\ Len(FromEnv \o LoadFromDb(o)) = Len(EnvKeys) + Len(o)
      /\ \A s \in 1 .. Len(EnvKeys) + Len(o) :
            (FromEnv \o LoadFromDb(o))[s] =
              IF s <= Len(EnvKeys) THEN FromEnv[s] ELSE LoadFromDb(o)[s - Len(EnvKeys)]
  BY <1>4, <1>8
<1>10. p \in Pool /\ InRange(p)
  <2>1. p \in Pool
    BY <1>1, <1>9 DEF Pool, PoolOf
  <2>2. p.accounts # <<>> => 0 < Len(p.accounts)
    BY <2>1 DEF Pool, PoolOf
  <2> QED
    BY <1>1, <2>1, <2>2 DEF InRange
<1>11. \A s \in 1 .. Len(p.accounts) :
          p.accounts[s] =
            IF s <= Len(EnvKeys)
            THEN NewAccount(EnvKeys[s], NoConn, 0)
            ELSE NewAccount(rows[o[s - Len(EnvKeys)]].key, o[s - Len(EnvKeys)],
                            InitialCool(rows[o[s - Len(EnvKeys)]].rlu))
  <2> SUFFICES ASSUME NEW s \in 1 .. Len(p.accounts)
               PROVE  p.accounts[s] =
                        IF s <= Len(EnvKeys)
                        THEN NewAccount(EnvKeys[s], NoConn, 0)
                        ELSE NewAccount(rows[o[s - Len(EnvKeys)]].key, o[s - Len(EnvKeys)],
                                        InitialCool(rows[o[s - Len(EnvKeys)]].rlu))
    OBVIOUS
  <2>1. /\ s \in 1 .. Len(EnvKeys) + Len(o)
        /\ p.accounts[s] = IF s <= Len(EnvKeys) THEN FromEnv[s]
                           ELSE LoadFromDb(o)[s - Len(EnvKeys)]
    BY <1>1, <1>9
  <2>2. CASE s <= Len(EnvKeys)
    BY <2>1, <2>2, <1>2 DEF FromEnv
  <2>3. CASE ~ (s <= Len(EnvKeys))
    <3>1. s - Len(EnvKeys) \in DOMAIN o
      BY <2>1, <2>3, <1>2, <1>5
    <3> QED
      BY <2>1, <2>3, <3>1 DEF LoadFromDb
  <2> QED
    BY <2>2, <2>3
<1> QED
  BY <1>1, <1>9, <1>10, <1>11

LEMMA AccountType ==
    ASSUME NEW p \in Pool, NEW s \in Slots(p)
    PROVE  p.accounts[s] \in AccountOf(Key, Conn \cup {NoConn})
BY DEF Pool, PoolOf, Slots

LEMMA EmptyPool == NoPool \in Pool /\ InRange(NoPool) /\ Slots(NoPool) = {}
<1>1. <<>> \in Seq(AccountOf(Key, Conn \cup {NoConn})) /\ Len(<<>>) = 0
  OBVIOUS
<1> QED
  BY <1>1 DEF NoPool, Pool, PoolOf, InRange, Slots

LEMMA TInvInit == Init => TInv
<1> SUFFICES ASSUME Init PROVE TInv
  OBVIOUS
<1>1. rows \in [Conn -> Row]
  BY RoutingAssumption DEF Init, Row, Unused
<1>2. /\ now \in Nat
      /\ call \in [key : Key \cup {NoKey}, conn : Conn \cup {NoConn}]
      /\ step \in [Admin -> {"idle", "editing", "saved", "loaded"}]
      /\ draft \in [Admin -> Draft]
      /\ rest \in [Conn -> Nat]
      /\ missed \in [Admin -> SUBSET Conn]
      /\ exposed \in SUBSET Conn
  BY DEF Init, NoCall, NoDraft, Draft
<1>3. snap \in [Admin -> Pool] /\ \A a \in Admin : InRange(snap[a])
  BY EmptyPool DEF Init
<1>4. pool \in Pool /\ InRange(pool)
  BY <1>1, <1>2, RebuiltPool DEF Init
<1> QED
  BY <1>1, <1>2, <1>3, <1>4 DEF TInv, TypeOK, Init, InRange

LEMMA TInvStep == TInv /\ [Next]_vars => TInv'
<1> SUFFICES ASSUME TInv, [Next]_vars PROVE TInv'
  OBVIOUS
<1> USE DEF adminVars
<1>1. ASSUME NEW k \in Key \cup {NoKey}, Route(k) PROVE TInv'
  <2>1. PICK s \in Slots(pool) :
           /\ pool' = Advance(pool, s)
           /\ call' = [key |-> pool.accounts[s].key, conn |-> pool.accounts[s].conn]
    BY <1>1 DEF Route, RoutePrefer, PreferKey, NextKey
  <2>2. pool' \in Pool /\ InRange(pool')
    BY <2>1, AdvanceType DEF TInv, TypeOK
  <2>3. call' \in [key : Key \cup {NoKey}, conn : Conn \cup {NoConn}]
    <3>1. pool.accounts[s] \in AccountOf(Key, Conn \cup {NoConn})
      BY AccountType DEF TInv, TypeOK
    <3> QED
      BY <2>1, <3>1 DEF AccountOf
  <2> QED
    BY <1>1, <2>2, <2>3 DEF Route, TInv, TypeOK, InRange
<1>2. ASSUME NEW o \in Outcome, Deliver(o) PROVE TInv'
  <2>1. pool' = Report(pool, call.key, o, now) /\ now \in Nat /\ pool \in Pool
    BY <1>2 DEF Deliver, TInv, TypeOK
  <2>1a. /\ Report(pool, call.key, o, now) \in Pool
         /\ Slots(Report(pool, call.key, o, now)) = Slots(pool)
         /\ Len(Report(pool, call.key, o, now).accounts) = Len(pool.accounts)
         /\ Report(pool, call.key, o, now).next_idx = pool.next_idx
    <3>1. call.key \in Key \cup {NoKey}
      BY DEF TInv, TypeOK
    <3> QED
      BY <2>1, <3>1, ReportType
  <2>2. pool' \in Pool /\ InRange(pool')
    <3>1. /\ pool' \in Pool
          /\ Len(pool'.accounts) = Len(pool.accounts)
          /\ pool'.next_idx = pool.next_idx
      BY <2>1, <2>1a
    <3>2. pool'.accounts # <<>> => pool.accounts # <<>>
      BY <2>1, <3>1 DEF Pool, PoolOf
    <3> QED
      BY <3>1, <3>2 DEF InRange, TInv, TypeOK
  <2>3. rows' \in [Conn -> Row]
    <3> DEFINE e == pool'.accounts[CHOOSE s \in FirstWith(pool, call.key) : TRUE].errs
    <3>1. ASSUME NEW c \in Conn, NEW s \in FirstWith(pool, call.key)
          PROVE  UpdateHealth(rows[c], o, e) \in Row
      <4>1. (CHOOSE t \in FirstWith(pool, call.key) : TRUE) \in Slots(pool)
        BY <3>1 DEF FirstWith
      <4>2. Slots(pool') = Slots(pool)
        BY <2>1, <2>1a
      <4>3. e \in Nat
        BY <2>2, <4>1, <4>2, AccountType DEF AccountOf
      <4>4. rows[c] \in Row /\ now + Cooldown \in Nat
        BY <2>1, PoolAssumption DEF TInv, TypeOK
      <4> HIDE DEF e
      <4>5. (IF e < 5 THEN e ELSE 5) \in 0 .. 5
        BY <4>3
      <4> QED
        BY <4>4, <4>5 DEF UpdateHealth, Row
    <3>2. \A c \in Conn : rows[c] \in Row
      BY DEF TInv, TypeOK
    <3> HIDE DEF e
    <3>3. rows' = [c \in Conn |->
                    IF /\ Exists(c)
                       /\ \E s \in FirstWith(pool, call.key) : pool.accounts[s].conn = c
                    THEN UpdateHealth(rows[c], o, e) ELSE rows[c]]
      BY <1>2 DEF Deliver, e
    <3> QED
      BY <3>1, <3>2, <3>3
  <2>4. rest' \in [Conn -> Nat] /\ missed' \in [Admin -> SUBSET Conn]
    <3>1. now + Cooldown \in Nat
      BY <2>1, PoolAssumption
    <3>2. CASE o = "RateLimited" /\ call.conn # NoConn
      <4>1. call.conn \in Conn
        BY <3>2 DEF TInv, TypeOK
      <4>2. /\ rest' = [rest EXCEPT ![call.conn] = now + Cooldown]
            /\ missed' = [a \in Admin |-> IF step[a] = "loaded"
                                          THEN missed[a] \cup {call.conn} ELSE missed[a]]
        BY <1>2, <3>2 DEF Deliver
      <4> QED
        BY <3>1, <4>1, <4>2 DEF TInv, TypeOK
    <3>3. CASE ~ (o = "RateLimited" /\ call.conn # NoConn)
      BY <1>2, <3>3 DEF Deliver, TInv, TypeOK
    <3> QED
      BY <3>2, <3>3
  <2>5. call' \in [key : Key \cup {NoKey}, conn : Conn \cup {NoConn}]
    BY <1>2 DEF Deliver, NoCall
  <2> QED
    BY <1>2, <2>2, <2>3, <2>4, <2>5 DEF Deliver, TInv, TypeOK, InRange
<1>3. ASSUME EndUnreported PROVE TInv'
  BY <1>3 DEF EndUnreported, NoCall, TInv, TypeOK
<1>4. ASSUME NEW a \in Admin, NEW c \in Conn, CreateConnection(a, c) PROVE TInv'
  <2>1. PICK k \in KeysOf[c], st \in {"active", "inactive"}, t \in {0, now + Cooldown} :
           rows' = [rows EXCEPT ![c] =
                      [status |-> st, key |-> k, rlu |-> t, backoff |-> 0]]
    BY <1>4 DEF CreateConnection
  <2>2. k \in Key \cup {NoKey} /\ t \in Nat
    BY RoutingAssumption, PoolAssumption DEF TInv, TypeOK
  <2>3. [status |-> st, key |-> k, rlu |-> t, backoff |-> 0] \in Row
    BY <2>2 DEF Row
  <2>4. rows' \in [Conn -> Row]
    BY <2>1, <2>3 DEF TInv, TypeOK
  <2> QED
    BY <1>4, <2>4 DEF CreateConnection, SetStep, TInv, TypeOK
<1>5. ASSUME NEW a \in Admin, NEW c \in Conn, AddFreeProvider(a, c) PROVE TInv'
  <2>1. PICK k \in KeysOf[c] :
           rows' = [rows EXCEPT ![c] =
                      [status |-> "active", key |-> k, rlu |-> 0, backoff |-> 0]]
    BY <1>5 DEF AddFreeProvider
  <2>2. [status |-> "active", key |-> k, rlu |-> 0, backoff |-> 0] \in Row
    BY RoutingAssumption DEF Row
  <2>3. rows' \in [Conn -> Row]
    BY <2>1, <2>2 DEF TInv, TypeOK
  <2> QED
    BY <1>5, <2>3 DEF AddFreeProvider, TInv, TypeOK
<1>6. ASSUME NEW a \in Admin, NEW c \in Conn, UpdateRead(a, c) PROVE TInv'
  BY <1>6 DEF UpdateRead, SetStep, Exists, TInv, TypeOK, Row, Draft
<1>7. ASSUME NEW a \in Admin, NEW c \in Conn, DeleteConnection(a, c) PROVE TInv'
  BY <1>7 DEF DeleteConnection, SetStep, Deleted, Unused, TInv, TypeOK, Row
<1>8. ASSUME NEW a \in Admin, UpdateWrite(a) PROVE TInv'
  <2> DEFINE c == draft[a].conn
  <2>1. /\ step[a] = "editing"
        /\ c \in Conn
        /\ draft[a].key \in Key \cup {NoKey}
    BY <1>8 DEF UpdateWrite, TInv, TypeOK, Draft
  <2>2. PICK k \in KeysOf[c] \cup {draft[a].key}, st \in {"active", "inactive"} :
           rows' = [rows EXCEPT ![c] = IF Exists(c) THEN WriteColumns(rows[c], k, st)
                                                    ELSE rows[c]]
    BY <1>8 DEF UpdateWrite
  <2>3. k \in Key \cup {NoKey}
    BY <2>1, <2>2, RoutingAssumption
  <2>4. rows[c] \in Row /\ WriteColumns(rows[c], k, st) \in Row
    <3>1. rows[c] \in Row
      BY <2>1 DEF TInv, TypeOK
    <3> QED
      BY <2>3, <3>1 DEF Row, WriteColumns
  <2>5. rows' \in [Conn -> Row]
    <3> DEFINE r == IF Exists(c) THEN WriteColumns(rows[c], k, st) ELSE rows[c]
    <3>1. r \in Row
      BY <2>4
    <3>2. rows' = [rows EXCEPT ![c] = r]
      BY <2>2
    <3> HIDE DEF r, c
    <3> QED
      BY <3>1, <3>2 DEF TInv, TypeOK
  <2> QED
    BY <1>8, <2>5 DEF UpdateWrite, SetStep, NoDraft, Draft, TInv, TypeOK
<1>9. ASSUME NEW a \in Admin, OtherWrite(a) PROVE TInv'
  BY <1>9 DEF OtherWrite, SetStep, TInv, TypeOK
<1>10. ASSUME NEW a \in Admin, ReloadRead(a) PROVE TInv'
  <2>1. PICK p \in Rebuilt : snap' = [snap EXCEPT ![a] = p]
    BY <1>10 DEF ReloadRead
  <2>2. p \in Pool /\ InRange(p)
    BY RebuiltPool DEF TInv, TypeOK
  <2> QED
    BY <1>10, <2>1, <2>2 DEF ReloadRead, SetStep, TInv, TypeOK
<1>11. ASSUME NEW a \in Admin, ReloadSwap(a) PROVE TInv'
  BY <1>11, EmptyPool DEF ReloadSwap, SetStep, TInv, TypeOK, InRange
<1>12. ASSUME Restart PROVE TInv'
  <2>1. pool' \in Pool /\ InRange(pool')
    BY <1>12, RebuiltPool DEF Restart, TInv, TypeOK
  <2> QED
    BY <1>12, <2>1, EmptyPool DEF Restart, NoCall, NoDraft, Draft, TInv, TypeOK, InRange
<1>13. ASSUME Tick PROVE TInv'
  BY <1>13 DEF Tick, TInv, TypeOK
<1>14. ASSUME UNCHANGED vars PROVE TInv'
  BY <1>14 DEF vars, TInv, TypeOK
<1> QED
  BY <1>1, <1>2, <1>3, <1>4, <1>5, <1>6, <1>7, <1>8, <1>9, <1>10, <1>11, <1>12, <1>13,
     <1>14 DEF Next, AdminStep

(***************************************************************************)
(* Every state variable keeps its type, and the rotation index of the      *)
(* engine's pool stays inside the pool: next_key never indexes past the    *)
(* end of the account vector (account.rs, next_idx).                       *)
(***************************************************************************)
THEOREM TypeCorrect == Spec => []TypeOK
<1>1. TInv => TypeOK
  BY DEF TInv
<1> QED
  BY <1>1, TInvInit, TInvStep, PTL DEF Spec

-----------------------------------------------------------------------------
(***************************************************************************)
(* The inductive invariant.  A pool, installed or waiting in a reload, is  *)
(* well sourced when its accounts come from the environment or each from a *)
(* connection of its own, one that has been created in the table r; and at *)
(* time n it remembers the rests of the connections outside E.             *)
(***************************************************************************)
WellSourced(p) ==
    /\ \A s \in Slots(p) :
          /\ p.accounts[s].conn = NoConn =>
                s \in DOMAIN EnvKeys /\ p.accounts[s].key = EnvKeys[s]
          /\ p.accounts[s].conn # NoConn => p.accounts[s].key \in KeysOf[p.accounts[s].conn]
    /\ \A s, t \in Slots(p) :
          p.accounts[s].conn = p.accounts[t].conn /\ p.accounts[s].conn # NoConn => s = t

Created(p, r) ==
    \A s \in Slots(p) : p.accounts[s].conn # NoConn =>
                            r[p.accounts[s].conn].status # "unused"

Remembers(p, E, n, until) ==
    \A s \in Slots(p) :
        p.accounts[s].conn \in Conn \ E =>
            \/ n + Second > until[p.accounts[s].conn]
            \/ p.accounts[s].cool + Second > until[p.accounts[s].conn]

Good(p, E) == WellSourced(p) /\ Created(p, rows) /\ Remembers(p, E, now, rest)

RowKeys == \A c \in Conn : /\ Exists(c) => rows[c].key \in KeysOf[c]
                           /\ rows[c].status = "unused" => rest[c] = 0

DraftKeys == \A a \in Admin : step[a] = "editing" => draft[a].key \in KeysOf[draft[a].conn]

RowsRemember ==
    \A c \in Conn \ exposed : Exists(c) => Rested(c) \/ rows[c].rlu >= rest[c]

SnapsGood == \A a \in Admin : step[a] = "loaded" => Good(snap[a], exposed \cup missed[a])

\* Slot s of pool p holds the account of the call k in flight, usable at n.
Caller(p, s, k, n) == /\ s \in Slots(p)
                      /\ p.accounts[s].key = k.key
                      /\ p.accounts[s].conn = k.conn
                      /\ Available(p.accounts[s], n)

HasCaller == call # NoCall => \E s \in Slots(pool) : Caller(pool, s, call, now)

IInv == /\ RowKeys
        /\ DraftKeys
        /\ RowsRemember
        /\ SnapsGood
        /\ Good(pool, exposed)
        /\ HasCaller

LEMMA UniqueSlot ==
    ASSUME DistinctCredentials, NEW p \in Pool, WellSourced(p),
           NEW s \in Slots(p), NEW t \in Slots(p), p.accounts[s].key = p.accounts[t].key
    PROVE  s = t
<1>1. /\ p.accounts[s].conn \in Conn \cup {NoConn} /\ p.accounts[s].key \in Key
      /\ p.accounts[t].conn \in Conn \cup {NoConn} /\ p.accounts[t].key \in Key
  BY AccountType DEF AccountOf
<1>2. CASE p.accounts[s].conn = NoConn /\ p.accounts[t].conn = NoConn
  BY <1>2 DEF WellSourced, DistinctCredentials
<1>3. CASE p.accounts[s].conn = NoConn /\ p.accounts[t].conn # NoConn
  BY <1>1, <1>3 DEF WellSourced, DistinctCredentials
<1>4. CASE p.accounts[s].conn # NoConn /\ p.accounts[t].conn = NoConn
  BY <1>1, <1>4 DEF WellSourced, DistinctCredentials
<1>5. CASE p.accounts[s].conn # NoConn /\ p.accounts[t].conn # NoConn
  BY <1>1, <1>5 DEF WellSourced, DistinctCredentials
<1> QED
  BY <1>2, <1>3, <1>4, <1>5

LEMMA FirstIsOnly ==
    ASSUME DistinctCredentials, NEW p \in Pool, WellSourced(p), NEW s \in Slots(p)
    PROVE  FirstWith(p, p.accounts[s].key) = {s}
<1>1. \A t \in Slots(p) : p.accounts[t].key = p.accounts[s].key => t = s
  BY UniqueSlot
<1>2. s \in 1 .. Len(p.accounts) /\ Slots(p) = 1 .. Len(p.accounts) /\ Len(p.accounts) \in Nat
  BY DEF Slots, Pool, PoolOf
<1>3. \A r \in 1 .. s - 1 : r \in Slots(p) /\ r # s
  BY <1>2
<1> QED
  BY <1>1, <1>3 DEF FirstWith

\* A usable account of a pool that remembers has rested.
LEMMA UsableIsRested ==
    ASSUME NEW p \in Pool, NEW E, NEW n \in Nat, NEW until \in [Conn -> Nat],
           Remembers(p, E, n, until), NEW s \in Slots(p), Available(p.accounts[s], n),
           p.accounts[s].conn \in Conn \ E
    PROVE  n + Second > until[p.accounts[s].conn]
<1>1. p.accounts[s].cool \in Nat
  BY AccountType DEF AccountOf
<1>2. until[p.accounts[s].conn] \in Nat /\ Second \in Nat
  BY RoutingAssumption
<1>3. n >= p.accounts[s].cool
  BY DEF Available
<1>4. \/ n + Second > until[p.accounts[s].conn]
      \/ p.accounts[s].cool + Second > until[p.accounts[s].conn]
  BY DEF Remembers
<1> QED
  BY <1>1, <1>2, <1>3, <1>4

\* Time passing and further exposures forget nothing.
LEMMA RemembersLater ==
    ASSUME NEW p, NEW E, NEW F, E \subseteq F, NEW n \in Nat, NEW m \in Nat, n <= m,
           NEW until \in [Conn -> Nat], Remembers(p, E, n, until)
    PROVE  Remembers(p, F, m, until)
<1>1. Second \in Nat
  BY RoutingAssumption
<1> SUFFICES ASSUME NEW s \in Slots(p), p.accounts[s].conn \in Conn \ F
             PROVE  \/ m + Second > until[p.accounts[s].conn]
                    \/ p.accounts[s].cool + Second > until[p.accounts[s].conn]
  BY DEF Remembers
<1>2. \/ n + Second > until[p.accounts[s].conn]
      \/ p.accounts[s].cool + Second > until[p.accounts[s].conn]
  BY DEF Remembers
<1>3. until[p.accounts[s].conn] \in Nat
  OBVIOUS
<1> QED
  BY <1>1, <1>2, <1>3

\* A pool built from rows that remember, remembers.
LEMMA RebuiltGood ==
    ASSUME TInv, RowKeys, RowsRemember, NEW p \in Rebuilt
    PROVE  Good(p, exposed)
<1>1. now \in Nat /\ rows \in [Conn -> Row] /\ rest \in [Conn -> Nat] /\ Second \in Nat
  BY RoutingAssumption DEF TInv, TypeOK
<1>2. p \in Pool
  BY <1>1, RebuiltPool
<1>3. PICK o \in LoadOrder :
         /\ Len(p.accounts) = Len(EnvKeys) + Len(o)
         /\ \A s \in 1 .. Len(p.accounts) :
              p.accounts[s] =
                IF s <= Len(EnvKeys)
                THEN NewAccount(EnvKeys[s], NoConn, 0)
                ELSE NewAccount(rows[o[s - Len(EnvKeys)]].key, o[s - Len(EnvKeys)],
                                InitialCool(rows[o[s - Len(EnvKeys)]].rlu))
  BY <1>1, RebuiltPool
<1>4. /\ o \in Seq(Conn) /\ Len(o) \in Nat
      /\ \A i \in 1 .. Len(o) : o[i] \in Conn /\ Loadable(o[i])
      /\ \A i, j \in 1 .. Len(o) : o[i] = o[j] => i = j
  BY LoadOrderDomain
<1>5. EnvKeys \in Seq(Key) /\ Len(EnvKeys) \in Nat /\ DOMAIN EnvKeys = 1 .. Len(EnvKeys)
  BY RoutingAssumption
<1>6. Slots(p) = 1 .. Len(EnvKeys) + Len(o)
  BY <1>2, <1>3 DEF Slots, Pool, PoolOf
<1> DEFINE L == Len(EnvKeys)
<1>7. ASSUME NEW s \in Slots(p), s <= L
      PROVE  p.accounts[s].conn = NoConn /\ p.accounts[s].key = EnvKeys[s] /\ s \in DOMAIN EnvKeys
  <2>1. s \in 1 .. Len(p.accounts) /\ s \in DOMAIN EnvKeys
    BY <1>3, <1>4, <1>5, <1>6, <1>7
  <2>2. p.accounts[s] = NewAccount(EnvKeys[s], NoConn, 0)
    BY <2>1, <1>3, <1>7
  <2> QED
    BY <2>1, <2>2 DEF NewAccount
<1>8. ASSUME NEW s \in Slots(p), ~ (s <= L)
      PROVE  /\ s - L \in 1 .. Len(o)
             /\ p.accounts[s].conn = o[s - L]
             /\ o[s - L] \in Conn \ {NoConn}
             /\ Exists(o[s - L])
             /\ rows[o[s - L]].status # "unused"
             /\ p.accounts[s].key = rows[o[s - L]].key
             /\ p.accounts[s].cool = InitialCool(rows[o[s - L]].rlu)
  <2>1. s - L \in 1 .. Len(o)
    BY <1>4, <1>5, <1>6, <1>8
  <2>2. o[s - L] \in Conn \ {NoConn} /\ rows[o[s - L]].status = "active"
    BY <2>1, <1>4, RoutingAssumption DEF Loadable
  <2>3. p.accounts[s] = NewAccount(rows[o[s - L]].key, o[s - L],
                                   InitialCool(rows[o[s - L]].rlu))
    BY <1>3, <1>6, <1>8
  <2> QED
    BY <2>1, <2>2, <2>3 DEF NewAccount, Exists
<1>9. WellSourced(p)
  <2>1. \A s \in Slots(p) :
          /\ p.accounts[s].conn = NoConn =>
                s \in DOMAIN EnvKeys /\ p.accounts[s].key = EnvKeys[s]
          /\ p.accounts[s].conn # NoConn => p.accounts[s].key \in KeysOf[p.accounts[s].conn]
    BY <1>7, <1>8 DEF RowKeys
  <2>2. ASSUME NEW s \in Slots(p), NEW t \in Slots(p),
               p.accounts[s].conn = p.accounts[t].conn, p.accounts[s].conn # NoConn
        PROVE  s = t
    <3>1. ~ (s <= L) /\ ~ (t <= L)
      BY <2>2, <1>7
    <3>2. s - L \in 1 .. Len(o) /\ t - L \in 1 .. Len(o) /\ o[s - L] = o[t - L]
      BY <2>2, <3>1, <1>8
    <3>3. s - L = t - L
      BY <3>2, <1>4
    <3> QED
      BY <3>3, <1>5, <1>6
  <2> QED
    BY <2>1, <2>2 DEF WellSourced
<1>10. Created(p, rows)
  BY <1>7, <1>8 DEF Created
<1>11. Remembers(p, exposed, now, rest)
  <2> SUFFICES ASSUME NEW s \in Slots(p), p.accounts[s].conn \in Conn \ exposed
               PROVE  \/ now + Second > rest[p.accounts[s].conn]
                      \/ p.accounts[s].cool + Second > rest[p.accounts[s].conn]
    BY DEF Remembers
  <2> DEFINE c == p.accounts[s].conn
  <2>1. ~ (s <= L)
    BY <1>7, RoutingAssumption
  <2>2. Exists(c) /\ p.accounts[s].cool = InitialCool(rows[c].rlu)
    BY <2>1, <1>8
  <2>3. now + Second > rest[c] \/ rows[c].rlu >= rest[c]
    BY <2>2 DEF RowsRemember, Rested
  <2>4. rows[c].rlu \in Nat /\ rest[c] \in Nat
    BY <1>1 DEF Row
  <2>5. /\ InitialCool(rows[c].rlu) \in Nat
        /\ InitialCool(rows[c].rlu) + Second > rows[c].rlu \/ now + Second > rows[c].rlu
    BY <1>1, <2>4, InitialCoolBounds
  <2> QED
    BY <1>1, <2>2, <2>3, <2>4, <2>5
<1> QED
  BY <1>9, <1>10, <1>11 DEF Good

LEMMA EmptyGood == WellSourced(NoPool) /\ \A r, E, n, u : Created(NoPool, r) /\ Remembers(NoPool, E, n, u)
BY EmptyPool DEF WellSourced, Created, Remembers

LEMMA IInvInit == Init => IInv
<1> SUFFICES ASSUME Init PROVE IInv
  OBVIOUS
<1>1. TInv
  BY TInvInit
<1>2. \A c \in Conn : rest[c] = 0
  BY DEF Init
<1>3. RowKeys
  BY <1>2 DEF Init, RowKeys, Exists, Unused
<1>4. RowsRemember
  BY <1>1, <1>2, RoutingAssumption DEF RowsRemember, Rested, TInv, TypeOK
<1>5. Good(pool, exposed)
  BY <1>1, <1>3, <1>4, RebuiltGood DEF Init
<1>6. DraftKeys /\ SnapsGood /\ HasCaller
  BY DEF Init, DraftKeys, SnapsGood, HasCaller
<1> QED
  BY <1>3, <1>4, <1>5, <1>6 DEF IInv

-----------------------------------------------------------------------------
(***************************************************************************)
(* The steps.  TInv and TInv' are known at each of them.                   *)
(***************************************************************************)
LEMMA RouteStep ==
    ASSUME TInv, TInv', IInv, NEW k \in Key \cup {NoKey}, Route(k)
    PROVE  IInv'
<1>1. PICK s \in Slots(pool) :
         /\ pool' = Advance(pool, s)
         /\ call' = [key |-> pool.accounts[s].key, conn |-> pool.accounts[s].conn]
         /\ Available(pool.accounts[s], now)
  BY DEF Route, RoutePrefer, PreferKey, NextKey
<1>2. pool'.accounts = pool.accounts
  BY <1>1 DEF Advance, TInv, TypeOK, Pool, PoolOf
<1>3. /\ UNCHANGED <<now, rows, step, draft, snap, rest, missed, exposed>>
  BY DEF Route, adminVars
<1>4. Slots(pool') = Slots(pool)
  BY <1>2 DEF Slots
<1>5. Good(pool, exposed)'
  BY <1>2, <1>3, <1>4 DEF IInv, Good, WellSourced, Created, Remembers
<1>6. HasCaller'
  BY <1>1, <1>2, <1>3, <1>4 DEF HasCaller, Caller
<1>7. (RowKeys /\ DraftKeys /\ RowsRemember /\ SnapsGood)'
  BY <1>3 DEF IInv, RowKeys, DraftKeys, RowsRemember, SnapsGood, Good, Exists, Rested
<1> QED
  BY <1>5, <1>6, <1>7 DEF IInv

\* A pool that remembers until d is rate limited remembers outside d after it.
LEMMA RemembersOthers ==
    ASSUME NEW p, NEW E, NEW F, E \subseteq F, NEW d \in F, NEW n, NEW until \in [Conn -> Nat], NEW x,
           Remembers(p, E, n, until)
    PROVE  Remembers(p, F, n, [until EXCEPT ![d] = x])
<1> SUFFICES ASSUME NEW s \in Slots(p), p.accounts[s].conn \in Conn \ F
             PROVE  \/ n + Second > [until EXCEPT ![d] = x][p.accounts[s].conn]
                    \/ p.accounts[s].cool + Second > [until EXCEPT ![d] = x][p.accounts[s].conn]
  BY DEF Remembers
<1>1. [until EXCEPT ![d] = x][p.accounts[s].conn] = until[p.accounts[s].conn]
  OBVIOUS
<1> QED
  BY <1>1 DEF Remembers

LEMMA DeliverStep ==
    ASSUME DistinctCredentials, TInv, TInv', IInv, NEW o \in Outcome, Deliver(o)
    PROVE  IInv'
<1>0. /\ now \in Nat /\ rest \in [Conn -> Nat] /\ pool \in Pool /\ rows \in [Conn -> Row]
      /\ call.key \in Key \cup {NoKey} /\ call.conn \in Conn \cup {NoConn}
      /\ Second \in Nat \ {0} /\ Cooldown \in Nat
  BY RoutingAssumption, PoolAssumption DEF TInv, TypeOK
<1>1. PICK s \in Slots(pool) : Caller(pool, s, call, now)
  BY DEF Deliver, IInv, HasCaller, Caller
<1>2. /\ pool.accounts[s].key = call.key
      /\ pool.accounts[s].conn = call.conn
      /\ Available(pool.accounts[s], now)
  BY <1>1 DEF Caller
<1>3. FirstWith(pool, call.key) = {s}
  BY <1>0, <1>2, FirstIsOnly DEF IInv, Good
<1>4. UNCHANGED <<now, step, draft, snap, exposed>> /\ call' = NoCall
  BY DEF Deliver, adminVars
<1>5. /\ pool' = Report(pool, call.key, o, now)
      /\ Slots(pool') = Slots(pool)
      /\ \A t \in Slots(pool) :
            pool'.accounts[t] = IF t = s THEN AfterOutcome(pool.accounts[t], o, now)
                                         ELSE pool.accounts[t]
  <2>1. pool' = Report(pool, call.key, o, now)
    BY DEF Deliver
  <2>2. Slots(Report(pool, call.key, o, now)) = Slots(pool)
    BY <1>0, ReportedSlots
  <2>3. ASSUME NEW t \in Slots(pool)
        PROVE  Report(pool, call.key, o, now).accounts[t] =
                 IF t \in FirstWith(pool, call.key) THEN AfterOutcome(pool.accounts[t], o, now)
                                                    ELSE pool.accounts[t]
    BY <1>0, ReportedAccount
  <2>4. \A t \in Slots(pool) :
           Report(pool, call.key, o, now).accounts[t] =
             IF t = s THEN AfterOutcome(pool.accounts[t], o, now) ELSE pool.accounts[t]
    BY <2>3, <1>3
  <2> QED
    BY <2>1, <2>2, <2>4, Zenon
<1>6. \A t \in Slots(pool) : /\ pool'.accounts[t].key = pool.accounts[t].key
                             /\ pool'.accounts[t].conn = pool.accounts[t].conn
  <2> SUFFICES ASSUME NEW t \in Slots(pool)
               PROVE  /\ pool'.accounts[t].key = pool.accounts[t].key
                      /\ pool'.accounts[t].conn = pool.accounts[t].conn
    OBVIOUS
  <2>1. pool.accounts[t] \in AccountOf(Key, Conn \cup {NoConn})
    BY <1>0, AccountType
  <2>2. /\ AfterOutcome(pool.accounts[t], o, now).key = pool.accounts[t].key
        /\ AfterOutcome(pool.accounts[t], o, now).conn = pool.accounts[t].conn
    BY <1>0, <2>1, OutcomeType
  <2> QED
    BY <1>5, <2>2
<1>7. WellSourced(pool')
  BY <1>5, <1>6 DEF IInv, Good, WellSourced
\* What the outcome does to the rows.
<1> DEFINE e == pool'.accounts[CHOOSE t \in FirstWith(pool, call.key) : TRUE].errs
<1>8. \A c \in Conn : rows'[c] = IF Exists(c) /\ c = call.conn
                                 THEN UpdateHealth(rows[c], o, e) ELSE rows[c]
  <2>1. rows' = [c \in Conn |->
                    IF /\ Exists(c)
                       /\ \E t \in FirstWith(pool, call.key) : pool.accounts[t].conn = c
                    THEN UpdateHealth(rows[c], o, e) ELSE rows[c]]
    BY DEF Deliver
  <2> HIDE DEF e
  <2> QED
    BY <2>1, <1>2, <1>3
<1> HIDE DEF e
<1>9. \A c \in Conn : /\ rows'[c].status = rows[c].status
                      /\ rows'[c].key = rows[c].key
                      /\ Exists(c)' <=> Exists(c)
  BY <1>0, <1>8 DEF UpdateHealth, Row, Exists
<1>10. Created(pool', rows')
  BY <1>0, <1>5, <1>6, <1>9, AccountType DEF IInv, Good, Created, AccountOf
<1>11. call.conn # NoConn => call.conn \in Conn /\ rows[call.conn].status # "unused"
  BY <1>0, <1>1, <1>2 DEF IInv, Good, Created
\* Outcomes other than RateLimited go to an account that has rested.
<1>12. call.conn \in Conn \ exposed => now + Second > rest[call.conn]
  BY <1>0, <1>1, <1>2, UsableIsRested DEF IInv, Good
<1>13. CASE o = "RateLimited" /\ call.conn # NoConn
  <2>1. /\ call.conn \in Conn
        /\ rest' = [rest EXCEPT ![call.conn] = now + Cooldown]
        /\ missed' = [a \in Admin |-> IF step[a] = "loaded"
                                      THEN missed[a] \cup {call.conn} ELSE missed[a]]
    BY <1>11, <1>13 DEF Deliver
  <2>2. RowKeys'
    <3> SUFFICES ASSUME NEW c \in Conn
                 PROVE  /\ Exists(c)' => rows'[c].key \in KeysOf[c]
                        /\ rows'[c].status = "unused" => rest'[c] = 0
      BY DEF RowKeys
    <3>1. c # call.conn => rest'[c] = rest[c]
      BY <1>0, <2>1
    <3> QED
      BY <1>9, <1>11, <1>13, <3>1 DEF IInv, RowKeys
  <2>3. RowsRemember'
    <3> SUFFICES ASSUME NEW c \in Conn, c \notin exposed, Exists(c)
                 PROVE  Rested(c)' \/ rows'[c].rlu >= rest'[c]
      BY <1>4, <1>9 DEF RowsRemember
    <3>1. CASE c = call.conn
      <4>1. rows'[c] = UpdateHealth(rows[c], o, e)
        BY <1>8, <3>1
      <4>2. rows'[c].rlu = now + Cooldown
        BY <1>0, <1>13, <4>1 DEF UpdateHealth, Row
      <4> QED
        BY <1>0, <2>1, <3>1, <4>2
    <3>2. CASE c # call.conn
      <4>1. rows'[c] = rows[c] /\ rest'[c] = rest[c]
        BY <1>0, <1>8, <2>1, <3>2
      <4> QED
        BY <1>4, <4>1 DEF IInv, RowsRemember, Rested
    <3> QED
      BY <3>1, <3>2
  <2>4. SnapsGood'
    <3> SUFFICES ASSUME NEW a \in Admin, step[a] = "loaded"
                 PROVE  Good(snap[a], exposed \cup missed[a])'
      BY <1>4 DEF SnapsGood
    <3>1. Good(snap[a], exposed \cup missed[a])
      BY DEF IInv, SnapsGood
    <3>2. missed'[a] = missed[a] \cup {call.conn}
      BY <2>1
    <3>3. snap[a] \in Pool
      BY DEF TInv, TypeOK
    <3>4. Remembers(snap[a], exposed \cup missed'[a], now, rest')
      BY <1>0, <2>1, <3>1, <3>2, RemembersOthers DEF Good
    <3>5. Created(snap[a], rows')
      BY <1>9, <3>1, <3>3, AccountType DEF Good, Created, AccountOf
    <3>6. WellSourced(snap[a])
      BY <3>1 DEF Good
    <3> QED
      BY <1>4, <3>4, <3>5, <3>6 DEF Good
  <2>5. Remembers(pool', exposed, now, rest')
    <3> SUFFICES ASSUME NEW t \in Slots(pool), pool'.accounts[t].conn \in Conn \ exposed
                 PROVE  \/ now + Second > rest'[pool'.accounts[t].conn]
                        \/ pool'.accounts[t].cool + Second > rest'[pool'.accounts[t].conn]
      BY <1>5 DEF Remembers
    <3>1. CASE t = s
      <4>1. pool.accounts[s] \in AccountOf(Key, Conn \cup {NoConn})
        BY <1>0, AccountType
      <4>2. pool'.accounts[t].cool = now + Cooldown
        BY <1>5, <1>13, <3>1, <4>1 DEF AfterOutcome, AccountOf
      <4>3. rest'[pool'.accounts[t].conn] = now + Cooldown
        BY <1>0, <1>2, <1>6, <2>1, <3>1
      <4> QED
        BY <1>0, <4>2, <4>3
    <3>2. CASE t # s
      <4>1. pool'.accounts[t] = pool.accounts[t]
        BY <1>5, <3>2
      <4>2. pool.accounts[t].conn # call.conn
        BY <1>2, <1>13, <3>2 DEF IInv, Good, WellSourced
      <4>3. rest'[pool.accounts[t].conn] = rest[pool.accounts[t].conn]
        BY <1>0, <2>1, <4>1, <4>2
      <4> QED
        BY <4>1, <4>3 DEF IInv, Good, Remembers
    <3> QED
      BY <3>1, <3>2
  <2>6. Good(pool, exposed)'
    BY <1>4, <1>7, <1>10, <2>5 DEF Good
  <2> QED
    BY <1>4, <2>2, <2>3, <2>4, <2>6 DEF IInv, DraftKeys, HasCaller
<1>14. CASE ~ (o = "RateLimited" /\ call.conn # NoConn)
  <2>1. UNCHANGED <<rest, missed>>
    BY <1>14 DEF Deliver
  <2>2. RowKeys'
    BY <1>9, <2>1 DEF IInv, RowKeys
  <2>3. RowsRemember'
    <3> SUFFICES ASSUME NEW c \in Conn, c \notin exposed, Exists(c)
                 PROVE  Rested(c)' \/ rows'[c].rlu >= rest'[c]
      BY <1>4, <1>9 DEF RowsRemember
    <3>1. CASE c = call.conn
      BY <1>4, <1>12, <2>1, <3>1 DEF Rested
    <3>2. CASE c # call.conn
      BY <1>4, <1>8, <2>1, <3>2 DEF IInv, RowsRemember, Rested
    <3> QED
      BY <3>1, <3>2
  <2>4. SnapsGood'
    <3> SUFFICES ASSUME NEW a \in Admin, step[a] = "loaded"
                 PROVE  Good(snap[a], exposed \cup missed[a])'
      BY <1>4 DEF SnapsGood
    <3>1. Good(snap[a], exposed \cup missed[a]) /\ snap[a] \in Pool
      BY DEF IInv, SnapsGood, TInv, TypeOK
    <3>2. Created(snap[a], rows')
      BY <1>9, <3>1, AccountType DEF Good, Created, AccountOf
    <3> QED
      BY <1>4, <2>1, <3>1, <3>2 DEF Good
  <2>5. Remembers(pool', exposed, now, rest)
    <3> SUFFICES ASSUME NEW t \in Slots(pool), pool'.accounts[t].conn \in Conn \ exposed
                 PROVE  \/ now + Second > rest[pool'.accounts[t].conn]
                        \/ pool'.accounts[t].cool + Second > rest[pool'.accounts[t].conn]
      BY <1>5 DEF Remembers
    <3>1. CASE t = s
      BY <1>2, <1>6, <1>12, <3>1
    <3>2. CASE t # s
      BY <1>5, <3>2 DEF IInv, Good, Remembers
    <3> QED
      BY <3>1, <3>2
  <2>6. Good(pool, exposed)'
    BY <1>4, <1>7, <1>10, <2>1, <2>5 DEF Good
  <2> QED
    BY <1>4, <2>2, <2>3, <2>4, <2>6 DEF IInv, DraftKeys, HasCaller
<1> QED
  BY <1>13, <1>14

LEMMA CreateStep ==
    ASSUME TInv, TInv', IInv, NEW a \in Admin, NEW c \in Conn,
           CreateConnection(a, c) \/ AddFreeProvider(a, c)
    PROVE  IInv'
<1>0. /\ now \in Nat /\ rest \in [Conn -> Nat] /\ pool \in Pool /\ rows \in [Conn -> Row]
      /\ snap \in [Admin -> Pool] /\ step \in [Admin -> {"idle", "editing", "saved", "loaded"}]
      /\ Second \in Nat \ {0}
  BY RoutingAssumption DEF TInv, TypeOK
<1>1. PICK st \in {"active", "inactive"}, k \in KeysOf[c], t \in {0, now + Cooldown} :
         rows' = [rows EXCEPT ![c] = [status |-> st, key |-> k, rlu |-> t, backoff |-> 0]]
  BY DEF CreateConnection, AddFreeProvider
<1>2. /\ UNCHANGED <<now, pool, call, draft, snap, rest, missed, exposed>>
      /\ rows[c].status = "unused"
      /\ \A b \in Admin : step'[b] \in {"editing", "loaded"} => step'[b] = step[b]
  BY <1>0 DEF CreateConnection, AddFreeProvider, SetStep, adminVars
<1>3. /\ rows'[c].status = st /\ rows'[c].key = k
      /\ \A d \in Conn \ {c} : rows'[d] = rows[d]
      /\ rest[c] = 0
  BY <1>0, <1>1, <1>2 DEF IInv, RowKeys
<1>4. RowKeys'
  BY <1>2, <1>3 DEF IInv, RowKeys, Exists
<1>5. RowsRemember'
  BY <1>0, <1>2, <1>3 DEF IInv, RowsRemember, Exists, Rested
<1>6. \A p \in Pool : Created(p, rows) => Created(p, rows')
  <2> SUFFICES ASSUME NEW p \in Pool, Created(p, rows), NEW s \in Slots(p),
                      p.accounts[s].conn # NoConn
               PROVE  rows'[p.accounts[s].conn].status # "unused"
    BY DEF Created
  <2>1. p.accounts[s].conn \in Conn
    BY AccountType DEF AccountOf
  <2> QED
    BY <1>3, <2>1 DEF Created
<1>7. SnapsGood' /\ Good(pool, exposed)'
  BY <1>0, <1>2, <1>6 DEF IInv, SnapsGood, Good
<1> QED
  BY <1>2, <1>4, <1>5, <1>7 DEF IInv, DraftKeys, HasCaller

LEMMA UpdateReadStep ==
    ASSUME TInv, TInv', IInv, NEW a \in Admin, NEW c \in Conn, UpdateRead(a, c)
    PROVE  IInv'
<1>0. /\ draft \in [Admin -> Draft]
      /\ step \in [Admin -> {"idle", "editing", "saved", "loaded"}]
  BY DEF TInv, TypeOK
<1>1. /\ UNCHANGED <<now, rows, pool, call, snap, rest, missed, exposed>>
      /\ step' = [step EXCEPT ![a] = "editing"]
      /\ draft' = [draft EXCEPT ![a] =
                      [conn |-> c, key |-> rows[c].key, status |-> rows[c].status]]
      /\ Exists(c)
  BY DEF UpdateRead, SetStep
<1>2. DraftKeys'
  BY <1>0, <1>1 DEF IInv, DraftKeys, RowKeys
<1>3. SnapsGood'
  BY <1>0, <1>1 DEF IInv, SnapsGood, Good
<1> QED
  BY <1>1, <1>2, <1>3 DEF IInv, RowKeys, RowsRemember, Good, HasCaller, Exists, Rested

\* The write of a PUT, or a deletion: row c changes and keeps its health, or goes.
LEMMA RowStep ==
    ASSUME TInv, TInv', IInv, NEW a \in Admin, NEW c \in Conn, NEW r \in Row,
           rows' = [rows EXCEPT ![c] = r],
           r = rows[c] \/ r.status = "deleted" \/
              (/\ Exists(c) /\ r.status \in {"active", "inactive"}
               /\ r.key \in KeysOf[c] /\ r.rlu = rows[c].rlu),
           UNCHANGED <<now, pool, call, snap, rest, missed, exposed>>,
           step' = [step EXCEPT ![a] = "saved"],
           \A b \in Admin \ {a} : draft'[b] = draft[b]
    PROVE  IInv'
<1>0. /\ now \in Nat /\ rest \in [Conn -> Nat] /\ pool \in Pool /\ rows \in [Conn -> Row]
      /\ snap \in [Admin -> Pool] /\ step \in [Admin -> {"idle", "editing", "saved", "loaded"}]
  BY DEF TInv, TypeOK
<1>1. rows'[c] = r /\ \A d \in Conn \ {c} : rows'[d] = rows[d]
  BY <1>0
<1>2. \A d \in Conn : /\ Exists(d)' => Exists(d)
                      /\ rows'[d].status = "unused" => rows[d].status = "unused"
                      /\ Exists(d)' => rows'[d].rlu = rows[d].rlu
                      /\ Exists(d)' => rows'[d].key \in KeysOf[d]
  BY <1>1 DEF Exists, IInv, RowKeys
<1>3. RowKeys' /\ RowsRemember'
  BY <1>2 DEF IInv, RowKeys, RowsRemember, Rested
<1>4. DraftKeys'
  BY <1>0 DEF IInv, DraftKeys
<1>5. \A p \in Pool : Created(p, rows) => Created(p, rows')
  <2> SUFFICES ASSUME NEW p \in Pool, Created(p, rows), NEW s \in Slots(p),
                      p.accounts[s].conn # NoConn
               PROVE  rows'[p.accounts[s].conn].status # "unused"
    BY DEF Created
  <2>1. p.accounts[s].conn \in Conn
    BY AccountType DEF AccountOf
  <2> QED
    BY <1>2, <2>1 DEF Created
<1>6. SnapsGood' /\ Good(pool, exposed)'
  BY <1>0, <1>5 DEF IInv, SnapsGood, Good
<1> QED
  BY <1>3, <1>4, <1>6 DEF IInv, HasCaller

LEMMA UpdateWriteStep ==
    ASSUME TInv, TInv', IInv, NEW a \in Admin, UpdateWrite(a)
    PROVE  IInv'
<1> DEFINE c == draft[a].conn
<1>1. /\ step[a] = "editing"
      /\ c \in Conn
      /\ draft[a].key \in KeysOf[c]
      /\ rows \in [Conn -> Row]
  BY DEF UpdateWrite, TInv, TypeOK, IInv, DraftKeys
<1>2. PICK k \in KeysOf[c] \cup {draft[a].key}, st \in {"active", "inactive"} :
         rows' = [rows EXCEPT ![c] = IF Exists(c) THEN WriteColumns(rows[c], k, st)
                                                  ELSE rows[c]]
  BY DEF UpdateWrite
<1> DEFINE r == IF Exists(c) THEN WriteColumns(rows[c], k, st) ELSE rows[c]
<1>3. k \in KeysOf[c] /\ k \in Key \cup {NoKey}
  BY <1>1, <1>2, RoutingAssumption
<1>4. rows[c] \in Row
  BY <1>1
<1>5. /\ r \in Row
      /\ r = rows[c] \/
           (/\ Exists(c) /\ r.status \in {"active", "inactive"}
            /\ r.key \in KeysOf[c] /\ r.rlu = rows[c].rlu)
  BY <1>3, <1>4 DEF WriteColumns, Row
<1>6. rows' = [rows EXCEPT ![c] = r]
  BY <1>2
<1>7. /\ UNCHANGED <<now, pool, call, snap, rest, missed, exposed>>
      /\ step' = [step EXCEPT ![a] = "saved"]
      /\ \A b \in Admin \ {a} : draft'[b] = draft[b]
  BY DEF UpdateWrite, SetStep, TInv, TypeOK
<1> HIDE DEF r, c
<1> QED
  BY <1>1, <1>5, <1>6, <1>7, RowStep

LEMMA DeleteStep ==
    ASSUME TInv, TInv', IInv, NEW a \in Admin, NEW c \in Conn, DeleteConnection(a, c)
    PROVE  IInv'
<1>1. Deleted \in Row /\ Deleted.status = "deleted"
  BY DEF Deleted, Unused, Row
<1>2. /\ rows' = [rows EXCEPT ![c] = Deleted]
      /\ UNCHANGED <<now, pool, call, snap, rest, missed, exposed>>
      /\ step' = [step EXCEPT ![a] = "saved"]
      /\ \A b \in Admin \ {a} : draft'[b] = draft[b]
  BY DEF DeleteConnection, SetStep
<1> QED
  BY <1>1, <1>2, RowStep

LEMMA OtherStep ==
    ASSUME TInv, TInv', IInv, NEW a \in Admin, OtherWrite(a)
    PROVE  IInv'
<1>0. step \in [Admin -> {"idle", "editing", "saved", "loaded"}]
  BY DEF TInv, TypeOK
<1>1. /\ UNCHANGED <<now, rows, pool, call, draft, snap, rest, missed, exposed>>
      /\ step' = [step EXCEPT ![a] = "saved"]
  BY DEF OtherWrite, SetStep
<1> QED
  BY <1>0, <1>1 DEF IInv, RowKeys, DraftKeys, RowsRemember, SnapsGood, Good, HasCaller, Exists, Rested

LEMMA ReloadReadStep ==
    ASSUME TInv, TInv', IInv, NEW a \in Admin, ReloadRead(a)
    PROVE  IInv'
<1>0. /\ step \in [Admin -> {"idle", "editing", "saved", "loaded"}]
      /\ snap \in [Admin -> Pool] /\ missed \in [Admin -> SUBSET Conn]
  BY DEF TInv, TypeOK
<1>1. /\ UNCHANGED <<now, rows, pool, call, draft, rest, exposed>>
      /\ step' = [step EXCEPT ![a] = "loaded"]
      /\ missed' = [missed EXCEPT ![a] = {}]
  BY DEF ReloadRead, SetStep
<1>2. PICK p \in Rebuilt : snap' = [snap EXCEPT ![a] = p]
  BY DEF ReloadRead
<1>3. Good(p, exposed)
  BY RebuiltGood DEF IInv
<1>4. SnapsGood'
  <2> SUFFICES ASSUME NEW b \in Admin, step'[b] = "loaded"
               PROVE  Good(snap'[b], exposed \cup missed'[b])
    BY <1>1 DEF SnapsGood, Good
  <2>1. CASE b = a
    <3>1. snap'[b] = p /\ exposed \cup missed'[b] = exposed
      BY <1>0, <1>1, <1>2, <2>1
    <3> QED
      BY <1>3, <3>1
  <2>2. CASE b # a
    BY <1>0, <1>1, <1>2, <2>2 DEF IInv, SnapsGood
  <2> QED
    BY <2>1, <2>2
<1> QED
  BY <1>0, <1>1, <1>4 DEF IInv, RowKeys, DraftKeys, RowsRemember, Good, HasCaller, Exists, Rested

LEMMA ReloadSwapStep ==
    ASSUME TInv, TInv', IInv, NEW a \in Admin, ReloadSwap(a)
    PROVE  IInv'
<1>0. /\ step \in [Admin -> {"idle", "editing", "saved", "loaded"}]
      /\ snap \in [Admin -> Pool] /\ missed \in [Admin -> SUBSET Conn]
      /\ now \in Nat /\ rest \in [Conn -> Nat]
  BY DEF TInv, TypeOK
<1>1. /\ UNCHANGED <<now, rows, call, draft, rest>>
      /\ step' = [step EXCEPT ![a] = "idle"]
      /\ \A b \in Admin \ {a} : snap'[b] = snap[b] /\ missed'[b] = missed[b]
      /\ exposed \subseteq exposed'
      /\ step[a] = "loaded"
  BY DEF ReloadSwap, SetStep, TInv, TypeOK
<1>2. RowKeys' /\ DraftKeys' /\ RowsRemember'
  BY <1>0, <1>1 DEF IInv, RowKeys, DraftKeys, RowsRemember, Exists, Rested
<1>3. ASSUME NEW p, NEW E, NEW F, E \subseteq F, Good(p, E)
      PROVE  Good(p, F)
  BY <1>0, <1>3, RemembersLater DEF Good
<1>4. SnapsGood'
  <2> SUFFICES ASSUME NEW b \in Admin, step'[b] = "loaded"
               PROVE  Good(snap'[b], exposed' \cup missed'[b])
    BY <1>1 DEF SnapsGood, Good
  <2>1. /\ b # a /\ step[b] = "loaded"
        /\ snap'[b] = snap[b] /\ missed'[b] = missed[b]
    BY <1>0, <1>1
  <2>2. Good(snap[b], exposed \cup missed[b])
    BY <2>1 DEF IInv, SnapsGood
  <2>3. exposed \cup missed[b] \subseteq exposed' \cup missed[b]
    BY <1>1
  <2> QED
    BY <1>3, <2>1, <2>2, <2>3
<1>5. CASE LockFree
  <2>1. pool' = snap[a] /\ exposed' = exposed \cup missed[a] /\ call' = NoCall
    BY <1>1, <1>5 DEF ReloadSwap, LockFree
  <2>2. Good(snap[a], exposed \cup missed[a])
    BY <1>1 DEF IInv, SnapsGood
  <2>3. Good(pool, exposed)'
    BY <1>1, <2>1, <2>2 DEF Good
  <2> QED
    BY <1>2, <1>4, <2>1, <2>3 DEF IInv, HasCaller
<1>6. CASE ~ LockFree
  <2>1. UNCHANGED <<pool, exposed>>
    BY <1>6 DEF ReloadSwap
  <2> QED
    BY <1>1, <1>2, <1>4, <2>1 DEF IInv, Good, HasCaller
<1> QED
  BY <1>5, <1>6

LEMMA RestartStep ==
    ASSUME TInv, TInv', IInv, Restart
    PROVE  IInv'
<1>1. /\ UNCHANGED <<now, rows, rest, exposed>>
      /\ call' = NoCall
      /\ step' = [a \in Admin |-> "idle"]
  BY DEF Restart
<1>2. Good(pool', exposed)
  BY RebuiltGood DEF IInv, Restart
<1> QED
  BY <1>1, <1>2
  DEF IInv, RowKeys, DraftKeys, RowsRemember, SnapsGood, Good, HasCaller, Exists, Rested

LEMMA TickStep ==
    ASSUME TInv, TInv', IInv, Tick
    PROVE  IInv'
<1>0. /\ now \in Nat /\ now' \in Nat /\ now <= now' /\ rest \in [Conn -> Nat]
      /\ Second \in Nat /\ pool \in Pool
  BY RoutingAssumption DEF TInv, TypeOK, Tick
<1>1. UNCHANGED <<rows, pool, call, step, draft, snap, rest, missed, exposed>>
  BY DEF Tick, adminVars
<1>2. RowKeys' /\ DraftKeys'
  BY <1>1 DEF IInv, RowKeys, DraftKeys, Exists
<1>3. RowsRemember'
  <2> SUFFICES ASSUME NEW c \in Conn \ exposed, Exists(c)
               PROVE  now' + Second > rest[c] \/ rows[c].rlu >= rest[c]
    BY <1>1 DEF RowsRemember, Exists, Rested
  <2>1. rest[c] \in Nat /\ (now + Second > rest[c] \/ rows[c].rlu >= rest[c])
    BY <1>0 DEF IInv, RowsRemember, Rested
  <2> QED
    BY <1>0, <2>1
<1>4. ASSUME NEW p, NEW E, Good(p, E)
      PROVE  WellSourced(p) /\ Created(p, rows) /\ Remembers(p, E, now', rest)
  BY <1>0, <1>4, RemembersLater DEF Good
<1>5. SnapsGood'
  <2> SUFFICES ASSUME NEW a \in Admin, step[a] = "loaded"
               PROVE  /\ WellSourced(snap[a]) /\ Created(snap[a], rows)
                      /\ Remembers(snap[a], exposed \cup missed[a], now', rest)
    BY <1>1 DEF SnapsGood, Good
  <2> QED
    BY <1>4 DEF IInv, SnapsGood
<1>6. Good(pool, exposed)'
  BY <1>1, <1>4 DEF IInv, Good
<1>7. HasCaller'
  <2> SUFFICES ASSUME NEW s \in Slots(pool), Caller(pool, s, call, now)
               PROVE  Caller(pool, s, call, now')
    BY <1>1 DEF IInv, HasCaller, Caller
  <2>1. pool.accounts[s].cool \in Nat
    BY <1>0, AccountType DEF AccountOf
  <2> QED
    BY <1>0, <2>1 DEF Caller, Available
<1> QED
  BY <1>2, <1>3, <1>5, <1>6, <1>7 DEF IInv

LEMMA IInvStep ==
    ASSUME DistinctCredentials, TInv, TInv', IInv, [Next]_vars
    PROVE  IInv'
<1>1. CASE EndUnreported
  BY <1>1 DEF EndUnreported, adminVars, IInv, RowKeys, DraftKeys, RowsRemember, SnapsGood,
              Good, HasCaller, Exists, Rested
<1>2. CASE UNCHANGED vars
  BY <1>2 DEF vars, IInv, RowKeys, DraftKeys, RowsRemember, SnapsGood,
              Good, HasCaller, Exists, Rested
<1>3. ASSUME NEW a \in Admin, AdminStep(a) PROVE IInv'
  BY <1>3, CreateStep, UpdateReadStep, UpdateWriteStep, DeleteStep, OtherStep, ReloadReadStep,
     ReloadSwapStep DEF AdminStep
<1> QED
  BY <1>1, <1>2, <1>3, RouteStep, DeliverStep, RestartStep, TickStep DEF Next

-----------------------------------------------------------------------------
LEMMA Invariance == Spec => [](TInv /\ (DistinctCredentials => IInv))
<1>1. Init => TInv /\ (DistinctCredentials => IInv)
  BY TInvInit, IInvInit
<1>2. TInv /\ (DistinctCredentials => IInv) /\ [Next]_vars
        => (TInv /\ (DistinctCredentials => IInv))'
  <2> SUFFICES ASSUME TInv, DistinctCredentials => IInv, [Next]_vars
               PROVE  TInv' /\ (DistinctCredentials => IInv')
    BY DEF DistinctCredentials
  <2>1. TInv'
    BY TInvStep
  <2> QED
    BY <2>1, IInvStep
<1> QED
  BY <1>1, <1>2, PTL DEF Spec

\* While DistinctCredentials, the account in flight is the first with its key.
LEMMA CallerIsFirst ==
    ASSUME DistinctCredentials, TInv, IInv, call # NoCall
    PROVE  \E s \in Slots(pool) : /\ FirstWith(pool, call.key) = {s}
                                  /\ Caller(pool, s, call, now)
<1>1. PICK s \in Slots(pool) : Caller(pool, s, call, now)
  BY DEF IInv, HasCaller
<1>2. pool \in Pool /\ WellSourced(pool) /\ pool.accounts[s].key = call.key
  BY <1>1 DEF TInv, TypeOK, IInv, Good, Caller
<1>3. FirstWith(pool, call.key) = {s}
  BY <1>2, FirstIsOnly
<1> QED
  BY <1>1, <1>3

(***************************************************************************)
(* However chats, reloads and restarts interleave, a connection is called  *)
(* only when it has rested from its last rate limit, unless a reload that  *)
(* read the rows before that rate limit has been swapped in after it       *)
(* (account.rs, cooldown_secs; router.rs, load_from_db).                   *)
(***************************************************************************)
THEOREM RestSafety == Spec => []RestUnlessExposed
<1>1. TInv /\ (DistinctCredentials => IInv) => RestUnlessExposed
  <2> SUFFICES ASSUME TInv, DistinctCredentials, IInv, call.conn # NoConn, call.conn \notin exposed
               PROVE  Rested(call.conn)
    BY DEF RestUnlessExposed
  <2>1. call # NoCall /\ call.conn \in Conn
    BY DEF NoCall, TInv, TypeOK
  <2>2. PICK s \in Slots(pool) : Caller(pool, s, call, now)
    BY <2>1, CallerIsFirst
  <2>3. /\ pool \in Pool /\ now \in Nat /\ rest \in [Conn -> Nat]
        /\ Remembers(pool, exposed, now, rest)
        /\ pool.accounts[s].conn = call.conn
        /\ Available(pool.accounts[s], now)
    BY <2>2 DEF TInv, TypeOK, IInv, Good, Caller
  <2>4. now + Second > rest[pool.accounts[s].conn]
    BY <2>1, <2>3, UsableIsRested
  <2> QED
    BY <2>3, <2>4 DEF Rested
<1> QED
  BY <1>1, Invariance, PTL

(***************************************************************************)
(* The rows always hold the cooldowns a restart has to restore: no admin   *)
(* write, in any order with the chats' health writes, loses one            *)
(* (provider_connection_repo.rs, update and update_health).                *)
(***************************************************************************)
THEOREM PersistenceSafety == Spec => []RestPersisted
<1>1. TInv /\ (DistinctCredentials => IInv) => RestPersisted
  BY DEF IInv, RowsRemember, RestPersisted
<1> QED
  BY <1>1, Invariance, PTL

(***************************************************************************)
(* An outcome is charged to the account that made the call: reloads leave  *)
(* the pool alone while a chat holds the engine (proxy.rs, try_write).     *)
(***************************************************************************)
THEOREM ReportSafety == Spec => []ReportFindsCaller
<1>1. TInv /\ (DistinctCredentials => IInv) => ReportFindsCaller
  <2> SUFFICES ASSUME TInv, DistinctCredentials, IInv, call # NoCall
               PROVE  \E s \in FirstWith(pool, call.key) :
                         /\ pool.accounts[s].conn = call.conn
                         /\ Available(pool.accounts[s], now)
    BY DEF ReportFindsCaller
  <2>1. PICK s \in Slots(pool) : /\ FirstWith(pool, call.key) = {s}
                                 /\ Caller(pool, s, call, now)
    BY CallerIsFirst
  <2> QED
    BY <2>1 DEF Caller
<1> QED
  BY <1>1, Invariance, PTL

=============================================================================
