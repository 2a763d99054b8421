--------------------------- MODULE RotationProofs ---------------------------
(***************************************************************************)
(* Proofs about Rotation, for every number of accounts and every cooldown. *)
(***************************************************************************)
EXTENDS Rotation, WellFoundedInduction, TLAPS

Below == {ss \in Nat \X Nat : ss[1] < ss[2]}

\* The least-number principle, for sets.
LEMMA LeastNumber ==
    ASSUME NEW S \in SUBSET Nat, S # {}
    PROVE  \E n \in S : \A m \in S : n <= m
<1>1. IsWellFoundedOn(Below, Nat)
  BY NatLessThanWellFounded DEF OpToRel, Below
<1>2. PICK n \in S : \A m \in S : ~ (<<m, n>> \in Below)
  BY <1>1, WFMin
<1>3. ASSUME NEW m \in S PROVE n <= m
  <2>1. m \in Nat /\ n \in Nat
    OBVIOUS
  <2>2. ~ (m < n)
    BY <1>2, <2>1 DEF Below
  <2> QED
    BY <2>1, <2>2
<1> QED
  BY <1>3

-----------------------------------------------------------------------------
(***************************************************************************)
(* The geometry of the rotation: slot s is Distance(next_idx, s) probes    *)
(* ahead of the index.                                                     *)
(***************************************************************************)
Distance(idx, s) == IF s > idx THEN s - 1 - idx ELSE s - 1 - idx + Accounts

Shaped(p) == /\ p \in PoolOf(Account, {0})
             /\ Len(p.accounts) = Accounts
             /\ p.next_idx < Accounts
             /\ \A s \in Account : p.accounts[s].key = s

\* The index arithmetic of the vector, at most one turn ahead.
Wrapped(x) == x % Accounts

LEMMA WrapAround ==
    ASSUME NEW x \in 0 .. 2 * Accounts - 1
    PROVE  Wrapped(x) = IF x < Accounts THEN x ELSE x - Accounts
<1>1. Accounts \in Nat \ {0}
  BY RotationAssumption
<1> QED
  BY <1>1 DEF Wrapped

LEMMA ShapedFacts ==
    ASSUME NEW p, Shaped(p)
    PROVE  /\ Slots(p) = Account
           /\ p.next_idx \in 0 .. Accounts - 1
           /\ \A s \in Account : p.accounts[s] \in AccountOf(Account, {0})
BY DEF Shaped, Slots, PoolOf, Account

LEMMA DistanceFacts ==
    ASSUME NEW idx \in 0 .. Accounts - 1, NEW s \in Account
    PROVE  Distance(idx, s) \in 0 .. Accounts - 1
BY RotationAssumption DEF Distance, Account

LEMMA TurnFacts ==
    ASSUME NEW p, Shaped(p), NEW i \in 0 .. Accounts - 1
    PROVE  /\ Turn(p, i) \in Account
           /\ Distance(p.next_idx, Turn(p, i)) = i
<1>1. Accounts \in Nat \ {0} /\ p.next_idx \in 0 .. Accounts - 1
  BY RotationAssumption, ShapedFacts
<1>2. p.next_idx + i \in 0 .. 2 * Accounts - 1
  BY <1>1
<1>3. Wrapped(p.next_idx + i)
        = IF p.next_idx + i < Accounts THEN p.next_idx + i ELSE p.next_idx + i - Accounts
  BY <1>1, <1>2, WrapAround
<1>4. Turn(p, i) = (IF p.next_idx + i < Accounts THEN p.next_idx + i
                    ELSE p.next_idx + i - Accounts) + 1
  BY <1>3 DEF Turn, Shaped, Wrapped
<1> QED
  BY <1>1, <1>4 DEF Distance, Account

LEMMA TurnAtDistance ==
    ASSUME NEW p, Shaped(p), NEW s \in Account
    PROVE  Turn(p, Distance(p.next_idx, s)) = s
<1>1. Accounts \in Nat \ {0} /\ p.next_idx \in 0 .. Accounts - 1
  BY RotationAssumption, ShapedFacts
<1> DEFINE i == Distance(p.next_idx, s)
<1>2. i \in 0 .. Accounts - 1
  BY <1>1, DistanceFacts
<1>3. p.next_idx + i \in 0 .. 2 * Accounts - 1
  BY <1>1, <1>2
<1>4. Wrapped(p.next_idx + i)
        = IF p.next_idx + i < Accounts THEN p.next_idx + i ELSE p.next_idx + i - Accounts
  <2> HIDE DEF i
  <2> QED
    BY <1>1, <1>2, <1>3, WrapAround
<1>5. Turn(p, i) = (IF p.next_idx + i < Accounts THEN p.next_idx + i
                    ELSE p.next_idx + i - Accounts) + 1
  BY <1>4 DEF Turn, Shaped, Wrapped
<1> QED
  BY <1>1, <1>5 DEF Distance, Account

\* next_key returns the nearest available account.
LEMMA NextKeyNearest ==
    ASSUME NEW p, Shaped(p), NEW n, NEW s \in NextKey(p, n)
    PROVE  /\ s \in Account
           /\ Available(p.accounts[s], n)
           /\ \A t \in Account : Available(p.accounts[t], n) =>
                  Distance(p.next_idx, s) <= Distance(p.next_idx, t)
<1>1. PICK i \in 0 .. Accounts - 1 :
         /\ s = Turn(p, i)
         /\ Available(p.accounts[s], n)
         /\ \A j \in 0 .. i - 1 : ~ Available(p.accounts[Turn(p, j)], n)
  BY DEF NextKey, Shaped
<1>2. s \in Account /\ Distance(p.next_idx, s) = i
  BY <1>1, TurnFacts
<1>3. ASSUME NEW t \in Account, Available(p.accounts[t], n), ~ (i <= Distance(p.next_idx, t))
      PROVE  FALSE
  <2>1. Distance(p.next_idx, t) \in 0 .. Accounts - 1
    BY ShapedFacts, DistanceFacts
  <2>2. Distance(p.next_idx, t) \in 0 .. i - 1
    BY <1>3, <2>1
  <2>3. Turn(p, Distance(p.next_idx, t)) = t
    BY TurnAtDistance
  <2> QED
    BY <1>1, <1>3, <2>2, <2>3
<1> QED
  BY <1>1, <1>2, <1>3

LEMMA DistanceInjective ==
    ASSUME NEW idx \in 0 .. Accounts - 1, NEW s \in Account, NEW t \in Account,
           Distance(idx, s) = Distance(idx, t)
    PROVE  s = t
BY RotationAssumption DEF Distance, Account

\* An available account is found.
LEMMA NextKeyFinds ==
    ASSUME NEW p, Shaped(p), NEW n, NEW t \in Account, Available(p.accounts[t], n)
    PROVE  \E s \in Account : NextKey(p, n) = {s} /\ Available(p.accounts[s], n)
<1> DEFINE D == {Distance(p.next_idx, s) : s \in {r \in Account : Available(p.accounts[r], n)}}
<1>1. p.next_idx \in 0 .. Accounts - 1 /\ Slots(p) = Account
  BY ShapedFacts
<1>2. D \in SUBSET Nat /\ D # {}
  BY <1>1, DistanceFacts
<1>3. PICK i \in D : \A j \in D : i <= j
  <2> HIDE DEF D
  <2> QED
    BY <1>2, LeastNumber
<1>4. PICK s \in Account : Available(p.accounts[s], n) /\ i = Distance(p.next_idx, s)
  BY <1>3
<1>5. i \in 0 .. Accounts - 1 /\ Turn(p, i) = s
  BY <1>1, <1>4, DistanceFacts, TurnAtDistance
<1>6. ASSUME NEW j \in 0 .. i - 1 PROVE ~ Available(p.accounts[Turn(p, j)], n)
  <2>1. j \in 0 .. Accounts - 1 /\ ~ (i <= j)
    <3> HIDE DEF D
    <3> QED
      BY <1>5, RotationAssumption
  <2>2. Turn(p, j) \in Account /\ Distance(p.next_idx, Turn(p, j)) = j
    BY <2>1, TurnFacts
  <2>3. Available(p.accounts[Turn(p, j)], n) => j \in D
    BY <2>2
  <2> QED
    BY <1>3, <2>1, <2>3
<1>7. s \in NextKey(p, n)
  BY <1>1, <1>4, <1>5, <1>6 DEF NextKey, Shaped
<1>8. ASSUME NEW r \in NextKey(p, n) PROVE r = s
  <2>1. /\ r \in Account /\ Available(p.accounts[r], n)
        /\ Distance(p.next_idx, r) <= Distance(p.next_idx, s)
    BY <1>4, NextKeyNearest
  <2>2. Distance(p.next_idx, s) <= Distance(p.next_idx, r)
    BY <1>4, <1>7, <2>1, NextKeyNearest
  <2>3. Distance(p.next_idx, s) = Distance(p.next_idx, r)
    BY <1>1, <1>4, <2>1, <2>2, DistanceFacts
  <2> QED
    BY <1>1, <1>4, <2>1, <2>3, DistanceInjective
<1> QED
  BY <1>4, <1>7, <1>8

\* A pick moves the index past it, and everyone else as much closer.
LEMMA DistanceAfterPick ==
    ASSUME NEW idx \in 0 .. Accounts - 1, NEW s \in Account, NEW t \in Account, s # t,
           Distance(idx, s) <= Distance(idx, t)
    PROVE  Distance(IF s = Accounts THEN 0 ELSE s, t) < Distance(idx, t)
BY RotationAssumption DEF Distance, Account

LEMMA AdvanceShaped ==
    ASSUME NEW p, Shaped(p), NEW s \in Account
    PROVE  /\ Shaped(Advance(p, s))
           /\ Advance(p, s).accounts = p.accounts
           /\ Advance(p, s).next_idx = IF s = Accounts THEN 0 ELSE s
<1>1. Accounts \in Nat \ {0} /\ s \in 0 .. 2 * Accounts - 1 /\ s \in 1 .. Accounts
  BY RotationAssumption DEF Account
<1>2. Wrapped(s) = IF s = Accounts THEN 0 ELSE s
  BY <1>1, WrapAround
<1>3. Advance(p, s) = [p EXCEPT !.next_idx = IF s = Accounts THEN 0 ELSE s]
  BY <1>2 DEF Advance, Shaped, Wrapped
<1> QED
  BY <1>1, <1>3 DEF Shaped, PoolOf

-----------------------------------------------------------------------------
(***************************************************************************)
(* The inductive invariant: the turns an account has been passed over and  *)
(* the turns it still has ahead of it are less than a round together; an   *)
(* account that cannot be picked has none behind it.                       *)
(***************************************************************************)
Shape == TypeOK /\ Shaped(pool)

Waits == \A s \in Account :
            /\ Usable(s) => passed[s] + Distance(pool.next_idx, s) < Accounts
            /\ ~ Usable(s) => passed[s] = 0

\* What an outcome does to the pool: it changes the caller's account only.
LEMMA FinishPool ==
    ASSUME NEW p, Shaped(p), NEW c \in Account, NEW o \in Outcome, NEW n \in Nat
    PROVE  /\ Shaped(Report(p, c, o, n))
           /\ Report(p, c, o, n).next_idx = p.next_idx
           /\ \A s \in Account : Report(p, c, o, n).accounts[s] =
                  IF s = c THEN AfterOutcome(p.accounts[s], o, n) ELSE p.accounts[s]
<1> DEFINE A == AccountOf(Account, {0})
           f == [s \in Slots(p) |-> IF s \in FirstWith(p, c)
                                    THEN AfterOutcome(p.accounts[s], o, n)
                                    ELSE p.accounts[s]]
<1>1. /\ Slots(p) = Account /\ Accounts \in Nat
      /\ \A s \in Account : p.accounts[s] \in A /\ p.accounts[s].key = s
  BY ShapedFacts, RotationAssumption DEF Shaped
<1>2. FirstWith(p, c) = {c}
  <2>1. \A r \in 1 .. c - 1 : r \in Account /\ r # c
    BY <1>1 DEF Account
  <2> QED
    BY <1>1, <2>1 DEF FirstWith
<1>3. ASSUME NEW acc \in A
      PROVE  AfterOutcome(acc, o, n) \in A /\ AfterOutcome(acc, o, n).key = acc.key
  <2>1. acc.errs + 1 \in Nat /\ n + Cooldown \in Nat
    BY PoolAssumption DEF AccountOf
  <2>2. CASE o = "Success"
    BY <2>2 DEF AfterOutcome, AccountOf
  <2>3. CASE o = "RateLimited"
    <3>1. AfterOutcome(acc, o, n) = [acc EXCEPT !.errs = acc.errs + 1, !.cool = n + Cooldown]
      BY <2>3 DEF AfterOutcome
    <3> QED
      BY <2>1, <3>1 DEF AccountOf
  <2>4. CASE o = "AuthFailed"
    <3> DEFINE e == acc.enabled /\ acc.errs + 1 < MaxAuthFailures
    <3>1. AfterOutcome(acc, o, n) = [acc EXCEPT !.errs = acc.errs + 1, !.enabled = e]
      BY <2>4 DEF AfterOutcome
    <3>2. e \in BOOLEAN
      OBVIOUS
    <3> HIDE DEF e
    <3> QED
      BY <2>1, <3>1, <3>2 DEF AccountOf
  <2> QED
    BY <2>2, <2>3, <2>4 DEF Outcome
<1>4. f = [s \in Account |-> IF s = c THEN AfterOutcome(p.accounts[s], o, n) ELSE p.accounts[s]]
  BY <1>1, <1>2
<1>5. Report(p, c, o, n) = [p EXCEPT !.accounts = f]
  BY DEF Report
<1> HIDE DEF f
<1>6. /\ f \in [Account -> A]
      /\ \A s \in Account : f[s].key = s
      /\ \A s \in Account : f[s] = IF s = c THEN AfterOutcome(p.accounts[s], o, n)
                                            ELSE p.accounts[s]
  BY <1>1, <1>3, <1>4
<1>7. f \in Seq(A) /\ Len(f) = Accounts
  BY <1>1, <1>6 DEF Account
<1>8. /\ Report(p, c, o, n).accounts = f
      /\ Report(p, c, o, n).next_idx = p.next_idx
      /\ Report(p, c, o, n) \in PoolOf(Account, {0})
  BY <1>5, <1>7 DEF Shaped, PoolOf
<1> QED
  BY <1>6, <1>7, <1>8 DEF Shaped

LEMMA FinishOthers ==
    ASSUME NEW p, Shaped(p), NEW c, NEW o, NEW n, NEW s \in Account, s # c
    PROVE  Report(p, c, o, n).accounts[s] = p.accounts[s]
<1>1. s \in Slots(p) /\ s \notin FirstWith(p, c)
  BY ShapedFacts DEF FirstWith, Shaped
<1> QED
  BY <1>1 DEF Report, Shaped, PoolOf

LEMMA FinishIndex ==
    ASSUME NEW p, Shaped(p), NEW c, NEW o, NEW n
    PROVE  Report(p, c, o, n).next_idx = p.next_idx
BY DEF Report, Shaped, PoolOf

LEMMA ShapeInit == Init => Shape
<1> SUFFICES ASSUME Init PROVE Shape
  OBVIOUS
<1> DEFINE f == [s \in Account |-> NewAccount(s, 0, 0)]
<1>1. Accounts \in Nat \ {0}
  BY RotationAssumption
<1>2. f \in [Account -> AccountOf(Account, {0})] /\ \A s \in Account : f[s].key = s
  BY DEF NewAccount, AccountOf
<1>3. pool = [accounts |-> f, next_idx |-> 0]
  BY DEF Init
<1> HIDE DEF f
<1>4. f \in Seq(AccountOf(Account, {0})) /\ Len(f) = Accounts
  BY <1>1, <1>2 DEF Account
<1>5. pool \in PoolOf(Account, {0}) /\ Shaped(pool)
  BY <1>1, <1>2, <1>3, <1>4 DEF PoolOf, Shaped
<1> QED
  BY <1>1, <1>5 DEF Init, Shape, TypeOK, Shaped

LEMMA ShapeStep == Shape /\ [Next]_vars => Shape'
<1> SUFFICES ASSUME Shape, [Next]_vars PROVE Shape'
  OBVIOUS
<1>0. Accounts \in Nat \ {0} /\ Account = 1 .. Accounts /\ now \in Nat
  BY RotationAssumption DEF Account, Shape, TypeOK
<1>1. ASSUME Rotate PROVE Shape'
  <2>1. PICK s \in NextKey(pool, now) :
           /\ Use(s)
           /\ passed' = [t \in Account |->
                           CASE t = s \/ ~ Usable(t) -> 0
                             [] t # s /\ Usable(t) /\ passed[t] < Accounts -> passed[t] + 1
                             [] OTHER -> passed[t]]
    BY <1>1 DEF Rotate
  <2>2. s \in Account
    BY NextKeyNearest DEF Shape
  <2>3. Shaped(pool')
    BY <2>1, <2>2, AdvanceShaped DEF Use, Shape
  <2>4. passed' \in [Account -> Nat]
    BY <2>1 DEF Shape, TypeOK
  <2> QED
    BY <1>0, <2>1, <2>2, <2>3, <2>4 DEF Use, Shape, TypeOK, Shaped
<1>2. ASSUME NEW k \in Account, Prefer(k) PROVE Shape'
  <2>1. PICK s \in Slots(pool) : Use(s) /\ passed' = [t \in Account |-> 0]
    BY <1>2 DEF Prefer, PreferKey
  <2>2. s \in Account
    BY <2>1, ShapedFacts DEF Shape
  <2>3. Shaped(pool')
    BY <2>1, <2>2, AdvanceShaped DEF Use, Shape
  <2> QED
    BY <1>0, <2>1, <2>2, <2>3 DEF Use, Shape, TypeOK, Shaped
<1>3. ASSUME NEW o \in Outcome, Finish(o) PROVE Shape'
  <2>1. caller \in Account /\ pool' = Report(pool, caller, o, now)
    BY <1>0, <1>3 DEF Finish, Shape, TypeOK
  <2>2. Shaped(pool')
    BY <1>0, <2>1, FinishPool DEF Shape
  <2>3. passed' \in [Account -> Nat] /\ auths' \in [Account -> Nat]
    BY <1>3, <2>1 DEF Finish, Shape, TypeOK
  <2> QED
    BY <1>0, <1>3, <2>2, <2>3 DEF Finish, Shape, TypeOK, Shaped
<1>4. ASSUME FinishUnreported PROVE Shape'
  BY <1>0, <1>4 DEF FinishUnreported, Shape, TypeOK
<1>5. ASSUME Tick PROVE Shape'
  BY <1>5 DEF Tick, Shape, TypeOK
<1>6. ASSUME UNCHANGED vars PROVE Shape'
  BY <1>6 DEF vars, Shape, TypeOK
<1> QED
  BY <1>1, <1>2, <1>3, <1>4, <1>5, <1>6 DEF Next

(***************************************************************************)
(* next_key returns the one usable account its probes meet first, and      *)
(* fails only when no account is usable (account.rs, next_key).            *)
(***************************************************************************)
THEOREM NextKeyComplete == Spec => []NoneMissed
<1>1. Shape => NoneMissed
  <2> SUFFICES ASSUME Shape PROVE NoneMissed
    OBVIOUS
  <2>1. CASE \E t \in Account : Usable(t)
    <3>1. PICK t \in Account : Available(pool.accounts[t], now)
      BY <2>1 DEF Usable
    <3>2. \E s \in Account : NextKey(pool, now) = {s} /\ Available(pool.accounts[s], now)
      BY <3>1, NextKeyFinds DEF Shape
    <3> QED
      BY <3>2 DEF NoneMissed, Usable
  <2>2. CASE \A t \in Account : ~ Usable(t)
    <3>1. NextKey(pool, now) = {}
      BY <2>2, NextKeyNearest DEF Shape, Usable
    <3> QED
      BY <2>2, <3>1 DEF NoneMissed
  <2> QED
    BY <2>1, <2>2
<1> QED
  BY <1>1, ShapeInit, ShapeStep, PTL DEF Spec

LEMMA WaitsInit == Init => Waits
<1> SUFFICES ASSUME Init PROVE Waits
  OBVIOUS
<1>1. \A s \in Account : passed[s] = 0
  BY DEF Init
<1>2. pool.next_idx \in 0 .. Accounts - 1
  BY ShapeInit, ShapedFacts DEF Shape
<1>3. \A s \in Account : Distance(pool.next_idx, s) \in 0 .. Accounts - 1
  BY <1>2, DistanceFacts
<1> QED
  BY <1>1, <1>3, RotationAssumption DEF Waits

LEMMA WaitsStep == Shape /\ Shape' /\ Waits /\ [Next]_vars => Waits'
<1> SUFFICES ASSUME Shape, Shape', Waits, [Next]_vars PROVE Waits'
  OBVIOUS
<1>0. /\ Accounts \in Nat \ {0} /\ Account = 1 .. Accounts /\ now \in Nat
      /\ Shaped(pool) /\ Shaped(pool') /\ passed \in [Account -> Nat]
      /\ pool.next_idx \in 0 .. Accounts - 1 /\ pool'.next_idx \in 0 .. Accounts - 1
  BY RotationAssumption, ShapedFacts DEF Account, Shape, TypeOK
<1>1. \A s \in Account : /\ Distance(pool.next_idx, s) \in 0 .. Accounts - 1
                         /\ Distance(pool'.next_idx, s) \in 0 .. Accounts - 1
  BY <1>0, DistanceFacts
<1>2. ASSUME Rotate PROVE Waits'
  <2>1. PICK s \in NextKey(pool, now) :
           /\ Use(s)
           /\ passed' = [t \in Account |->
                           CASE t = s \/ ~ Usable(t) -> 0
                             [] t # s /\ Usable(t) /\ passed[t] < Accounts -> passed[t] + 1
                             [] OTHER -> passed[t]]
    BY <1>2 DEF Rotate
  <2>2. /\ s \in Account
        /\ \A t \in Account : Usable(t) =>
              Distance(pool.next_idx, s) <= Distance(pool.next_idx, t)
    BY <1>0, NextKeyNearest DEF Usable
  <2>3. /\ pool'.accounts = pool.accounts
        /\ pool'.next_idx = IF s = Accounts THEN 0 ELSE s
        /\ now' = now
    BY <1>0, <2>1, <2>2, AdvanceShaped DEF Use
  <2>4. SUFFICES ASSUME NEW t \in Account
                 PROVE  /\ Usable(t) => passed'[t] + Distance(pool'.next_idx, t) < Accounts
                        /\ ~ Usable(t) => passed'[t] = 0
    BY <2>3 DEF Waits, Usable
  <2>5. CASE t = s \/ ~ Usable(t)
    <3>1. passed'[t] = 0
      BY <2>1, <2>5
    <3> QED
      BY <1>0, <1>1, <3>1
  <2>6. CASE t # s /\ Usable(t)
    <3>1. /\ passed[t] + Distance(pool.next_idx, t) < Accounts
          /\ passed[t] \in Nat
      BY <1>0, <2>6 DEF Waits
    <3>2. passed'[t] = passed[t] + 1
      <4>1. passed[t] < Accounts
        BY <1>0, <1>1, <3>1
      <4> QED
        BY <2>1, <2>6, <4>1
    <3>3. Distance(IF s = Accounts THEN 0 ELSE s, t) < Distance(pool.next_idx, t)
      BY <1>0, <2>2, <2>6, DistanceAfterPick
    <3>4. Distance(pool'.next_idx, t) < Distance(pool.next_idx, t)
      BY <2>3, <3>3
    <3> QED
      BY <1>0, <1>1, <2>6, <3>1, <3>2, <3>4
  <2> QED
    BY <2>5, <2>6
<1>3. ASSUME NEW o \in Outcome, Finish(o) PROVE Waits'
  <2>1. caller \in Account /\ pool' = Report(pool, caller, o, now) /\ now' = now
    BY <1>0, <1>3 DEF Finish, Shape, TypeOK
  <2>2. /\ pool'.next_idx = pool.next_idx
        /\ \A s \in Account \ {caller} : pool'.accounts[s] = pool.accounts[s]
    <3>1. Report(pool, caller, o, now).next_idx = pool.next_idx
      BY <1>0, FinishIndex
    <3>2. ASSUME NEW s \in Account \ {caller}
          PROVE  Report(pool, caller, o, now).accounts[s] = pool.accounts[s]
      BY <1>0, FinishOthers
    <3> QED
      BY <2>1, <3>1, <3>2
  <2>3. passed' = [passed EXCEPT ![caller] =
                     IF Available(pool'.accounts[caller], now) THEN passed[caller] ELSE 0]
    BY <1>3 DEF Finish
  <2>4. SUFFICES ASSUME NEW t \in Account
                 PROVE  /\ Available(pool'.accounts[t], now) =>
                             passed'[t] + Distance(pool.next_idx, t) < Accounts
                        /\ ~ Available(pool'.accounts[t], now) => passed'[t] = 0
    BY <2>1, <2>2 DEF Waits, Usable
  <2>5. passed[t] + Distance(pool.next_idx, t) < Accounts
    BY <1>0, <1>1 DEF Waits
  <2>6. CASE t = caller
    BY <1>0, <2>3, <2>5, <2>6
  <2>7. CASE t # caller
    BY <1>0, <2>2, <2>3, <2>7 DEF Waits, Usable
  <2> QED
    BY <2>6, <2>7
<1>4. ASSUME FinishUnreported PROVE Waits'
  BY <1>4 DEF FinishUnreported, Waits, Usable
<1>5. ASSUME Tick PROVE Waits'
  <2>1. now' = now + 1 /\ UNCHANGED <<pool, passed>>
    BY <1>5 DEF Tick
  <2>2. SUFFICES ASSUME NEW t \in Account
                 PROVE  /\ passed[t] + Distance(pool.next_idx, t) < Accounts
                        /\ ~ Available(pool.accounts[t], now + 1) => passed[t] = 0
    BY <2>1 DEF Waits, Usable
  <2>3. passed[t] + Distance(pool.next_idx, t) < Accounts
    BY <1>0, <1>1 DEF Waits
  <2>4. pool.accounts[t].cool \in Nat
    BY <1>0, ShapedFacts DEF AccountOf
  <2>5. Usable(t) => Available(pool.accounts[t], now + 1)
    BY <1>0, <2>4 DEF Usable, Available
  <2> QED
    BY <2>3, <2>5 DEF Waits
<1>6. ASSUME NEW k \in Account, Prefer(k) PROVE Waits'
  <2>1. passed' = [t \in Account |-> 0]
    BY <1>6 DEF Prefer
  <2> QED
    BY <1>0, <1>1, <2>1 DEF Waits
<1>7. ASSUME UNCHANGED vars PROVE Waits'
  BY <1>7 DEF vars, Waits, Usable
<1> QED
  BY <1>2, <1>3, <1>4, <1>5, <1>6, <1>7 DEF Next

(***************************************************************************)
(* The pool is a round robin between two preferences: an account that      *)
(* stays usable is passed over at most n - 1 times, for every n, wherever  *)
(* the last preference left the rotation and whatever happens to the other *)
(* accounts (account.rs, AccountPool).                                     *)
(***************************************************************************)
THEOREM RoundRobinBetweenPreferences == Spec => []RoundRobin
<1>1. Init => Shape /\ Waits
  BY ShapeInit, WaitsInit
<1>2. Shape /\ Waits /\ [Next]_vars => (Shape /\ Waits)'
  BY ShapeStep, WaitsStep
<1>3. Shape /\ Waits => RoundRobin
  <2> SUFFICES ASSUME Shape, Waits, NEW s \in Account PROVE passed[s] < Accounts
    BY DEF RoundRobin
  <2>1. passed[s] \in Nat /\ Accounts \in Nat \ {0}
    BY RotationAssumption DEF Shape, TypeOK
  <2>2. Distance(pool.next_idx, s) \in 0 .. Accounts - 1
    BY ShapedFacts, DistanceFacts DEF Shape
  <2> QED
    BY <2>1, <2>2 DEF Waits
<1> QED
  BY <1>1, <1>2, <1>3, PTL DEF Spec

-----------------------------------------------------------------------------
\* An account that is in use was enabled when it was picked, and still is.
CallerEnabled == caller # 0 => pool.accounts[caller].enabled

LEMMA CallerStep == Shape /\ CallerEnabled /\ [Next]_vars => CallerEnabled'
<1> SUFFICES ASSUME Shape, CallerEnabled, [Next]_vars PROVE CallerEnabled'
  OBVIOUS
<1>0. Shaped(pool) /\ Slots(pool) = Account
  BY ShapedFacts DEF Shape
<1>1. ASSUME NEW s \in Account, Available(pool.accounts[s], now), Use(s)
      PROVE  CallerEnabled'
  <2>1. pool'.accounts = pool.accounts
    BY <1>0, <1>1, AdvanceShaped DEF Use
  <2> QED
    BY <1>1, <2>1 DEF Use, CallerEnabled, Available
<1>2. CASE Rotate
  <2>1. PICK s \in NextKey(pool, now) : Use(s)
    BY <1>2 DEF Rotate
  <2>2. s \in Account /\ Available(pool.accounts[s], now)
    BY <1>0, NextKeyNearest
  <2> QED
    BY <1>1, <2>1, <2>2
<1>3. CASE \E k \in Account : Prefer(k)
  <2>1. PICK s \in Account : Available(pool.accounts[s], now) /\ Use(s)
    BY <1>0, <1>3 DEF Prefer, PreferKey
  <2> QED
    BY <1>1, <2>1
<1>4. CASE \E o \in Outcome : Finish(o)
  BY <1>4 DEF Finish, CallerEnabled
<1>5. CASE FinishUnreported
  BY <1>5 DEF FinishUnreported, CallerEnabled
<1>6. CASE Tick \/ UNCHANGED vars
  BY <1>6 DEF Tick, vars, CallerEnabled
<1> QED
  BY <1>2, <1>3, <1>4, <1>5, <1>6 DEF Next

LEMMA DisabledStep ==
    Shape /\ CallerEnabled /\ DisabledByAuthFailure /\ [Next]_vars => DisabledByAuthFailure'
<1> SUFFICES ASSUME Shape, CallerEnabled, DisabledByAuthFailure, [Next]_vars
             PROVE  DisabledByAuthFailure'
  OBVIOUS
<1>0. Shaped(pool) /\ Slots(pool) = Account /\ now \in Nat /\ auths \in [Account -> Nat]
  BY ShapedFacts DEF Shape, TypeOK
<1>1. ASSUME UNCHANGED auths, pool'.accounts = pool.accounts PROVE DisabledByAuthFailure'
  BY <1>1 DEF DisabledByAuthFailure
<1>2. ASSUME NEW s \in Account, Use(s) PROVE DisabledByAuthFailure'
  BY <1>0, <1>1, <1>2, AdvanceShaped DEF Use
<1>3. CASE Rotate
  BY <1>0, <1>2, <1>3, NextKeyNearest DEF Rotate
<1>4. CASE \E k \in Account : Prefer(k)
  BY <1>0, <1>2, <1>4 DEF Prefer, PreferKey
<1>5. ASSUME NEW o \in Outcome, Finish(o) PROVE DisabledByAuthFailure'
  <2>1. /\ caller \in Account /\ pool' = Report(pool, caller, o, now)
        /\ auths' = [auths EXCEPT ![caller] = IF o = "AuthFailed" THEN @ + 1 ELSE 0]
    BY <1>0, <1>5 DEF Finish, Shape, TypeOK, Account
  <2>2. SUFFICES ASSUME NEW t \in Account, ~ pool'.accounts[t].enabled
                 PROVE  auths'[t] > 0 /\ pool'.accounts[t].errs >= MaxAuthFailures
    BY DEF DisabledByAuthFailure
  <2>3. CASE t # caller
    <3>1. pool'.accounts[t] = pool.accounts[t] /\ auths'[t] = auths[t]
      BY <1>0, <2>1, <2>3, FinishOthers
    <3> QED
      BY <2>2, <3>1 DEF DisabledByAuthFailure
  <2>4. CASE t = caller
    <3>1. pool'.accounts[t] = AfterOutcome(pool.accounts[t], o, now)
      BY <1>0, <2>1, <2>4, FinishPool
    <3>2. /\ pool.accounts[t].enabled
          /\ pool.accounts[t] \in AccountOf(Account, {0})
          /\ auths[t] \in Nat
      BY <1>0, <2>1, <2>4, ShapedFacts DEF CallerEnabled, Account
    <3>3. o = "AuthFailed" /\ pool.accounts[t].errs + 1 >= MaxAuthFailures
      BY <2>2, <3>1, <3>2, PoolAssumption DEF AfterOutcome, AccountOf, Outcome
    <3>4. pool'.accounts[t].errs = pool.accounts[t].errs + 1
      BY <3>1, <3>2, <3>3 DEF AfterOutcome, AccountOf
    <3> QED
      BY <1>0, <2>1, <2>4, <3>2, <3>3, <3>4
  <2> QED
    BY <2>3, <2>4
<1>6. CASE FinishUnreported \/ Tick \/ UNCHANGED vars
  BY <1>1, <1>6 DEF FinishUnreported, Tick, vars
<1> QED
  BY <1>3, <1>4, <1>5, <1>6 DEF Next

(***************************************************************************)
(* Rate limits alone disable no account, however many there are: whatever  *)
(* the outcomes and their order, an account is disabled by an auth failure *)
(* that finds the configured number of errors (account.rs, report).        *)
(***************************************************************************)
THEOREM OnlyAuthFailuresDisable == Spec => []DisabledByAuthFailure
<1>1. Init => Shape /\ CallerEnabled /\ DisabledByAuthFailure
  BY ShapeInit DEF Init, CallerEnabled, DisabledByAuthFailure, NewAccount
<1> QED
  BY <1>1, ShapeStep, CallerStep, DisabledStep, PTL DEF Spec

(***************************************************************************)
(* Every variable keeps its type and next_idx stays within the vector, for *)
(* every number of accounts (account.rs, next_key, prefer_key).            *)
(***************************************************************************)
THEOREM TypeCorrect == Spec => []TypeOK
<1>1. Shape => TypeOK
  BY DEF Shape
<1> QED
  BY <1>1, ShapeInit, ShapeStep, PTL DEF Spec

=============================================================================
