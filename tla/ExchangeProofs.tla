--------------------------- MODULE ExchangeProofs ---------------------------
(***************************************************************************)
(* Proofs about Exchange: for any requests, routes, answers and fragments  *)
(* of streams, and for streams of any length.  The operators on streams    *)
(* are recursive; what they compute is proved by the least element of a    *)
(* set of naturals, which the library has for every well-founded relation. *)
(***************************************************************************)
EXTENDS Exchange, WellFoundedInduction, TLAPS

-----------------------------------------------------------------------------
(***************************************************************************)
(* Induction and recursion up to a number, for sets and for functions.     *)
(***************************************************************************)
Below == {ij \in Nat \X Nat : ij[1] < ij[2]}

LEMMA LeastNumber ==
    ASSUME NEW S \in SUBSET Nat, S # {}
    PROVE  \E n \in S : \A m \in S : n <= m
<1>1. IsWellFoundedOn(Below, Nat)
  BY NatLessThanWellFounded DEF OpToRel, Below
<1>2. PICK n \in S : \A m \in S : ~ (<<m, n>> \in Below)
  BY <1>1, WFMin
<1>3. ASSUME NEW m \in S PROVE n <= m
  <2>1. m \in Nat /\ n \in Nat /\ ~ (<<m, n>> \in Below)
    BY <1>2
  <2> QED
    BY <2>1 DEF Below
<1> QED
  BY <1>3

LEMMA Induct ==
    ASSUME NEW N \in Nat, NEW S, 0 \in S,
           \A n \in 0 .. N : n < N /\ n \in S => n + 1 \in S
    PROVE  \A n \in 0 .. N : n \in S
<1> DEFINE T == {n \in 0 .. N : n \notin S}
<1> SUFFICES ASSUME T # {} PROVE FALSE
  OBVIOUS
<1>1. T \in SUBSET Nat
  OBVIOUS
<1>2. PICK m \in T : \A n \in T : m <= n
  BY <1>1, LeastNumber
<1>3. m # 0 /\ m - 1 \in 0 .. N /\ m - 1 < m
  BY <1>2
<1>4. m - 1 \in S
  BY <1>2, <1>3
<1> QED
  BY <1>2, <1>3, <1>4

Follows(f, n, a, step) == f[0] = a /\ \A k \in 1 .. n : f[k] = step[k][f[k - 1]]

LEMMA Recursion ==
    ASSUME NEW N \in Nat, NEW A, NEW a \in A, NEW step \in [1 .. N -> [A -> A]]
    PROVE  \E f \in [0 .. N -> A] : Follows(f, N, a, step)
<1> DEFINE S == {n \in 0 .. N : \E f \in [0 .. n -> A] : Follows(f, n, a, step)}
<1>1. 0 \in S
  <2>1. [k \in 0 .. 0 |-> a] \in [0 .. 0 -> A] /\ Follows([k \in 0 .. 0 |-> a], 0, a, step)
    BY DEF Follows
  <2>2. 0 \in 0 .. N
    OBVIOUS
  <2> QED
    BY <2>1, <2>2
<1>2. ASSUME NEW n \in 0 .. N, n < N, n \in S PROVE n + 1 \in S
  <2>1. PICK f \in [0 .. n -> A] : Follows(f, n, a, step)
    BY <1>2
  <2>2. n + 1 \in 1 .. N /\ n + 1 \in 0 .. N /\ f[n] \in A
    BY <1>2
  <2>3. step[n + 1][f[n]] \in A
    BY <2>2
  <2> DEFINE g == [k \in 0 .. n + 1 |-> IF k <= n THEN f[k] ELSE step[n + 1][f[n]]]
  <2>4. g \in [0 .. n + 1 -> A]
    BY <2>3
  <2>5. g[0] = a
    BY <2>1 DEF Follows
  <2>6. ASSUME NEW k \in 1 .. n + 1 PROVE g[k] = step[k][g[k - 1]]
    <3>1. CASE k <= n
      BY <2>1, <3>1 DEF Follows
    <3>2. CASE k = n + 1
      BY <3>2
    <3> QED
      BY <3>1, <3>2
  <2>7. Follows(g, n + 1, a, step)
    BY <2>5, <2>6 DEF Follows
  <2> QED
    BY <2>2, <2>4, <2>7
<1>3. N \in S
  <2> HIDE DEF S
  <2>1. \A n \in 0 .. N : n \in S
    BY <1>1, <1>2, Induct
  <2> QED
    BY <2>1
<1> QED
  BY <1>3

-----------------------------------------------------------------------------
\* What FlattenSeq adds up to, from the left.
LEMMA FlattenFromLeft ==
    ASSUME NEW X, NEW ss \in Seq(Seq(X))
    PROVE  \E f \in [0 .. Len(ss) -> Seq(X)] :
              /\ f[0] = <<>> /\ \A n \in 1 .. Len(ss) : f[n] = f[n - 1] \o ss[n]
              /\ FlattenSeq(ss) = f[Len(ss)]
<1> DEFINE N == Len(ss)
           A == Seq(X)
           step == [n \in 1 .. N |-> [t \in A |-> t \o ss[n]]]
<1>1. N \in Nat /\ step \in [1 .. N -> [A -> A]] /\ <<>> \in A
  OBVIOUS
<1>2. PICK f \in [0 .. N -> A] : Follows(f, N, <<>>, step)
  <2>1. PICK a \in A : a = <<>>
    BY <1>1
  <2> HIDE DEF step, N, A
  <2>2. \E f \in [0 .. N -> A] : Follows(f, N, a, step)
    BY <1>1, Recursion
  <2> QED
    BY <2>1, <2>2
<1>3. ASSUME NEW n \in 1 .. N PROVE f[n] = f[n - 1] \o ss[n]
  <2>1. n - 1 \in 0 .. N
    BY <1>1
  <2>2. PICK t \in A : t = f[n - 1]
    BY <2>1
  <2>3. step[n][t] = t \o ss[n]
    OBVIOUS
  <2>4. f[n] = step[n][t]
    <3> HIDE DEF step, N, A
    <3> QED
      BY <1>2, <2>2 DEF Follows
  <2> QED
    BY <2>2, <2>3, <2>4
<1>4. f[0] = <<>>
  BY <1>2 DEF Follows
<1>5. CASE N = 0
  BY <1>3, <1>4, <1>5 DEF FlattenSeq
<1>6. CASE N # 0
  <2> DEFINE Equation(g) == g = [i \in 1 .. N |-> IF i = 1 THEN ss[i] ELSE g[i - 1] \o ss[i]]
  <2>1. \A n \in 1 .. N : ss[n] \in A /\ <<>> \o ss[n] = ss[n]
    OBVIOUS
  <2>2. \A n \in 1 .. N : n = 1 => f[n] = ss[n]
    <3> HIDE DEF A, N
    <3>1. ASSUME NEW n \in 1 .. N, n = 1 PROVE f[n] = ss[n]
      <4>1. n - 1 = 0
        BY <3>1
      <4>2. f[n - 1] = <<>>
        BY <1>4, <4>1
      <4>3. f[n] = <<>> \o ss[n]
        BY <1>3, <4>2, Zenon
      <4> QED
        BY <2>1, <4>3, Zenon
    <3> QED
      BY <3>1
  <2>3. Equation([i \in 1 .. N |-> f[i]])
    <3> HIDE DEF A, N
    <3> DEFINE F == [i \in 1 .. N |-> f[i]]
    <3>1. \A i \in 1 .. N : i # 1 => i - 1 \in 1 .. N
      BY <1>1
    <3>2. \A i \in 1 .. N : F[i] = f[i]
      OBVIOUS
    <3>3. ASSUME NEW i \in 1 .. N
          PROVE  f[i] = IF i = 1 THEN ss[i] ELSE F[i - 1] \o ss[i]
      <4> HIDE DEF F
      <4>1. CASE i = 1
        BY <2>2, <4>1, Zenon
      <4>2. CASE i # 1
        BY <1>3, <3>1, <3>2, <4>2, Zenon
      <4> QED
        BY <4>1, <4>2
    <3> QED
      BY <3>3, Zenon
  <2>4. PICK g \in {CHOOSE g : Equation(g)} : g = CHOOSE h : Equation(h)
    OBVIOUS
  <2>5. Equation(g)
    BY <2>3, <2>4
  <2>6. FlattenSeq(ss) = g[N]
    BY <1>6, <2>4 DEF FlattenSeq
  <2> HIDE DEF A, N
  <2>7. \A i \in 1 .. N : g[i] = IF i = 1 THEN ss[i] ELSE g[i - 1] \o ss[i]
    BY <2>5, Zenon
  <2> DEFINE S == {n \in 0 .. N : n = 0 \/ g[n] = f[n]}
  <2>8. 0 \in S
    BY <1>1
  <2>9. ASSUME NEW n \in 0 .. N, n < N, n \in S PROVE n + 1 \in S
    <3>1. n + 1 \in 1 .. N /\ n + 1 \in 0 .. N /\ (n + 1) - 1 = n
      BY <1>1, <2>9
    <3>2. CASE n = 0
      <4>1. PICK m \in 1 .. N : m = n + 1 /\ m = 1
        BY <3>1, <3>2
      <4>2. g[m] = f[m]
        BY <2>2, <2>7, <4>1, Zenon
      <4> QED
        BY <3>1, <4>1, <4>2, Zenon
    <3>3. CASE n # 0
      <4>1. PICK m \in 1 .. N : m = n + 1 /\ m # 1 /\ m - 1 = n
        BY <3>1, <3>3
      <4>2. g[m - 1] = f[m - 1]
        BY <2>9, <3>3, <4>1, Zenon
      <4>3. g[m] = f[m]
        BY <1>3, <2>7, <4>1, <4>2, Zenon
      <4> QED
        BY <3>1, <4>1, <4>3, Zenon
    <3> QED
      BY <3>2, <3>3
  <2>10. \A n \in 0 .. N : n \in S
    <3> HIDE DEF S
    <3> QED
      BY <1>1, <2>8, <2>9, Induct
  <2>11. N \in 0 .. N
    BY <1>1
  <2>12. g[N] = f[N]
    BY <1>6, <2>10, <2>11, Zenon
  <2> QED
    BY <1>3, <1>4, <2>6, <2>12, Zenon DEF N, A
<1> QED
  BY <1>5, <1>6
LEMMA FlattenTyped ==
    ASSUME NEW X, NEW ss \in Seq(Seq(X))
    PROVE  FlattenSeq(ss) \in Seq(X)
<1>1. PICK f \in [0 .. Len(ss) -> Seq(X)] : FlattenSeq(ss) = f[Len(ss)]
  BY FlattenFromLeft
<1>2. Len(ss) \in 0 .. Len(ss)
  OBVIOUS
<1> QED
  BY <1>1, <1>2

LEMMA FlattenEmpty ==
    ASSUME NEW X, NEW ss \in Seq(Seq(X)), \A i \in 1 .. Len(ss) : ss[i] = <<>>
    PROVE  FlattenSeq(ss) = <<>>
<1>1. PICK f \in [0 .. Len(ss) -> Seq(X)] :
         /\ f[0] = <<>> /\ \A n \in 1 .. Len(ss) : f[n] = f[n - 1] \o ss[n]
         /\ FlattenSeq(ss) = f[Len(ss)]
  BY FlattenFromLeft
<1>2. PICK N \in Nat : N = Len(ss)
  OBVIOUS
<1> DEFINE S == {n \in 0 .. N : f[n] = <<>>}
<1>3. 0 \in S
  BY <1>1, <1>2
<1>4. ASSUME NEW n \in 0 .. N, n < N, n \in S PROVE n + 1 \in S
  <2>1. PICK m \in 1 .. N : m = n + 1 /\ m - 1 = n
    BY <1>4
  <2>2. f[m] = f[m - 1] \o ss[m] /\ ss[m] = <<>> /\ f[m - 1] = <<>>
    BY <1>1, <1>2, <1>4, <2>1
  <2>3. f[m] = <<>> \o <<>>
    BY <2>2, Zenon
  <2>4. f[m] = <<>>
    BY <2>3
  <2> QED
    BY <2>1, <2>4
<1>5. \A n \in 0 .. N : n \in S
  <2> HIDE DEF S
  <2> QED
    BY <1>3, <1>4, Induct
<1>6. N \in 0 .. N
  OBVIOUS
<1> QED
  BY <1>1, <1>2, <1>5, <1>6, Zenon

LEMMA Element ==
    ASSUME NEW R, NEW s \in Seq(R), NEW i \in 1 .. Len(s)
    PROVE  s[i] \in R
OBVIOUS

LEMMA Successor ==
    ASSUME NEW N \in Nat, NEW n \in 0 .. N, n < N
    PROVE  \E m \in 1 .. N : m = n + 1 /\ m - 1 = n
OBVIOUS

Associates(r, s, t) == (r \o s) \o t = r \o (s \o t)

LEMMA Associative ==
    ASSUME NEW X, NEW r \in Seq(X), NEW s \in Seq(X), NEW t \in Seq(X)
    PROVE  Associates(r, s, t)
BY DEF Associates

LEMMA FlattenSplit ==
    ASSUME NEW X, NEW ss \in Seq(Seq(X)), NEW left \in Seq(Seq(X)), NEW right \in Seq(Seq(X)),
           Len(ss) = Len(left) + Len(right),
           \A i \in 1 .. Len(left) : ss[i] = left[i],
           \A i \in 1 .. Len(right) : ss[Len(left) + i] = right[i]
    PROVE  FlattenSeq(ss) = FlattenSeq(left) \o FlattenSeq(right)
<1>1. PICK f \in [0 .. Len(ss) -> Seq(X)] :
         /\ f[0] = <<>> /\ \A n \in 1 .. Len(ss) : f[n] = f[n - 1] \o ss[n]
         /\ FlattenSeq(ss) = f[Len(ss)]
  BY FlattenFromLeft
<1>2. PICK g \in [0 .. Len(left) -> Seq(X)] :
         /\ g[0] = <<>> /\ \A n \in 1 .. Len(left) : g[n] = g[n - 1] \o left[n]
         /\ FlattenSeq(left) = g[Len(left)]
  BY FlattenFromLeft
<1>3. PICK h \in [0 .. Len(right) -> Seq(X)] :
         /\ h[0] = <<>> /\ \A n \in 1 .. Len(right) : h[n] = h[n - 1] \o right[n]
         /\ FlattenSeq(right) = h[Len(right)]
  BY FlattenFromLeft
<1>4. PICK K \in Nat : K = Len(left)
  OBVIOUS
<1>5. PICK M \in Nat : M = Len(right)
  OBVIOUS
<1>6. K + M = Len(ss)
  BY <1>4, <1>5
<1> DEFINE S == {n \in 0 .. K : f[n] = g[n]}
           T == {n \in 0 .. M : f[K + n] = g[K] \o h[n]}
<1>7. \A n \in 0 .. K : n \in S
  <2>1. 0 \in S
    BY <1>1, <1>2
  <2>2. ASSUME NEW n \in 0 .. K, n < K, n \in S PROVE n + 1 \in S
    <3>1. PICK m \in 1 .. K : m = n + 1 /\ m - 1 = n
      BY <2>2, Successor
    <3>2. m \in 1 .. Len(ss) /\ m \in 1 .. Len(left)
      BY <1>4, <1>6
    <3>3. f[m - 1] = g[m - 1] /\ ss[m] = left[m]
      BY <2>2, <3>1, <3>2
    <3>4. f[m] = g[m]
      BY <1>1, <1>2, <3>2, <3>3, Zenon
    <3> QED
      BY <3>1, <3>4
  <2> HIDE DEF S
  <2> QED
    BY <2>1, <2>2, Induct
<1>8. g[K] \in Seq(X)
  BY <1>4
<1>9. \A n \in 0 .. M : n \in T
  <2>1. 0 \in T
    <3>1. K \in 0 .. K /\ K + 0 = K /\ 0 \in 0 .. M
      OBVIOUS
    <3>2. f[K] = g[K]
      BY <1>7, <3>1
    <3>3. g[K] \o <<>> = g[K]
      BY <1>8
    <3> QED
      BY <1>3, <3>1, <3>2, <3>3
  <2>2. ASSUME NEW n \in 0 .. M, n < M, n \in T PROVE n + 1 \in T
    <3>1. PICK m \in 1 .. M : m = n + 1 /\ m - 1 = n
      BY <2>2
    <3>2. PICK q \in 1 .. Len(ss) : q = K + m /\ q - 1 = K + n
      BY <1>6, <3>1
    <3>3. m \in 1 .. Len(right) /\ m - 1 \in 0 .. Len(right) /\ m \in 0 .. M
      BY <1>5
    <3>4. f[q - 1] = g[K] \o h[m - 1]
      BY <2>2, <3>1, <3>2
    <3>5. ss[q] = right[m]
      BY <1>4, <3>2, <3>3
    <3>6. f[q] = (g[K] \o h[m - 1]) \o right[m]
      BY <1>1, <3>4, <3>5, Zenon
    <3>7. h[m] = h[m - 1] \o right[m]
      BY <1>3, <3>3
    <3>8. (g[K] \o h[m - 1]) \o right[m] = g[K] \o (h[m - 1] \o right[m])
      <4>1. PICK u \in Seq(X) : u = g[K]
        BY <1>8
      <4>2. PICK v \in Seq(X) : v = h[m - 1]
        BY <3>3
      <4>3. right[m] \in Seq(X)
        BY <3>3, Element
      <4>4. PICK w \in Seq(X) : w = right[m]
        BY <4>3
      <4>5. Associates(u, v, w)
        BY Associative
      <4> QED
        BY <4>1, <4>2, <4>4, <4>5, Zenon DEF Associates
    <3>9. f[q] = g[K] \o h[m]
      BY <3>6, <3>7, <3>8, Zenon
    <3> QED
      BY <3>1, <3>2, <3>3, <3>9
  <2> HIDE DEF T
  <2> QED
    BY <2>1, <2>2, Induct
<1>10. M \in T
  <2>1. M \in 0 .. M
    OBVIOUS
  <2> HIDE DEF T
  <2> QED
    BY <1>9, <2>1
<1>11. f[K + M] = g[K] \o h[M]
  BY <1>10
<1> QED
  BY <1>1, <1>2, <1>3, <1>4, <1>5, <1>6, <1>11, Zenon
-----------------------------------------------------------------------------
\* Least and greatest elements, as Min and Max choose them.
LEMMA MinOf ==
    ASSUME NEW S \in SUBSET Nat, S # {}
    PROVE  Min(S) \in S /\ \A n \in S : Min(S) <= n
BY LeastNumber DEF Min

LEMMA MinIs ==
    ASSUME NEW S \in SUBSET Nat, NEW m \in S, \A n \in S : m <= n
    PROVE  Min(S) = m
<1>1. Min(S) \in S /\ \A n \in S : Min(S) <= n
  BY MinOf
<1>2. Min(S) \in Nat /\ m \in Nat /\ Min(S) <= m /\ m <= Min(S)
  BY <1>1
<1> QED
  BY <1>2

LEMMA MaxOf ==
    ASSUME NEW N \in Nat, NEW S \in SUBSET (0 .. N), S # {}
    PROVE  Max(S) \in S /\ \A n \in S : n <= Max(S)
<1> DEFINE T == {d \in 0 .. N : N - d \in S}
<1>1. T \in SUBSET Nat /\ T # {}
  <2>1. PICK n \in S : TRUE
    OBVIOUS
  <2>2. N - n \in 0 .. N /\ N - (N - n) = n
    BY <2>1
  <2> QED
    BY <2>1, <2>2
<1>2. PICK d \in T : \A c \in T : d <= c
  BY <1>1, LeastNumber
<1>3. N - d \in S /\ \A n \in S : n <= N - d
  <2>1. ASSUME NEW n \in S PROVE n <= N - d
    <3>1. N - n \in 0 .. N /\ N - (N - n) = n
      OBVIOUS
    <3>2. N - n \in T
      BY <3>1
    <3>3. d <= N - n /\ d \in 0 .. N
      BY <1>2, <3>2
    <3> QED
      BY <3>3
  <2> QED
    BY <1>2, <2>1
<1> QED
  BY <1>3 DEF Max

-----------------------------------------------------------------------------
(***************************************************************************)
(* Lines and payloads.                                                     *)
(***************************************************************************)
Bytes == Seq(Letter)

LEMMA Slice ==
    ASSUME NEW A, NEW s \in Seq(A), NEW m \in 1 .. Len(s) + 1, NEW n \in 0 .. Len(s)
    PROVE  SubSeq(s, m, n) \in Seq(A)
OBVIOUS

LEMMA Rear ==
    ASSUME NEW A, NEW s \in Seq(A), s # <<>>
    PROVE  Tail(s) \in Seq(A)
OBVIOUS

LEMMA TrimTyped ==
    ASSUME NEW line \in Bytes
    PROVE  TrimCr(line) \in Bytes
<1> DEFINE inner == {i \in DOMAIN line : line[i] # "cr"}
<1>1. PICK N \in Nat : N = Len(line)
  BY DEF Bytes
<1>2. inner \in SUBSET (0 .. N) /\ inner \in SUBSET Nat /\ inner \subseteq 1 .. N
  BY <1>1 DEF Bytes
<1>3. CASE inner = {}
  BY <1>3 DEF TrimCr, Bytes
<1>4. CASE inner # {}
  <2>1. TrimCr(line) = SubSeq(line, Min(inner), Max(inner))
    BY <1>4 DEF TrimCr
  <2> HIDE DEF inner
  <2>2. Min(inner) \in inner /\ Max(inner) \in inner
    BY <1>2, <1>4, MinOf, MaxOf
  <2>3. PICK m \in 1 .. Len(line) : m = Min(inner)
    BY <1>1, <1>2, <2>2
  <2>4. PICK n \in 1 .. Len(line) : n = Max(inner)
    BY <1>1, <1>2, <2>2
  <2>5. SubSeq(line, m, n) \in Seq(Letter)
    BY Slice DEF Bytes
  <2> QED
    BY <2>1, <2>3, <2>4, <2>5 DEF Bytes
<1> QED
  BY <1>3, <1>4

LEMMA PayloadTyped ==
    ASSUME NEW line \in Bytes
    PROVE  Payload(line) \in Bytes
<1>1. PICK t \in Bytes : t = TrimCr(line)
  BY TrimTyped
<1>2. CASE t # <<>> /\ Head(t) = "data"
  <2>0. Tail(t) \in Bytes
    BY <1>2, Rear DEF Bytes
  <2>1. PICK u \in Bytes : u = Tail(t)
    BY <2>0
  <2>2. TrimCr(u) \in Bytes
    BY TrimTyped
  <2>3. Payload(line) = TrimCr(u)
    BY <1>1, <1>2, <2>1, Zenon DEF Payload
  <2> QED
    BY <2>2, <2>3
<1>3. CASE ~ (t # <<>> /\ Head(t) = "data")
  <2>1. Payload(line) = <<>>
    BY <1>1, <1>3, Zenon DEF Payload
  <2> QED
    BY <2>1 DEF Bytes
<1> QED
  BY <1>2, <1>3

LEMMA NoPayload == Payload(<<>>) = <<>>
<1>1. TrimCr(<<>>) = <<>>
  BY DEF TrimCr
<1> QED
  BY <1>1, Zenon DEF Payload

LineEndsAt(bytes, i, n) ==
    /\ n = Len(bytes) + 1 \/ bytes[n] = "nl"
    /\ \A j \in i .. n - 1 : bytes[j] # "nl"

LEMMA LineIs ==
    ASSUME NEW bytes \in Bytes, NEW i \in 1 .. Len(bytes), NEW n \in i .. Len(bytes) + 1,
           LineEndsAt(bytes, i, n)
    PROVE  LineAt(bytes, i) = SubSeq(bytes, i, n - 1)
<1> DEFINE S == {j \in i .. Len(bytes) + 1 : j > Len(bytes) \/ bytes[j] = "nl"}
<1>1. Len(bytes) \in Nat
  BY DEF Bytes
<1>2. S \in SUBSET Nat /\ n \in S /\ \A j \in S : n <= j
  BY <1>1 DEF LineEndsAt
<1>3. Min(S) = n
  <2> HIDE DEF S
  <2> QED
    BY <1>2, MinIs
<1> QED
  BY <1>3, Zenon DEF LineAt

LEMMA LineEnds ==
    ASSUME NEW bytes \in Bytes, NEW i \in 1 .. Len(bytes)
    PROVE  \E n \in i .. Len(bytes) + 1 : LineEndsAt(bytes, i, n)
<1> DEFINE S == {j \in i .. Len(bytes) + 1 : j > Len(bytes) \/ bytes[j] = "nl"}
<1>1. Len(bytes) \in Nat
  BY DEF Bytes
<1>2. S \in SUBSET Nat /\ Len(bytes) + 1 \in S
  BY <1>1
<1>3. PICK n \in S : \A m \in S : n <= m
  <2> HIDE DEF S
  <2> QED
    BY <1>2, LeastNumber
<1>4. n \in i .. Len(bytes) + 1 /\ (n = Len(bytes) + 1 \/ bytes[n] = "nl")
  BY <1>1, <1>3
<1>5. ASSUME NEW j \in i .. n - 1 PROVE bytes[j] # "nl"
  <2>1. j \in i .. Len(bytes) + 1 /\ ~ (n <= j)
    BY <1>1, <1>4
  <2> QED
    BY <1>3, <2>1
<1> QED
  BY <1>4, <1>5 DEF LineEndsAt

LEMMA LineTyped ==
    ASSUME NEW bytes \in Bytes, NEW i \in 1 .. Len(bytes)
    PROVE  LineAt(bytes, i) \in Bytes
<1>1. PICK n \in i .. Len(bytes) + 1 : LineEndsAt(bytes, i, n)
  BY LineEnds
<1>2. LineAt(bytes, i) = SubSeq(bytes, i, n - 1)
  BY <1>1, LineIs
<1>3. PICK m \in 0 .. Len(bytes) : m = n - 1
  BY DEF Bytes
<1>4. i \in 1 .. Len(bytes) + 1
  BY DEF Bytes
<1>5. SubSeq(bytes, i, m) \in Seq(Letter)
  BY <1>4, Slice DEF Bytes
<1> QED
  BY <1>2, <1>3, <1>5 DEF Bytes
LEMMA ExtractTyped ==
    ASSUME NEW event \in Bytes
    PROVE  ExtractSseData(event) \in Seq(Bytes)
<1> DEFINE found == {i \in LineStarts(event) : Payload(LineAt(event, i)) # <<>>}
<1>1. CASE found = {}
  BY <1>1 DEF ExtractSseData
<1>2. CASE found # {}
  <2>1. found \in SUBSET (1 .. Len(event)) /\ found \in SUBSET Nat
    BY DEF LineStarts, Bytes
  <2>2. ExtractSseData(event) = <<Payload(LineAt(event, Min(found)))>>
    BY <1>2, Zenon DEF ExtractSseData
  <2> HIDE DEF found
  <2>3. PICK i \in 1 .. Len(event) : i = Min(found)
    BY <1>2, <2>1, MinOf
  <2>4. PICK line \in Bytes : line = LineAt(event, i)
    BY LineTyped
  <2>5. Payload(line) \in Bytes
    BY PayloadTyped
  <2> QED
    BY <2>2, <2>3, <2>4, <2>5
<1> QED
  BY <1>1, <1>2

LEMMA PayloadAtTyped ==
    ASSUME NEW bytes \in Bytes, NEW e
    PROVE  PayloadAt(bytes, e) \in Seq(Bytes)
<1>1. CASE e \notin Ends(bytes) \/ PayloadLines(bytes, e) = {}
  BY <1>1 DEF PayloadAt
<1>2. CASE ~ (e \notin Ends(bytes) \/ PayloadLines(bytes, e) = {})
  <2>1. PayloadLines(bytes, e) \in SUBSET (1 .. Len(bytes)) /\ PayloadLines(bytes, e) \in SUBSET Nat
    BY DEF PayloadLines, LineStarts, Bytes
  <2>2. PayloadAt(bytes, e) = <<Payload(LineAt(bytes, Min(PayloadLines(bytes, e))))>>
    BY <1>2, Zenon DEF PayloadAt
  <2>3. PICK i \in 1 .. Len(bytes) : i = Min(PayloadLines(bytes, e))
    BY <1>2, <2>1, MinOf
  <2>4. PICK line \in Bytes : line = LineAt(bytes, i)
    BY LineTyped
  <2>5. Payload(line) \in Bytes
    BY PayloadTyped
  <2> QED
    BY <2>2, <2>3, <2>4, <2>5
<1> QED
  BY <1>1, <1>2

\* Where the scan has come to: behind the last blank line.
LEMMA StartIs ==
    ASSUME NEW bytes \in Bytes, NEW n \in 0 .. Len(bytes)
    PROVE  /\ Start(bytes, n) \in 1 .. n + 2 /\ Start(bytes, n) \in 1 .. Len(bytes) + 1
           /\ Start(bytes, n) = 1 \/ (Start(bytes, n) - 2 \in 1 .. n
                                      /\ BlankLine(bytes, Start(bytes, n) - 2))
           /\ \A j \in 1 .. n : BlankLine(bytes, j) => j <= Start(bytes, n) - 2
<1> DEFINE passed == {i \in 1 .. n : BlankLine(bytes, i)}
<1>1. Len(bytes) \in Nat /\ n \in Nat
  BY DEF Bytes
<1>2. CASE passed = {}
  <2>1. Start(bytes, n) = 1
    BY <1>2 DEF Start
  <2> QED
    BY <1>1, <1>2, <2>1
<1>3. CASE passed # {}
  <2>1. Start(bytes, n) = Max(passed) + 2
    BY <1>3 DEF Start
  <2>2. passed \in SUBSET (0 .. n)
    BY <1>1
  <2>3. PICK m \in passed : m = Max(passed) /\ \A i \in passed : i <= m
    <3> HIDE DEF passed
    <3> QED
      BY <1>1, <1>3, <2>2, MaxOf
  <2>4. m \in 1 .. n /\ BlankLine(bytes, m) /\ m < Len(bytes)
    BY <2>3 DEF BlankLine
  <2>5. \A j \in 1 .. n : BlankLine(bytes, j) => j <= m
    BY <2>3
  <2>6. Start(bytes, n) = m + 2 /\ (m + 2) - 2 = m
    BY <2>1, <2>3, <2>4
  <2> HIDE DEF passed
  <2> QED
    BY <1>1, <2>4, <2>5, <2>6
<1> QED
  BY <1>2, <1>3

LEMMA FoundTyped ==
    ASSUME NEW bytes \in Bytes, NEW i \in 1 .. Len(bytes)
    PROVE  FoundAt(bytes, i) \in Seq(Bytes)
<1>1. PICK n \in 0 .. Len(bytes) : n = i - 1
  BY DEF Bytes
<1>2. PICK s \in 1 .. Len(bytes) + 1 : s = Start(bytes, n)
  BY StartIs
<1>3. PICK event \in Bytes : event = SubSeq(bytes, s, n)
  BY Slice DEF Bytes
<1>4. ExtractSseData(event) \in Seq(Bytes)
  BY ExtractTyped
<1>5. FoundAt(bytes, i) = IF BlankLine(bytes, i) /\ i > s THEN ExtractSseData(event) ELSE <<>>
  BY <1>1, <1>2, <1>3, Zenon DEF FoundAt
<1> QED
  BY <1>4, <1>5
-----------------------------------------------------------------------------
(***************************************************************************)
(* An event found by the scan is an event of the stream.  The scan may     *)
(* start behind a blank line that is not the last one before the event;    *)
(* what is between them has no payload.                                    *)
(***************************************************************************)
Cut(bytes, k) == k = 0 \/ (k \in 2 .. Len(bytes) /\ bytes[k - 1] = "nl" /\ bytes[k] = "nl")

LEMMA SameSlice ==
    ASSUME NEW A, NEW s \in Seq(A), NEW t \in Seq(A), NEW K \in Nat,
           NEW m \in 1 .. Len(s) + 1, NEW n \in 0 .. Len(s), K + Len(s) <= Len(t),
           \A j \in 1 .. Len(s) : s[j] = t[K + j]
    PROVE  SubSeq(s, m, n) = SubSeq(t, K + m, K + n)
OBVIOUS

LEMMA EventLines ==
    ASSUME NEW r \in Bytes, NEW K \in Nat, NEW L \in Nat \ {0}, K + L + 2 <= Len(r), Cut(r, K),
           r[K + L] # "nl", r[K + L + 1] = "nl", r[K + L + 2] = "nl",
           \A j \in K + 1 .. K + L : ~ BlankLine(r, j)
    PROVE  ExtractSseData(SubSeq(r, K + 1, K + L)) = PayloadAt(r, K + L + 1)
<1>0. Len(r) \in Nat /\ r \in Seq(Letter)
  BY DEF Bytes
<1>1. PICK event \in Bytes : /\ event = SubSeq(r, K + 1, K + L) /\ Len(event) = L
                             /\ \A j \in 1 .. L : event[j] = r[K + j]
  <2>1. K + 1 \in 1 .. Len(r) + 1 /\ K + L \in 0 .. Len(r)
    BY <1>0
  <2>2. SubSeq(r, K + 1, K + L) \in Bytes
    BY <1>0, <2>1, Slice DEF Bytes
  <2>3. Len(SubSeq(r, K + 1, K + L)) = L
    BY <1>0, <2>1
  <2>4. \A j \in 1 .. L : SubSeq(r, K + 1, K + L)[j] = r[K + j]
    BY <1>0, <2>1
  <2> QED
    BY <2>2, <2>3, <2>4
<1> DEFINE F == {l \in LineStarts(event) : Payload(LineAt(event, l)) # <<>>}
           P == PayloadLines(r, K + L + 1)
<1>2. ASSUME NEW l \in 1 .. L PROVE LineAt(event, l) = LineAt(r, K + l)
  <2>1. PICK n \in l .. L + 1 : LineEndsAt(event, l, n)
    BY <1>1, LineEnds
  <2>2. PICK i \in 1 .. Len(r) : i = K + l
    BY <1>0
  <2>3. PICK m \in i .. Len(r) + 1 : m = K + n
    BY <1>0, <2>2
  <2>4. r[m] = "nl"
    BY <1>1, <2>1, <2>3 DEF LineEndsAt
  <2>5. ASSUME NEW j \in i .. m - 1 PROVE r[j] # "nl"
    <3>1. j - K \in l .. n - 1 /\ j - K \in 1 .. L /\ K + (j - K) = j
      BY <2>2, <2>3
    <3>2. event[j - K] # "nl"
      BY <2>1, <3>1 DEF LineEndsAt
    <3>3. event[j - K] = r[K + (j - K)]
      BY <1>1, <3>1
    <3> QED
      BY <3>1, <3>2, <3>3
  <2>6. LineAt(r, i) = SubSeq(r, i, m - 1)
    BY <2>4, <2>5, LineIs DEF LineEndsAt
  <2>7. LineAt(event, l) = SubSeq(event, l, n - 1)
    <3>1. l \in 1 .. Len(event) /\ n \in l .. Len(event) + 1
      BY <1>1
    <3> QED
      BY <2>1, <3>1, LineIs
  <2>8. PICK q \in 0 .. L : q = n - 1
    OBVIOUS
  <2>9. SubSeq(event, l, q) = SubSeq(r, K + l, K + q)
    <3>1. l \in 1 .. Len(event) + 1 /\ q \in 0 .. Len(event) /\ K + Len(event) <= Len(r)
      BY <1>0, <1>1
    <3>2. \A j \in 1 .. Len(event) : event[j] = r[K + j]
      BY <1>1
    <3> QED
      BY <1>0, <3>1, <3>2, SameSlice DEF Bytes
  <2>10. K + q = m - 1
    BY <2>3, <2>8
  <2> QED
    BY <2>2, <2>6, <2>7, <2>8, <2>9, <2>10
<1>3. ASSUME NEW l \in 1 .. L PROVE l \in LineStarts(event) <=> K + l \in LineStarts(r)
  <2>1. l \in DOMAIN event /\ K + l \in DOMAIN r
    BY <1>0, <1>1 DEF Bytes
  <2>2. CASE l = 1
    <3>1. (K + l) - 1 = K /\ (K = 0 => K + l = 1)
      BY <2>2
    <3>2. K = 0 \/ r[K] = "nl"
      BY DEF Cut
    <3> QED
      BY <2>1, <2>2, <3>1, <3>2 DEF LineStarts
  <2>3. CASE l # 1
    <3>1. l - 1 \in 1 .. L /\ K + (l - 1) = (K + l) - 1 /\ K + l # 1
      BY <2>3
    <3>2. event[l - 1] = r[(K + l) - 1]
      BY <1>1, <3>1
    <3> QED
      BY <2>1, <2>3, <3>1, <3>2 DEF LineStarts
  <2> QED
    BY <2>2, <2>3
<1>4. F \subseteq 1 .. L
  BY <1>1 DEF LineStarts, Bytes
<1>5. ASSUME NEW l \in F PROVE K + l \in P
  <2>1. l \in 1 .. L /\ l \in LineStarts(event) /\ Payload(LineAt(event, l)) # <<>>
    BY <1>4
  <2>2. K + l \in LineStarts(r) /\ Payload(LineAt(r, K + l)) # <<>>
    BY <1>2, <1>3, <2>1
  <2>3. K + l < K + L + 1
    BY <2>1
  <2>4. \A j \in K + l .. (K + L + 1) - 1 : ~ BlankLine(r, j)
    BY <2>1
  <2> QED
    BY <2>2, <2>3, <2>4 DEF PayloadLines
<1>6. ASSUME NEW i \in P PROVE i - K \in F /\ K + (i - K) = i
  <2>1. /\ i \in LineStarts(r) /\ i < K + L + 1 /\ Payload(LineAt(r, i)) # <<>>
        /\ \A j \in i .. (K + L + 1) - 1 : ~ BlankLine(r, j)
    BY DEF PayloadLines
  <2>2. i \in 1 .. Len(r)
    BY <1>0, <2>1 DEF LineStarts
  <2>3. i > K
    <3> SUFFICES ASSUME i <= K PROVE FALSE
      BY <2>2
    <3>1. K \in 2 .. Len(r) /\ r[K - 1] = "nl" /\ r[K] = "nl"
      BY <2>2 DEF Cut
    <3>2. CASE i = K
      <4>1. i \in i .. Len(r) + 1
        BY <1>0, <2>2
      <4>2. LineEndsAt(r, i, i)
        BY <2>2, <3>1, <3>2 DEF LineEndsAt
      <4>3. LineAt(r, i) = SubSeq(r, i, i - 1)
        BY <2>2, <4>1, <4>2, LineIs
      <4>4. SubSeq(r, i, i - 1) = <<>>
        BY <1>0, <2>2
      <4> QED
        BY <2>1, <4>3, <4>4, NoPayload
    <3>3. CASE i # K
      <4>1. K - 1 \in i .. (K + L + 1) - 1
        BY <2>2, <3>1, <3>3
      <4>2. BlankLine(r, K - 1)
        BY <1>0, <3>1 DEF BlankLine
      <4> QED
        BY <2>1, <4>1, <4>2
    <3> QED
      BY <3>2, <3>3
  <2>4. PICK l \in 1 .. L : l = i - K /\ K + l = i
    BY <2>1, <2>2, <2>3
  <2>5. l \in LineStarts(event) /\ Payload(LineAt(event, l)) # <<>>
    BY <1>2, <1>3, <2>1, <2>4
  <2> QED
    BY <2>4, <2>5
<1>7. K + L + 1 \in Ends(r)
  <2>1. K + L + 1 \in 2 .. Len(r) /\ (K + L + 1) - 1 = K + L /\ (K + L + 1) + 1 = K + L + 2
    BY <1>0
  <2>2. BlankLine(r, K + L + 1)
    BY <1>0, <2>1 DEF BlankLine
  <2> QED
    BY <2>1, <2>2 DEF Ends
<1>8. CASE F = {}
  <2>1. P = {}
    BY <1>6, <1>8
  <2>2. ExtractSseData(event) = <<>>
    BY <1>8 DEF ExtractSseData
  <2>3. PayloadAt(r, K + L + 1) = <<>>
    BY <2>1 DEF PayloadAt
  <2> QED
    BY <1>1, <2>2, <2>3
<1>9. CASE F # {}
  <2>1. F \in SUBSET Nat
    BY <1>4
  <2>2. PICK l \in F : l = Min(F) /\ \A n \in F : l <= n
    <3> HIDE DEF F
    <3> QED
      BY <1>9, <2>1, MinOf
  <2>3. K + l \in P /\ P \in SUBSET Nat
    BY <1>0, <1>5 DEF PayloadLines, LineStarts
  <2>4. ASSUME NEW i \in P PROVE K + l <= i
    <3>1. i - K \in F /\ K + (i - K) = i /\ l \in Nat /\ i \in Nat
      BY <1>4, <1>6, <2>3
    <3>2. l <= i - K
      BY <2>2, <3>1
    <3> QED
      BY <3>1, <3>2
  <2>5. Min(P) = K + l
    <3>1. PICK m \in P : m = K + l
      BY <2>3
    <3> HIDE DEF P
    <3>2. Min(P) = m
      BY <2>3, <2>4, <3>1, MinIs
    <3> QED
      BY <3>1, <3>2
  <2>6. ExtractSseData(event) = <<Payload(LineAt(event, l))>>
    BY <1>9, <2>2 DEF ExtractSseData
  <2>7. P # {}
    BY <2>3
  <2>8. PayloadAt(r, K + L + 1) = <<Payload(LineAt(r, K + l))>>
    BY <1>7, <2>5, <2>7 DEF PayloadAt
  <2>9. LineAt(event, l) = LineAt(r, K + l)
    BY <1>2, <1>4
  <2> QED
    BY <1>1, <2>6, <2>8, <2>9
<1> QED
  BY <1>8, <1>9
\* The bytes behind the first k.
Behind(b, r, k) ==
    /\ k \in 0 .. Len(r) /\ Len(b) = Len(r) - k
    /\ \A j \in 1 .. Len(b) : b[j] = r[k + j]

LEMMA BlankSame ==
    ASSUME NEW r \in Bytes, NEW b \in Bytes, NEW k \in Nat, Behind(b, r, k), NEW j \in 1 .. Len(b)
    PROVE  BlankLine(b, j) <=> BlankLine(r, k + j)
<1>1. Len(r) \in Nat /\ Len(b) \in Nat /\ Len(b) = Len(r) - k
  BY DEF Bytes, Behind
<1>2. b[j] = r[k + j] /\ (j < Len(b) <=> k + j < Len(r))
  BY <1>1 DEF Behind
<1>3. CASE j < Len(b)
  <2>1. j + 1 \in 1 .. Len(b) /\ k + (j + 1) = (k + j) + 1
    BY <1>1, <1>3
  <2>2. b[j + 1] = r[(k + j) + 1]
    BY <2>1 DEF Behind
  <2> QED
    BY <1>2, <1>3, <2>2 DEF BlankLine
<1>4. CASE ~ (j < Len(b))
  BY <1>2, <1>4 DEF BlankLine
<1> QED
  BY <1>3, <1>4

LEMMA Piece ==
    ASSUME NEW r \in Bytes, NEW b \in Bytes, NEW k \in Nat, Behind(b, r, k), Cut(r, k),
           NEW i \in 1 .. Len(b)
    PROVE  FoundAt(b, i) = PayloadAt(r, k + i)
<1>1. /\ Len(r) \in Nat /\ Len(b) \in Nat /\ Len(b) = Len(r) - k
      /\ \A j \in 1 .. Len(b) : b[j] = r[k + j]
  BY DEF Bytes, Behind
<1>2. PICK n \in 0 .. Len(b) : n = i - 1
  BY <1>1
<1>3. PICK s \in 1 .. Len(b) + 1 :
         /\ s = Start(b, n) /\ s \in 1 .. n + 2
         /\ s = 1 \/ (s - 2 \in 1 .. n /\ BlankLine(b, s - 2))
         /\ \A j \in 1 .. n : BlankLine(b, j) => j <= s - 2
  BY StartIs
<1>4. FoundAt(b, i) = IF BlankLine(b, i) /\ i > s THEN ExtractSseData(SubSeq(b, s, i - 1)) ELSE <<>>
  BY <1>2, <1>3, Zenon DEF FoundAt
<1>5. CASE ~ BlankLine(b, i)
  <2>1. k + i \notin Ends(r)
    BY <1>5, BlankSame DEF Ends
  <2>2. PayloadAt(r, k + i) = <<>>
    BY <2>1 DEF PayloadAt
  <2> QED
    BY <1>4, <1>5, <2>2
<1>6. CASE BlankLine(b, i) /\ i <= s
  <2>1. k + i < 2 \/ r[(k + i) - 1] = "nl"
    <3>1. CASE s = 1
      <4>1. i = 1 /\ (k + i) - 1 = k
        BY <1>6, <3>1
      <4> QED
        BY <4>1 DEF Cut
    <3>2. CASE s # 1
      <4>1. s - 2 \in 1 .. n /\ BlankLine(b, s - 2) /\ s \in Nat
        BY <1>3, <3>2
      <4>2. b[s - 2] = "nl" /\ b[s - 1] = "nl" /\ (s - 2) + 1 = s - 1
        BY <4>1 DEF BlankLine
      <4>3. i = s \/ i = s - 1
        BY <1>2, <1>6, <4>1
      <4>4. i - 1 \in 1 .. Len(b) /\ b[i - 1] = "nl" /\ k + (i - 1) = (k + i) - 1
        BY <1>1, <1>2, <4>1, <4>2, <4>3
      <4> QED
        BY <1>1, <4>4
    <3> QED
      BY <3>1, <3>2
  <2>2. k + i \notin Ends(r)
    BY <2>1 DEF Ends
  <2>3. PayloadAt(r, k + i) = <<>>
    BY <2>2 DEF PayloadAt
  <2>4. ~ (i > s)
    BY <1>6
  <2> QED
    BY <1>4, <2>3, <2>4
<1>7. CASE BlankLine(b, i) /\ i > s
  <2>1. PICK K \in Nat : K = (k + s) - 1
    BY <1>3
  <2>2. PICK L \in Nat \ {0} : L = i - s
    BY <1>3, <1>7
  <2>3. BlankLine(r, k + i)
    BY <1>7, BlankSame
  <2>4. K + L = (k + i) - 1 /\ K + L + 1 = k + i /\ K + L + 2 = (k + i) + 1
    <3>1. i \in Nat /\ s \in Nat
      BY <1>1
    <3> QED
      BY <2>1, <2>2, <3>1
  <2>5. /\ K + L + 2 <= Len(r) /\ r[K + L + 1] = "nl" /\ r[K + L + 2] = "nl"
    <3>1. k + i < Len(r) /\ r[k + i] = "nl" /\ r[(k + i) + 1] = "nl"
      BY <2>3 DEF BlankLine
    <3>2. K + L + 2 <= Len(r)
      BY <1>1, <2>4, <3>1
    <3> QED
      BY <2>4, <3>1, <3>2
  \* No blank line is between the start and the end.
  <2>6. ASSUME NEW j \in K + 1 .. K + L PROVE ~ BlankLine(r, j)
    <3>1. PICK q \in 1 .. n : q = j - k /\ k + q = j /\ q > s - 2
      <4>1. i \in Nat /\ s \in Nat /\ n = i - 1 /\ n \in Nat
        BY <1>1, <1>2
      <4>2. j \in Nat /\ j >= k + s /\ j <= (k + i) - 1
        BY <2>1, <2>4, <4>1
      <4>3. j - k \in 1 .. n /\ k + (j - k) = j /\ j - k > s - 2
        BY <4>1, <4>2
      <4> QED
        BY <4>3
    <3>2. ~ BlankLine(b, q)
      BY <1>3, <3>1
    <3>3. q \in 1 .. Len(b)
      BY <1>1, <3>1
    <3> QED
      BY <3>1, <3>2, <3>3, BlankSame
  <2>7. r[K + L] # "nl"
    <3>1. ~ BlankLine(r, K + L) /\ (K + L) + 1 = K + L + 1 /\ K + L < Len(r)
      BY <1>1, <2>5, <2>6
    <3> QED
      BY <2>5, <3>1 DEF BlankLine
  <2>8. Cut(r, K)
    <3>1. CASE s = 1
      <4>1. K = k
        BY <2>1, <3>1
      <4> QED
        BY <4>1
    <3>2. CASE s # 1
      <4>1. s - 2 \in 1 .. n /\ BlankLine(b, s - 2) /\ s \in Nat
        BY <1>3, <3>2
      <4>2. s - 2 \in 1 .. Len(b) /\ k + (s - 2) = K - 1 /\ (K - 1) + 1 = K
        BY <1>1, <2>1, <4>1
      <4>3. BlankLine(r, K - 1)
        BY <4>1, <4>2, BlankSame
      <4> QED
        BY <1>1, <2>1, <4>1, <4>2, <4>3 DEF BlankLine, Cut
    <3> QED
      BY <3>1, <3>2
  <2>9. ExtractSseData(SubSeq(r, K + 1, K + L)) = PayloadAt(r, K + L + 1)
    BY <2>5, <2>6, <2>7, <2>8, EventLines
  <2>10. SubSeq(b, s, n) = SubSeq(r, k + s, k + n)
    <3>1. r \in Seq(Letter) /\ b \in Seq(Letter) /\ k + Len(b) <= Len(r)
      BY <1>1 DEF Bytes
    <3> QED
      BY <1>1, <3>1, SameSlice
  <2>11. k + s = K + 1 /\ k + n = K + L
    BY <1>2, <2>1, <2>2, <2>4
  <2> QED
    BY <1>2, <1>4, <1>7, <2>4, <2>9, <2>10, <2>11
<1> QED
  BY <1>3, <1>5, <1>6, <1>7
-----------------------------------------------------------------------------
(***************************************************************************)
(* A stream that goes on keeps the payloads it has, and the scan adds      *)
(* those of the events that have become complete.                          *)
(***************************************************************************)
Prefix(r, R) == Len(r) <= Len(R) /\ \A j \in 1 .. Len(r) : R[j] = r[j]

LEMMA PayloadKept ==
    ASSUME NEW r \in Bytes, NEW R \in Bytes, Prefix(r, R), NEW e \in 1 .. Len(r), e < Len(r)
    PROVE  PayloadAt(R, e) = PayloadAt(r, e)
<1>1. /\ Len(r) \in Nat /\ Len(R) \in Nat /\ Len(r) <= Len(R)
      /\ \A j \in 1 .. Len(r) : R[j] = r[j]
  BY DEF Bytes, Prefix
<1>2. ASSUME NEW j \in 1 .. Len(r), j < Len(r) PROVE BlankLine(R, j) <=> BlankLine(r, j)
  <2>1. j + 1 \in 1 .. Len(r) /\ j < Len(R)
    BY <1>1, <1>2
  <2> QED
    BY <1>1, <1>2, <2>1 DEF BlankLine
<1>3. e \in Ends(R) <=> e \in Ends(r)
  <2>1. e \in 2 .. Len(r) => e - 1 \in 1 .. Len(r) /\ e \in 2 .. Len(R)
    BY <1>1
  <2>2. e \in 2 .. Len(R) => e \in 2 .. Len(r)
    BY <1>1
  <2> QED
    BY <1>1, <1>2, <2>1, <2>2 DEF Ends
<1>4. CASE e \notin Ends(r)
  BY <1>3, <1>4 DEF PayloadAt
<1>5. CASE e \in Ends(r)
  <2>1. r[e] = "nl"
    BY <1>5 DEF Ends, BlankLine
  <2>2. ASSUME NEW i \in 1 .. Len(r), i < e PROVE LineAt(R, i) = LineAt(r, i)
    <3>1. PICK n \in i .. Len(r) + 1 : LineEndsAt(r, i, n)
      BY LineEnds
    <3>2. n <= e
      <4> SUFFICES ASSUME ~ (n <= e) PROVE FALSE
        OBVIOUS
      <4>1. e \in i .. n - 1
        BY <1>1, <2>2
      <4> QED
        BY <2>1, <3>1, <4>1 DEF LineEndsAt
    <3>3. n \in 1 .. Len(r) /\ n \in i .. Len(R) + 1 /\ i \in 1 .. Len(R)
      BY <1>1, <3>2
    <3>4. LineEndsAt(R, i, n)
      <4>1. r[n] = "nl"
        BY <1>1, <3>1, <3>3 DEF LineEndsAt
      <4>2. ASSUME NEW j \in i .. n - 1 PROVE R[j] # "nl"
        <5>1. j \in 1 .. Len(r)
          BY <1>1, <3>3
        <5> QED
          BY <1>1, <3>1, <5>1 DEF LineEndsAt
      <4> QED
        BY <1>1, <3>3, <4>1, <4>2 DEF LineEndsAt
    <3>5. LineAt(r, i) = SubSeq(r, i, n - 1)
      BY <3>1, LineIs
    <3>6. LineAt(R, i) = SubSeq(R, i, n - 1)
      BY <3>3, <3>4, LineIs
    <3>7. PICK q \in 0 .. Len(r) : q = n - 1
      BY <1>1, <3>3
    <3>8. SubSeq(r, i, q) = SubSeq(R, 0 + i, 0 + q)
      <4>1. r \in Seq(Letter) /\ R \in Seq(Letter) /\ i \in 1 .. Len(r) + 1 /\ 0 \in Nat
            /\ 0 + Len(r) <= Len(R)
        BY <1>1 DEF Bytes
      <4>2. \A j \in 1 .. Len(r) : r[j] = R[0 + j]
        BY <1>1
      <4> QED
        BY <4>1, <4>2, SameSlice
    <3>9. 0 + i = i /\ 0 + q = q
      BY <1>1
    <3> QED
      BY <3>5, <3>6, <3>7, <3>8, <3>9
  <2>3. ASSUME NEW i \in 1 .. Len(r), i < e PROVE i \in LineStarts(R) <=> i \in LineStarts(r)
    <3>1. i \in DOMAIN r /\ i \in DOMAIN R
      BY <1>1 DEF Bytes
    <3>2. i # 1 => R[i - 1] = r[i - 1]
      BY <1>1
    <3> QED
      BY <3>1, <3>2 DEF LineStarts
  <2>4. PayloadLines(R, e) \subseteq PayloadLines(r, e)
    <3>1. ASSUME NEW i \in PayloadLines(R, e) PROVE i \in PayloadLines(r, e)
      <4>1. i \in LineStarts(R) /\ i < e /\ Payload(LineAt(R, i)) # <<>>
            /\ \A j \in i .. e - 1 : ~ BlankLine(R, j)
        BY DEF PayloadLines
      <4>2. i \in 1 .. Len(r)
        BY <1>1, <4>1 DEF LineStarts, Bytes
      <4>3. \A j \in i .. e - 1 : ~ BlankLine(r, j)
        BY <1>1, <1>2, <4>1, <4>2
      <4>4. i \in LineStarts(r) /\ Payload(LineAt(r, i)) # <<>>
        BY <2>2, <2>3, <4>1, <4>2
      <4> QED
        BY <4>1, <4>3, <4>4 DEF PayloadLines
    <3> QED
      BY <3>1
  <2>5. PayloadLines(r, e) \subseteq PayloadLines(R, e)
    <3>1. ASSUME NEW i \in PayloadLines(r, e) PROVE i \in PayloadLines(R, e)
      <4>1. i \in LineStarts(r) /\ i < e /\ Payload(LineAt(r, i)) # <<>>
            /\ \A j \in i .. e - 1 : ~ BlankLine(r, j)
        BY DEF PayloadLines
      <4>2. i \in 1 .. Len(r)
        BY <1>1, <4>1 DEF LineStarts, Bytes
      <4>3. \A j \in i .. e - 1 : ~ BlankLine(R, j)
        BY <1>1, <1>2, <4>1, <4>2
      <4>4. i \in LineStarts(R) /\ Payload(LineAt(R, i)) # <<>>
        BY <2>2, <2>3, <4>1, <4>2
      <4> QED
        BY <4>1, <4>3, <4>4 DEF PayloadLines
    <3> QED
      BY <3>1
  <2>6. PayloadLines(R, e) = PayloadLines(r, e)
    BY <2>4, <2>5
  <2>7. CASE PayloadLines(r, e) = {}
    BY <2>6, <2>7 DEF PayloadAt
  <2>8. CASE PayloadLines(r, e) # {}
    <3>1. PayloadLines(r, e) \in SUBSET Nat
      BY DEF PayloadLines, LineStarts, Bytes
    <3>2. Min(PayloadLines(r, e)) \in PayloadLines(r, e)
      BY <2>8, <3>1, MinOf
    <3>3. PICK i \in PayloadLines(r, e) : i = Min(PayloadLines(r, e))
      BY <3>2
    <3>4. i \in 1 .. Len(r) /\ i < e
      BY <1>1 DEF PayloadLines, LineStarts, Bytes
    <3>5. LineAt(R, i) = LineAt(r, i)
      BY <2>2, <3>4
    <3>6. PayloadAt(r, e) = <<Payload(LineAt(r, i))>>
      BY <1>5, <2>8, <3>3 DEF PayloadAt
    <3>7. PayloadAt(R, e) = <<Payload(LineAt(R, i))>>
      BY <1>3, <1>5, <2>6, <2>8, <3>3 DEF PayloadAt
    <3> QED
      BY <3>5, <3>6, <3>7
  <2> QED
    BY <2>7, <2>8
<1> QED
  BY <1>4, <1>5
\* At a cut no event ends.
LEMMA NoneAtCut ==
    ASSUME NEW r \in Bytes, NEW k \in Nat, Cut(r, k), k # 0
    PROVE  PayloadAt(r, k) = <<>>
<1>1. k \notin Ends(r)
  BY DEF Cut, Ends
<1> QED
  BY <1>1 DEF PayloadAt

LEMMA PayloadsBehind ==
    ASSUME NEW r \in Bytes, NEW b \in Bytes, NEW k \in Nat, Behind(b, r, k), Cut(r, k)
    PROVE  PayloadsOf(r) = FlattenSeq([e \in 1 .. k |-> PayloadAt(r, e)]) \o Scan(b).events
<1> DEFINE all == [e \in DOMAIN r |-> PayloadAt(r, e)]
           left == [e \in 1 .. k |-> PayloadAt(r, e)]
           right == [i \in DOMAIN b |-> FoundAt(b, i)]
<1>1. /\ Len(r) \in Nat /\ Len(b) \in Nat /\ Len(b) = Len(r) - k
      /\ DOMAIN r = 1 .. Len(r) /\ DOMAIN b = 1 .. Len(b)
  BY DEF Bytes, Behind
<1>2. \A e \in 1 .. Len(r) : PayloadAt(r, e) \in Seq(Bytes)
  BY PayloadAtTyped
<1>3. \A e \in 1 .. k : PayloadAt(r, e) \in Seq(Bytes)
  BY PayloadAtTyped
<1>4. \A i \in 1 .. Len(b) : FoundAt(b, i) \in Seq(Bytes)
  BY FoundTyped
<1>5. all \in Seq(Seq(Bytes)) /\ Len(all) = Len(r)
  BY <1>1, <1>2
<1>6. left \in Seq(Seq(Bytes)) /\ Len(left) = k
  BY <1>3
<1>7. right \in Seq(Seq(Bytes)) /\ Len(right) = Len(b)
  BY <1>1, <1>4
<1>8. Len(all) = Len(left) + Len(right)
  BY <1>1, <1>5, <1>6, <1>7
<1>9. \A i \in 1 .. Len(left) : all[i] = left[i]
  BY <1>1, <1>5, <1>6
<1>10. ASSUME NEW i \in 1 .. Len(right) PROVE all[Len(left) + i] = right[i]
  <2>1. i \in DOMAIN b /\ i \in 1 .. Len(b) /\ k + i \in DOMAIN r
    BY <1>1, <1>7
  <2>2. FoundAt(b, i) = PayloadAt(r, k + i)
    BY <2>1, Piece
  <2> QED
    BY <1>6, <2>1, <2>2
<1>11. FlattenSeq(all) = FlattenSeq(left) \o FlattenSeq(right)
  <2> HIDE DEF all, left, right
  <2> QED
    BY <1>5, <1>6, <1>7, <1>8, <1>9, <1>10, FlattenSplit
<1>12. PayloadsOf(r) = FlattenSeq(all) /\ Scan(b).events = FlattenSeq(right)
  BY DEF PayloadsOf, Scan
<1> QED
  BY <1>11, <1>12

\* Nothing is found where no blank line is.
LEMMA NothingFound ==
    ASSUME NEW b \in Bytes, \A i \in 1 .. Len(b) : ~ BlankLine(b, i)
    PROVE  Scan(b).events = <<>>
<1> DEFINE right == [i \in DOMAIN b |-> FoundAt(b, i)]
<1>1. Len(b) \in Nat /\ DOMAIN b = 1 .. Len(b)
  BY DEF Bytes
<1>2. \A i \in 1 .. Len(b) : FoundAt(b, i) = <<>>
  BY DEF FoundAt
<1>3. right \in Seq(Seq(Bytes)) /\ Len(right) = Len(b) /\ \A i \in 1 .. Len(right) : right[i] = <<>>
  <2>1. \A i \in 1 .. Len(b) : FoundAt(b, i) \in Seq(Bytes)
    BY FoundTyped
  <2>2. right \in Seq(Seq(Bytes)) /\ Len(right) = Len(b)
    BY <1>1, <2>1
  <2>3. \A i \in 1 .. Len(b) : right[i] = <<>>
    BY <1>1, <1>2
  <2> QED
    BY <2>2, <2>3
<1>4. FlattenSeq(right) = <<>>
  <2> HIDE DEF right
  <2> QED
    BY <1>3, FlattenEmpty
<1> QED
  BY <1>4 DEF Scan

LEMMA ScanTyped ==
    ASSUME NEW b \in Bytes
    PROVE  Scan(b).events \in Seq(Bytes)
<1> DEFINE right == [i \in DOMAIN b |-> FoundAt(b, i)]
<1>1. Len(b) \in Nat /\ DOMAIN b = 1 .. Len(b)
  BY DEF Bytes
<1>2. \A i \in 1 .. Len(b) : FoundAt(b, i) \in Seq(Bytes)
  BY FoundTyped
<1>3. right \in Seq(Seq(Bytes))
  BY <1>1, <1>2
<1>4. FlattenSeq(right) \in Seq(Bytes)
  <2> HIDE DEF right
  <2> QED
    BY <1>3, FlattenTyped
<1> QED
  BY <1>4 DEF Scan

LEMMA PayloadsTyped ==
    ASSUME NEW r \in Bytes
    PROVE  PayloadsOf(r) \in Seq(Bytes)
<1> DEFINE all == [e \in DOMAIN r |-> PayloadAt(r, e)]
<1>1. Len(r) \in Nat /\ DOMAIN r = 1 .. Len(r)
  BY DEF Bytes
<1>2. \A e \in 1 .. Len(r) : PayloadAt(r, e) \in Seq(Bytes)
  BY PayloadAtTyped
<1>3. all \in Seq(Seq(Bytes))
  BY <1>1, <1>2
<1>4. FlattenSeq(all) \in Seq(Bytes)
  <2> HIDE DEF all
  <2> QED
    BY <1>3, FlattenTyped
<1> QED
  BY <1>4 DEF PayloadsOf

LEMMA StreamGoesOn ==
    ASSUME NEW r \in Bytes, NEW R \in Bytes, Prefix(r, R),
           NEW b \in Bytes, NEW B \in Bytes, NEW k \in Nat,
           Behind(b, r, k), Behind(B, R, k), Cut(r, k),
           \A i \in 1 .. Len(b) : ~ BlankLine(b, i)
    PROVE  PayloadsOf(R) = PayloadsOf(r) \o Scan(B).events
<1>1. Len(r) \in Nat /\ Len(R) \in Nat /\ Len(r) <= Len(R) /\ k <= Len(r)
  BY DEF Bytes, Prefix, Behind
<1>2. Cut(R, k)
  BY <1>1 DEF Cut, Prefix
<1>3. ASSUME NEW e \in 1 .. k PROVE PayloadAt(R, e) = PayloadAt(r, e)
  <2>1. CASE e = k
    BY <1>2, <2>1, NoneAtCut
  <2>2. CASE e # k
    <3>1. e \in 1 .. Len(r) /\ e < Len(r)
      BY <1>1, <2>2
    <3> QED
      BY <3>1, PayloadKept
  <2> QED
    BY <2>1, <2>2
<1>4. PICK left \in {[e \in 1 .. k |-> PayloadAt(r, e)]} :
         left = [e \in 1 .. k |-> PayloadAt(r, e)] /\ left = [e \in 1 .. k |-> PayloadAt(R, e)]
  BY <1>3
<1>5. FlattenSeq(left) \in Seq(Bytes)
  <2>1. \A e \in 1 .. k : PayloadAt(r, e) \in Seq(Bytes)
    BY PayloadAtTyped
  <2>2. left \in Seq(Seq(Bytes))
    BY <1>4, <2>1
  <2> QED
    BY <2>2, FlattenTyped
<1>6. PayloadsOf(R) = FlattenSeq(left) \o Scan(B).events
  BY <1>2, <1>4, PayloadsBehind
<1>7. PayloadsOf(r) = FlattenSeq(left) \o Scan(b).events
  BY <1>4, PayloadsBehind
<1>8. Scan(b).events = <<>>
  BY NothingFound
<1>9. FlattenSeq(left) \o <<>> = FlattenSeq(left)
  BY <1>5
<1> QED
  BY <1>6, <1>7, <1>8, <1>9, Zenon

\* What stays is behind a cut, and has no blank line.
LEMMA RestIs ==
    ASSUME NEW R \in Bytes, NEW B \in Bytes, NEW k \in Nat, Behind(B, R, k), Cut(R, k)
    PROVE  \E q \in Nat : /\ Scan(B).rest \in Bytes /\ Behind(Scan(B).rest, R, q) /\ Cut(R, q)
                          /\ \A i \in 1 .. Len(Scan(B).rest) : ~ BlankLine(Scan(B).rest, i)
<1>1. /\ Len(R) \in Nat /\ Len(B) \in Nat /\ Len(B) = Len(R) - k
      /\ \A j \in 1 .. Len(B) : B[j] = R[k + j]
  BY DEF Bytes, Behind
<1>2. Len(B) \in 0 .. Len(B)
  BY <1>1
<1>3. PICK s \in 1 .. Len(B) + 1 :
         /\ s = Start(B, Len(B))
         /\ s = 1 \/ (s - 2 \in 1 .. Len(B) /\ BlankLine(B, s - 2))
         /\ \A j \in 1 .. Len(B) : BlankLine(B, j) => j <= s - 2
  BY <1>2, StartIs
<1>4. SubSeq(B, s, Len(B)) \in Bytes
  BY <1>1, <1>2, Slice DEF Bytes
<1>5. PICK rest \in Bytes : rest = SubSeq(B, s, Len(B))
  BY <1>4
<1>6. Scan(B).rest = rest
  BY <1>3, <1>5 DEF Scan, Rest
<1>7. PICK q \in Nat : q = (k + s) - 1
  BY <1>1
<1>8. Len(rest) = (Len(B) - s) + 1 /\ \A i \in 1 .. Len(rest) : rest[i] = B[(s - 1) + i]
  BY <1>1, <1>5 DEF Bytes
<1>9. Behind(rest, R, q)
  <2>1. q \in 0 .. Len(R) /\ Len(rest) = Len(R) - q
    BY <1>1, <1>7, <1>8
  <2>2. ASSUME NEW i \in 1 .. Len(rest) PROVE rest[i] = R[q + i]
    <3>1. (s - 1) + i \in 1 .. Len(B) /\ k + ((s - 1) + i) = q + i
      BY <1>1, <1>7, <1>8
    <3> QED
      BY <1>1, <1>8, <3>1
  <2> QED
    BY <2>1, <2>2 DEF Behind
<1>10. Cut(R, q)
  <2>1. CASE s = 1
    <3>1. q = k
      BY <1>7, <2>1
    <3> QED
      BY <3>1
  <2>2. CASE s # 1
    <3>1. s - 2 \in 1 .. Len(B) /\ BlankLine(B, s - 2) /\ s \in Nat
      BY <1>1, <1>3, <2>2
    <3>2. k + (s - 2) = q - 1 /\ (q - 1) + 1 = q
      BY <1>1, <1>7, <3>1
    <3>3. BlankLine(R, q - 1)
      BY <3>1, <3>2, BlankSame
    <3>4. q - 1 \in Nat /\ q - 1 # 0
      BY <3>1, <3>2
    <3> QED
      BY <1>1, <3>2, <3>3, <3>4 DEF BlankLine, Cut
  <2> QED
    BY <2>1, <2>2
<1>11. ASSUME NEW i \in 1 .. Len(rest) PROVE ~ BlankLine(rest, i)
  <2>1. PICK j \in 1 .. Len(B) : j = (s - 1) + i /\ ~ (j <= s - 2) /\ q + i = k + j
    BY <1>1, <1>7, <1>8
  <2>2. ~ BlankLine(B, j)
    BY <1>3, <2>1
  <2>3. ~ BlankLine(R, k + j)
    BY <2>2, BlankSame
  <2>4. BlankLine(rest, i) <=> BlankLine(R, q + i)
    BY <1>9, BlankSame
  <2> QED
    BY <2>1, <2>3, <2>4
<1> QED
  BY <1>6, <1>9, <1>10, <1>11
-----------------------------------------------------------------------------
(***************************************************************************)
(* Payloads put into chunks.                                               *)
(***************************************************************************)
LEMMA ChunkTyped ==
    ASSUME NEW format \in Format, NEW payload \in Bytes
    PROVE  NormalizeChunk(format, payload) \in Seq(Chunk)
<1>1. <<"Done">> \in Seq(Chunk) /\ <<"Data">> \in Seq(Chunk) /\ <<>> \in Seq(Chunk)
  BY DEF Chunk
<1>2. CASE payload = <<"done">>
  BY <1>1, <1>2 DEF NormalizeChunk
<1>3. CASE payload # <<"done">> /\ (Len(payload) # 1 \/ payload[1] \notin Json)
  BY <1>1, <1>3 DEF NormalizeChunk
<1>4. CASE payload # <<"done">> /\ Len(payload) = 1 /\ payload[1] \in Json
  <2>1. format = "OpenAi" \/ format = "Claude" \/ format = "Gemini"
    BY DEF Format
  <2>2. payload[1] = "text" \/ payload[1] = "blank" \/ payload[1] = "stop"
    BY <1>4 DEF Json
  <2> QED
    BY <1>1, <1>4, <2>1, <2>2 DEF NormalizeChunk
<1> QED
  BY <1>2, <1>3, <1>4

NormalizedAll(format, payloads) == [i \in DOMAIN payloads |-> NormalizeChunk(format, payloads[i])]

LEMMA AllTyped ==
    ASSUME NEW format \in Format, NEW ps \in Seq(Bytes)
    PROVE  /\ NormalizedAll(format, ps) \in Seq(Seq(Chunk))
           /\ Len(NormalizedAll(format, ps)) = Len(ps)
           /\ \A i \in 1 .. Len(ps) : NormalizedAll(format, ps)[i] = NormalizeChunk(format, ps[i])
<1>1. Len(ps) \in Nat /\ DOMAIN ps = 1 .. Len(ps)
  OBVIOUS
<1>2. \A i \in 1 .. Len(ps) : NormalizeChunk(format, ps[i]) \in Seq(Chunk)
  BY Element, ChunkTyped
<1> QED
  BY <1>1, <1>2 DEF NormalizedAll

LEMMA NormalizedTyped ==
    ASSUME NEW format \in Format, NEW ps \in Seq(Bytes)
    PROVE  Normalized(format, ps) \in Seq(Chunk)
<1>1. FlattenSeq(NormalizedAll(format, ps)) \in Seq(Chunk)
  BY AllTyped, FlattenTyped
<1> QED
  BY <1>1 DEF Normalized, NormalizedAll

LEMMA NothingNormalized ==
    ASSUME NEW format \in Format
    PROVE  Normalized(format, <<>>) = <<>>
<1>1. NormalizedAll(format, <<>>) = <<>>
  BY DEF NormalizedAll
<1>2. FlattenSeq(<<>>) = <<>>
  BY DEF FlattenSeq
<1> QED
  BY <1>1, <1>2 DEF Normalized, NormalizedAll

LEMMA Joined ==
    ASSUME NEW A, NEW s \in Seq(A), NEW t \in Seq(A)
    PROVE  s \o t \in Seq(A)
OBVIOUS

LEMMA NormalizedJoins ==
    ASSUME NEW format \in Format, NEW ps \in Seq(Bytes), NEW qs \in Seq(Bytes)
    PROVE  Normalized(format, ps \o qs) = Normalized(format, ps) \o Normalized(format, qs)
<1>0. ps \o qs \in Seq(Bytes)
  BY Joined
<1>1. PICK all \in Seq(Bytes) : all = ps \o qs
  BY <1>0
<1>2. /\ Len(ps) \in Nat /\ Len(qs) \in Nat /\ Len(all) = Len(ps) + Len(qs)
      /\ \A i \in 1 .. Len(ps) : all[i] = ps[i]
      /\ \A i \in 1 .. Len(qs) : all[Len(ps) + i] = qs[i]
  BY <1>1
<1>3. PICK left \in Seq(Seq(Chunk)) :
         /\ left = NormalizedAll(format, ps) /\ Len(left) = Len(ps)
         /\ \A i \in 1 .. Len(ps) : left[i] = NormalizeChunk(format, ps[i])
  BY AllTyped
<1>4. PICK right \in Seq(Seq(Chunk)) :
         /\ right = NormalizedAll(format, qs) /\ Len(right) = Len(qs)
         /\ \A i \in 1 .. Len(qs) : right[i] = NormalizeChunk(format, qs[i])
  BY AllTyped
<1>5. PICK whole \in Seq(Seq(Chunk)) :
         /\ whole = NormalizedAll(format, all) /\ Len(whole) = Len(all)
         /\ \A i \in 1 .. Len(all) : whole[i] = NormalizeChunk(format, all[i])
  BY AllTyped
<1>6. Len(whole) = Len(left) + Len(right)
  BY <1>2, <1>3, <1>4, <1>5
<1>7. ASSUME NEW i \in 1 .. Len(left) PROVE whole[i] = left[i]
  <2>1. i \in 1 .. Len(ps) /\ i \in 1 .. Len(all)
    BY <1>2, <1>3
  <2> QED
    BY <1>2, <1>3, <1>5, <2>1
<1>8. ASSUME NEW i \in 1 .. Len(right) PROVE whole[Len(left) + i] = right[i]
  <2>1. i \in 1 .. Len(qs) /\ Len(ps) + i \in 1 .. Len(all)
    BY <1>2, <1>4
  <2> QED
    BY <1>2, <1>3, <1>4, <1>5, <2>1
<1>9. FlattenSeq(whole) = FlattenSeq(left) \o FlattenSeq(right)
  BY <1>6, <1>7, <1>8, FlattenSplit
<1> QED
  BY <1>1, <1>3, <1>4, <1>5, <1>9, Zenon DEF Normalized, NormalizedAll

LEMMA NoPayloads == PayloadsOf(<<>>) = <<>>
<1>1. [e \in DOMAIN <<>> |-> PayloadAt(<<>>, e)] = <<>>
  OBVIOUS
<1>2. FlattenSeq(<<>>) = <<>>
  BY DEF FlattenSeq
<1> QED
  BY <1>1, <1>2 DEF PayloadsOf

-----------------------------------------------------------------------------
(***************************************************************************)
(* The calls.                                                              *)
(***************************************************************************)
Streaming == {"streaming", "broken", "closed"}

CallRecord == [format : Format, streamed : BOOLEAN, reached : BOOLEAN]

\* Where a call is, and which of them have been prepared.
CallOK ==
    /\ phase \in {"new", "built", "waiting", "failed", "answered", "panicked",
                  "streaming", "broken", "closed"}
    /\ call = Nothing \/ call \in CallRecord
    /\ phase \notin {"new", "failed"} => call \in CallRecord

\* The buffer is what of the stream is behind a cut, and no event is in it.
BufferOK ==
    /\ \E k \in Nat : Behind(buffer, read, k) /\ Cut(read, k)
    /\ \A i \in 1 .. Len(buffer) : ~ BlankLine(buffer, i)

StreamOK ==
    /\ wire \in Bytes /\ buffer \in Bytes /\ read \in Bytes /\ out \in Seq(Chunk)
    /\ phase \notin Streaming => wire = <<>> /\ buffer = <<>> /\ read = <<>> /\ out = <<>>
    /\ phase # "closed" => BufferOK
    /\ phase = "closed" => buffer = <<>>

\* What the code does with the bytes it has read: chunks of the complete events
\* and, since what is behind the last of them is never used, of no others.
WholeEvents ==
    phase \in {"streaming", "broken", "closed"} =>
        LET chunks == Normalized(call.format, PayloadsOf(read))
        IN  \/ phase # "broken" /\ out = chunks
            \/ phase # "streaming" /\ out = Append(chunks, "[ERROR]")

SInv == CallOK /\ StreamOK /\ WholeEvents

\* With an empty buffer at the start of a stream there is nothing to scan for.
LEMMA EmptyBuffer ==
    ASSUME buffer = <<>>, read = <<>>
    PROVE  BufferOK
<1>1. Behind(<<>>, <<>>, 0) /\ Cut(<<>>, 0)
  BY DEF Behind, Cut
<1>2. \A i \in 1 .. Len(<<>>) : ~ BlankLine(<<>>, i)
  OBVIOUS
<1> QED
  BY <1>1, <1>2 DEF BufferOK

LEMMA SInit == Init => SInv
<1> SUFFICES ASSUME Init PROVE SInv
  OBVIOUS
<1>1. BufferOK
  BY EmptyBuffer DEF Init
<1>2. <<>> \in Bytes /\ <<>> \in Seq(Chunk)
  BY DEF Bytes
<1> QED
  BY <1>1, <1>2 DEF Init, SInv, CallOK, StreamOK, WholeEvents, Streaming

\* A step outside of streams leaves them alone.
LEMMA Aside ==
    ASSUME SInv, phase \notin Streaming, phase' \notin Streaming,
           UNCHANGED <<wire, buffer, out, read>>
    PROVE  StreamOK' /\ WholeEvents'
<1>1. StreamOK
  BY DEF SInv
<1>2. BufferOK'
  <2>1. BufferOK
    BY <1>1 DEF StreamOK, Streaming
  <2> QED
    BY <2>1 DEF BufferOK
<1>3. StreamOK'
  BY <1>1, <1>2 DEF StreamOK, Streaming
<1> QED
  BY <1>3 DEF WholeEvents, Streaming

LEMMA SPrepare ==
    ASSUME SInv, NEW route \in Routes, NEW r \in Requests, Prepare(route, r)
    PROVE  SInv'
<1>1. route.format \in Format /\ r.streamed \in BOOLEAN
  BY ExchangeAssumption DEF Request, Route
<1>2. StreamOK' /\ WholeEvents'
  BY Aside DEF Prepare, Streaming
<1>3. CallOK'
  <2>1. (Paths(route.base, r.streamed) = 1) \in BOOLEAN
    OBVIOUS
  <2>2. call' = [format |-> route.format, streamed |-> r.streamed,
                 reached |-> Paths(route.base, r.streamed) = 1]
    BY DEF Prepare
  <2>3. call' \in CallRecord
    BY <1>1, <2>1, <2>2 DEF CallRecord
  <2>4. phase' = "built"
    BY DEF Prepare
  <2> QED
    BY <2>3, <2>4 DEF CallOK
<1> QED
  BY <1>2, <1>3 DEF SInv

\* Steps that end a call, or send it.
LEMMA SPlain ==
    ASSUME SInv, phase \notin Streaming,
           phase' \in {"waiting", "failed", "answered", "panicked"},
           phase' \in {"waiting", "answered", "panicked"} => phase \in {"built", "waiting"},
           UNCHANGED <<call, wire, buffer, out, read>>
    PROVE  SInv'
<1>1. StreamOK' /\ WholeEvents'
  BY Aside DEF Streaming
<1>2. CallOK'
  BY DEF SInv, CallOK
<1> QED
  BY <1>1, <1>2 DEF SInv

LEMMA SEstablish ==
    ASSUME SInv, Establish
    PROVE  SInv'
<1>1. phase = "waiting" /\ phase' = "streaming" /\ call \in CallRecord
  BY DEF SInv, CallOK, Establish
<1>2. wire = <<>> /\ buffer = <<>> /\ read = <<>> /\ out = <<>> /\ BufferOK
  BY <1>1 DEF SInv, StreamOK, Streaming
<1>3. UNCHANGED <<call, wire, buffer, out, read>>
  BY DEF Establish
<1>4. CallOK'
  BY <1>1, <1>3 DEF SInv, CallOK
<1>5. BufferOK'
  BY <1>2, <1>3 DEF BufferOK
<1>6. StreamOK'
  BY <1>1, <1>3, <1>5 DEF SInv, StreamOK, Streaming
<1>7. Normalized(call.format, PayloadsOf(read)) = <<>>
  <2>1. call.format \in Format
    BY <1>1 DEF CallRecord
  <2> QED
    BY <1>2, <2>1, NoPayloads, NothingNormalized
<1>8. WholeEvents'
  BY <1>1, <1>2, <1>3, <1>7 DEF WholeEvents
<1> QED
  BY <1>4, <1>6, <1>8 DEF SInv

LEMMA SWrite ==
    ASSUME SInv, phase = "streaming", NEW s \in Fragments[call.format], Write(s)
    PROVE  SInv'
<1>1. call \in CallRecord /\ wire \in Bytes
  BY DEF SInv, CallOK, StreamOK
<1>2. s \in Bytes
  BY <1>1, ExchangeAssumption DEF CallRecord, Bytes
<1>3. wire' \in Bytes
  BY <1>1, <1>2, Joined DEF Write, Bytes
<1>4. UNCHANGED <<phase, call, buffer, out, read>>
  BY DEF Write
<1>5. BufferOK'
  BY <1>4 DEF SInv, StreamOK, BufferOK
<1> QED
  BY <1>3, <1>4, <1>5 DEF SInv, CallOK, StreamOK, WholeEvents, Streaming

LEMMA SBreak ==
    ASSUME SInv, Break
    PROVE  SInv'
<1>1. phase = "streaming" /\ phase' = "broken" /\ UNCHANGED <<call, buffer, read>>
  BY DEF Break
<1>2. wire' = <<>> /\ out' = Append(out, "[ERROR]")
  BY DEF Break
<1>3. out \in Seq(Chunk) /\ "[ERROR]" \in Chunk
  BY DEF SInv, StreamOK, Chunk
<1>4. out' \in Seq(Chunk) /\ wire' \in Bytes
  BY <1>2, <1>3 DEF Bytes
<1>5. BufferOK'
  BY <1>1 DEF SInv, StreamOK, BufferOK
<1>6. StreamOK'
  BY <1>1, <1>4, <1>5 DEF SInv, StreamOK, Streaming
<1>7. CallOK'
  BY <1>1 DEF SInv, CallOK
<1>8. WholeEvents'
  BY <1>1, <1>2 DEF SInv, WholeEvents
<1> QED
  BY <1>6, <1>7, <1>8 DEF SInv

LEMMA SClose ==
    ASSUME SInv, Close
    PROVE  SInv'
<1>1. /\ phase \in {"streaming", "broken"} /\ phase' = "closed"
      /\ buffer' = <<>> /\ UNCHANGED <<call, wire, out, read>>
  BY DEF Close
<1>2. StreamOK'
  <2>1. <<>> \in Bytes
    BY DEF Bytes
  <2> QED
    BY <1>1, <2>1 DEF SInv, StreamOK, Streaming
<1>3. CallOK'
  BY <1>1 DEF SInv, CallOK
<1>4. WholeEvents'
  BY <1>1 DEF SInv, WholeEvents
<1> QED
  BY <1>2, <1>3, <1>4 DEF SInv
\* What is received is behind the same cut, at the end of a longer stream.
LEMMA Received ==
    ASSUME NEW r \in Bytes, NEW b \in Bytes, NEW c \in Bytes, NEW k \in Nat, Behind(b, r, k)
    PROVE  /\ r \o c \in Bytes /\ b \o c \in Bytes
           /\ Prefix(r, r \o c) /\ Behind(b \o c, r \o c, k)
<1>1. r \o c \in Bytes /\ b \o c \in Bytes
  BY Joined DEF Bytes
<1>2. PICK R \in Bytes, B \in Bytes : R = r \o c /\ B = b \o c
  BY <1>1
<1>3. /\ Len(r) \in Nat /\ Len(b) \in Nat /\ Len(c) \in Nat
      /\ Len(R) = Len(r) + Len(c) /\ Len(B) = Len(b) + Len(c)
      /\ \A j \in 1 .. Len(r) : R[j] = r[j]
      /\ \A j \in 1 .. Len(b) : B[j] = b[j]
      /\ \A j \in 1 .. Len(c) : R[Len(r) + j] = c[j] /\ B[Len(b) + j] = c[j]
  BY <1>2 DEF Bytes
<1>4. k \in 0 .. Len(r) /\ Len(b) = Len(r) - k /\ \A j \in 1 .. Len(b) : b[j] = r[k + j]
  BY DEF Behind
<1>5. Prefix(r, R)
  BY <1>3 DEF Prefix
<1>6. ASSUME NEW j \in 1 .. Len(B) PROVE B[j] = R[k + j]
  <2>1. CASE j <= Len(b)
    <3>1. j \in 1 .. Len(b) /\ k + j \in 1 .. Len(r)
      BY <1>3, <1>4, <2>1
    <3> QED
      BY <1>3, <1>4, <3>1
  <2>2. CASE ~ (j <= Len(b))
    <3>1. PICK i \in 1 .. Len(c) : j = Len(b) + i /\ k + j = Len(r) + i
      <4>1. j - Len(b) \in 1 .. Len(c) /\ k + j = Len(r) + (j - Len(b)) /\ j = Len(b) + (j - Len(b))
        BY <1>3, <1>4, <2>2
      <4> QED
        BY <4>1
    <3> QED
      BY <1>3, <3>1
  <2> QED
    BY <2>1, <2>2
<1>7. Behind(B, R, k)
  BY <1>3, <1>4, <1>6 DEF Behind
<1> QED
  BY <1>1, <1>2, <1>5, <1>7

LEMMA SReceive ==
    ASSUME SInv, NEW n \in 1 .. Len(wire), Receive(n)
    PROVE  SInv'
<1>1. /\ wire \in Bytes /\ buffer \in Bytes /\ read \in Bytes /\ out \in Seq(Chunk)
      /\ phase = "streaming" /\ phase' = "streaming" /\ call' = call /\ call \in CallRecord
      /\ BufferOK
  BY DEF SInv, StreamOK, CallOK, Receive
<1>2. Len(wire) \in Nat /\ n \in Nat /\ n <= Len(wire)
  BY <1>1 DEF Bytes
<1>3. SubSeq(wire, 1, n) \in Bytes /\ SubSeq(wire, n + 1, Len(wire)) \in Bytes
  <2>1. \A i \in 1 .. Len(wire) : wire[i] \in Letter
    BY <1>1 DEF Bytes
  <2> QED
    BY <1>1, <1>2, <2>1 DEF Bytes
<1>4. PICK r \in Bytes, b \in Bytes, c \in Bytes, k \in Nat :
         /\ r = read /\ b = buffer /\ c = SubSeq(wire, 1, n)
         /\ Behind(b, r, k) /\ Cut(r, k) /\ \A i \in 1 .. Len(b) : ~ BlankLine(b, i)
  BY <1>1, <1>3 DEF BufferOK
<1>5. PICK R \in Bytes, B \in Bytes :
         R = r \o c /\ B = b \o c /\ Prefix(r, R) /\ Behind(B, R, k)
  <2>1. Behind(b, r, k)
    BY <1>4
  <2> QED
    BY <2>1, Received
<1>6. PICK format \in Format : format = call.format
  BY <1>1 DEF CallRecord
<1>7. /\ wire' = SubSeq(wire, n + 1, Len(wire)) /\ read' = R /\ buffer' = Scan(B).rest
      /\ out' = out \o Normalized(format, Scan(B).events)
  BY <1>4, <1>5, <1>6 DEF Receive
<1>8. PayloadsOf(R) = PayloadsOf(r) \o Scan(B).events
  <2>1. /\ Prefix(r, R) /\ Behind(b, r, k) /\ Behind(B, R, k) /\ Cut(r, k)
        /\ \A i \in 1 .. Len(b) : ~ BlankLine(b, i)
    BY <1>4, <1>5
  <2> QED
    BY <2>1, StreamGoesOn
<1>9. PayloadsOf(r) \in Seq(Bytes) /\ Scan(B).events \in Seq(Bytes)
  BY PayloadsTyped, ScanTyped
<1>10. Normalized(format, PayloadsOf(R))
          = Normalized(format, PayloadsOf(r)) \o Normalized(format, Scan(B).events)
  BY <1>8, <1>9, NormalizedJoins
<1>11. out = Normalized(format, PayloadsOf(r))
  BY <1>1, <1>4, <1>6 DEF SInv, WholeEvents
<1>12. WholeEvents'
  BY <1>1, <1>6, <1>7, <1>10, <1>11 DEF WholeEvents
<1>13. out' \in Seq(Chunk)
  <2>1. Normalized(format, Scan(B).events) \in Seq(Chunk)
    BY <1>9, NormalizedTyped
  <2> QED
    BY <1>1, <1>7, <2>1, Joined
<1>14. Cut(R, k)
  BY <1>4, <1>5 DEF Cut, Prefix, Behind, Bytes
<1>15. PICK q \in Nat : /\ Scan(B).rest \in Bytes /\ Behind(Scan(B).rest, R, q) /\ Cut(R, q)
                        /\ \A i \in 1 .. Len(Scan(B).rest) : ~ BlankLine(Scan(B).rest, i)
  BY <1>5, <1>14, RestIs
<1>16. BufferOK'
  BY <1>7, <1>15 DEF BufferOK
<1>17. StreamOK'
  BY <1>1, <1>3, <1>7, <1>13, <1>15, <1>16 DEF StreamOK, Streaming
<1>18. CallOK'
  BY <1>1 DEF CallOK
<1> QED
  BY <1>12, <1>17, <1>18 DEF SInv

LEMMA SNext == SInv /\ [Next]_vars => SInv'
<1> SUFFICES ASSUME SInv, [Next]_vars PROVE SInv'
  OBVIOUS
<1>1. ASSUME NEW route \in Routes, NEW r \in Requests, Prepare(route, r) PROVE SInv'
  BY <1>1, SPrepare
<1>2. CASE Send
  BY <1>2, SPlain DEF Send, Streaming
<1>3. ASSUME NEW kind \in ErrorKind, NEW says \in SUBSET Phrase, Unrouted(kind, says) PROVE SInv'
  BY <1>3, SPlain DEF Unrouted, FailWith, Streaming
<1>4. ASSUME NEW status \in Statuses, NEW says \in SUBSET Phrase, Refuse(status, says) PROVE SInv'
  BY <1>4, SPlain DEF Refuse, FailWith, Streaming
<1>5. CASE Unanswered
  BY <1>5, SPlain DEF Unanswered, FailWith, Streaming
<1>6. ASSUME phase = "waiting", NEW body \in Bodies[call.format],
             AnswerUnreadable(body) \/ AnswerPanics(body) \/ Answer(body)
      PROVE SInv'
  BY <1>6, SPlain DEF AnswerUnreadable, AnswerPanics, Answer, FailWith, Streaming
<1>7. CASE Establish
  BY <1>7, SEstablish
<1>8. ASSUME phase = "streaming", NEW s \in Fragments[call.format], Write(s) PROVE SInv'
  BY <1>8, SWrite
<1>9. ASSUME NEW n \in 1 .. Len(wire), Receive(n) PROVE SInv'
  BY <1>9, SReceive
<1>10. CASE Break
  BY <1>10, SBreak
<1>11. CASE Close
  BY <1>11, SClose
<1>12. CASE UNCHANGED vars
  BY <1>12 DEF vars, SInv, CallOK, StreamOK, BufferOK, WholeEvents
<1> QED
  BY <1>1, <1>2, <1>3, <1>4, <1>5, <1>6, <1>7, <1>8, <1>9, <1>10, <1>11, <1>12 DEF Next

LEMMA SAlways == Spec => []SInv
<1> QED
  BY SInit, SNext, PTL DEF Spec

(***************************************************************************)
(* Every variable has its type, and between two network chunks there is no *)
(* complete event in the buffer of parse_sse_stream: the scan finds all of *)
(* them, whatever it found before.                                         *)
(***************************************************************************)
THEOREM TypeCorrect == Spec => []TypeOK
<1>1. SInv => TypeOK
  <2> SUFFICES ASSUME SInv PROVE TypeOK
    OBVIOUS
  <2>1. /\ wire \in Seq(Letter) /\ buffer \in Seq(Letter) /\ read \in Seq(Letter)
        /\ out \in Seq(Chunk) /\ Len(buffer) \in Nat
    BY DEF SInv, StreamOK, Bytes
  <2>2. ASSUME NEW i \in 1 .. Len(buffer) - 1
        PROVE  ~ (buffer[i] = "nl" /\ buffer[i + 1] = "nl")
    <3>1. phase # "closed"
      <4>1. Len(<<>>) = 0
        OBVIOUS
      <4> QED
        BY <2>1, <4>1 DEF SInv, StreamOK
    <3>2. i \in 1 .. Len(buffer) /\ i < Len(buffer)
      BY <2>1
    <3> QED
      BY <3>1, <3>2 DEF SInv, StreamOK, BufferOK, BlankLine
  <2> QED
    BY <2>1, <2>2 DEF SInv, CallOK, CallRecord, TypeOK
<1> QED
  BY <1>1, SAlways, PTL

(***************************************************************************)
(* Wherever the network cuts a stream, the client gets the chunks of all   *)
(* events that are complete, once each and in order, with an error after   *)
(* them if the connection broke; of an event that the stream ends in the   *)
(* middle of nothing is said (parse_sse_stream, normalize_chunk).          *)
(***************************************************************************)
THEOREM ChunkingIsInvisible == Spec => []ChunkingInvisible
<1>1. SInv => ChunkingInvisible
  <2> SUFFICES ASSUME SInv, phase \in Streaming PROVE ChunkingInvisible
    BY DEF ChunkingInvisible, Streaming
  <2> DEFINE complete == Normalized(call.format, PayloadsOf(read))
             ended == Normalized(call.format, PayloadsOf(read \o <<"nl", "nl">>))
             trailing == SubSeq(ended, Len(complete) + 1, Len(ended))
  <2>1. complete \in Seq(Chunk)
    <3>1. PayloadsOf(read) \in Seq(Bytes)
      BY PayloadsTyped DEF SInv, StreamOK
    <3>2. call.format \in Format
      BY DEF SInv, CallOK, CallRecord, Streaming
    <3> QED
      BY <3>1, <3>2, NormalizedTyped
  <2>2. \/ phase # "broken" /\ out = complete
        \/ phase # "streaming" /\ out = Append(complete, "[ERROR]")
    BY DEF SInv, WholeEvents, Streaming
  <2> HIDE DEF complete, ended, trailing
  <2>3. /\ complete = complete \o <<>> \o <<>>
        /\ Append(complete, "[ERROR]") = complete \o <<"[ERROR]">> \o <<>>
    BY <2>1
  <2>4. PICK error \in {<<>>, <<"[ERROR]">>} :
           /\ out = complete \o error \o <<>>
           /\ phase = "streaming" => error = <<>>
           /\ phase = "broken" => error # <<>>
    BY <2>2, <2>3
  <2>5. \E e \in {<<>>, <<"[ERROR]">>}, last \in {<<>>, trailing} :
           /\ out = complete \o e \o last
           /\ phase = "streaming" => e = <<>>
           /\ phase = "broken" => e # <<>>
           /\ phase # "closed" => last = <<>>
    <3> WITNESS error \in {<<>>, <<"[ERROR]">>}, <<>> \in {<<>>, trailing}
    <3> QED
      BY <2>4
  <2> QED
    BY <2>5 DEF ChunkingInvisible, complete, ended, trailing
<1> QED
  BY <1>1, SAlways, PTL

-----------------------------------------------------------------------------
(***************************************************************************)
(* The status of an error.                                                 *)
(***************************************************************************)
\* The order as a table.
LEMMA Rows ==
    /\ GuessOrder[1][1] = "rate limited" /\ GuessOrder[1][2] = "RateLimited"
    /\ GuessOrder[2][1] = "authentication failed" /\ GuessOrder[2][2] = "AuthFailed"
    /\ GuessOrder[3][1] = "timeout" /\ GuessOrder[3][2] = "Timeout"
    /\ GuessOrder[4][1] = "network error" /\ GuessOrder[4][2] = "Network"
    /\ GuessOrder[5][1] = "no provider registered" /\ GuessOrder[5][2] = "UnsupportedProvider"
    /\ GuessOrder[6][1] = "upstream error" /\ GuessOrder[6][2] = "Upstream"
<1>1. GuessOrder[1][1] = "rate limited" /\ GuessOrder[1][2] = "RateLimited"
  BY DEF GuessOrder
<1>2. GuessOrder[2][1] = "authentication failed" /\ GuessOrder[2][2] = "AuthFailed"
  BY DEF GuessOrder
<1>3. GuessOrder[3][1] = "timeout" /\ GuessOrder[3][2] = "Timeout"
  BY DEF GuessOrder
<1>4. GuessOrder[4][1] = "network error" /\ GuessOrder[4][2] = "Network"
  BY DEF GuessOrder
<1>5. GuessOrder[5][1] = "no provider registered" /\ GuessOrder[5][2] = "UnsupportedProvider"
  BY DEF GuessOrder
<1>6. GuessOrder[6][1] = "upstream error" /\ GuessOrder[6][2] = "Upstream"
  BY DEF GuessOrder
<1> QED
  BY <1>1, <1>2, <1>3, <1>4, <1>5, <1>6

LEMMA Table ==
    ASSUME NEW text, NEW i
    PROVE  i \in Guesses(text) <=>
              \/ i = 1 /\ "rate limited" \in text
              \/ i = 2 /\ "authentication failed" \in text
              \/ i = 3 /\ "timeout" \in text
              \/ i = 4 /\ "network error" \in text
              \/ i = 5 /\ "no provider registered" \in text
              \/ i = 6 /\ "upstream error" \in text
<1>1. DOMAIN GuessOrder = 1 .. 6
  BY DEF GuessOrder
<1>2. i \in 1 .. 6 <=> i = 1 \/ i = 2 \/ i = 3 \/ i = 4 \/ i = 5 \/ i = 6
  OBVIOUS
<1>3. i \in Guesses(text) <=> i \in 1 .. 6 /\ GuessOrder[i][1] \in text
  BY <1>1 DEF Guesses
<1> QED
  BY <1>2, <1>3, Rows

\* The first phrase decides.
LEMMA Guessed ==
    ASSUME NEW text, NEW i \in 1 .. 6, \A j : j \in Guesses(text) <=> j = i
    PROVE  ClientStatus(text) = StatusFor(GuessOrder[i][2])
<1>0. Guesses(text) = {i}
  OBVIOUS
<1>1. Min({i}) = i
  BY MinIs
<1>2. Guesses(text) # {}
  BY <1>0
<1> QED
  BY <1>0, <1>1, <1>2 DEF ClientStatus

LEMMA Places == 1 \in 1 .. 6 /\ 2 \in 1 .. 6 /\ 4 \in 1 .. 6 /\ 5 \in 1 .. 6 /\ 6 \in 1 .. 6
OBVIOUS

\* The words of an error alone lead to its own status.
LEMMA OwnWords ==
    ASSUME NEW kind \in ErrorKind
    PROVE  ClientStatus(OwnPhrase(kind)) = IF kind = "UnsupportedProvider" THEN 502 ELSE StatusFor(kind)
<1>1. PICK text \in {OwnPhrase(kind)} : text = OwnPhrase(kind)
  OBVIOUS
<1>2. CASE kind = "RateLimited"
  <2>1. text = {"rate limited"}
    BY <1>1, <1>2 DEF OwnPhrase
  <2>2. \A i : i \in Guesses(text) <=> i = 1
    <3>1. /\ "rate limited" \in text /\ "authentication failed" \notin text /\ "timeout" \notin text
          /\ "network error" \notin text /\ "no provider registered" \notin text /\ "upstream error" \notin text
      BY <2>1
    <3> QED
      BY <3>1, Table, Zenon
  <2>3. GuessOrder[1][2] = kind
    BY <1>2, Rows
  <2>4. 1 \in 1 .. 6
    BY Places
  <2> QED
    BY <1>1, <1>2, <2>2, <2>3, <2>4, Guessed
<1>3. CASE kind = "AuthFailed"
  <2>1. text = {"authentication failed"}
    BY <1>1, <1>3 DEF OwnPhrase
  <2>2. \A i : i \in Guesses(text) <=> i = 2
    <3>1. /\ "rate limited" \notin text /\ "authentication failed" \in text /\ "timeout" \notin text
          /\ "network error" \notin text /\ "no provider registered" \notin text /\ "upstream error" \notin text
      BY <2>1
    <3> QED
      BY <3>1, Table, Zenon
  <2>3. GuessOrder[2][2] = kind
    BY <1>3, Rows
  <2>4. 2 \in 1 .. 6
    BY Places
  <2> QED
    BY <1>1, <1>3, <2>2, <2>3, <2>4, Guessed
<1>4. CASE kind = "Upstream"
  <2>1. text = {"upstream error"}
    BY <1>1, <1>4 DEF OwnPhrase
  <2>2. \A i : i \in Guesses(text) <=> i = 6
    <3>1. /\ "rate limited" \notin text /\ "authentication failed" \notin text /\ "timeout" \notin text
          /\ "network error" \notin text /\ "no provider registered" \notin text /\ "upstream error" \in text
      BY <2>1
    <3> QED
      BY <3>1, Table, Zenon
  <2>3. GuessOrder[6][2] = kind
    BY <1>4, Rows
  <2>4. 6 \in 1 .. 6
    BY Places
  <2> QED
    BY <1>1, <1>4, <2>2, <2>3, <2>4, Guessed
<1>5. CASE kind = "Network"
  <2>1. text = {"network error"}
    BY <1>1, <1>5 DEF OwnPhrase
  <2>2. \A i : i \in Guesses(text) <=> i = 4
    <3>1. /\ "rate limited" \notin text /\ "authentication failed" \notin text /\ "timeout" \notin text
          /\ "network error" \in text /\ "no provider registered" \notin text /\ "upstream error" \notin text
      BY <2>1
    <3> QED
      BY <3>1, Table, Zenon
  <2>3. GuessOrder[4][2] = kind
    BY <1>5, Rows
  <2>4. 4 \in 1 .. 6
    BY Places
  <2> QED
    BY <1>1, <1>5, <2>2, <2>3, <2>4, Guessed
<1>6. CASE kind = "InvalidResponse" \/ kind = "UnsupportedProvider"
  <2>1. text = {}
    BY <1>1, <1>6 DEF OwnPhrase
  <2>2. Guesses(text) = {}
    BY <2>1, Table
  <2>3. ClientStatus(text) = 502
    BY <2>2 DEF ClientStatus
  <2>4. kind = "InvalidResponse" => StatusFor(kind) = 502
    BY DEF StatusFor
  <2> QED
    BY <1>1, <1>6, <2>3, <2>4
<1> QED
  BY <1>2, <1>3, <1>4, <1>5, <1>6 DEF ErrorKind

LEMMA Unregistered ==
    ASSUME NEW text \in {{"no provider registered"}}
    PROVE  ClientStatus(text) = 400
<1>1. \A i : i \in Guesses(text) <=> i = 5
  <2>1. /\ "rate limited" \notin text /\ "authentication failed" \notin text /\ "timeout" \notin text
        /\ "network error" \notin text /\ "no provider registered" \in text /\ "upstream error" \notin text
    OBVIOUS
  <2> QED
    BY <2>1, Table, Zenon
<1>2. 5 \in 1 .. 6
  BY Places
<1>3. StatusFor(GuessOrder[5][2]) = 400
  BY Rows DEF StatusFor
<1>4. ClientStatus(text) = StatusFor(GuessOrder[5][2])
  BY <1>1, <1>2, Guessed
<1> QED
  BY <1>3, <1>4

\* However a chain fails, the status is the right one.
LEMMA Failed ==
    ASSUME NEW kind \in ErrorKind, NEW says \in SUBSET Phrase, FailWith(kind, says)
    PROVE  StatusTrue'
<1>1. /\ said' = [kind |-> kind, says |-> says]
      /\ reply'.status = ClientStatus(OwnPhrase(kind) \cup says)
  BY DEF FailWith
<1>2. said'.kind = kind /\ said'.says = says
  BY <1>1
<1>3. CASE says = {}
  <2>1. said' = [kind |-> "UnsupportedProvider", says |-> {}] <=> kind = "UnsupportedProvider"
    BY <1>1, <1>2, <1>3
  <2>2. OwnPhrase(kind) \cup says = OwnPhrase(kind)
    BY <1>3
  <2>3. reply'.status = IF kind = "UnsupportedProvider" THEN 502 ELSE StatusFor(kind)
    BY <1>1, <2>2, OwnWords
  <2> QED
    BY <1>2, <2>1, <2>3 DEF StatusTrue
<1>4. CASE says # {} /\ said' = [kind |-> "UnsupportedProvider", says |-> {"no provider registered"}]
  <2>1. kind = "UnsupportedProvider" /\ says = {"no provider registered"}
    BY <1>2, <1>4
  <2>2. said' # [kind |-> "UnsupportedProvider", says |-> {}]
    BY <1>2, <1>4
  <2>3. StatusFor("UnsupportedProvider") = 400 /\ OwnPhrase("UnsupportedProvider") = {}
    BY DEF StatusFor, OwnPhrase
  <2>4. OwnPhrase(kind) \cup says = {"no provider registered"}
    BY <2>1, <2>3
  <2>5. ClientStatus(OwnPhrase(kind) \cup says) = 400
    BY <2>4, Unregistered
  <2>6. reply'.status = 400 /\ StatusFor(said'.kind) = 400
    BY <1>1, <1>2, <2>1, <2>3, <2>5
  <2> QED
    BY <2>2, <2>6 DEF StatusTrue
<1> QED
  BY <1>2, <1>3, <1>4 DEF StatusTrue

(***************************************************************************)
(* The client gets the status of the error that ended the chain, although  *)
(* parse_executor_error guesses it from a text, unless another error's     *)
(* words have been put into the text.                                      *)
(***************************************************************************)
THEOREM StatusIsTrue == Spec => []StatusTrue
<1>1. Init => StatusTrue
  BY DEF Init, StatusTrue
<1>2. StatusTrue /\ [Next]_vars => StatusTrue'
  <2> SUFFICES ASSUME StatusTrue, [Next]_vars PROVE StatusTrue'
    OBVIOUS
  <2>1. ASSUME NEW route \in Routes, NEW r \in Requests, Prepare(route, r) PROVE StatusTrue'
    BY <2>1 DEF Prepare, StatusTrue
  <2>2. CASE Send
    BY <2>2 DEF Send, StatusTrue
  <2>3. ASSUME NEW kind \in ErrorKind, NEW says \in SUBSET Phrase, Unrouted(kind, says)
        PROVE  StatusTrue'
    BY <2>3, Failed DEF Unrouted
  <2>4. ASSUME NEW status \in Statuses, NEW says \in SUBSET Phrase, Refuse(status, says)
        PROVE  StatusTrue'
    <3>1. StatusError(status) \in ErrorKind
      BY DEF StatusError, ErrorKind
    <3> QED
      BY <2>4, <3>1, Failed DEF Refuse
  <2>5. CASE Unanswered
    <3>1. "Network" \in ErrorKind /\ {} \in SUBSET Phrase
      BY DEF ErrorKind
    <3> QED
      BY <2>5, <3>1, Failed DEF Unanswered
  <2>6. ASSUME NEW body \in Bodies[call.format],
               AnswerUnreadable(body) \/ AnswerPanics(body) \/ Answer(body)
        PROVE  StatusTrue'
    <3>1. CASE AnswerUnreadable(body)
      <4>1. "InvalidResponse" \in ErrorKind /\ {} \in SUBSET Phrase
        BY DEF ErrorKind
      <4> QED
        BY <3>1, <4>1, Failed DEF AnswerUnreadable
    <3>2. CASE AnswerPanics(body) \/ Answer(body)
      BY <3>2 DEF AnswerPanics, Answer, StatusTrue
    <3> QED
      BY <2>6, <3>1, <3>2
  <2>7. CASE Establish
    BY <2>7 DEF Establish, StatusTrue
  <2>8. ASSUME phase = "streaming", NEW s \in Fragments[call.format], Write(s) PROVE StatusTrue'
    BY <2>8 DEF Write, StatusTrue
  <2>9. ASSUME NEW n \in 1 .. Len(wire), Receive(n) PROVE StatusTrue'
    BY <2>9 DEF Receive, StatusTrue
  <2>10. CASE Break
    BY <2>10 DEF Break, StatusTrue
  <2>11. CASE Close
    BY <2>11 DEF Close, StatusTrue
  <2>12. CASE UNCHANGED vars
    BY <2>12 DEF vars, StatusTrue
  <2> QED
    BY <2>1, <2>2, <2>3, <2>4, <2>5, <2>6, <2>7, <2>8, <2>9, <2>10, <2>11, <2>12 DEF Next
<1> QED
  BY <1>1, <1>2, PTL DEF Spec
-----------------------------------------------------------------------------
(***************************************************************************)
(* What occurs in sequences that are joined, and in which order: R has the *)
(* pairs that may follow each other.                                       *)
(***************************************************************************)
Occurs(x, s) == \E i \in 1 .. Len(s) : s[i] = x

Ordered(s, R) == \A i, j \in 1 .. Len(s) : i < j => <<s[i], s[j]>> \in R

Before(s, t, R) == \A i \in 1 .. Len(s), j \in 1 .. Len(t) : <<s[i], t[j]>> \in R

\* An element of a joined sequence is one of either.
Halves(s, t, u) ==
    /\ Len(u) = Len(s) + Len(t)
    /\ \A i \in 1 .. Len(s) : u[i] = s[i]
    /\ \A i \in 1 .. Len(t) : u[Len(s) + i] = t[i]
    /\ \A i \in 1 .. Len(u) : i \in 1 .. Len(s) \/ \E j \in 1 .. Len(t) : i = Len(s) + j

LEMMA JoinHalves ==
    ASSUME NEW X, NEW s \in Seq(X), NEW t \in Seq(X)
    PROVE  Halves(s, t, s \o t)
<1>1. PICK u \in Seq(X) : u = s \o t
  BY Joined
<1>2. /\ Len(s) \in Nat /\ Len(t) \in Nat /\ Len(u) \in Nat /\ Len(u) = Len(s) + Len(t)
      /\ \A i \in 1 .. Len(s) : u[i] = s[i]
      /\ \A i \in 1 .. Len(t) : u[Len(s) + i] = t[i]
  BY <1>1
<1>3. ASSUME NEW i \in 1 .. Len(u), i \notin 1 .. Len(s)
      PROVE  \E j \in 1 .. Len(t) : i = Len(s) + j
  <2>1. i - Len(s) \in 1 .. Len(t) /\ i = Len(s) + (i - Len(s))
    BY <1>2, <1>3
  <2> QED
    BY <2>1
<1> QED
  BY <1>1, <1>2, <1>3 DEF Halves

LEMMA JoinOccurs ==
    ASSUME NEW X, NEW s \in Seq(X), NEW t \in Seq(X), NEW x
    PROVE  Occurs(x, s \o t) <=> Occurs(x, s) \/ Occurs(x, t)
<1>1. PICK u \in Seq(X) : u = s \o t
  BY Joined
<1>2. Halves(s, t, u)
  BY <1>1, JoinHalves
<1>3. Len(s) \in Nat /\ Len(t) \in Nat /\ Len(u) \in Nat
  OBVIOUS
<1>4. Occurs(x, u) => Occurs(x, s) \/ Occurs(x, t)
  BY <1>2 DEF Halves, Occurs
<1>5. Occurs(x, s) => Occurs(x, u)
  <2>1. ASSUME NEW i \in 1 .. Len(s) PROVE i \in 1 .. Len(u) /\ u[i] = s[i]
    BY <1>2, <1>3 DEF Halves
  <2> QED
    BY <2>1 DEF Occurs
<1>6. Occurs(x, t) => Occurs(x, u)
  <2>1. ASSUME NEW i \in 1 .. Len(t) PROVE Len(s) + i \in 1 .. Len(u) /\ u[Len(s) + i] = t[i]
    BY <1>2, <1>3 DEF Halves
  <2> QED
    BY <2>1 DEF Occurs
<1> QED
  BY <1>1, <1>4, <1>5, <1>6

LEMMA JoinBefore ==
    ASSUME NEW X, NEW s \in Seq(X), NEW t \in Seq(X), NEW v \in Seq(X), NEW R,
           Before(s, v, R), Before(t, v, R)
    PROVE  Before(s \o t, v, R)
<1>1. PICK u \in Seq(X) : u = s \o t
  BY Joined
<1>2. Halves(s, t, u)
  BY <1>1, JoinHalves
<1>3. ASSUME NEW i \in 1 .. Len(u), NEW j \in 1 .. Len(v) PROVE <<u[i], v[j]>> \in R
  <2>1. CASE i \in 1 .. Len(s)
    BY <1>2, <2>1 DEF Halves, Before
  <2>2. CASE \E k \in 1 .. Len(t) : i = Len(s) + k
    <3>1. PICK k \in 1 .. Len(t) : i = Len(s) + k
      BY <2>2
    <3>2. u[i] = t[k]
      BY <1>2, <3>1 DEF Halves
    <3> QED
      BY <3>2 DEF Before
  <2> QED
    BY <1>2, <2>1, <2>2 DEF Halves
<1> QED
  BY <1>1, <1>3 DEF Before

LEMMA JoinOrdered ==
    ASSUME NEW X, NEW s \in Seq(X), NEW t \in Seq(X), NEW R,
           Ordered(s, R), Ordered(t, R), Before(s, t, R)
    PROVE  Ordered(s \o t, R)
<1>1. PICK u \in Seq(X) : u = s \o t
  BY Joined
<1>2. Halves(s, t, u)
  BY <1>1, JoinHalves
<1>3. Len(s) \in Nat /\ Len(t) \in Nat /\ Len(u) \in Nat
  OBVIOUS
<1>4. ASSUME NEW i \in 1 .. Len(u), NEW j \in 1 .. Len(u), i < j PROVE <<u[i], u[j]>> \in R
  <2>1. CASE j \in 1 .. Len(s)
    <3>1. i \in 1 .. Len(s)
      BY <1>3, <1>4, <2>1
    <3>2. u[i] = s[i] /\ u[j] = s[j]
      BY <1>2, <2>1, <3>1 DEF Halves
    <3> QED
      BY <1>4, <2>1, <3>1, <3>2 DEF Ordered
  <2>2. CASE i \in 1 .. Len(s) /\ j \notin 1 .. Len(s)
    <3>1. PICK l \in 1 .. Len(t) : j = Len(s) + l
      BY <1>2, <2>2 DEF Halves
    <3>2. u[i] = s[i] /\ u[j] = t[l]
      BY <1>2, <2>2, <3>1 DEF Halves
    <3> QED
      BY <2>2, <3>2 DEF Before
  <2>3. CASE i \notin 1 .. Len(s) /\ j \notin 1 .. Len(s)
    <3>1. PICK k \in 1 .. Len(t) : i = Len(s) + k
      BY <1>2, <2>3 DEF Halves
    <3>2. PICK l \in 1 .. Len(t) : j = Len(s) + l
      BY <1>2, <2>3 DEF Halves
    <3>3. k < l
      BY <1>3, <1>4, <3>1, <3>2
    <3>4. u[i] = t[k] /\ u[j] = t[l]
      BY <1>2, <3>1, <3>2 DEF Halves
    <3> QED
      BY <3>3, <3>4 DEF Ordered
  <2> QED
    BY <2>1, <2>2, <2>3
<1> QED
  BY <1>1, <1>4 DEF Ordered

LEMMA FlattenOccurs ==
    ASSUME NEW X, NEW ss \in Seq(Seq(X)), NEW x
    PROVE  Occurs(x, FlattenSeq(ss)) <=> \E i \in 1 .. Len(ss) : Occurs(x, ss[i])
<1>1. PICK f \in [0 .. Len(ss) -> Seq(X)] :
         /\ f[0] = <<>> /\ \A n \in 1 .. Len(ss) : f[n] = f[n - 1] \o ss[n]
         /\ FlattenSeq(ss) = f[Len(ss)]
  BY FlattenFromLeft
<1>2. PICK N \in Nat : N = Len(ss)
  OBVIOUS
<1> DEFINE S == {n \in 0 .. N : Occurs(x, f[n]) <=> \E i \in 1 .. n : Occurs(x, ss[i])}
<1>3. 0 \in S
  <2>1. 0 \in 0 .. N /\ 1 .. 0 = {} /\ Len(<<>>) = 0
    OBVIOUS
  <2>2. ~ Occurs(x, <<>>)
    BY <2>1 DEF Occurs
  <2> QED
    BY <1>1, <2>1, <2>2
<1>4. ASSUME NEW n \in 0 .. N, n < N, n \in S PROVE n + 1 \in S
  <2>1. PICK m \in 1 .. N : m = n + 1 /\ m - 1 = n
    BY <1>4, Successor
  <2>2. PICK t \in Seq(X) : t = f[n]
    BY <1>2
  <2>3. PICK u \in Seq(X) : u = ss[m]
    BY <1>2
  <2>4. f[m] = t \o u
    BY <1>1, <1>2, <2>1, <2>2, <2>3
  <2>5. Occurs(x, f[m]) <=> Occurs(x, t) \/ Occurs(x, u)
    BY <2>4, JoinOccurs
  <2>6. \A i : i \in 1 .. m <=> i \in 1 .. n \/ i = m
    BY <2>1
  <2>7. m \in 0 .. N
    OBVIOUS
  <2> QED
    BY <1>4, <2>1, <2>2, <2>3, <2>5, <2>6, <2>7
<1>5. \A n \in 0 .. N : n \in S
  <2> HIDE DEF S
  <2> QED
    BY <1>3, <1>4, Induct
<1>6. N \in S
  <2>1. N \in 0 .. N
    OBVIOUS
  <2> HIDE DEF S
  <2> QED
    BY <1>5, <2>1
<1> QED
  BY <1>1, <1>2, <1>6

LEMMA FlattenOrdered ==
    ASSUME NEW X, NEW ss \in Seq(Seq(X)), NEW R,
           \A i \in 1 .. Len(ss) : Ordered(ss[i], R),
           \A i, j \in 1 .. Len(ss) : i < j => Before(ss[i], ss[j], R)
    PROVE  Ordered(FlattenSeq(ss), R)
<1>1. PICK f \in [0 .. Len(ss) -> Seq(X)] :
         /\ f[0] = <<>> /\ \A n \in 1 .. Len(ss) : f[n] = f[n - 1] \o ss[n]
         /\ FlattenSeq(ss) = f[Len(ss)]
  BY FlattenFromLeft
<1>2. PICK N \in Nat : N = Len(ss)
  OBVIOUS
<1> DEFINE S == {n \in 0 .. N : /\ Ordered(f[n], R)
                                /\ \A j \in 1 .. N : n < j => Before(f[n], ss[j], R)}
<1>3. 0 \in S
  <2>1. 0 \in 0 .. N /\ 1 .. 0 = {} /\ Len(<<>>) = 0
    OBVIOUS
  <2>2. Ordered(<<>>, R) /\ \A j \in 1 .. N : Before(<<>>, ss[j], R)
    BY <2>1 DEF Ordered, Before
  <2> QED
    BY <1>1, <2>1, <2>2
<1>4. ASSUME NEW n \in 0 .. N, n < N, n \in S PROVE n + 1 \in S
  <2>1. PICK m \in 1 .. N : m = n + 1 /\ m - 1 = n
    BY <1>4, Successor
  <2>2. PICK t \in Seq(X) : t = f[n]
    BY <1>2
  <2>3. PICK u \in Seq(X) : u = ss[m]
    BY <1>2
  <2>4. f[m] = t \o u
    BY <1>1, <1>2, <2>1, <2>2, <2>3
  <2>5. Ordered(t, R) /\ Ordered(u, R) /\ Before(t, u, R)
    BY <1>2, <1>4, <2>1, <2>2, <2>3
  <2>6. Ordered(f[m], R)
    BY <2>4, <2>5, JoinOrdered
  <2>7. ASSUME NEW j \in 1 .. N, m < j PROVE Before(f[m], ss[j], R)
    <3>1. PICK v \in Seq(X) : v = ss[j]
      BY <1>2
    <3>2. Before(t, v, R) /\ Before(u, v, R)
      BY <1>2, <1>4, <2>1, <2>2, <2>3, <2>7, <3>1
    <3>3. Before(t \o u, v, R)
      BY <3>2, JoinBefore
    <3> QED
      BY <2>4, <3>1, <3>3
  <2>8. m \in 0 .. N
    OBVIOUS
  <2> QED
    BY <2>1, <2>6, <2>7, <2>8
<1>5. \A n \in 0 .. N : n \in S
  <2> HIDE DEF S
  <2> QED
    BY <1>3, <1>4, Induct
<1>6. N \in S
  <2>1. N \in 0 .. N
    OBVIOUS
  <2> HIDE DEF S
  <2> QED
    BY <1>5, <2>1
<1> QED
  BY <1>1, <1>2, <1>6

LEMMA Single ==
    ASSUME NEW A, NEW a \in A
    PROVE  /\ <<a>> \in Seq(A) /\ Len(<<a>>) = 1 /\ <<a>>[1] = a
           /\ \A x : Occurs(x, <<a>>) <=> x = a
           /\ \A R : Ordered(<<a>>, R)
<1>1. <<a>> \in Seq(A) /\ Len(<<a>>) = 1 /\ <<a>>[1] = a
  OBVIOUS
<1>2. \A i : i \in 1 .. 1 <=> i = 1
  OBVIOUS
<1>3. ASSUME NEW x PROVE Occurs(x, <<a>>) <=> x = a
  BY <1>1, <1>2 DEF Occurs
<1>4. ASSUME NEW R PROVE Ordered(<<a>>, R)
  <2>1. ASSUME NEW i \in 1 .. 1, NEW j \in 1 .. 1 PROVE ~ (i < j)
    OBVIOUS
  <2> QED
    BY <1>1, <2>1 DEF Ordered
<1> QED
  BY <1>1, <1>3, <1>4

LEMMA EmptyHasNothing ==
    /\ \A x : ~ Occurs(x, <<>>)
    /\ \A R : Ordered(<<>>, R)
<1>1. 1 .. 0 = {} /\ Len(<<>>) = 0
  OBVIOUS
<1> QED
  BY <1>1 DEF Occurs, Ordered

LEMMA FlattenOne ==
    ASSUME NEW X, NEW s \in Seq(X)
    PROVE  FlattenSeq(<<s>>) = s
<1>0. <<s>> \in Seq(Seq(X)) /\ Len(<<s>>) = 1 /\ <<s>>[1] = s
  BY Single
<1>1. PICK ss \in Seq(Seq(X)) : ss = <<s>>
  BY <1>0
<1>2. Len(ss) = 1 /\ ss[1] = s
  BY <1>0, <1>1
<1>3. PICK f \in [0 .. Len(ss) -> Seq(X)] :
         /\ f[0] = <<>> /\ \A n \in 1 .. Len(ss) : f[n] = f[n - 1] \o ss[n]
         /\ FlattenSeq(ss) = f[Len(ss)]
  BY FlattenFromLeft
<1>4. f[1] = f[0] \o s
  <2>1. 1 \in 1 .. Len(ss) /\ 1 - 1 = 0
    BY <1>2
  <2> QED
    BY <1>2, <1>3, <2>1
<1>5. <<>> \o s = s
  OBVIOUS
<1> QED
  BY <1>1, <1>2, <1>3, <1>4, <1>5, Zenon
-----------------------------------------------------------------------------
(***************************************************************************)
(* Answers: where the parts of a kind are, in the order of the upstream.   *)
(***************************************************************************)
Place == Nat \X Nat

Precedes ==
    {ab \in Place \X Place : \/ ab[1][1] < ab[2][1]
                             \/ ab[1][1] = ab[2][1] /\ ab[1][2] < ab[2][2]}

LEMMA Paired ==
    ASSUME NEW A, NEW B, NEW a \in A, NEW b \in B
    PROVE  <<a, b>> \in A \X B /\ <<a, b>>[1] = a /\ <<a, b>>[2] = b
OBVIOUS

LEMMA Precedence ==
    ASSUME NEW i \in Nat, NEW c \in Nat, NEW j \in Nat, NEW d \in Nat,
           i < j \/ (i = j /\ c < d)
    PROVE  <<<<i, c>>, <<j, d>>>> \in Precedes
<1>1. PICK a \in Place : a = <<i, c>>
  <2>1. <<i, c>> \in Place
    BY DEF Place
  <2> QED
    BY <2>1
<1>2. PICK b \in Place : b = <<j, d>>
  <2>1. <<j, d>> \in Place
    BY DEF Place
  <2> QED
    BY <2>1
<1>3. a[1] = i /\ a[2] = c /\ b[1] = j /\ b[2] = d
  BY <1>1, <1>2
<1>4. PICK ab \in Place \X Place : ab = <<a, b>>
  <2>1. <<a, b>> \in Place \X Place
    BY Paired
  <2> QED
    BY <2>1
<1>5. ab[1] = a /\ ab[2] = b
  BY <1>4
<1>6. ab \in Precedes
  BY <1>3, <1>5 DEF Precedes
<1> QED
  BY <1>1, <1>2, <1>4, <1>6

\* A function on the first N numbers is a sequence.
LEMMA ListOf ==
    ASSUME NEW A, NEW N \in Nat, NEW g \in [1 .. N -> A]
    PROVE  g \in Seq(A) /\ Len(g) = N
OBVIOUS

\* One part of an alternative, if it is of the kind.
PartAt(alternative, k, kind, i) ==
    IF alternative.parts[i] = kind THEN <<<<k, i>>>> ELSE <<>>

PartIs(alternative, k, kind, i) ==
    /\ PartAt(alternative, k, kind, i) \in Seq(Place)
    /\ \A p : Occurs(p, PartAt(alternative, k, kind, i))
                 <=> p = <<k, i>> /\ alternative.parts[i] = kind
    /\ Ordered(PartAt(alternative, k, kind, i), Precedes)

LEMMA PartTyped ==
    ASSUME NEW alternative, NEW k \in Nat, NEW kind, NEW i \in Nat
    PROVE  PartIs(alternative, k, kind, i)
<1>1. PICK p \in Place : p = <<k, i>>
  BY DEF Place
<1>2. CASE alternative.parts[i] = kind
  <2>1. PartAt(alternative, k, kind, i) = <<p>>
    BY <1>1, <1>2 DEF PartAt
  <2> QED
    BY <1>1, <1>2, <2>1, Single DEF PartIs
<1>3. CASE alternative.parts[i] # kind
  <2>1. PartAt(alternative, k, kind, i) = <<>> /\ <<>> \in Seq(Place)
    BY <1>3 DEF PartAt
  <2> QED
    BY <1>3, <2>1, EmptyHasNothing DEF PartIs
<1> QED
  BY <1>2, <1>3

\* PartsOf has the parts of the kind, and in order.
LEMMA PartsAre ==
    ASSUME NEW alternative, alternative.parts \in Seq(Part), NEW k \in Nat, NEW kind
    PROVE  /\ PartsOf(alternative, k, kind) \in Seq(Place)
           /\ \A p : Occurs(p, PartsOf(alternative, k, kind)) <=>
                 \E i \in 1 .. Len(alternative.parts) : p = <<k, i>> /\ alternative.parts[i] = kind
           /\ Ordered(PartsOf(alternative, k, kind), Precedes)
<1>1. PICK N \in Nat : N = Len(alternative.parts) /\ DOMAIN alternative.parts = 1 .. N
  OBVIOUS
<1> DEFINE all == [i \in 1 .. N |-> PartAt(alternative, k, kind, i)]
<1>2. PartsOf(alternative, k, kind) = FlattenSeq(all)
  BY <1>1 DEF PartsOf, PartAt
<1>3. ASSUME NEW i \in 1 .. N
      PROVE  /\ PartAt(alternative, k, kind, i) \in Seq(Place)
             /\ \A p : Occurs(p, PartAt(alternative, k, kind, i))
                          <=> p = <<k, i>> /\ alternative.parts[i] = kind
             /\ Ordered(PartAt(alternative, k, kind, i), Precedes)
  <2>1. i \in Nat
    OBVIOUS
  <2>2. PartIs(alternative, k, kind, i)
    BY <2>1, PartTyped
  <2> QED
    BY <2>2 DEF PartIs
<1>4. PICK ss \in Seq(Seq(Place)) :
         ss = all /\ Len(ss) = N
         /\ \A i \in 1 .. N : ss[i] = PartAt(alternative, k, kind, i)
  <2>1. all \in [1 .. N -> Seq(Place)]
    BY <1>3
  <2>2. \A i \in 1 .. N : all[i] = PartAt(alternative, k, kind, i)
    OBVIOUS
  <2> HIDE DEF all
  <2>3. all \in Seq(Seq(Place)) /\ Len(all) = N
    BY <2>1, ListOf
  <2> QED
    BY <2>2, <2>3
<1>5. FlattenSeq(ss) \in Seq(Place)
  BY FlattenTyped
<1>6. ASSUME NEW p
      PROVE  Occurs(p, FlattenSeq(ss)) <=>
                \E i \in 1 .. N : p = <<k, i>> /\ alternative.parts[i] = kind
  <2>1. Occurs(p, FlattenSeq(ss)) <=> \E i \in 1 .. N : Occurs(p, ss[i])
    BY <1>4, FlattenOccurs
  <2> QED
    BY <1>3, <1>4, <2>1
<1>7. Ordered(FlattenSeq(ss), Precedes)
  <2>1. \A i \in 1 .. Len(ss) : Ordered(ss[i], Precedes)
    BY <1>3, <1>4
  <2>2. ASSUME NEW i \in 1 .. Len(ss), NEW j \in 1 .. Len(ss), i < j
        PROVE  Before(ss[i], ss[j], Precedes)
    <3>1. ASSUME NEW a \in 1 .. Len(ss[i]), NEW b \in 1 .. Len(ss[j])
          PROVE  <<ss[i][a], ss[j][b]>> \in Precedes
      <4>1. Occurs(ss[i][a], ss[i]) /\ Occurs(ss[j][b], ss[j])
        BY DEF Occurs
      <4>2. ss[i][a] = <<k, i>> /\ ss[j][b] = <<k, j>>
        BY <1>3, <1>4, <4>1
      <4>3. <<<<k, i>>, <<k, j>>>> \in Precedes
        <5>1. i \in Nat /\ j \in Nat
          OBVIOUS
        <5> QED
          BY <2>2, <5>1, Precedence
      <4> QED
        BY <4>2, <4>3
    <3> QED
      BY <3>1 DEF Before
  <2> QED
    BY <2>1, <2>2, FlattenOrdered
<1> QED
  BY <1>1, <1>2, <1>4, <1>5, <1>6, <1>7

\* The parts of the kind in all alternatives.
AllParts(alternatives, kind) ==
    FlattenSeq([n \in DOMAIN alternatives |-> PartsOf(alternatives[n], n, kind)])

LEMMA AllPartsAre ==
    ASSUME NEW alternatives, NEW N \in Nat, DOMAIN alternatives = 1 .. N,
           \A n \in 1 .. N : alternatives[n].parts \in Seq(Part), NEW kind
    PROVE  /\ AllParts(alternatives, kind) \in Seq(Place)
           /\ \A p : Occurs(p, AllParts(alternatives, kind)) <=>
                 \E n \in 1 .. N : \E i \in 1 .. Len(alternatives[n].parts) :
                    p = <<n, i>> /\ alternatives[n].parts[i] = kind
           /\ Ordered(AllParts(alternatives, kind), Precedes)
<1> DEFINE all == [n \in 1 .. N |-> PartsOf(alternatives[n], n, kind)]
<1>1. AllParts(alternatives, kind) = FlattenSeq(all)
  BY DEF AllParts
<1>2. ASSUME NEW n \in 1 .. N
      PROVE  /\ PartsOf(alternatives[n], n, kind) \in Seq(Place)
             /\ \A p : Occurs(p, PartsOf(alternatives[n], n, kind)) <=>
                   \E i \in 1 .. Len(alternatives[n].parts) :
                      p = <<n, i>> /\ alternatives[n].parts[i] = kind
             /\ Ordered(PartsOf(alternatives[n], n, kind), Precedes)
  <2>1. n \in Nat /\ alternatives[n].parts \in Seq(Part)
    OBVIOUS
  <2> QED
    BY <2>1, PartsAre
<1>3. PICK ss \in Seq(Seq(Place)) :
         ss = all /\ Len(ss) = N /\ \A n \in 1 .. N : ss[n] = PartsOf(alternatives[n], n, kind)
  <2>1. all \in [1 .. N -> Seq(Place)]
    BY <1>2
  <2>2. \A n \in 1 .. N : all[n] = PartsOf(alternatives[n], n, kind)
    OBVIOUS
  <2> HIDE DEF all
  <2>3. all \in Seq(Seq(Place)) /\ Len(all) = N
    BY <2>1, ListOf
  <2> QED
    BY <2>2, <2>3
<1>4. FlattenSeq(ss) \in Seq(Place)
  BY FlattenTyped
<1>5. ASSUME NEW p
      PROVE  Occurs(p, FlattenSeq(ss)) <=>
                \E n \in 1 .. N : \E i \in 1 .. Len(alternatives[n].parts) :
                   p = <<n, i>> /\ alternatives[n].parts[i] = kind
  <2>1. Occurs(p, FlattenSeq(ss)) <=> \E n \in 1 .. N : Occurs(p, ss[n])
    BY <1>3, FlattenOccurs
  <2> QED
    BY <1>2, <1>3, <2>1
<1>6. Ordered(FlattenSeq(ss), Precedes)
  <2>1. \A n \in 1 .. Len(ss) : Ordered(ss[n], Precedes)
    BY <1>2, <1>3
  <2>2. ASSUME NEW i \in 1 .. Len(ss), NEW j \in 1 .. Len(ss), i < j
        PROVE  Before(ss[i], ss[j], Precedes)
    <3>1. ASSUME NEW a \in 1 .. Len(ss[i]), NEW b \in 1 .. Len(ss[j])
          PROVE  <<ss[i][a], ss[j][b]>> \in Precedes
      <4>1. Occurs(ss[i][a], ss[i]) /\ Occurs(ss[j][b], ss[j])
        BY DEF Occurs
      <4>2. PICK c \in 1 .. Len(alternatives[i].parts) : ss[i][a] = <<i, c>>
        BY <1>2, <1>3, <4>1
      <4>3. PICK d \in 1 .. Len(alternatives[j].parts) : ss[j][b] = <<j, d>>
        BY <1>2, <1>3, <4>1
      <4>4. c \in Nat /\ d \in Nat /\ i \in Nat /\ j \in Nat
        OBVIOUS
      <4>5. <<<<i, c>>, <<j, d>>>> \in Precedes
        BY <2>2, <4>4, Precedence
      <4> QED
        BY <4>2, <4>3, <4>5
    <3> QED
      BY <3>1 DEF Before
  <2> QED
    BY <2>1, <2>2, FlattenOrdered
<1> QED
  BY <1>1, <1>3, <1>4, <1>5, <1>6
\* What a choice has gathered from the alternatives ks.
PartsIn(alternatives, ks, kind) ==
    FlattenSeq([n \in DOMAIN ks |-> PartsOf(alternatives[ks[n]], ks[n], kind)])

LEMMA PartsInOne ==
    ASSUME NEW alternatives, NEW k \in Nat, alternatives[k].parts \in Seq(Part), NEW kind
    PROVE  PartsIn(alternatives, <<k>>, kind) = PartsOf(alternatives[k], k, kind)
<1>1. PICK s \in Seq(Place) : s = PartsOf(alternatives[k], k, kind)
  BY PartsAre
<1>2. [n \in DOMAIN <<k>> |-> PartsOf(alternatives[<<k>>[n]], <<k>>[n], kind)]
         = <<PartsOf(alternatives[k], k, kind)>>
  OBVIOUS
<1>3. FlattenSeq(<<s>>) = s
  BY FlattenOne
<1> QED
  BY <1>1, <1>2, <1>3, Zenon DEF PartsIn

LEMMA UpwardsAre ==
    ASSUME NEW N \in Nat
    PROVE  /\ Upwards(1, N) \in Seq(1 .. N) /\ DOMAIN Upwards(1, N) = 1 .. N
           /\ Len(Upwards(1, N)) = N
           /\ \A i \in 1 .. N : Upwards(1, N)[i] = i
<1>1. (N + 1) - 1 = N /\ \A i \in 1 .. N : (1 + i) - 1 = i
  OBVIOUS
<1>2. Upwards(1, N) = [i \in 1 .. N |-> i]
  BY <1>1 DEF Upwards
<1> QED
  BY <1>2

LEMMA PartsInAll ==
    ASSUME NEW alternatives, NEW N \in Nat, DOMAIN alternatives = 1 .. N, NEW kind
    PROVE  PartsIn(alternatives, Upwards(1, N), kind) = AllParts(alternatives, kind)
<1>1. DOMAIN Upwards(1, N) = 1 .. N /\ \A i \in 1 .. N : Upwards(1, N)[i] = i
  BY UpwardsAre
<1>2. [n \in DOMAIN Upwards(1, N) |->
          PartsOf(alternatives[Upwards(1, N)[n]], Upwards(1, N)[n], kind)]
        = [n \in DOMAIN alternatives |-> PartsOf(alternatives[n], n, kind)]
  BY <1>1
<1> QED
  BY <1>2, Zenon DEF PartsIn, AllParts

IsChoice(c) == c = [texts |-> c.texts, calls |-> c.calls, finish |-> c.finish]

LEMMA ChoiceHas ==
    ASSUME NEW alternatives, NEW ks, NEW reason
    PROVE  /\ Choice(alternatives, ks, reason).texts = PartsIn(alternatives, ks, "text")
           /\ Choice(alternatives, ks, reason).calls = PartsIn(alternatives, ks, "call")
           /\ Choice(alternatives, ks, reason).finish = reason
           /\ IsChoice(Choice(alternatives, ks, reason))
BY DEF Choice, PartsIn, IsChoice

LEMMA SanitizedHas ==
    ASSUME NEW choices, NEW N \in Nat, DOMAIN choices = 1 .. N,
           \A k \in 1 .. N : IsChoice(choices[k])
    PROVE  /\ DOMAIN Sanitized(choices) = 1 .. N
           /\ \A k \in 1 .. N : /\ Sanitized(choices)[k].texts = choices[k].texts
                                /\ Sanitized(choices)[k].calls = choices[k].calls
                                /\ Sanitized(choices)[k].finish = Finish(choices[k].finish)
<1>1. DOMAIN Sanitized(choices) = 1 .. N
  BY DEF Sanitized
<1>2. ASSUME NEW k \in 1 .. N
      PROVE  /\ Sanitized(choices)[k].texts = choices[k].texts
             /\ Sanitized(choices)[k].calls = choices[k].calls
             /\ Sanitized(choices)[k].finish = Finish(choices[k].finish)
  <2>1. choices[k] = [texts |-> choices[k].texts, calls |-> choices[k].calls,
                      finish |-> choices[k].finish]
    BY DEF IsChoice
  <2>2. Sanitized(choices)[k] = [choices[k] EXCEPT !.finish = Finish(choices[k].finish)]
    BY DEF Sanitized
  <2> QED
    BY <2>1, <2>2
<1> QED
  BY <1>1, <1>2

\* All that a reply has of a kind, as AnswerKept reads it.
TextsOf(choices) == FlattenSeq([k \in DOMAIN choices |-> choices[k].texts])

CallsOf(choices) == FlattenSeq([k \in DOMAIN choices |-> choices[k].calls])

LEMMA ReplyHas ==
    ASSUME NEW format \in Format, NEW alternatives \in Seq(Alternative(format)),
           format # "OpenAi" => alternatives # <<>>
    PROVE  LET choices == Sanitized(AnswerChoices(format, alternatives))
           IN  /\ TextsOf(choices) = AllParts(alternatives, "text")
               /\ CallsOf(choices) = AllParts(alternatives, "call")
               /\ choices # <<>> =>
                     choices[1].finish \in {Finish(alternatives[1].finish),
                                            Finish(OrStop(alternatives[1].finish))}
<1>1. PICK N \in Nat : N = Len(alternatives) /\ DOMAIN alternatives = 1 .. N
  OBVIOUS
<1>2. \A n \in 1 .. N : alternatives[n].parts \in Seq(Part)
  <2> SUFFICES ASSUME NEW n \in 1 .. N PROVE alternatives[n].parts \in Seq(Part)
    OBVIOUS
  <2>1. n \in 1 .. Len(alternatives)
    BY <1>1
  <2>2. alternatives[n] \in Alternative(format)
    BY <2>1, Element
  <2> QED
    BY <2>2 DEF Alternative
<1> DEFINE given == AnswerChoices(format, alternatives)
           choices == Sanitized(given)
<1>3. CASE format = "OpenAi"
  <2>1. given = [k \in 1 .. N |-> Choice(alternatives, <<k>>, alternatives[k].finish)]
    BY <1>1, <1>3 DEF AnswerChoices
  <2>2. \A k \in 1 .. N : given[k] = Choice(alternatives, <<k>>, alternatives[k].finish)
    BY <2>1
  <2>3. DOMAIN given = 1 .. N
    BY <2>1
  <2> HIDE DEF given
  <2>4. /\ DOMAIN choices = 1 .. N
        /\ \A k \in 1 .. N : /\ choices[k].texts = given[k].texts
                             /\ choices[k].calls = given[k].calls
                             /\ choices[k].finish = Finish(given[k].finish)
    <3>1. ASSUME NEW k \in 1 .. N PROVE IsChoice(given[k])
      <4>1. given[k] = Choice(alternatives, <<k>>, alternatives[k].finish)
        BY <2>2
      <4>2. IsChoice(Choice(alternatives, <<k>>, alternatives[k].finish))
        BY ChoiceHas
      <4> QED
        BY <4>1, <4>2
    <3> QED
      BY <2>3, <3>1, SanitizedHas
  <2>5. ASSUME NEW k \in 1 .. N
        PROVE  /\ choices[k].texts = PartsOf(alternatives[k], k, "text")
               /\ choices[k].calls = PartsOf(alternatives[k], k, "call")
    <3>1. k \in Nat /\ alternatives[k].parts \in Seq(Part)
      BY <1>2
    <3>2. given[k].texts = PartsIn(alternatives, <<k>>, "text")
      BY <2>2, ChoiceHas
    <3>3. given[k].calls = PartsIn(alternatives, <<k>>, "call")
      BY <2>2, ChoiceHas
    <3> QED
      BY <2>4, <3>1, <3>2, <3>3, PartsInOne
  <2>6. choices # <<>> => choices[1].finish = Finish(alternatives[1].finish)
    <3>1. CASE N = 0
      <4>1. choices = [k \in 1 .. 0 |-> choices[k]]
        BY <2>3, <3>1 DEF Sanitized
      <4> QED
        BY <4>1
    <3>2. CASE N # 0
      <4>1. 1 \in 1 .. N
        BY <3>2
      <4>2. given[1] = Choice(alternatives, <<1>>, alternatives[1].finish)
        BY <2>2, <4>1
      <4>3. given[1].finish = alternatives[1].finish
        BY <4>2, ChoiceHas
      <4> QED
        BY <2>4, <4>1, <4>3
    <3> QED
      BY <3>1, <3>2
  <2>7. TextsOf(choices) = AllParts(alternatives, "text")
    <3> HIDE DEF choices
    <3>1. [k \in DOMAIN choices |-> choices[k].texts]
             = [n \in DOMAIN alternatives |-> PartsOf(alternatives[n], n, "text")]
      BY <1>1, <2>4, <2>5
    <3> QED
      BY <3>1, Zenon DEF TextsOf, AllParts
  <2>8. CallsOf(choices) = AllParts(alternatives, "call")
    <3> HIDE DEF choices
    <3>1. [k \in DOMAIN choices |-> choices[k].calls]
             = [n \in DOMAIN alternatives |-> PartsOf(alternatives[n], n, "call")]
      BY <1>1, <2>4, <2>5
    <3> QED
      BY <3>1, Zenon DEF CallsOf, AllParts
  <2> QED
    BY <2>6, <2>7, <2>8 DEF given
<1>4. CASE format # "OpenAi"
  <2> DEFINE reason == OrStop(alternatives[1].finish)
             ks == Upwards(1, N)
  <2>1. given = <<Choice(alternatives, ks, reason)>>
    BY <1>1, <1>4 DEF AnswerChoices
  <2>2. DOMAIN given = 1 .. 1 /\ given[1] = Choice(alternatives, ks, reason) /\ 1 \in 1 .. 1
    BY <2>1
  <2>3. \A k \in 1 .. 1 : given[k] = Choice(alternatives, ks, reason)
    BY <2>2
  <2> HIDE DEF given, reason, ks
  <2>4. /\ DOMAIN choices = 1 .. 1
        /\ \A k \in 1 .. 1 : /\ choices[k].texts = given[k].texts
                             /\ choices[k].calls = given[k].calls
                             /\ choices[k].finish = Finish(given[k].finish)
    <3>1. ASSUME NEW k \in 1 .. 1 PROVE IsChoice(given[k])
      <4>1. given[k] = Choice(alternatives, ks, reason)
        BY <2>3
      <4>2. IsChoice(Choice(alternatives, ks, reason))
        BY ChoiceHas
      <4> QED
        BY <4>1, <4>2
    <3> QED
      BY <2>2, <3>1, SanitizedHas
  <2> HIDE DEF choices
  <2>5. choices[1].texts = AllParts(alternatives, "text")
    <3>1. given[1].texts = PartsIn(alternatives, ks, "text")
      BY <2>2, ChoiceHas
    <3> QED
      BY <1>1, <2>2, <2>4, <3>1, PartsInAll DEF ks
  <2>6. choices[1].calls = AllParts(alternatives, "call")
    <3>1. given[1].calls = PartsIn(alternatives, ks, "call")
      BY <2>2, ChoiceHas
    <3> QED
      BY <1>1, <2>2, <2>4, <3>1, PartsInAll DEF ks
  <2>7. choices[1].finish = Finish(reason)
    BY <2>2, <2>4, ChoiceHas
  <2>8. TextsOf(choices) = AllParts(alternatives, "text")
    <3>1. PICK s \in Seq(Place) : s = AllParts(alternatives, "text")
      BY <1>1, <1>2, AllPartsAre
    <3>2. [k \in DOMAIN choices |-> choices[k].texts] = <<s>>
      BY <2>4, <2>5, <3>1
    <3>3. FlattenSeq(<<s>>) = s
      BY FlattenOne
    <3> QED
      BY <3>1, <3>2, <3>3, Zenon DEF TextsOf
  <2>9. CallsOf(choices) = AllParts(alternatives, "call")
    <3>1. PICK s \in Seq(Place) : s = AllParts(alternatives, "call")
      BY <1>1, <1>2, AllPartsAre
    <3>2. [k \in DOMAIN choices |-> choices[k].calls] = <<s>>
      BY <2>4, <2>6, <3>1
    <3>3. FlattenSeq(<<s>>) = s
      BY FlattenOne
    <3> QED
      BY <3>1, <3>2, <3>3, Zenon DEF CallsOf
  <2> QED
    BY <2>7, <2>8, <2>9 DEF given, choices, reason
<1> QED
  BY <1>3, <1>4
\* What AnswerKept says of the parts of a kind that a client is given.
KeptInOrder(alternatives, given, kind) ==
    /\ ToSet(given) =
          UNION {{<<k, i>> : i \in {j \in DOMAIN alternatives[k].parts :
                                        alternatives[k].parts[j] = kind}} :
                     k \in DOMAIN alternatives}
    /\ \A m, n \in DOMAIN given : m < n =>
          \/ given[m][1] < given[n][1]
          \/ given[m][1] = given[n][1] /\ given[m][2] < given[n][2]

LEMMA AllKept ==
    ASSUME NEW alternatives, NEW N \in Nat, DOMAIN alternatives = 1 .. N,
           \A n \in 1 .. N : alternatives[n].parts \in Seq(Part), NEW kind
    PROVE  KeptInOrder(alternatives, AllParts(alternatives, kind), kind)
<1>1. PICK given \in Seq(Place) : given = AllParts(alternatives, kind)
  BY AllPartsAre
<1>2. /\ \A p : Occurs(p, given) <=>
            \E n \in 1 .. N : \E i \in 1 .. Len(alternatives[n].parts) :
               p = <<n, i>> /\ alternatives[n].parts[i] = kind
      /\ Ordered(given, Precedes)
  BY <1>1, AllPartsAre
<1>3. \A n \in 1 .. N : DOMAIN alternatives[n].parts = 1 .. Len(alternatives[n].parts)
  OBVIOUS
<1>4. DOMAIN given = 1 .. Len(given)
  OBVIOUS
<1> DEFINE OfKind(k) == {j \in DOMAIN alternatives[k].parts : alternatives[k].parts[j] = kind}
           parts == UNION {{<<k, i>> : i \in OfKind(k)} : k \in DOMAIN alternatives}
<1>5. ToSet(given) = parts
  <2>1. ASSUME NEW p PROVE p \in ToSet(given) <=> Occurs(p, given)
    BY <1>4 DEF ToSet, Occurs
  <2>2. ASSUME NEW p PROVE p \in parts <=> \E k \in 1 .. N : \E i \in OfKind(k) : p = <<k, i>>
    OBVIOUS
  <2>3. ASSUME NEW k \in 1 .. N, NEW i
        PROVE  i \in OfKind(k) <=> i \in 1 .. Len(alternatives[k].parts) /\ alternatives[k].parts[i] = kind
    BY <1>3
  <2> HIDE DEF OfKind, parts
  <2>4. ASSUME NEW p PROVE p \in ToSet(given) <=> p \in parts
    BY <1>2, <2>1, <2>2, <2>3, Zenon
  <2> QED
    BY <2>4
<1>6. ASSUME NEW m \in DOMAIN given, NEW n \in DOMAIN given, m < n
      PROVE  \/ given[m][1] < given[n][1]
             \/ given[m][1] = given[n][1] /\ given[m][2] < given[n][2]
  <2>1. <<given[m], given[n]>> \in Precedes
    BY <1>2, <1>4, <1>6 DEF Ordered
  <2> QED
    BY <2>1 DEF Precedes
<1> QED
  BY <1>1, <1>5, <1>6, Zenon DEF KeptInOrder

LEMMA Finished ==
    ASSUME NEW reason, Finish(reason) = "stop" \/ Finish(OrStop(reason)) = "stop"
    PROVE  reason \in {"stop", "end_turn", "STOP", "none"}
BY DEF Finish, OrStop
KeptAs(alternatives, choices) ==
    /\ KeptInOrder(alternatives, TextsOf(choices), "text")
    /\ KeptInOrder(alternatives, CallsOf(choices), "call")
    /\ choices # <<>> /\ choices[1].finish = "stop" =>
          alternatives[1].finish \in {"stop", "end_turn", "STOP", "none"}

\* The step that gives a client its answer.
LEMMA Given ==
    ASSUME SInv, phase = "waiting", NEW body \in Bodies[call.format], Answer(body)
    PROVE  AnswerKept'
<1>1. call \in CallRecord /\ call.format \in Format
  BY DEF SInv, CallOK, CallRecord
<1>2. PICK format \in Format : format = call.format
  BY <1>1
<1>3. /\ body.alternatives \in Seq(Alternative(format))
      /\ format = "Claude" => Len(body.alternatives) = 1
  BY <1>2, ExchangeAssumption
<1>4. body.shape = "complete" /\ ~ ParsePanics(format, body)
  BY <1>2 DEF Answer
<1>5. PICK alternatives \in Seq(Alternative(format)) : alternatives = body.alternatives
  BY <1>3
<1>6. format # "OpenAi" => alternatives # <<>>
  <2>1. Len(alternatives) = 1 => alternatives # <<>>
    OBVIOUS
  <2>2. format = "Claude" => Len(alternatives) = 1
    BY <1>3, <1>5
  <2>3. format = "Gemini" => alternatives # <<>>
    BY <1>4, <1>5, Zenon DEF ParsePanics
  <2>4. format = "Claude" => alternatives # <<>>
    BY <2>1, <2>2, Zenon
  <2> QED
    BY <2>3, <2>4 DEF Format
<1> DEFINE choices == Sanitized(AnswerChoices(format, alternatives))
<1>7. phase' = "answered" /\ said'.alternatives = alternatives /\ reply'.choices = choices
  BY <1>2, <1>5 DEF Answer
<1>8. /\ TextsOf(choices) = AllParts(alternatives, "text")
      /\ CallsOf(choices) = AllParts(alternatives, "call")
      /\ choices # <<>> =>
            choices[1].finish \in {Finish(alternatives[1].finish),
                                   Finish(OrStop(alternatives[1].finish))}
  BY <1>6, ReplyHas
<1> HIDE DEF choices
<1>9. PICK N \in Nat : N = Len(alternatives) /\ DOMAIN alternatives = 1 .. N
  OBVIOUS
<1>10. \A n \in 1 .. N : alternatives[n].parts \in Seq(Part)
  <2> SUFFICES ASSUME NEW n \in 1 .. N PROVE alternatives[n].parts \in Seq(Part)
    OBVIOUS
  <2>1. n \in 1 .. Len(alternatives)
    BY <1>9
  <2>2. alternatives[n] \in Alternative(format)
    BY <2>1, Element
  <2> QED
    BY <2>2 DEF Alternative
<1>11. /\ KeptInOrder(alternatives, TextsOf(choices), "text")
       /\ KeptInOrder(alternatives, CallsOf(choices), "call")
  BY <1>8, <1>9, <1>10, AllKept
<1>12. choices # <<>> /\ choices[1].finish = "stop" =>
          alternatives[1].finish \in {"stop", "end_turn", "STOP", "none"}
  BY <1>8, Finished
<1> QED
  <2>1. KeptAs(said'.alternatives, reply'.choices)
    BY <1>7, <1>11, <1>12, Zenon DEF KeptAs
  <2> QED
    BY <2>1 DEF AnswerKept, KeptAs, KeptInOrder, TextsOf, CallsOf

\* Only one action builds a request, and only one gives an answer.
LEMMA BuildsOnly ==
    ASSUME [Next]_vars, phase' = "built"
    PROVE  UNCHANGED vars \/ \E route \in Routes, r \in Requests : Prepare(route, r)
BY DEF Next, Send, Unrouted, FailWith, Refuse, Unanswered, AnswerUnreadable, AnswerPanics, Answer,
       Establish, Write, Receive, Break, Close

LEMMA AnswersOnly ==
    ASSUME [Next]_vars, phase' = "answered"
    PROVE  \/ UNCHANGED vars
           \/ phase = "waiting" /\ \E body \in Bodies[call.format] : Answer(body)
BY DEF Next, Prepare, Send, Unrouted, FailWith, Refuse, Unanswered, AnswerUnreadable, AnswerPanics,
       Establish, Write, Receive, Break, Close

(***************************************************************************)
(* A plain answer of any number of alternatives and parts reaches the      *)
(* client whole, its texts and tool calls once each and in order, and one  *)
(* that was cut short or blocked is not reported as finished (parse_openai,*)
(* parse_claude, parse_gemini, sanitize_response).                         *)
(***************************************************************************)
THEOREM AnswerIsKept == Spec => []AnswerKept
<1>1. Init => AnswerKept
  BY DEF Init, AnswerKept
<1>2. SInv /\ AnswerKept /\ [Next]_vars => AnswerKept'
  <2> SUFFICES ASSUME SInv, AnswerKept, [Next]_vars, phase' = "answered" PROVE AnswerKept'
    BY DEF AnswerKept
  <2>1. CASE UNCHANGED vars
    BY <2>1 DEF vars, AnswerKept
  <2>2. ASSUME phase = "waiting", NEW body \in Bodies[call.format], Answer(body) PROVE AnswerKept'
    BY <2>2, Given
  <2> QED
    BY <2>1, <2>2, AnswersOnly
<1> QED
  BY <1>1, <1>2, SAlways, PTL DEF Spec

-----------------------------------------------------------------------------
(***************************************************************************)
(* Sizes of selections.                                                    *)
(***************************************************************************)
\* The sizes of the first positions of a selection, added up.
Sums(ms, s, f) ==
    /\ f[0] = 0
    /\ \A n \in 1 .. Len(s) : f[n] = f[n - 1] + MessageTokens(ms, s[n])
    /\ TokensOf(ms, s) = f[Len(s)]

\* The positions of a request, and the one of the placeholder.
Positions(ms) == 0 .. Len(ms)

LEMMA SizeTyped ==
    ASSUME NEW ms \in Seq(Message), NEW i \in Positions(ms)
    PROVE  MessageTokens(ms, i) \in Nat
<1>1. CASE i = 0
  BY <1>1, CompressAssumption DEF MessageTokens, Placeholder
<1>2. CASE i # 0
  <2>1. i \in 1 .. Len(ms)
    BY <1>2 DEF Positions
  <2>2. ms[i] \in Message
    BY <2>1, Element
  <2>3. MessageTokens(ms, i) = ms[i].size
    BY <1>2 DEF MessageTokens, Placeholder
  <2> QED
    BY <2>2, <2>3 DEF Message
<1> QED
  BY <1>1, <1>2

LEMMA SumsExist ==
    ASSUME NEW ms \in Seq(Message), NEW s \in Seq(Positions(ms))
    PROVE  \E f \in [0 .. Len(s) -> Nat] : Sums(ms, s, f)
<1> DEFINE Equation(f) ==
             f = [n \in 0 .. Len(s) |->
                    IF n = 0 THEN 0 ELSE f[n - 1] + MessageTokens(ms, s[n])]
<1>1. PICK N \in Nat : N = Len(s)
  OBVIOUS
<1>2. \A n \in 1 .. N : MessageTokens(ms, s[n]) \in Nat
  <2> SUFFICES ASSUME NEW n \in 1 .. N PROVE MessageTokens(ms, s[n]) \in Nat
    OBVIOUS
  <2>1. s[n] \in Positions(ms)
    BY <1>1, Element
  <2> QED
    BY <2>1, SizeTyped
<1> DEFINE step == [n \in 1 .. N |-> [t \in Nat |-> t + MessageTokens(ms, s[n])]]
<1>3. step \in [1 .. N -> [Nat -> Nat]]
  BY <1>2
<1>4. PICK f \in [0 .. N -> Nat] : Follows(f, N, 0, step)
  <2> HIDE DEF step
  <2>1. 0 \in Nat
    OBVIOUS
  <2> QED
    BY <1>3, <2>1, Recursion
<1>5. /\ f[0] = 0
      /\ \A n \in 1 .. N : f[n] = f[n - 1] + MessageTokens(ms, s[n])
  <2>1. f[0] = 0 /\ \A n \in 1 .. N : f[n] = step[n][f[n - 1]]
    BY <1>4 DEF Follows
  <2>2. ASSUME NEW n \in 1 .. N PROVE f[n] = f[n - 1] + MessageTokens(ms, s[n])
    <3>1. n - 1 \in 0 .. N
      OBVIOUS
    <3>2. f[n - 1] \in Nat
      BY <3>1
    <3>3. step[n][f[n - 1]] = f[n - 1] + MessageTokens(ms, s[n])
      BY <3>2
    <3> QED
      BY <2>1, <3>3
  <2> QED
    BY <2>1, <2>2
<1>6. Equation(f)
  <2>1. \A n \in 0 .. N : n # 0 => n \in 1 .. N
    OBVIOUS
  <2>2. \A n \in 0 .. N :
           f[n] = IF n = 0 THEN 0 ELSE f[n - 1] + MessageTokens(ms, s[n])
    BY <1>5, <2>1, Zenon
  <2> QED
    BY <1>1, <2>2
<1>7. PICK g \in {CHOOSE g : Equation(g)} : g = CHOOSE h : Equation(h)
  OBVIOUS
<1>8. Equation(g)
  BY <1>6, <1>7
<1>9. TokensOf(ms, s) = g[N]
  BY <1>1, <1>7 DEF TokensOf
<1>10. /\ g[0] = 0
       /\ \A n \in 1 .. N : g[n] = g[n - 1] + MessageTokens(ms, s[n])
  <2>1. \A n \in 1 .. N : n # 0 /\ n \in 0 .. N
    OBVIOUS
  <2>2. 0 \in 0 .. N
    OBVIOUS
  <2> QED
    BY <1>1, <1>8, <2>1, <2>2
<1> DEFINE S == {n \in 0 .. N : g[n] = f[n]}
<1>11. \A n \in 0 .. N : n \in S
  <2>1. 0 \in S
    BY <1>5, <1>10
  <2>2. ASSUME NEW n \in 0 .. N, n < N, n \in S PROVE n + 1 \in S
    <3>1. PICK m \in 1 .. N : m = n + 1 /\ m - 1 = n
      BY <2>2, Successor
    <3>2. g[m - 1] = f[m - 1] /\ m \in 0 .. N
      BY <2>2, <3>1
    <3>3. g[m] = f[m]
      BY <1>5, <1>10, <3>2, Zenon
    <3> QED
      BY <3>1, <3>2, <3>3
  <2> HIDE DEF S
  <2> QED
    BY <2>1, <2>2, Induct
<1>12. g[N] = f[N]
  <2>1. N \in 0 .. N
    OBVIOUS
  <2> QED
    BY <1>11, <2>1
<1> QED
  BY <1>1, <1>5, <1>9, <1>12 DEF Sums

LEMMA TokensTyped ==
    ASSUME NEW ms \in Seq(Message), NEW s \in Seq(Positions(ms))
    PROVE  TokensOf(ms, s) \in Nat
<1>1. PICK f \in [0 .. Len(s) -> Nat] : Sums(ms, s, f)
  BY SumsExist
<1>2. Len(s) \in 0 .. Len(s)
  OBVIOUS
<1> QED
  BY <1>1, <1>2 DEF Sums

LEMMA TokensFew ==
    ASSUME NEW ms \in Seq(Message)
    PROVE  /\ TokensOf(ms, <<>>) = 0
           /\ \A i \in Positions(ms) : TokensOf(ms, <<i>>) = MessageTokens(ms, i)
<1>1. TokensOf(ms, <<>>) = 0
  <2>0. <<>> \in Seq(Positions(ms))
    OBVIOUS
  <2>1. PICK s \in Seq(Positions(ms)) : s = <<>>
    BY <2>0
  <2>2. PICK f \in [0 .. Len(s) -> Nat] : Sums(ms, s, f)
    BY SumsExist
  <2>3. Len(s) = 0
    BY <2>1
  <2> QED
    BY <2>1, <2>2, <2>3 DEF Sums
<1>2. ASSUME NEW i \in Positions(ms) PROVE TokensOf(ms, <<i>>) = MessageTokens(ms, i)
  <2>1. PICK s \in Seq(Positions(ms)) : s = <<i>> /\ Len(s) = 1 /\ s[1] = i
    BY Single
  <2>2. PICK f \in [0 .. Len(s) -> Nat] : Sums(ms, s, f)
    BY SumsExist
  <2>3. f[0] = 0 /\ f[1] = f[0] + MessageTokens(ms, i) /\ TokensOf(ms, s) = f[1]
    <3>1. 1 \in 1 .. 1 /\ 1 - 1 = 0
      OBVIOUS
    <3> QED
      BY <2>1, <2>2, <3>1 DEF Sums
  <2>4. PICK t \in Nat : t = MessageTokens(ms, i)
    BY SizeTyped
  <2>5. f[1] = t
    BY <2>3, <2>4
  <2> QED
    BY <2>1, <2>3, <2>4, <2>5, Zenon
<1> QED
  BY <1>1, <1>2

LEMMA TokensJoin ==
    ASSUME NEW ms \in Seq(Message), NEW s \in Seq(Positions(ms)), NEW t \in Seq(Positions(ms))
    PROVE  TokensOf(ms, s \o t) = TokensOf(ms, s) + TokensOf(ms, t)
<1>1. PICK u \in Seq(Positions(ms)) : u = s \o t
  BY Joined
<1>2. Halves(s, t, u)
  BY <1>1, JoinHalves
<1>3. PICK f \in [0 .. Len(s) -> Nat] : Sums(ms, s, f)
  BY SumsExist
<1>4. PICK g \in [0 .. Len(t) -> Nat] : Sums(ms, t, g)
  BY SumsExist
<1>5. PICK h \in [0 .. Len(u) -> Nat] : Sums(ms, u, h)
  BY SumsExist
<1>6. PICK K \in Nat : K = Len(s)
  OBVIOUS
<1>7. PICK M \in Nat : M = Len(t)
  OBVIOUS
<1>8. Len(u) = K + M
  BY <1>2, <1>6, <1>7 DEF Halves
<1> DEFINE S == {n \in 0 .. K : h[n] = f[n]}
           T == {n \in 0 .. M : h[K + n] = f[K] + g[n]}
<1>9. \A n \in 0 .. K : n \in S
  <2>1. 0 \in S
    BY <1>3, <1>5 DEF Sums
  <2>2. ASSUME NEW n \in 0 .. K, n < K, n \in S PROVE n + 1 \in S
    <3>1. PICK m \in 1 .. K : m = n + 1 /\ m - 1 = n
      BY <2>2, Successor
    <3>2. m \in 1 .. Len(u) /\ m \in 1 .. Len(s) /\ m \in 0 .. K
      BY <1>6, <1>8
    <3>3. h[m - 1] = f[m - 1] /\ u[m] = s[m]
      BY <1>2, <2>2, <3>1, <3>2 DEF Halves
    <3>4. h[m] = f[m]
      BY <1>3, <1>5, <3>2, <3>3, Zenon DEF Sums
    <3> QED
      BY <3>1, <3>2, <3>4
  <2> HIDE DEF S
  <2> QED
    BY <2>1, <2>2, Induct
<1>10. f[K] \in Nat /\ h[K] = f[K]
  <2>1. K \in 0 .. K
    OBVIOUS
  <2> QED
    BY <1>6, <1>9, <2>1
<1>11. \A n \in 0 .. M : n \in T
  <2>1. 0 \in T
    <3>1. K + 0 = K /\ 0 \in 0 .. M /\ f[K] + 0 = f[K]
      BY <1>10
    <3> QED
      BY <1>4, <1>10, <3>1 DEF Sums
  <2>2. ASSUME NEW n \in 0 .. M, n < M, n \in T PROVE n + 1 \in T
    <3>1. PICK m \in 1 .. M : m = n + 1 /\ m - 1 = n
      BY <2>2, Successor
    <3>2. PICK q \in 1 .. Len(u) : q = K + m /\ q - 1 = K + n
      BY <1>8, <3>1
    <3>3. m \in 1 .. Len(t) /\ m - 1 \in 0 .. Len(t) /\ m \in 0 .. M
      BY <1>7
    <3>4. u[q] = t[m]
      BY <1>2, <1>6, <3>2, <3>3 DEF Halves
    <3>5. PICK d \in Nat : d = MessageTokens(ms, t[m])
      <4>1. t[m] \in Positions(ms)
        BY <3>3, Element
      <4> QED
        BY <4>1, SizeTyped
    <3>6. h[q] = h[q - 1] + d
      BY <1>5, <3>4, <3>5 DEF Sums
    <3>7. g[m] = g[m - 1] + d /\ g[m - 1] \in Nat
      BY <1>4, <3>3, <3>5 DEF Sums
    <3>8. h[q - 1] = f[K] + g[m - 1]
      BY <2>2, <3>1, <3>2
    <3>9. h[q] = f[K] + g[m]
      BY <1>10, <3>6, <3>7, <3>8
    <3> QED
      BY <3>1, <3>2, <3>3, <3>9
  <2> HIDE DEF T
  <2> QED
    BY <2>1, <2>2, Induct
<1>12. h[K + M] = f[K] + g[M]
  <2>1. M \in 0 .. M
    OBVIOUS
  <2> QED
    BY <1>11, <2>1
<1> QED
  BY <1>1, <1>3, <1>4, <1>5, <1>6, <1>7, <1>8, <1>12 DEF Sums
-----------------------------------------------------------------------------
(***************************************************************************)
(* Some elements of a sequence, in their order.                            *)
(***************************************************************************)
\* ss has, element by element, those of s that are taken.
Picks(ss, s) == Len(ss) = Len(s) /\ \A n \in 1 .. Len(s) : ss[n] = <<>> \/ ss[n] = <<s[n]>>

Taken(x, ss, s) == \E n \in 1 .. Len(s) : s[n] = x /\ ss[n] = <<x>>

LEMMA PicksAre ==
    ASSUME NEW X, NEW s \in Seq(X), NEW ss \in Seq(Seq(X)), Picks(ss, s)
    PROVE  /\ \A x : Occurs(x, FlattenSeq(ss)) <=> Taken(x, ss, s)
           /\ \A R : Ordered(s, R) => Ordered(FlattenSeq(ss), R)
<1>1. \A n \in 1 .. Len(s) : s[n] \in X
  OBVIOUS
<1>2. ASSUME NEW n \in 1 .. Len(s), NEW x
      PROVE  Occurs(x, ss[n]) <=> s[n] = x /\ ss[n] = <<x>>
  <2>1. CASE ss[n] = <<>>
    <3>1. ~ Occurs(x, ss[n])
      BY <2>1, EmptyHasNothing
    <3>2. <<>> # <<x>>
      OBVIOUS
    <3> QED
      BY <2>1, <3>1, <3>2
  <2>2. CASE ss[n] = <<s[n]>>
    <3>1. PICK a \in X : a = s[n]
      BY <1>1
    <3>2. Occurs(x, <<a>>) <=> x = a
      BY Single
    <3> QED
      BY <2>2, <3>1, <3>2
  <2> QED
    BY <2>1, <2>2 DEF Picks
<1>3. ASSUME NEW x PROVE Occurs(x, FlattenSeq(ss)) <=> Taken(x, ss, s)
  <2>1. Occurs(x, FlattenSeq(ss)) <=> \E n \in 1 .. Len(ss) : Occurs(x, ss[n])
    BY FlattenOccurs
  <2> QED
    BY <1>2, <2>1 DEF Picks, Taken
<1>4. ASSUME NEW R, Ordered(s, R) PROVE Ordered(FlattenSeq(ss), R)
  <2>1. ASSUME NEW n \in 1 .. Len(ss) PROVE Ordered(ss[n], R)
    <3>1. CASE ss[n] = <<>>
      BY <3>1, EmptyHasNothing
    <3>2. CASE ss[n] = <<s[n]>>
      <4>1. PICK a \in X : a = s[n]
        BY <1>1 DEF Picks
      <4> QED
        BY <3>2, <4>1, Single
    <3> QED
      BY <3>1, <3>2 DEF Picks
  <2>2. ASSUME NEW i \in 1 .. Len(ss), NEW j \in 1 .. Len(ss), i < j
        PROVE  Before(ss[i], ss[j], R)
    <3>1. ASSUME NEW a \in 1 .. Len(ss[i]), NEW b \in 1 .. Len(ss[j])
          PROVE  <<ss[i][a], ss[j][b]>> \in R
      <4>1. Occurs(ss[i][a], ss[i]) /\ Occurs(ss[j][b], ss[j])
        BY DEF Occurs
      <4>2. i \in 1 .. Len(s) /\ j \in 1 .. Len(s)
        BY DEF Picks
      <4>3. s[i] = ss[i][a] /\ s[j] = ss[j][b]
        BY <1>2, <4>1, <4>2
      <4>4. <<s[i], s[j]>> \in R
        BY <1>4, <2>2, <4>2 DEF Ordered
      <4> QED
        BY <4>3, <4>4
    <3> QED
      BY <3>1 DEF Before
  <2> QED
    BY <2>1, <2>2, FlattenOrdered
<1> QED
  BY <1>3, <1>4

\* What Only is put together from.
Pick(s, S) == [k \in DOMAIN s |-> IF s[k] \in S THEN <<s[k]>> ELSE <<>>]

LEMMA PickPicks ==
    ASSUME NEW X, NEW s \in Seq(X), NEW S
    PROVE  /\ Pick(s, S) \in Seq(Seq(X)) /\ Picks(Pick(s, S), s)
           /\ \A n \in 1 .. Len(s) : Pick(s, S)[n] = <<s[n]>> <=> s[n] \in S
           /\ \A n \in 1 .. Len(s) : Pick(s, S)[n] = <<>> <=> s[n] \notin S
           /\ Only(s, S) = FlattenSeq(Pick(s, S))
<1>1. PICK N \in Nat : N = Len(s) /\ DOMAIN s = 1 .. N
  OBVIOUS
<1>2. \A n \in 1 .. N : s[n] \in X
  BY <1>1
<1>3. Pick(s, S) = [n \in 1 .. N |-> IF s[n] \in S THEN <<s[n]>> ELSE <<>>]
  BY <1>1 DEF Pick
<1>4. PICK g \in [1 .. N -> Seq(X)] : g = Pick(s, S)
  <2>1. \A n \in 1 .. N : <<s[n]>> \in Seq(X) /\ <<>> \in Seq(X)
    BY <1>2
  <2> QED
    BY <1>3, <2>1
<1>5. g \in Seq(Seq(X)) /\ Len(g) = N
  BY ListOf
<1>6. \A n \in 1 .. N : g[n] = IF s[n] \in S THEN <<s[n]>> ELSE <<>>
  BY <1>3, <1>4
<1>7. \A x : <<x>> # <<>>
  OBVIOUS
<1>8. Picks(g, s)
  BY <1>1, <1>5, <1>6 DEF Picks
<1>9. Only(s, S) = FlattenSeq(Pick(s, S))
  BY Zenon DEF Only, Pick
<1> QED
  BY <1>1, <1>4, <1>5, <1>6, <1>7, <1>8, <1>9, Zenon

LEMMA OnlyHas ==
    ASSUME NEW X, NEW s \in Seq(X), NEW S
    PROVE  /\ Only(s, S) \in Seq(X)
           /\ \A x : Occurs(x, Only(s, S)) <=> Occurs(x, s) /\ x \in S
           /\ \A R : Ordered(s, R) => Ordered(Only(s, S), R)
<1>1. PICK ss \in Seq(Seq(X)) : ss = Pick(s, S)
  BY PickPicks
<1>2. /\ Picks(ss, s) /\ Only(s, S) = FlattenSeq(ss)
      /\ \A n \in 1 .. Len(s) : ss[n] = <<s[n]>> <=> s[n] \in S
  BY <1>1, PickPicks
<1>3. FlattenSeq(ss) \in Seq(X)
  BY FlattenTyped
<1>4. \A x : Occurs(x, FlattenSeq(ss)) <=> Taken(x, ss, s)
  BY <1>2, PicksAre
<1>5. \A R : Ordered(s, R) => Ordered(FlattenSeq(ss), R)
  BY <1>2, PicksAre
<1>6. ASSUME NEW x
      PROVE  Occurs(x, FlattenSeq(ss)) <=> Occurs(x, s) /\ x \in S
  <2>1. \A n \in 1 .. Len(s) : s[n] = x => (ss[n] = <<x>> <=> x \in S)
    BY <1>2, Zenon
  <2> QED
    BY <1>4, <2>1 DEF Occurs, Taken
<1> QED
  BY <1>2, <1>3, <1>5, <1>6

LEMMA OnlyNone ==
    ASSUME NEW X, NEW s \in Seq(X), NEW S, \A n \in 1 .. Len(s) : s[n] \notin S
    PROVE  Only(s, S) = <<>>
<1>1. PICK ss \in Seq(Seq(X)) : ss = Pick(s, S)
  BY PickPicks
<1>2. /\ Len(ss) = Len(s) /\ Only(s, S) = FlattenSeq(ss)
      /\ \A n \in 1 .. Len(s) : ss[n] = <<>>
  BY <1>1, PickPicks DEF Picks
<1> QED
  BY <1>2, FlattenEmpty

LEMMA SameSequence ==
    ASSUME NEW X, NEW s \in Seq(X), NEW t \in Seq(X), Len(s) = Len(t),
           \A i \in 1 .. Len(s) : s[i] = t[i]
    PROVE  s = t
<1>1. s = [i \in 1 .. Len(s) |-> s[i]] /\ t = [i \in 1 .. Len(t) |-> t[i]]
  OBVIOUS
<1> QED
  BY <1>1

LEMMA OnlyAll ==
    ASSUME NEW X, NEW s \in Seq(X), NEW S, \A n \in 1 .. Len(s) : s[n] \in S
    PROVE  Only(s, S) = s
<1>1. PICK ss \in Seq(Seq(X)) : ss = Pick(s, S)
  BY PickPicks
<1>2. /\ Len(ss) = Len(s) /\ Only(s, S) = FlattenSeq(ss)
      /\ \A n \in 1 .. Len(s) : ss[n] = <<s[n]>>
  BY <1>1, PickPicks DEF Picks
<1>3. PICK f \in [0 .. Len(ss) -> Seq(X)] :
         /\ f[0] = <<>> /\ \A n \in 1 .. Len(ss) : f[n] = f[n - 1] \o ss[n]
         /\ FlattenSeq(ss) = f[Len(ss)]
  BY FlattenFromLeft
<1>4. PICK N \in Nat : N = Len(s)
  OBVIOUS
<1> DEFINE S0 == {n \in 0 .. N : Len(f[n]) = n /\ \A i \in 1 .. n : f[n][i] = s[i]}
<1>5. 0 \in S0
  <2>1. Len(<<>>) = 0 /\ 1 .. 0 = {} /\ 0 \in 0 .. N
    OBVIOUS
  <2> QED
    BY <1>3, <2>1
<1>6. ASSUME NEW n \in 0 .. N, n < N, n \in S0 PROVE n + 1 \in S0
  <2>1. PICK m \in 1 .. N : m = n + 1 /\ m - 1 = n
    BY <1>6, Successor
  <2>2. PICK t \in Seq(X) : t = f[n]
    BY <1>2, <1>4
  <2>3. PICK a \in X : a = s[m]
    BY <1>4
  <2>4. PICK u \in Seq(X) : u = <<a>> /\ Len(u) = 1 /\ u[1] = a
    BY Single
  <2>5. PICK v \in Seq(X) : v = t \o u
    BY Joined
  <2>6. f[m] = v
    BY <1>2, <1>3, <1>4, <2>1, <2>2, <2>3, <2>4, <2>5
  <2>7. Halves(t, u, v)
    BY <2>5, JoinHalves
  <2>8. Len(t) = n /\ \A i \in 1 .. n : t[i] = s[i]
    BY <1>6, <2>2
  <2>9. Len(v) = m /\ v[m] = s[m]
    <3>1. 1 \in 1 .. 1
      OBVIOUS
    <3> QED
      BY <2>1, <2>3, <2>4, <2>7, <2>8, <3>1 DEF Halves
  <2>10. \A i \in 1 .. n : v[i] = s[i]
    BY <2>7, <2>8 DEF Halves
  <2>11. \A i \in 1 .. m : i = m \/ i \in 1 .. n
    BY <2>1
  <2>12. m \in 0 .. N
    OBVIOUS
  <2> QED
    BY <2>1, <2>6, <2>9, <2>10, <2>11, <2>12
<1>7. \A n \in 0 .. N : n \in S0
  <2> HIDE DEF S0
  <2> QED
    BY <1>5, <1>6, Induct
<1>8. PICK v \in Seq(X) : v = f[N]
  <2>1. N \in 0 .. Len(ss)
    BY <1>2, <1>4
  <2> QED
    BY <2>1
<1>9. Len(v) = N /\ \A i \in 1 .. N : v[i] = s[i]
  <2>1. N \in 0 .. N
    OBVIOUS
  <2> QED
    BY <1>7, <1>8, <2>1
<1>10. v = s
  BY <1>4, <1>9, SameSequence
<1> QED
  BY <1>2, <1>3, <1>4, <1>8, <1>10, Zenon

OnlyOfBoth(s, t, S) == Only(s \o t, S) = Only(s, S) \o Only(t, S)

LEMMA OnlyJoins ==
    ASSUME NEW X, NEW s \in Seq(X), NEW t \in Seq(X), NEW S
    PROVE  OnlyOfBoth(s, t, S)
<1>1. PICK u \in Seq(X) : u = s \o t
  BY Joined
<1>2. Halves(s, t, u)
  BY <1>1, JoinHalves
<1>3. PICK p \in Seq(Seq(X)) : p = Pick(s, S) /\ Len(p) = Len(s) /\ Only(s, S) = FlattenSeq(p)
  BY PickPicks DEF Picks
<1>4. PICK q \in Seq(Seq(X)) : q = Pick(t, S) /\ Len(q) = Len(t) /\ Only(t, S) = FlattenSeq(q)
  BY PickPicks DEF Picks
<1>5. PICK r \in Seq(Seq(X)) : r = Pick(u, S) /\ Len(r) = Len(u) /\ Only(u, S) = FlattenSeq(r)
  BY PickPicks DEF Picks
<1>6. /\ \A i \in 1 .. Len(s) : p[i] = IF s[i] \in S THEN <<s[i]>> ELSE <<>>
      /\ \A i \in 1 .. Len(t) : q[i] = IF t[i] \in S THEN <<t[i]>> ELSE <<>>
      /\ \A i \in 1 .. Len(u) : r[i] = IF u[i] \in S THEN <<u[i]>> ELSE <<>>
  BY <1>3, <1>4, <1>5 DEF Pick
<1>7. Len(r) = Len(p) + Len(q)
  BY <1>2, <1>3, <1>4, <1>5 DEF Halves
<1>8. ASSUME NEW i \in 1 .. Len(p) PROVE r[i] = p[i]
  <2>1. i \in 1 .. Len(s) /\ i \in 1 .. Len(u)
    BY <1>2, <1>3 DEF Halves
  <2>2. u[i] = s[i]
    BY <1>2, <2>1 DEF Halves
  <2> QED
    BY <1>6, <2>1, <2>2, Zenon
<1>9. ASSUME NEW i \in 1 .. Len(q) PROVE r[Len(p) + i] = q[i]
  <2>1. PICK j \in 1 .. Len(u) : j = Len(s) + i
    BY <1>2, <1>4 DEF Halves
  <2>2. i \in 1 .. Len(t)
    BY <1>4
  <2>3. u[j] = t[i]
    BY <1>2, <2>1, <2>2 DEF Halves
  <2>4. r[j] = q[i]
    BY <1>6, <2>2, <2>3, Zenon
  <2> QED
    BY <1>3, <2>1, <2>4
<1>10. FlattenSeq(r) = FlattenSeq(p) \o FlattenSeq(q)
  BY <1>7, <1>8, <1>9, FlattenSplit
<1> QED
  BY <1>1, <1>3, <1>4, <1>5, <1>10, Zenon DEF OnlyOfBoth
-----------------------------------------------------------------------------
(***************************************************************************)
(* What is kept of a request: KeepFitting, KeepNewest, RtkSelect.          *)
(***************************************************************************)
Kept(ms) == 1 .. Len(ms)

LEMMA KeptSize ==
    ASSUME NEW ms \in Seq(Message), NEW i \in Kept(ms)
    PROVE  i \in Positions(ms) /\ ms[i].size \in Nat /\ MessageTokens(ms, i) = ms[i].size
<1>1. i \in Positions(ms) /\ i # 0
  BY DEF Kept, Positions
<1>2. MessageTokens(ms, i) = ms[i].size
  BY <1>1 DEF MessageTokens, Placeholder
<1> QED
  BY <1>1, <1>2, SizeTyped

LEMMA Wider ==
    ASSUME NEW ms \in Seq(Message), NEW s \in Seq(Kept(ms))
    PROVE  s \in Seq(Positions(ms))
<1>1. Kept(ms) \subseteq Positions(ms)
  BY DEF Kept, Positions
<1> QED
  BY <1>1

\* What KeepFitting promises: its budget is spent on what it keeps, or left.
Fitted(ms, positions, budget, fit) ==
    /\ fit.kept \in Seq(Kept(ms)) /\ fit.left \in Nat
    /\ TokensOf(ms, fit.kept) + fit.left = budget
    /\ \A x : Occurs(x, fit.kept) => Occurs(x, positions)
    /\ \A R : Ordered(positions, R) => Ordered(fit.kept, R)

\* What is left of the budget after the first positions.
Spends(ms, positions, budget, left) ==
    /\ left[0] = budget
    /\ \A n \in 1 .. Len(positions) :
          left[n] = left[n - 1] - (IF ms[positions[n]].size <= left[n - 1]
                                   THEN ms[positions[n]].size ELSE 0)

\* The positions that are kept while this is left.
Fitting(ms, positions, left) ==
    [n \in DOMAIN positions |->
        IF ms[positions[n]].size <= left[n - 1] THEN <<positions[n]>> ELSE <<>>]

LEMMA LeftExists ==
    ASSUME NEW ms \in Seq(Message), NEW positions \in Seq(Kept(ms)), NEW budget \in Nat
    PROVE  \E left \in [0 .. Len(positions) -> Nat] :
              /\ Spends(ms, positions, budget, left)
              /\ KeepFitting(ms, positions, budget)
                   = [kept |-> FlattenSeq(Fitting(ms, positions, left)),
                      left |-> left[Len(positions)]]
<1> DEFINE Cost(n, t) == IF ms[positions[n]].size <= t THEN ms[positions[n]].size ELSE 0
           Equation(f) ==
             f = [n \in 0 .. Len(positions) |->
                    IF n = 0 THEN budget ELSE f[n - 1] - Cost(n, f[n - 1])]
<1>1. PICK N \in Nat : N = Len(positions)
  OBVIOUS
<1>2. ASSUME NEW n \in 1 .. N, NEW t \in Nat PROVE t - Cost(n, t) \in Nat
  <2>1. positions[n] \in Kept(ms)
    BY <1>1, Element
  <2>2. ms[positions[n]].size \in Nat
    BY <2>1, KeptSize
  <2> QED
    BY <2>2
<1> HIDE DEF Cost
<1> DEFINE step == [n \in 1 .. N |-> [t \in Nat |-> t - Cost(n, t)]]
<1>3. step \in [1 .. N -> [Nat -> Nat]]
  BY <1>2
<1>4. PICK f \in [0 .. N -> Nat] : Follows(f, N, budget, step)
  <2> HIDE DEF step
  <2> QED
    BY <1>3, Recursion
<1>5. f[0] = budget /\ \A n \in 1 .. N : f[n] = f[n - 1] - Cost(n, f[n - 1])
  <2>1. f[0] = budget /\ \A n \in 1 .. N : f[n] = step[n][f[n - 1]]
    BY <1>4 DEF Follows
  <2>2. ASSUME NEW n \in 1 .. N PROVE f[n] = f[n - 1] - Cost(n, f[n - 1])
    <3>1. n - 1 \in 0 .. N
      OBVIOUS
    <3>2. f[n - 1] \in Nat
      BY <3>1
    <3>3. step[n][f[n - 1]] = f[n - 1] - Cost(n, f[n - 1])
      BY <3>2
    <3> QED
      BY <2>1, <3>3
  <2> QED
    BY <2>1, <2>2
<1>6. Equation(f)
  <2>1. \A n \in 0 .. N : n # 0 => n \in 1 .. N
    OBVIOUS
  <2>2. \A n \in 0 .. N : f[n] = IF n = 0 THEN budget ELSE f[n - 1] - Cost(n, f[n - 1])
    BY <1>5, <2>1, Zenon
  <2> QED
    BY <1>1, <2>2
<1>7. PICK g \in {CHOOSE g : Equation(g)} : g = CHOOSE h : Equation(h)
  OBVIOUS
<1>8. Equation(g)
  BY <1>6, <1>7
<1>9. KeepFitting(ms, positions, budget)
        = [kept |-> FlattenSeq(Fitting(ms, positions, g)), left |-> g[Len(positions)]]
  BY <1>7, Zenon DEF KeepFitting, Fitting, Cost
<1>10. /\ g[0] = budget
       /\ \A n \in 1 .. N : g[n] = g[n - 1] - Cost(n, g[n - 1])
  <2>1. \A n \in 1 .. N : n # 0 /\ n \in 0 .. N
    OBVIOUS
  <2>2. 0 \in 0 .. N
    OBVIOUS
  <2> QED
    BY <1>1, <1>8, <2>1, <2>2
<1> DEFINE S == {n \in 0 .. N : g[n] \in Nat}
<1>11. \A n \in 0 .. N : n \in S
  <2>1. 0 \in S
    BY <1>10
  <2>2. ASSUME NEW n \in 0 .. N, n < N, n \in S PROVE n + 1 \in S
    <3>1. PICK m \in 1 .. N : m = n + 1 /\ m - 1 = n
      BY <2>2, Successor
    <3>2. g[m - 1] \in Nat /\ m \in 0 .. N
      BY <2>2, <3>1
    <3>3. g[m] \in Nat
      BY <1>2, <1>10, <3>2
    <3> QED
      BY <3>1, <3>2, <3>3
  <2> HIDE DEF S
  <2> QED
    BY <2>1, <2>2, Induct
<1>12. g \in [0 .. Len(positions) -> Nat]
  <2>1. g = [n \in 0 .. N |-> g[n]]
    BY <1>1, <1>8
  <2> QED
    BY <1>1, <1>11, <2>1
<1>13. Spends(ms, positions, budget, g)
  BY <1>1, <1>10 DEF Spends, Cost
<1> QED
  BY <1>9, <1>12, <1>13

LEMMA FittingPicks ==
    ASSUME NEW ms \in Seq(Message), NEW positions \in Seq(Kept(ms)),
           NEW left \in [0 .. Len(positions) -> Nat]
    PROVE  /\ Fitting(ms, positions, left) \in Seq(Seq(Kept(ms)))
           /\ Picks(Fitting(ms, positions, left), positions)
           /\ \A n \in 1 .. Len(positions) :
                 Fitting(ms, positions, left)[n] =
                    IF ms[positions[n]].size <= left[n - 1] THEN <<positions[n]>> ELSE <<>>
<1>1. PICK N \in Nat : N = Len(positions) /\ DOMAIN positions = 1 .. N
  OBVIOUS
<1>2. Fitting(ms, positions, left) =
        [n \in 1 .. N |-> IF ms[positions[n]].size <= left[n - 1] THEN <<positions[n]>> ELSE <<>>]
  BY <1>1 DEF Fitting
<1>3. PICK g \in [1 .. N -> Seq(Kept(ms))] : g = Fitting(ms, positions, left)
  <2>1. \A n \in 1 .. N : <<positions[n]>> \in Seq(Kept(ms)) /\ <<>> \in Seq(Kept(ms))
    BY <1>1
  <2> QED
    BY <1>2, <2>1
<1>4. g \in Seq(Seq(Kept(ms))) /\ Len(g) = N
  BY ListOf
<1>5. \A n \in 1 .. N :
         g[n] = IF ms[positions[n]].size <= left[n - 1] THEN <<positions[n]>> ELSE <<>>
  BY <1>2, <1>3
<1>6. Picks(g, positions)
  BY <1>1, <1>4, <1>5, Zenon DEF Picks
<1> QED
  BY <1>1, <1>3, <1>4, <1>5, <1>6, Zenon

LEMMA KeepFittingIs ==
    ASSUME NEW ms \in Seq(Message), NEW positions \in Seq(Kept(ms)), NEW budget \in Nat
    PROVE  Fitted(ms, positions, budget, KeepFitting(ms, positions, budget))
<1>1. PICK left \in [0 .. Len(positions) -> Nat] :
         /\ Spends(ms, positions, budget, left)
         /\ KeepFitting(ms, positions, budget)
              = [kept |-> FlattenSeq(Fitting(ms, positions, left)),
                 left |-> left[Len(positions)]]
  BY LeftExists
<1>2. PICK ss \in Seq(Seq(Kept(ms))) :
         /\ ss = Fitting(ms, positions, left) /\ Picks(ss, positions)
         /\ \A n \in 1 .. Len(positions) :
               ss[n] = IF ms[positions[n]].size <= left[n - 1] THEN <<positions[n]>> ELSE <<>>
  BY FittingPicks
<1>3. PICK N \in Nat : N = Len(positions) /\ N = Len(ss)
  BY <1>2 DEF Picks
<1>4. PICK f \in [0 .. Len(ss) -> Seq(Kept(ms))] :
         /\ f[0] = <<>> /\ \A n \in 1 .. Len(ss) : f[n] = f[n - 1] \o ss[n]
         /\ FlattenSeq(ss) = f[Len(ss)]
  BY FlattenFromLeft
<1> DEFINE S == {n \in 0 .. N : TokensOf(ms, f[n]) + left[n] = budget}
<1>5. 0 \in S
  <2>1. TokensOf(ms, f[0]) = 0 /\ left[0] = budget
    BY <1>1, <1>4, TokensFew DEF Spends
  <2> QED
    BY <2>1
<1>6. ASSUME NEW n \in 0 .. N, n < N, n \in S PROVE n + 1 \in S
  <2>1. PICK m \in 1 .. N : m = n + 1 /\ m - 1 = n
    BY <1>6, Successor
  <2>2. PICK t \in Seq(Kept(ms)) : t = f[n]
    BY <1>3
  <2>3. t \in Seq(Positions(ms))
    BY Wider
  <2>4. PICK a \in Kept(ms) : a = positions[m]
    <3>1. m \in 1 .. Len(positions)
      BY <1>3
    <3>2. positions[m] \in Kept(ms)
      BY <3>1, Element
    <3> QED
      BY <3>2
  <2>5. PICK size \in Nat : size = ms[a].size /\ size = MessageTokens(ms, a)
    BY KeptSize
  <2>6. PICK b \in Nat : b = left[n]
    BY <1>3
  <2>7. PICK used \in Nat : used = TokensOf(ms, t)
    BY <2>3, TokensTyped
  <2>8. used + b = budget
    BY <1>6, <2>2, <2>6, <2>7
  <2>9. /\ ss[m] = IF size <= b THEN <<a>> ELSE <<>>
        /\ left[m] = b - (IF size <= b THEN size ELSE 0)
        /\ f[m] = t \o ss[m]
    BY <1>1, <1>2, <1>3, <1>4, <2>1, <2>2, <2>4, <2>5, <2>6 DEF Spends
  <2>10. TokensOf(ms, f[m]) + left[m] = budget
    <3>1. CASE size <= b
      <4>1. a \in Positions(ms)
        BY KeptSize
      <4>2. PICK u \in Seq(Positions(ms)) : u = <<a>>
        BY <4>1, Single
      <4>3. TokensOf(ms, u) = size
        BY <2>5, <4>1, <4>2, TokensFew
      <4>4. TokensOf(ms, t \o u) = used + size
        BY <2>3, <2>7, <4>3, TokensJoin
      <4>5. f[m] = t \o u /\ left[m] = b - size
        BY <2>9, <3>1, <4>2
      <4> QED
        BY <2>8, <3>1, <4>4, <4>5
    <3>2. CASE ~ (size <= b)
      <4>1. t \o <<>> = t
        OBVIOUS
      <4>2. f[m] = t /\ left[m] = b - 0
        BY <2>9, <3>2, <4>1
      <4> QED
        BY <2>7, <2>8, <4>2
    <3> QED
      BY <3>1, <3>2
  <2>11. m \in 0 .. N
    OBVIOUS
  <2> QED
    BY <2>1, <2>10, <2>11
<1>7. \A n \in 0 .. N : n \in S
  <2> HIDE DEF S
  <2> QED
    BY <1>5, <1>6, Induct
<1>8. PICK kept \in Seq(Kept(ms)) : kept = FlattenSeq(ss)
  BY FlattenTyped
<1>9. TokensOf(ms, kept) + left[N] = budget /\ left[N] \in Nat
  <2>1. N \in 0 .. N
    OBVIOUS
  <2>2. kept = f[N]
    BY <1>3, <1>4, <1>8
  <2> QED
    BY <1>3, <1>7, <2>1, <2>2
<1>10. \A x : Occurs(x, kept) => Occurs(x, positions)
  <2>1. \A x : Occurs(x, kept) <=> Taken(x, ss, positions)
    BY <1>2, <1>8, PicksAre
  <2>2. \A x : Taken(x, ss, positions) => Occurs(x, positions)
    BY DEF Taken, Occurs
  <2> QED
    BY <2>1, <2>2
<1>11. \A R : Ordered(positions, R) => Ordered(kept, R)
  BY <1>2, <1>8, PicksAre
<1>12. KeepFitting(ms, positions, budget) = [kept |-> kept, left |-> left[N]]
  BY <1>1, <1>2, <1>3, <1>8, Zenon
<1>13. /\ KeepFitting(ms, positions, budget).kept = kept
       /\ KeepFitting(ms, positions, budget).left = left[N]
  BY <1>12
<1> QED
  BY <1>9, <1>10, <1>11, <1>13, Zenon DEF Fitted
Less == {ab \in Nat \X Nat : ab[1] < ab[2]}

LEMMA LessIs ==
    ASSUME NEW i \in Nat, NEW j \in Nat
    PROVE  <<i, j>> \in Less <=> i < j
BY DEF Less

\* The positions above a, up to b.
Stretch(a, b, u) ==
    /\ Len(u) = b - a
    /\ \A i \in 1 .. Len(u) : u[i] = a + i
    /\ \A x : Occurs(x, u) <=> x \in a + 1 .. b
    /\ Ordered(u, Less)

LEMMA UpwardsStretch ==
    ASSUME NEW N \in Nat, NEW b \in 0 .. N, NEW a \in 0 .. b
    PROVE  Upwards(a + 1, b) \in Seq(1 .. N) /\ Stretch(a, b, Upwards(a + 1, b))
<1>1. (b + 1) - (a + 1) = b - a /\ b - a \in Nat
  OBVIOUS
<1>2. \A i \in 1 .. b - a : ((a + 1) + i) - 1 = a + i /\ a + i \in 1 .. N
  OBVIOUS
<1>3. Upwards(a + 1, b) = [i \in 1 .. b - a |-> a + i]
  BY <1>1, <1>2 DEF Upwards
<1>4. PICK g \in [1 .. b - a -> 1 .. N] : g = Upwards(a + 1, b)
  BY <1>2, <1>3
<1>5. g \in Seq(1 .. N) /\ Len(g) = b - a
  BY <1>1, ListOf
<1>6. \A i \in 1 .. b - a : g[i] = a + i
  BY <1>3, <1>4
<1>7. ASSUME NEW x PROVE Occurs(x, g) <=> x \in a + 1 .. b
  <2>1. Occurs(x, g) => x \in a + 1 .. b
    <3>1. \A i \in 1 .. b - a : a + i \in a + 1 .. b
      OBVIOUS
    <3> QED
      BY <1>5, <1>6, <3>1 DEF Occurs
  <2>2. ASSUME x \in a + 1 .. b PROVE Occurs(x, g)
    <3>1. PICK i \in 1 .. b - a : x = a + i
      <4>1. x - a \in 1 .. b - a /\ x = a + (x - a)
        BY <2>2
      <4> QED
        BY <4>1
    <3> QED
      BY <1>5, <1>6, <3>1 DEF Occurs
  <2> QED
    BY <2>1, <2>2
<1>8. Ordered(g, Less)
  <2>1. ASSUME NEW i \in 1 .. b - a, NEW j \in 1 .. b - a, i < j
        PROVE  <<g[i], g[j]>> \in Less
    <3>1. a + i \in Nat /\ a + j \in Nat /\ a + i < a + j
      BY <2>1
    <3>2. <<a + i, a + j>> \in Less
      BY <3>1, LessIs
    <3> QED
      BY <1>6, <3>2
  <2> QED
    BY <1>5, <2>1 DEF Ordered
<1> QED
  BY <1>4, <1>5, <1>6, <1>7, <1>8, Zenon DEF Stretch

Sliced(s, K, M, t) == Len(t) = M /\ \A j \in 1 .. M : t[j] = s[K + j]

LEMMA SliceIs ==
    ASSUME NEW A, NEW s \in Seq(A), NEW K \in Nat, NEW M \in Nat, K + M <= Len(s)
    PROVE  /\ SubSeq(s, K + 1, K + M) \in Seq(A)
           /\ Sliced(s, K, M, SubSeq(s, K + 1, K + M))
<1>1. SubSeq(s, K + 1, K + M) \in Seq(A)
  OBVIOUS
<1>2. Len(SubSeq(s, K + 1, K + M)) = M
  OBVIOUS
<1>3. \A j \in 1 .. M : SubSeq(s, K + 1, K + M)[j] = s[K + j]
  OBVIOUS
<1> QED
  BY <1>1, <1>2, <1>3 DEF Sliced

\* What KeepNewest leaves of the positions from a to b: those above some c.
LEMMA KeepNewestIs ==
    ASSUME NEW ms \in Seq(Message), NEW b \in 0 .. Len(ms), NEW a \in 0 .. b, NEW budget \in Nat
    PROVE  \E c \in a .. b :
              /\ KeepNewest(ms, Upwards(a + 1, b), budget) = Upwards(c + 1, b)
              /\ TokensOf(ms, Upwards(c + 1, b)) <= budget
<1>1. PICK N \in Nat : N = Len(ms) /\ b \in 0 .. N
  OBVIOUS
<1>2. PICK u \in Seq(1 .. N) : u = Upwards(a + 1, b) /\ Stretch(a, b, u)
  BY <1>1, UpwardsStretch
<1>3. PICK L \in Nat : L = Len(u) /\ L = b - a
  BY <1>2 DEF Stretch
<1> DEFINE RestOf(n) == SubSeq(u, (L - n) + 1, L)
           S == {n \in 0 .. L : TokensOf(ms, RestOf(n)) <= budget}
<1>4. ASSUME NEW n \in 0 .. L PROVE b - n \in a .. b /\ RestOf(n) = Upwards((b - n) + 1, b)
  <2>1. PICK c \in a .. b : c = b - n
    BY <1>3
  <2>2. c \in 0 .. b
    OBVIOUS
  <2>3. PICK v \in Seq(1 .. N) : v = Upwards(c + 1, b) /\ Stretch(c, b, v)
    BY <1>1, <2>2, UpwardsStretch
  <2>4. Len(v) = n /\ \A i \in 1 .. n : v[i] = c + i
    BY <2>1, <2>3 DEF Stretch
  <2>5. PICK w \in Seq(1 .. N) : w = RestOf(n) /\ Len(w) = n /\ \A i \in 1 .. n : w[i] = u[(L - n) + i]
    <3>1. PICK K \in Nat : K = L - n /\ K + n = L /\ K + n <= Len(u)
      <4>1. L - n \in Nat /\ (L - n) + n = L
        OBVIOUS
      <4> QED
        BY <1>3, <4>1
    <3>2. PICK w \in Seq(1 .. N) : w = SubSeq(u, K + 1, K + n) /\ Sliced(u, K, n, w)
      <4>1. n \in Nat
        OBVIOUS
      <4> QED
        BY <3>1, <4>1, SliceIs
    <3> QED
      BY <3>1, <3>2 DEF Sliced
  <2>6. \A i \in 1 .. n : (L - n) + i \in 1 .. L /\ a + ((L - n) + i) = c + i
    BY <1>3, <2>1
  <2>7. ASSUME NEW i \in 1 .. n PROVE w[i] = v[i]
    <3>1. PICK j \in 1 .. L : j = (L - n) + i /\ a + j = c + i
      BY <2>6
    <3>2. u[j] = a + j
      BY <1>2, <1>3 DEF Stretch
    <3> QED
      BY <2>4, <2>5, <3>1, <3>2
  <2>8. w = v
    BY <2>4, <2>5, <2>7, SameSequence
  <2> QED
    BY <2>1, <2>3, <2>5, <2>8
<1>5. 0 \in S
  <2>1. 0 \in 0 .. L /\ b - 0 = b /\ b \in Nat
    OBVIOUS
  <2>2. RestOf(0) = Upwards(b + 1, b)
    BY <1>4, <2>1
  <2>3. Upwards(b + 1, b) = <<>>
    <3>1. b \in 0 .. b
      OBVIOUS
    <3>2. PICK v \in Seq(1 .. N) : v = Upwards(b + 1, b) /\ Stretch(b, b, v)
      BY <1>1, <3>1, UpwardsStretch
    <3>3. Len(v) = 0
      BY <2>1, <3>2 DEF Stretch
    <3>4. v = <<>>
      BY <3>3
    <3> QED
      BY <3>2, <3>4
  <2>4. TokensOf(ms, RestOf(0)) = 0
    BY <2>2, <2>3, TokensFew
  <2> HIDE DEF RestOf
  <2> QED
    BY <2>1, <2>4
<1>6. Max(S) \in S
  <2> HIDE DEF RestOf
  <2>1. S \in SUBSET (0 .. L) /\ S # {}
    BY <1>5
  <2> HIDE DEF S
  <2> QED
    BY <2>1, MaxOf
<1>7. PICK k \in 0 .. L : k = Max(S) /\ TokensOf(ms, RestOf(k)) <= budget
  <2> HIDE DEF RestOf
  <2> QED
    BY <1>6
<1>8. KeepNewest(ms, u, budget) = RestOf(k)
  BY <1>3, <1>7, Zenon DEF KeepNewest
<1>9. PICK c \in a .. b : c = b - k /\ RestOf(k) = Upwards(c + 1, b)
  BY <1>4
<1> QED
  BY <1>2, <1>7, <1>8, <1>9, Zenon
\* What CompressionFits says of a selection.
KeptFits(ms, budget, selected) ==
    LET kept == Only(selected, 1 .. Len(ms))
        In(i) == \E k \in DOMAIN kept : kept[k] = i
    IN  /\ Increasing(kept)
        /\ budget > 0 => TokensOf(ms, kept) <= budget
        /\ Len(selected) - Len(kept) = IF Len(kept) < Len(ms) /\ kept # <<>> THEN 1 ELSE 0
        /\ \A i, j \in HeadEnd(ms) + 1 .. Len(ms) - KeepTail : i < j /\ In(i) => In(j)

LEMMA OrderedIncreases ==
    ASSUME NEW N \in Nat, NEW s \in Seq(1 .. N), Ordered(s, Less)
    PROVE  Increasing(s)
<1>1. ASSUME NEW i \in DOMAIN s, NEW j \in DOMAIN s, i < j PROVE s[i] < s[j]
  <2>1. i \in 1 .. Len(s) /\ j \in 1 .. Len(s)
    OBVIOUS
  <2>2. s[i] \in Nat /\ s[j] \in Nat
    BY <2>1
  <2>3. <<s[i], s[j]>> \in Less
    BY <1>1, <2>1 DEF Ordered
  <2> QED
    BY <2>2, <2>3, LessIs
<1> QED
  BY <1>1 DEF Increasing

LEMMA OccursIn ==
    ASSUME NEW X, NEW s \in Seq(X), NEW x
    PROVE  Occurs(x, s) <=> \E k \in DOMAIN s : s[k] = x
BY DEF Occurs

\* A selection with the kept positions and maybe a note fits.
LEMMA FitsFrom ==
    ASSUME NEW ms \in Seq(Message), NEW budget \in Nat,
           NEW selected \in Seq(Positions(ms)), NEW kept \in Seq(1 .. Len(ms)),
           kept = Only(selected, 1 .. Len(ms)), Ordered(kept, Less),
           budget > 0 => TokensOf(ms, kept) <= budget,
           Len(selected) - Len(kept) = IF Len(kept) < Len(ms) /\ kept # <<>> THEN 1 ELSE 0,
           \A i, j \in HeadEnd(ms) + 1 .. Len(ms) - KeepTail :
              i < j /\ Occurs(i, kept) => Occurs(j, kept)
    PROVE  KeptFits(ms, budget, selected)
<1>1. Increasing(kept)
  <2>1. Len(ms) \in Nat
    OBVIOUS
  <2> QED
    BY <2>1, OrderedIncreases
<1>2. ASSUME NEW i \in HeadEnd(ms) + 1 .. Len(ms) - KeepTail,
             NEW j \in HeadEnd(ms) + 1 .. Len(ms) - KeepTail,
             i < j, \E k \in DOMAIN kept : kept[k] = i
      PROVE  \E k \in DOMAIN kept : kept[k] = j
  <2>1. Occurs(i, kept)
    BY <1>2, OccursIn
  <2>2. Occurs(j, kept)
    BY <1>2, <2>1
  <2> QED
    BY <2>2, OccursIn
<1> QED
  BY <1>1, <1>2, Zenon DEF KeptFits

\* All of a request fits when nothing has to go.
LEMMA AllFits ==
    ASSUME NEW ms \in Seq(Message), NEW budget \in Nat,
           budget = 0 \/ TotalTokens(ms) <= budget
    PROVE  /\ Upwards(1, Len(ms)) \in Seq(Positions(ms))
           /\ KeptFits(ms, budget, Upwards(1, Len(ms)))
<1>1. PICK N \in Nat : N = Len(ms) /\ N \in 0 .. N /\ 0 \in 0 .. N /\ 0 + 1 = 1
  OBVIOUS
<1>2. PICK u \in Seq(1 .. N) : u = Upwards(1, N) /\ Stretch(0, N, u)
  BY <1>1, UpwardsStretch
<1>3. Len(u) = N /\ Ordered(u, Less) /\ \A x : Occurs(x, u) <=> x \in 1 .. N
  BY <1>1, <1>2 DEF Stretch
<1>4. u \in Seq(Positions(ms))
  BY <1>1, Wider DEF Kept
<1>5. Only(u, 1 .. N) = u
  <2>1. \A n \in 1 .. Len(u) : u[n] \in 1 .. N
    OBVIOUS
  <2> QED
    BY <2>1, OnlyAll
<1>6. budget > 0 => TokensOf(ms, u) <= budget
  <2>1. budget > 0 => budget # 0
    OBVIOUS
  <2> QED
    BY <1>1, <1>2, <2>1 DEF TotalTokens
<1>7. Len(u) - Len(u) = IF Len(u) < N /\ u # <<>> THEN 1 ELSE 0
  <2>1. Len(u) - Len(u) = 0 /\ ~ (N < N)
    OBVIOUS
  <2> QED
    BY <1>3, <2>1
<1>8. ASSUME NEW i \in HeadEnd(ms) + 1 .. N - KeepTail, NEW j \in HeadEnd(ms) + 1 .. N - KeepTail,
             i < j, Occurs(i, u)
      PROVE  Occurs(j, u)
  <2>1. i \in 1 .. N /\ j \in Int /\ j <= N - KeepTail /\ KeepTail \in Nat
    BY <1>3, <1>8, CompressAssumption
  <2>2. j \in 1 .. N
    BY <1>8, <2>1
  <2> QED
    BY <1>3, <2>2
<1> QED
  BY <1>1, <1>2, <1>3, <1>4, <1>5, <1>6, <1>7, <1>8, FitsFrom

-----------------------------------------------------------------------------
\* What is selected of the head, the middle and the tail, joined.
Thirds(ms, H, T, c, head, middle, tail, all) ==
    /\ Ordered(all, Less)
    /\ \A x \in H + 1 .. T : Occurs(x, all) <=> x \in c + 1 .. T
    /\ TokensOf(ms, all) = (TokensOf(ms, head) + TokensOf(ms, middle)) + TokensOf(ms, tail)

LEMMA JoinThirds ==
    ASSUME NEW ms \in Seq(Message), NEW H \in 1 .. Len(ms), NEW T \in H .. Len(ms), NEW c \in H .. T,
           NEW head \in Seq(Kept(ms)), Ordered(head, Less), \A x : Occurs(x, head) => x \in 1 .. H,
           NEW middle \in Seq(Kept(ms)), Stretch(c, T, middle),
           NEW tail \in Seq(Kept(ms)), Ordered(tail, Less),
           \A x : Occurs(x, tail) => x \in T + 1 .. Len(ms),
           NEW all \in Seq(Kept(ms)), all = (head \o middle) \o tail
    PROVE  Thirds(ms, H, T, c, head, middle, tail, all)
<1>1. PICK front \in Seq(Kept(ms)) : front = head \o middle
  BY Joined
<1>2. all = front \o tail
  BY <1>1
<1>3. Ordered(middle, Less) /\ \A x : Occurs(x, middle) <=> x \in c + 1 .. T
  BY DEF Stretch
<1>4. ASSUME NEW s \in Seq(Kept(ms)), NEW t \in Seq(Kept(ms)),
             \A x, y : Occurs(x, s) /\ Occurs(y, t) => <<x, y>> \in Less
      PROVE  Before(s, t, Less)
  <2>1. ASSUME NEW i \in 1 .. Len(s), NEW j \in 1 .. Len(t) PROVE <<s[i], t[j]>> \in Less
    <3>1. Occurs(s[i], s) /\ Occurs(t[j], t)
      BY DEF Occurs
    <3> QED
      BY <1>4, <3>1
  <2> QED
    BY <2>1 DEF Before
<1>5. ASSUME NEW x, NEW y, Occurs(x, head), Occurs(y, middle) PROVE <<x, y>> \in Less
  <2>1. x \in 1 .. H /\ y \in c + 1 .. T
    BY <1>3, <1>5
  <2>2. x \in Nat /\ y \in Nat /\ x < y
    BY <2>1
  <2> QED
    BY <2>2, LessIs
<1>6. Ordered(front, Less)
  BY <1>1, <1>3, <1>4, <1>5, JoinOrdered
<1>7. \A x : Occurs(x, front) <=> Occurs(x, head) \/ Occurs(x, middle)
  BY <1>1, JoinOccurs
<1>8. ASSUME NEW x, NEW y, Occurs(x, front), Occurs(y, tail) PROVE <<x, y>> \in Less
  <2>1. x \in 1 .. H \/ x \in c + 1 .. T
    BY <1>3, <1>7, <1>8
  <2>2. y \in T + 1 .. Len(ms)
    BY <1>8
  <2>3. x \in Nat /\ y \in Nat /\ x < y
    BY <2>1, <2>2
  <2> QED
    BY <2>3, LessIs
<1>9. Ordered(all, Less)
  BY <1>2, <1>4, <1>6, <1>8, JoinOrdered
<1>10. ASSUME NEW x \in H + 1 .. T PROVE Occurs(x, all) <=> x \in c + 1 .. T
  <2>1. Occurs(x, all) <=> Occurs(x, front) \/ Occurs(x, tail)
    BY <1>2, JoinOccurs
  <2>2. x \notin 1 .. H /\ x \notin T + 1 .. Len(ms)
    OBVIOUS
  <2> QED
    BY <1>3, <1>7, <2>1, <2>2
<1>11. TokensOf(ms, front) = TokensOf(ms, head) + TokensOf(ms, middle)
  BY <1>1, Wider, TokensJoin
<1>12. TokensOf(ms, all) = TokensOf(ms, front) + TokensOf(ms, tail)
  BY <1>2, Wider, TokensJoin
<1> QED
  BY <1>9, <1>10, <1>11, <1>12, Zenon DEF Thirds

\* The note about the messages that are missing can be told from them.
LEMMA Noted ==
    ASSUME NEW ms \in Seq(Message), NEW s \in Seq(Kept(ms)), NEW p \in 0 .. Len(s)
    PROVE  /\ InsertAt(s, p + 1, Placeholder) \in Seq(Positions(ms))
           /\ Len(InsertAt(s, p + 1, Placeholder)) = Len(s) + 1
           /\ Only(InsertAt(s, p + 1, Placeholder), Kept(ms)) = s
<1>1. PICK K \in Nat : K = p
  OBVIOUS
<1>2. PICK M \in Nat : M = Len(s) - K /\ K + M = Len(s)
  <2>1. Len(s) - p \in Nat /\ p + (Len(s) - p) = Len(s)
    OBVIOUS
  <2> QED
    BY <1>1, <2>1
<1>3. PICK l \in Seq(Kept(ms)) : l = SubSeq(s, 0 + 1, 0 + K) /\ Sliced(s, 0, K, l)
  <2>1. 0 \in Nat /\ 0 + K <= Len(s)
    BY <1>1
  <2> QED
    BY <2>1, SliceIs
<1>4. PICK r \in Seq(Kept(ms)) : r = SubSeq(s, K + 1, K + M) /\ Sliced(s, K, M, r)
  <2>1. K + M <= Len(s)
    BY <1>2
  <2> QED
    BY <2>1, SliceIs
<1>5. InsertAt(s, p + 1, Placeholder) = (l \o <<Placeholder>>) \o r
  <2>1. (p + 1) - 1 = 0 + K /\ 0 + 1 = 1 /\ p + 1 = K + 1 /\ K + M = Len(s)
    BY <1>1, <1>2
  <2> QED
    BY <1>3, <1>4, <2>1, Zenon DEF InsertAt
<1>6. Placeholder \in Positions(ms) /\ Placeholder \notin Kept(ms)
  BY DEF Placeholder, Positions, Kept
<1>7. PICK note \in Seq(Positions(ms)) : note = <<Placeholder>> /\ Len(note) = 1 /\ note[1] = Placeholder
  BY <1>6, Single
<1>8. l \in Seq(Positions(ms)) /\ r \in Seq(Positions(ms))
  BY Wider
<1>9. PICK front \in Seq(Positions(ms)) : front = l \o note
  BY <1>8, Joined
<1>10. PICK all \in Seq(Positions(ms)) : all = front \o r
  BY <1>8, Joined
<1>11. Len(all) = Len(s) + 1
  <2>1. Len(front) = Len(l) + Len(note) /\ Len(all) = Len(front) + Len(r)
    BY <1>8, <1>9, <1>10, JoinHalves DEF Halves
  <2>2. Len(l) = K /\ Len(r) = M
    BY <1>3, <1>4 DEF Sliced
  <2> QED
    BY <1>2, <1>7, <2>1, <2>2
<1>12. Only(front, Kept(ms)) = Only(l, Kept(ms)) \o Only(note, Kept(ms))
  <2>1. OnlyOfBoth(l, note, Kept(ms))
    BY <1>8, OnlyJoins
  <2> QED
    BY <1>9, <2>1, Zenon DEF OnlyOfBoth
<1>13. Only(all, Kept(ms)) = Only(front, Kept(ms)) \o Only(r, Kept(ms))
  <2>1. OnlyOfBoth(front, r, Kept(ms))
    BY <1>8, OnlyJoins
  <2> QED
    BY <1>10, <2>1, Zenon DEF OnlyOfBoth
<1>14. Only(l, Kept(ms)) = l /\ Only(r, Kept(ms)) = r
  <2>1. \A n \in 1 .. Len(l) : l[n] \in Kept(ms)
    OBVIOUS
  <2>2. \A n \in 1 .. Len(r) : r[n] \in Kept(ms)
    OBVIOUS
  <2> QED
    BY <2>1, <2>2, OnlyAll
<1>15. Only(note, Kept(ms)) = <<>>
  <2>1. \A n \in 1 .. Len(note) : note[n] = Placeholder
    BY <1>7
  <2> QED
    BY <1>6, <2>1, OnlyNone
<1>16. (l \o <<>>) \o r = s
  <2>1. l \o <<>> = l
    OBVIOUS
  <2>2. PICK t \in Seq(Kept(ms)) : t = l \o r
    BY Joined
  <2>3. Halves(l, r, t)
    BY <2>2, JoinHalves
  <2>4. Len(l) = K /\ Len(r) = M /\ Len(t) = Len(s)
    BY <1>2, <1>3, <1>4, <2>3 DEF Halves, Sliced
  <2>5. ASSUME NEW i \in 1 .. Len(t) PROVE t[i] = s[i]
    <3>1. CASE i \in 1 .. Len(l)
      <4>1. t[i] = l[i] /\ l[i] = s[0 + i]
        BY <1>3, <2>3, <2>4, <3>1 DEF Halves, Sliced
      <4>2. 0 + i = i
        OBVIOUS
      <4> QED
        BY <4>1, <4>2
    <3>2. CASE \E j \in 1 .. Len(r) : i = Len(l) + j
      <4>1. PICK j \in 1 .. Len(r) : i = Len(l) + j
        BY <3>2
      <4>2. t[i] = r[j]
        BY <2>3, <4>1 DEF Halves
      <4>3. r[j] = s[K + j]
        BY <1>4, <2>4 DEF Sliced
      <4> QED
        BY <2>4, <4>1, <4>2, <4>3
    <3> QED
      BY <2>3, <3>1, <3>2 DEF Halves
  <2>6. t = s
    BY <2>4, <2>5, SameSequence
  <2> QED
    BY <2>1, <2>2, <2>6, Zenon
<1>17. Only(all, Kept(ms)) = s
  BY <1>12, <1>13, <1>14, <1>15, <1>16, Zenon
<1>18. InsertAt(s, p + 1, Placeholder) = all
  BY <1>5, <1>7, <1>9, <1>10, Zenon
<1> QED
  BY <1>11, <1>17, <1>18, Zenon
\* Where the head ends and the tail starts.
TailStart(ms) ==
    Max({IF KeepTail < Len(ms) THEN Len(ms) - KeepTail ELSE 0, HeadEnd(ms)})

LEMMA EndsAre ==
    ASSUME NEW ms \in Seq(Message), Len(ms) # 0
    PROVE  /\ HeadEnd(ms) \in 1 .. Len(ms) /\ TailStart(ms) \in HeadEnd(ms) .. Len(ms)
           /\ \A i \in HeadEnd(ms) + 1 .. Len(ms) - KeepTail : i \in HeadEnd(ms) + 1 .. TailStart(ms)
<1>1. PICK N \in Nat \ {0} : N = Len(ms)
  OBVIOUS
<1> DEFINE Heads == {h \in 1 .. N : \A i \in 2 .. h : ms[i].role = "system"}
<1>2. Heads \in SUBSET (0 .. N) /\ Heads # {} /\ Heads \subseteq 1 .. N
  <2>1. 1 \in 1 .. N /\ 2 .. 1 = {}
    BY <1>1
  <2>2. 1 \in Heads
    BY <2>1
  <2>3. 1 .. N \subseteq 0 .. N
    OBVIOUS
  <2> QED
    BY <2>2, <2>3
<1>3. PICK H \in 1 .. N : H = HeadEnd(ms)
  <2>1. HeadEnd(ms) = Max(Heads)
    BY <1>1 DEF HeadEnd
  <2> HIDE DEF Heads
  <2>2. Max(Heads) \in Heads
    BY <1>2, MaxOf
  <2> QED
    BY <1>2, <2>1, <2>2
<1> DEFINE before == IF KeepTail < N THEN N - KeepTail ELSE 0
           Starts == {before, H}
<1>4. before \in 0 .. N /\ (N - KeepTail <= before) /\ KeepTail \in Nat
  BY <1>1, CompressAssumption
<1>5. Starts \in SUBSET (0 .. N) /\ Starts # {}
  <2> HIDE DEF before
  <2> QED
    BY <1>3, <1>4
<1>6. PICK T \in 0 .. N : T = TailStart(ms) /\ T \in Starts /\ before <= T /\ H <= T
  <2>1. TailStart(ms) = Max(Starts)
    BY <1>1, <1>3 DEF TailStart
  <2>2. H \in Starts /\ before \in Starts
    OBVIOUS
  <2> HIDE DEF Starts, before
  <2>3. Max(Starts) \in Starts /\ \A n \in Starts : n <= Max(Starts)
    BY <1>5, MaxOf
  <2> QED
    BY <1>5, <2>1, <2>2, <2>3
<1>7. T \in H .. N
  BY <1>6
<1> HIDE DEF Starts, before
<1>8. ASSUME NEW i \in H + 1 .. N - KeepTail PROVE i \in H + 1 .. T
  BY <1>4, <1>6
<1> QED
  BY <1>1, <1>3, <1>6, <1>7, <1>8

\* The selection before the note, when something has to go.
SelectedOf(ms, budget) ==
    LET head == KeepFitting(ms, Upwards(1, HeadEnd(ms)), budget)
        tail == KeepFitting(ms, Upwards(TailStart(ms) + 1, Len(ms)), head.left)
        middle == KeepNewest(ms, Upwards(HeadEnd(ms) + 1, TailStart(ms)), tail.left)
    IN  (head.kept \o middle) \o tail.kept

Selects(ms, budget, s) ==
    /\ Ordered(s, Less) /\ TokensOf(ms, s) <= budget
    /\ \A i, j \in HeadEnd(ms) + 1 .. Len(ms) - KeepTail :
          i < j /\ Occurs(i, s) => Occurs(j, s)

LEMMA SelectedIs ==
    ASSUME NEW ms \in Seq(Message), NEW budget \in Nat, Len(ms) # 0
    PROVE  SelectedOf(ms, budget) \in Seq(Kept(ms)) /\ Selects(ms, budget, SelectedOf(ms, budget))
<1>1. PICK N \in Nat \ {0} : N = Len(ms)
  OBVIOUS
<1>2. PICK H \in 1 .. N : H = HeadEnd(ms)
  BY <1>1, EndsAre
<1>3. PICK T \in H .. N : T = TailStart(ms)
  BY <1>1, <1>2, EndsAre
<1>4. PICK first \in Seq(Kept(ms)) : first = Upwards(1, H) /\ Stretch(0, H, first)
  <2>1. H \in 0 .. N /\ 0 \in 0 .. H /\ 0 + 1 = 1
    OBVIOUS
  <2>2. Upwards(0 + 1, H) \in Seq(1 .. N) /\ Stretch(0, H, Upwards(0 + 1, H))
    BY <2>1, UpwardsStretch
  <2> QED
    BY <1>1, <2>1, <2>2 DEF Kept
<1>5. PICK last \in Seq(Kept(ms)) : last = Upwards(T + 1, N) /\ Stretch(T, N, last)
  <2>1. N \in 0 .. N /\ T \in 0 .. N
    OBVIOUS
  <2>2. Upwards(T + 1, N) \in Seq(1 .. N) /\ Stretch(T, N, Upwards(T + 1, N))
    BY <2>1, UpwardsStretch
  <2> QED
    BY <1>1, <2>2 DEF Kept
<1>6. PICK head \in {KeepFitting(ms, first, budget)} : Fitted(ms, first, budget, head)
  BY KeepFittingIs
<1>7. PICK left \in Nat : left = head.left
  BY <1>6 DEF Fitted
<1>8. PICK tail \in {KeepFitting(ms, last, left)} : Fitted(ms, last, left, tail)
  BY KeepFittingIs
<1>9. PICK rest \in Nat : rest = tail.left
  BY <1>8 DEF Fitted
<1>10. PICK c \in H .. T :
          /\ KeepNewest(ms, Upwards(H + 1, T), rest) = Upwards(c + 1, T)
          /\ TokensOf(ms, Upwards(c + 1, T)) <= rest
  <2>1. T \in 0 .. Len(ms) /\ H \in 0 .. T
    BY <1>1
  <2> QED
    BY <2>1, KeepNewestIs
<1>11. PICK middle \in Seq(Kept(ms)) : middle = Upwards(c + 1, T) /\ Stretch(c, T, middle)
  <2>1. T \in 0 .. N /\ c \in 0 .. T
    OBVIOUS
  <2>2. Upwards(c + 1, T) \in Seq(1 .. N) /\ Stretch(c, T, Upwards(c + 1, T))
    BY <2>1, UpwardsStretch
  <2> QED
    BY <1>1, <2>2 DEF Kept
<1>12. PICK h \in Seq(Kept(ms)) : h = head.kept
  BY <1>6 DEF Fitted
<1>13. PICK t \in Seq(Kept(ms)) : t = tail.kept
  BY <1>8 DEF Fitted
<1>14. Ordered(h, Less) /\ \A x : Occurs(x, h) => x \in 1 .. H
  <2>1. 0 + 1 = 1
    OBVIOUS
  <2>2. Ordered(first, Less) /\ \A x : Occurs(x, first) <=> x \in 1 .. H
    BY <1>4, <2>1 DEF Stretch
  <2> QED
    BY <1>6, <1>12, <2>2 DEF Fitted
<1>15. Ordered(t, Less) /\ \A x : Occurs(x, t) => x \in T + 1 .. N
  <2>1. Ordered(last, Less) /\ \A x : Occurs(x, last) <=> x \in T + 1 .. N
    BY <1>5 DEF Stretch
  <2> QED
    BY <1>8, <1>13, <2>1 DEF Fitted
<1>16. PICK all \in Seq(Kept(ms)) : all = (h \o middle) \o t
  <2>1. PICK front \in Seq(Kept(ms)) : front = h \o middle
    BY Joined
  <2>2. PICK all \in Seq(Kept(ms)) : all = front \o t
    BY Joined
  <2> QED
    BY <2>1, <2>2
<1>17. /\ Ordered(all, Less)
       /\ \A x \in H + 1 .. T : Occurs(x, all) <=> x \in c + 1 .. T
       /\ TokensOf(ms, all) = (TokensOf(ms, h) + TokensOf(ms, middle)) + TokensOf(ms, t)
  <2>1. H \in 1 .. Len(ms) /\ T \in H .. Len(ms) /\ \A x : Occurs(x, t) => x \in T + 1 .. Len(ms)
    BY <1>1, <1>15
  <2>2. Ordered(h, Less) /\ Ordered(t, Less) /\ \A x : Occurs(x, h) => x \in 1 .. H
    BY <1>14, <1>15
  <2>3. Stretch(c, T, middle)
    BY <1>11
  <2>4. Thirds(ms, H, T, c, h, middle, t, all)
    BY <2>1, <2>2, <2>3, <1>16, JoinThirds
  <2> QED
    BY <2>4 DEF Thirds
<1>18. SelectedOf(ms, budget) = all
  BY <1>1, <1>2, <1>3, <1>4, <1>5, <1>6, <1>7, <1>8, <1>9, <1>10, <1>11, <1>12, <1>13, <1>16,
     Zenon DEF SelectedOf
<1>19. TokensOf(ms, all) <= budget
  <2>1. PICK x \in Nat : x = TokensOf(ms, h)
    BY Wider, TokensTyped
  <2>2. PICK y \in Nat : y = TokensOf(ms, middle)
    BY Wider, TokensTyped
  <2>3. PICK z \in Nat : z = TokensOf(ms, t)
    BY Wider, TokensTyped
  <2>4. x + left = budget /\ z + rest = left /\ y <= rest
    BY <1>6, <1>7, <1>8, <1>9, <1>10, <1>11, <1>12, <1>13, <2>1, <2>2, <2>3 DEF Fitted
  <2>5. TokensOf(ms, all) = (x + y) + z
    BY <1>17, <2>1, <2>2, <2>3
  <2>6. (x + y) + z <= budget
    BY <2>4
  <2> QED
    BY <2>5, <2>6
<1>20. ASSUME NEW i \in HeadEnd(ms) + 1 .. Len(ms) - KeepTail,
              NEW j \in HeadEnd(ms) + 1 .. Len(ms) - KeepTail, i < j, Occurs(i, all)
       PROVE  Occurs(j, all)
  <2>1. i \in H + 1 .. T /\ j \in H + 1 .. T
    BY <1>1, <1>2, <1>3, EndsAre
  <2>2. i \in c + 1 .. T
    BY <1>17, <1>20, <2>1
  <2>3. j \in c + 1 .. T
    BY <1>20, <2>1, <2>2
  <2> QED
    BY <1>17, <2>1, <2>3
<1> QED
  BY <1>17, <1>18, <1>19, <1>20 DEF Selects

LEMMA RtkFits ==
    ASSUME NEW ms \in Seq(Message), NEW budget \in Nat
    PROVE  /\ RtkSelect(ms, budget) \in Seq(Positions(ms))
           /\ KeptFits(ms, budget, RtkSelect(ms, budget))
<1>1. CASE budget = 0 \/ TotalTokens(ms) <= budget
  <2>1. RtkSelect(ms, budget) = Upwards(1, Len(ms))
    BY <1>1, Zenon DEF RtkSelect
  <2> QED
    BY <1>1, <2>1, AllFits
<1>2. CASE ~ (budget = 0 \/ TotalTokens(ms) <= budget)
  <2>1. Len(ms) # 0
    <3> SUFFICES ASSUME Len(ms) = 0 PROVE FALSE
      OBVIOUS
    <3>1. 0 \in 0 .. 0 /\ 0 + 1 = 1 /\ 0 - 0 = 0 /\ 0 \in Nat
      OBVIOUS
    <3>2. PICK u \in Seq(1 .. 0) : u = Upwards(1, 0) /\ Stretch(0, 0, u)
      BY <3>1, UpwardsStretch
    <3>3. Len(u) = 0
      BY <3>1, <3>2 DEF Stretch
    <3>4. u = <<>>
      BY <3>3
    <3>5. TotalTokens(ms) = 0
      BY <3>2, <3>4, TokensFew DEF TotalTokens
    <3>6. 0 <= budget
      OBVIOUS
    <3> QED
      BY <1>2, <3>5, <3>6
  <2>2. PICK s \in Seq(Kept(ms)) : s = SelectedOf(ms, budget) /\ Selects(ms, budget, s)
    BY <2>1, SelectedIs
  <2>3. RtkSelect(ms, budget) =
          IF Len(s) < Len(ms) /\ s # <<>>
          THEN InsertAt(s, Min({HeadEnd(ms), Len(s)}) + 1, Placeholder)
          ELSE s
    BY <1>2, <2>2, Zenon DEF RtkSelect, SelectedOf, TailStart, MiddleBudget
  <2>4. s \in Seq(1 .. Len(ms)) /\ s \in Seq(Positions(ms))
    BY Wider DEF Kept
  <2>5. CASE Len(s) < Len(ms) /\ s # <<>>
    <3>1. PICK p \in 0 .. Len(s) : p = Min({HeadEnd(ms), Len(s)})
      <4>1. PICK H \in Nat : H = HeadEnd(ms)
        <5>1. HeadEnd(ms) \in 1 .. Len(ms)
          BY <2>1, EndsAre
        <5> QED
          BY <5>1
      <4>2. {H, Len(s)} \in SUBSET Nat /\ {H, Len(s)} # {} /\ Len(s) \in {H, Len(s)}
        OBVIOUS
      <4>3. Min({H, Len(s)}) \in {H, Len(s)} /\ Min({H, Len(s)}) <= Len(s)
        BY <4>2, MinOf
      <4> QED
        BY <4>1, <4>2, <4>3
    <3>2. PICK t \in Seq(Positions(ms)) :
            t = InsertAt(s, p + 1, Placeholder) /\ Len(t) = Len(s) + 1 /\ Only(t, Kept(ms)) = s
      BY Noted
    <3>3. RtkSelect(ms, budget) = t
      BY <2>3, <2>5, <3>1, <3>2
    <3>4. Len(t) - Len(s) = IF Len(s) < Len(ms) /\ s # <<>> THEN 1 ELSE 0
      <4>1. Len(t) - Len(s) = 1
        BY <3>2
      <4> QED
        BY <2>5, <4>1
    <3>5. KeptFits(ms, budget, t)
      BY <2>2, <2>4, <3>2, <3>4, FitsFrom DEF Selects, Kept
    <3> QED
      BY <3>3, <3>5
  <2>6. CASE ~ (Len(s) < Len(ms) /\ s # <<>>)
    <3>1. RtkSelect(ms, budget) = s
      BY <2>3, <2>6
    <3>2. Only(s, Kept(ms)) = s
      <4>1. \A n \in 1 .. Len(s) : s[n] \in Kept(ms)
        OBVIOUS
      <4> QED
        BY <4>1, OnlyAll
    <3>3. Len(s) - Len(s) = IF Len(s) < Len(ms) /\ s # <<>> THEN 1 ELSE 0
      <4>1. Len(s) - Len(s) = 0
        OBVIOUS
      <4> QED
        BY <2>6, <4>1
    <3>4. KeptFits(ms, budget, s)
      BY <2>2, <2>4, <3>2, <3>3, FitsFrom DEF Selects, Kept
    <3> QED
      BY <2>4, <3>1, <3>4
  <2> QED
    BY <2>5, <2>6
<1> QED
  BY <1>1, <1>2

LEMMA CompressedFits ==
    ASSUME NEW ms \in Seq(Message), NEW compress \in BOOLEAN, NEW budget \in Nat
    PROVE  /\ Compressed(ms, compress, budget) \in Seq(Positions(ms))
           /\ compress => KeptFits(ms, budget, Compressed(ms, compress, budget))
<1>1. CASE compress /\ TotalTokens(ms) > budget
  <2>1. Compressed(ms, compress, budget) = RtkSelect(ms, budget)
    BY <1>1 DEF Compressed
  <2> QED
    BY <2>1, RtkFits
<1>2. CASE ~ (compress /\ TotalTokens(ms) > budget)
  <2>1. Compressed(ms, compress, budget) = Upwards(1, Len(ms))
    BY <1>2 DEF Compressed
  <2>2. TotalTokens(ms) \in Nat
    <3>1. budget = budget /\ Upwards(1, Len(ms)) \in Seq(Positions(ms))
      <4>1. 0 \in Nat
        OBVIOUS
      <4> QED
        BY <4>1, AllFits
    <3> QED
      BY <3>1, TokensTyped DEF TotalTokens
  <2>3. compress => TotalTokens(ms) <= budget
    BY <1>2, <2>2
  <2>4. Upwards(1, Len(ms)) \in Seq(Positions(ms))
    <3>1. 0 \in Nat
      OBVIOUS
    <3> QED
      BY <3>1, AllFits
  <2> QED
    BY <2>1, <2>3, <2>4, AllFits
<1> QED
  BY <1>1, <1>2

(***************************************************************************)
(* Whatever a request, its budget and its sizes: what is left of it is the *)
(* client's, in order and within the budget, of the middle the newest      *)
(* without a gap, with one note exactly when something is missing          *)
(* (Compress::rtk_select, fit_messages_into_budget).                       *)
(***************************************************************************)
THEOREM CompressionDoesFit == Spec => []CompressionFits
<1>1. Init => CompressionFits
  BY DEF Init, CompressionFits
<1>2. CompressionFits /\ [Next]_vars => CompressionFits'
  <2> SUFFICES ASSUME CompressionFits, [Next]_vars, phase' = "built",
                      asked'.compress, ~ asked'.streamed
               PROVE  CompressionFits'
    BY DEF CompressionFits
  <2>1. CASE UNCHANGED vars
    BY <2>1 DEF vars, CompressionFits
  <2>2. ASSUME NEW route \in Routes, NEW r \in Requests, Prepare(route, r) PROVE CompressionFits'
    <3>1. PICK ms \in Seq(Message) : ms = r.messages
      BY ExchangeAssumption DEF Request
    <3>2. PICK budget \in Nat : budget = r.budget
      BY ExchangeAssumption DEF Request
    <3>3. PICK compress \in BOOLEAN : compress = r.compress
      BY ExchangeAssumption DEF Request
    <3>4. asked' = r /\ sent'.selected = Compressed(ms, compress, budget) /\ compress
      BY <2>2, <3>1, <3>2, <3>3 DEF Prepare
    <3>5. KeptFits(ms, budget, Compressed(ms, compress, budget))
      BY <3>4, CompressedFits
    <3>6. KeptFits(asked'.messages, asked'.budget, sent'.selected)
      BY <3>1, <3>2, <3>4, <3>5
    <3> QED
      BY <3>6, Zenon DEF CompressionFits, KeptFits
  <2> QED
    BY <2>1, <2>2, BuildsOnly
<1> QED
  BY <1>1, <1>2, PTL DEF Spec

-----------------------------------------------------------------------------
(***************************************************************************)
(* The messages that a provider is told.                                   *)
(***************************************************************************)
Mapped(s, w) == [k \in DOMAIN s |-> w[s[k]]]

MappedIs(s, w, t) == Len(t) = Len(s) /\ \A i \in 1 .. Len(s) : t[i] = w[s[i]]

LEMMA MappedTyped ==
    ASSUME NEW X, NEW Y, NEW w \in [X -> Y], NEW s \in Seq(X)
    PROVE  Mapped(s, w) \in Seq(Y) /\ MappedIs(s, w, Mapped(s, w))
<1>1. PICK N \in Nat : N = Len(s) /\ DOMAIN s = 1 .. N
  OBVIOUS
<1>2. \A i \in 1 .. N : s[i] \in X /\ w[s[i]] \in Y
  BY <1>1
<1>3. Mapped(s, w) = [k \in 1 .. N |-> w[s[k]]]
  BY <1>1 DEF Mapped
<1>4. PICK g \in [1 .. N -> Y] : g = Mapped(s, w)
  BY <1>2, <1>3
<1>5. g \in Seq(Y) /\ Len(g) = N
  BY ListOf
<1>6. \A i \in 1 .. N : g[i] = w[s[i]]
  BY <1>3, <1>4
<1> QED
  BY <1>1, <1>4, <1>5, <1>6, Zenon DEF MappedIs

MapsBoth(s, t, w) == Mapped(s \o t, w) = Mapped(s, w) \o Mapped(t, w)

LEMMA MappedJoins ==
    ASSUME NEW X, NEW Y, NEW w \in [X -> Y], NEW s \in Seq(X), NEW t \in Seq(X)
    PROVE  MapsBoth(s, t, w)
<1>1. PICK u \in Seq(X) : u = s \o t
  BY Joined
<1>2. Halves(s, t, u)
  BY <1>1, JoinHalves
<1>3. PICK a \in Seq(Y) : a = Mapped(s, w) /\ MappedIs(s, w, a)
  BY MappedTyped
<1>4. PICK b \in Seq(Y) : b = Mapped(t, w) /\ MappedIs(t, w, b)
  BY MappedTyped
<1>5. PICK c \in Seq(Y) : c = Mapped(u, w) /\ MappedIs(u, w, c)
  BY MappedTyped
<1>6. PICK d \in Seq(Y) : d = a \o b
  BY Joined
<1>7. Halves(a, b, d)
  BY <1>6, JoinHalves
<1>8. Len(c) = Len(d)
  BY <1>2, <1>3, <1>4, <1>5, <1>7 DEF Halves, MappedIs
<1>9. ASSUME NEW i \in 1 .. Len(c) PROVE c[i] = d[i]
  <2>1. i \in 1 .. Len(u) /\ c[i] = w[u[i]]
    BY <1>5 DEF MappedIs
  <2>2. CASE i \in 1 .. Len(s)
    <3>1. u[i] = s[i] /\ a[i] = w[s[i]] /\ d[i] = a[i]
      BY <1>2, <1>3, <1>7, <2>2 DEF Halves, MappedIs
    <3> QED
      BY <2>1, <3>1
  <2>3. CASE \E j \in 1 .. Len(t) : i = Len(s) + j
    <3>1. PICK j \in 1 .. Len(t) : i = Len(s) + j
      BY <2>3
    <3>2. u[i] = t[j] /\ b[j] = w[t[j]]
      BY <1>2, <1>4, <3>1 DEF Halves, MappedIs
    <3>3. d[i] = b[j]
      BY <1>3, <1>4, <1>7, <3>1 DEF Halves, MappedIs
    <3> QED
      BY <2>1, <3>2, <3>3
  <2> QED
    BY <1>2, <2>1, <2>2, <2>3 DEF Halves
<1>10. c = d
  BY <1>8, <1>9, SameSequence
<1> QED
  BY <1>1, <1>3, <1>4, <1>5, <1>6, <1>10, Zenon DEF MapsBoth

LEMMA OnlyMaps ==
    ASSUME NEW X, NEW Y, NEW w \in [X -> Y], NEW s \in Seq(X), NEW S, NEW T,
           \A n \in 1 .. Len(s) : w[s[n]] \in T <=> s[n] \in S
    PROVE  Only(Mapped(s, w), T) = Mapped(Only(s, S), w)
<1>1. PICK t \in Seq(Y) : t = Mapped(s, w) /\ MappedIs(s, w, t)
  BY MappedTyped
<1>2. PICK N \in Nat : N = Len(s) /\ N = Len(t)
  BY <1>1 DEF MappedIs
<1>3. PICK p \in Seq(Seq(X)) : p = Pick(s, S) /\ Len(p) = N /\ Only(s, S) = FlattenSeq(p)
  <2>1. /\ Pick(s, S) \in Seq(Seq(X)) /\ Picks(Pick(s, S), s)
        /\ Only(s, S) = FlattenSeq(Pick(s, S))
    BY PickPicks
  <2> QED
    BY <1>2, <2>1 DEF Picks
<1>4. PICK q \in Seq(Seq(Y)) : q = Pick(t, T) /\ Len(q) = N /\ Only(t, T) = FlattenSeq(q)
  BY <1>2, PickPicks DEF Picks
<1>5. /\ \A i \in 1 .. N : p[i] = IF s[i] \in S THEN <<s[i]>> ELSE <<>>
      /\ \A i \in 1 .. N : q[i] = IF t[i] \in T THEN <<t[i]>> ELSE <<>>
  BY <1>2, <1>3, <1>4 DEF Pick
<1>6. PICK f \in [0 .. Len(p) -> Seq(X)] :
         /\ f[0] = <<>> /\ \A n \in 1 .. Len(p) : f[n] = f[n - 1] \o p[n]
         /\ FlattenSeq(p) = f[Len(p)]
  BY FlattenFromLeft
<1>7. PICK g \in [0 .. Len(q) -> Seq(Y)] :
         /\ g[0] = <<>> /\ \A n \in 1 .. Len(q) : g[n] = g[n - 1] \o q[n]
         /\ FlattenSeq(q) = g[Len(q)]
  BY FlattenFromLeft
<1> DEFINE Same == {n \in 0 .. N : g[n] = Mapped(f[n], w)}
<1>8. Mapped(<<>>, w) = <<>>
  BY DEF Mapped
<1>9. 0 \in Same
  BY <1>6, <1>7, <1>8
<1>10. ASSUME NEW n \in 0 .. N, n < N, n \in Same PROVE n + 1 \in Same
  <2>1. PICK m \in 1 .. N : m = n + 1 /\ m - 1 = n
    BY <1>10, Successor
  <2>2. PICK u \in Seq(X) : u = f[n]
    BY <1>3
  <2>3. g[n] = Mapped(u, w)
    BY <1>10, <2>2
  <2>4. f[m] = u \o p[m] /\ g[m] = g[n] \o q[m]
    BY <1>3, <1>4, <1>6, <1>7, <2>1, <2>2
  <2>5. PICK a \in X : a = s[m]
    <3>1. m \in 1 .. Len(s)
      BY <1>2
    <3>2. s[m] \in X
      BY <3>1, Element
    <3> QED
      BY <3>2
  <2>6. t[m] = w[a] /\ (w[a] \in T <=> a \in S)
    BY <1>1, <1>2, <2>5 DEF MappedIs
  <2>7. PICK v \in Seq(X) : v = p[m]
    BY <1>3
  <2>8. q[m] = Mapped(v, w)
    <3>1. CASE a \in S
      <4>1. v = <<a>> /\ q[m] = <<w[a]>>
        BY <1>5, <2>5, <2>6, <2>7, <3>1
      <4>2. Mapped(<<a>>, w) = <<w[a]>>
        BY DEF Mapped
      <4> QED
        BY <4>1, <4>2
    <3>2. CASE a \notin S
      <4>1. v = <<>> /\ q[m] = <<>>
        BY <1>5, <2>5, <2>6, <2>7, <3>2
      <4> QED
        BY <1>8, <4>1
    <3> QED
      BY <3>1, <3>2
  <2>9. MapsBoth(u, v, w)
    BY MappedJoins
  <2>10. g[m] = Mapped(f[m], w)
    BY <2>3, <2>4, <2>7, <2>8, <2>9, Zenon DEF MapsBoth
  <2>11. m \in 0 .. N
    OBVIOUS
  <2> QED
    BY <2>1, <2>10, <2>11
<1>11. \A n \in 0 .. N : n \in Same
  <2> HIDE DEF Same
  <2> QED
    BY <1>9, <1>10, Induct
<1>12. g[N] = Mapped(f[N], w)
  <2>1. N \in 0 .. N
    OBVIOUS
  <2> QED
    BY <1>11, <2>1
<1> QED
  BY <1>1, <1>3, <1>4, <1>6, <1>7, <1>12, Zenon
\* A message of the body.
WireOf(format, ms, i) ==
    [from    |-> i,
     speaker |-> Speaker(format, MessageAt(ms, i).role),
     content |-> Pieces(format, MessageAt(ms, i).content),
     calls   |-> format = "OpenAi" /\ MessageAt(ms, i).calls]

LEMMA WireHas ==
    ASSUME NEW format \in Format, NEW ms \in Seq(Message), NEW i \in Spoken(ms)
    PROVE  /\ WireOf(format, ms, i).from = i
           /\ WireOf(format, ms, i).speaker \in {"assistant", "model"} <=> ms[i].role = "assistant"
           /\ ms[i].content # "none" => WireOf(format, ms, i).content[1] = "text"
<1>1. i # 0 /\ i \in 0 .. Len(ms)
  <2>1. i = 0 => MessageAt(ms, i).role = "system"
    BY DEF MessageAt, Placeholder
  <2> QED
    BY <2>1 DEF Spoken, IsSystem
<1>2. MessageAt(ms, i) = ms[i]
  BY <1>1 DEF MessageAt, Placeholder
<1>3. ms[i] \in Message
  <2>1. i \in 1 .. Len(ms)
    BY <1>1
  <2> QED
    BY <2>1, Element
<1>4. PICK role \in Role : role = ms[i].role
  BY <1>3 DEF Message
<1>5. PICK content \in Content : content = ms[i].content
  BY <1>3 DEF Message
<1>6. /\ WireOf(format, ms, i).from = i
      /\ WireOf(format, ms, i).speaker = Speaker(format, role)
      /\ WireOf(format, ms, i).content = Pieces(format, content)
  BY <1>2, <1>4, <1>5 DEF WireOf
<1>7. Speaker(format, role) \in {"assistant", "model"} <=> role = "assistant"
  BY DEF Speaker, Role, Format
<1>8. content # "none" => Pieces(format, content)[1] = "text"
  BY DEF Pieces, Content, Format
<1> QED
  BY <1>4, <1>5, <1>6, <1>7, <1>8

\* What SameConversation says of a body.
SameAs(ms, selected, messages) ==
    LET turns == Only(selected, Spoken(ms))
        told == Only(messages, {m \in ToSet(messages) : m.from \in Spoken(ms)})
    IN  /\ [k \in DOMAIN told |-> told[k].from] = turns
        /\ \A k \in DOMAIN told :
              /\ told[k].speaker \in {"assistant", "model"} <=> ms[told[k].from].role = "assistant"
              /\ ms[told[k].from].content # "none" => told[k].content[1] = "text"

LEMMA WireIsSame ==
    ASSUME NEW format \in Format, NEW ms \in Seq(Message), NEW selected \in Seq(Positions(ms))
    PROVE  SameAs(ms, selected, WireMessages(format, ms, selected))
<1>1. PICK turns \in Seq(Positions(ms)) :
         /\ turns = Only(selected, Spoken(ms))
         /\ \A i \in 1 .. Len(turns) : turns[i] \in Spoken(ms)
  <2>1. Only(selected, Spoken(ms)) \in Seq(Positions(ms))
    BY OnlyHas
  <2>2. PICK turns \in Seq(Positions(ms)) : turns = Only(selected, Spoken(ms))
    BY <2>1
  <2>3. \A x : Occurs(x, turns) => x \in Spoken(ms)
    BY <2>2, OnlyHas
  <2>4. \A i \in 1 .. Len(turns) : turns[i] \in Spoken(ms)
    BY <2>3 DEF Occurs
  <2> QED
    BY <2>2, <2>4
<1>2. PICK spoken \in Seq(Positions(ms)) :
         spoken = IF format = "OpenAi" THEN selected ELSE turns
  OBVIOUS
<1>3. Only(spoken, Spoken(ms)) = turns
  <2>1. Only(turns, Spoken(ms)) = turns
    BY <1>1, OnlyAll
  <2> QED
    BY <1>1, <1>2, <2>1
<1> DEFINE Y == {WireOf(format, ms, i) : i \in Positions(ms)}
<1>4. PICK w \in [Positions(ms) -> Y] : w = [i \in Positions(ms) |-> WireOf(format, ms, i)]
  OBVIOUS
<1>5. \A i \in Positions(ms) : w[i] = WireOf(format, ms, i)
  BY <1>4
<1> HIDE DEF Y
<1>6. PICK messages \in Seq(Y) : messages = Mapped(spoken, w) /\ MappedIs(spoken, w, messages)
  BY MappedTyped
<1>7. WireMessages(format, ms, selected) = messages
  <2>1. \A k \in DOMAIN spoken : spoken[k] \in Positions(ms)
    OBVIOUS
  <2>2. \A k \in DOMAIN spoken : w[spoken[k]] = WireOf(format, ms, spoken[k])
    BY <1>5, <2>1
  <2>3. WireMessages(format, ms, selected) = [k \in DOMAIN spoken |-> WireOf(format, ms, spoken[k])]
    BY <1>1, <1>2, Zenon DEF WireMessages, WireOf
  <2>4. messages = [k \in DOMAIN spoken |-> w[spoken[k]]]
    BY <1>6, Zenon DEF Mapped
  <2> QED
    BY <2>2, <2>3, <2>4
<1> DEFINE T == {m \in ToSet(messages) : m.from \in Spoken(ms)}
<1>8. \A n \in 1 .. Len(spoken) : w[spoken[n]] \in T <=> spoken[n] \in Spoken(ms)
  <2> SUFFICES ASSUME NEW n \in 1 .. Len(spoken)
               PROVE  w[spoken[n]] \in T <=> spoken[n] \in Spoken(ms)
    OBVIOUS
  <2>1. n \in DOMAIN messages /\ messages[n] = w[spoken[n]]
    BY <1>6 DEF MappedIs
  <2>2. w[spoken[n]] \in ToSet(messages)
    BY <2>1 DEF ToSet
  <2>3. spoken[n] \in Positions(ms)
    BY Element
  <2>4. w[spoken[n]].from = spoken[n]
    BY <1>5, <2>3 DEF WireOf
  <2> QED
    BY <2>2, <2>4
<1> HIDE DEF T
<1>9. Only(messages, T) = Mapped(turns, w)
  BY <1>3, <1>6, <1>8, OnlyMaps
<1>10. PICK told \in Seq(Y) : told = Only(messages, T) /\ MappedIs(turns, w, told)
  BY <1>9, MappedTyped
<1>11. DOMAIN told = 1 .. Len(turns) /\ DOMAIN turns = 1 .. Len(turns)
  BY <1>10 DEF MappedIs
<1>12. ASSUME NEW k \in 1 .. Len(turns)
       PROVE  /\ told[k].from = turns[k]
              /\ told[k].speaker \in {"assistant", "model"} <=> ms[told[k].from].role = "assistant"
              /\ ms[told[k].from].content # "none" => told[k].content[1] = "text"
  <2>1. PICK i \in Spoken(ms) : i = turns[k]
    BY <1>1
  <2>2. i \in Positions(ms)
    BY DEF Spoken, Positions
  <2>3. told[k] = WireOf(format, ms, i)
    BY <1>5, <1>10, <2>1, <2>2 DEF MappedIs
  <2> QED
    BY <2>1, <2>3, WireHas
<1>13. [k \in DOMAIN told |-> told[k].from] = turns
  <2>1. turns = [k \in 1 .. Len(turns) |-> turns[k]]
    OBVIOUS
  <2> QED
    BY <1>11, <1>12, <2>1
<1>14. SameAs(ms, selected, messages)
  BY <1>1, <1>10, <1>11, <1>12, <1>13, Zenon DEF SameAs, T
<1> QED
  BY <1>7, <1>14

(***************************************************************************)
(* Whatever a request, and whatever is left of it, every format tells the  *)
(* same conversation: its turns, in order and once each, each with the     *)
(* right speaker and its text (build_openai, build_claude, build_gemini).  *)
(***************************************************************************)
THEOREM ConversationIsSame == Spec => []SameConversation
<1>1. Init => SameConversation
  BY DEF Init, SameConversation
<1>2. SameConversation /\ [Next]_vars => SameConversation'
  <2> SUFFICES ASSUME SameConversation, [Next]_vars, phase' = "built" PROVE SameConversation'
    BY DEF SameConversation
  <2>1. CASE UNCHANGED vars
    BY <2>1 DEF vars, SameConversation
  <2>2. ASSUME NEW route \in Routes, NEW r \in Requests, Prepare(route, r) PROVE SameConversation'
    <3>1. PICK ms \in Seq(Message) : ms = r.messages
      BY ExchangeAssumption DEF Request
    <3>2. PICK budget \in Nat : budget = r.budget
      BY ExchangeAssumption DEF Request
    <3>3. PICK compress \in BOOLEAN : compress = r.compress
      BY ExchangeAssumption DEF Request
    <3>4. PICK format \in Format : format = route.format
      BY ExchangeAssumption DEF Route
    <3>5. PICK selected \in Seq(Positions(ms)) :
            selected = IF r.streamed THEN Upwards(1, Len(ms)) ELSE Compressed(ms, compress, budget)
      <4>1. Upwards(1, Len(ms)) \in Seq(Positions(ms))
        <5>1. 0 \in Nat
          OBVIOUS
        <5> QED
          BY <5>1, AllFits
      <4>2. Compressed(ms, compress, budget) \in Seq(Positions(ms))
        BY CompressedFits
      <4> QED
        BY <4>1, <4>2
    <3>6. /\ asked' = r /\ sent'.selected = selected
          /\ sent'.body = BuildUpstreamRequest(format, ms, selected, r.options)
      BY <2>2, <3>1, <3>2, <3>3, <3>4, <3>5 DEF Prepare
    <3>7. sent'.body.messages = WireMessages(format, ms, selected)
      BY <3>6 DEF BuildUpstreamRequest
    <3>8. SameAs(ms, selected, WireMessages(format, ms, selected))
      BY WireIsSame
    <3>9. SameAs(asked'.messages, sent'.selected, sent'.body.messages)
      BY <3>1, <3>6, <3>7, <3>8
    <3> QED
      BY <3>9, Zenon DEF SameConversation, SameAs
  <2> QED
    BY <2>1, <2>2, BuildsOnly
<1> QED
  BY <1>1, <1>2, PTL DEF Spec
=============================================================================
