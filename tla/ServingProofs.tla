--------------------------- MODULE ServingProofs ---------------------------
(***************************************************************************)
(* Proofs about Serving, for any requests, any work they ask for and any   *)
(* order of their steps: what the stores in memory keep of a request is    *)
(* true, and nobody who waits for the engine is overtaken twice.           *)
(***************************************************************************)
EXTENDS Serving, FiniteSetTheorems, SequenceTheorems, WellFoundedInduction, TLAPS

Result == {"ok", "failed"}

Phase == InProgress \cup {"new", "over", "gone", "lost"}

Progress == [phase : Phase, work : Works \cup {NoWork}, results : Seq(Result)]

(***************************************************************************)
(* The inductive invariant.  The results are those of the first items, a   *)
(* request in progress waits for an item that needs waiting, the stored    *)
(* jobs are those of the batches answered, and who waits in front of       *)
(* another has not been passed by it.                                      *)
(***************************************************************************)
Marked(items, results) ==
    /\ Len(results) <= Len(items)
    /\ \A i \in 1 .. Len(results) : items[i] = "bad" => results[i] = "failed"

Waiting(items, results) ==
    Len(results) < Len(items) /\ items[Len(results) + 1] \notin {"ping", "bad"}

Shape(q) ==
    /\ Marked(q.work.items, q.results)
    /\ q.phase \in {"new", "lost"} => q.work = NoWork
    /\ q.phase = "over" => Len(q.results) = Len(q.work.items)
    /\ q.phase \in InProgress => Waiting(q.work.items, q.results)

RequestsOK == req \in [Req -> Progress] /\ \A r \in Req : Shape(req[r])

Waits(q, r) == \E i \in DOMAIN q : q[i] = r

OnceEach(q) == \A i, j \in DOMAIN q : q[i] = q[j] => i = j

LockOK ==
    /\ holder \in Req \cup {NoReq}
    /\ queue \in Seq(Req) /\ OnceEach(queue)
    /\ \A r \in Req : (req[r].phase = "holding") <=> (holder = r)
    /\ \A r \in Req : (req[r].phase = "queued") <=> Waits(queue, r)

TasksOK == tasks \in [Req -> {"none", "working", "completed", "failed"}] /\ TaskTruth

JobOf(q) == IF q.phase = "over" /\ q.work.kind = "batch" THEN Job(q.results) ELSE NoBatch

BatchesOK == batches = [r \in Req |-> JobOf(req[r])]

RingOK(log, ans) ==
    /\ log \in Seq(Req) /\ Len(log) <= LogCap
    /\ \E n \in 0 .. Len(ans) :
          /\ log = SubSeq(ans, n + 1, Len(ans))
          /\ n > 0 => Len(log) = LogCap

LogOK ==
    /\ answered \in Seq(Req) /\ RingOK(ring, answered)
    /\ pending = {r \in Req : req[r].phase \in InProgress \cup {"gone"}}
    /\ rows \subseteq Req
    /\ \A r \in Req : req[r].phase # "lost" =>
          (r \in rows <=> req[r].phase = "over" /\ req[r].work.kind # "chat")

InTurn(q, p) == \A i, j \in DOMAIN q : i < j => p[q[j]][q[i]] = 0

FairOK ==
    /\ passed \in [Req -> [Req -> Nat]]
    /\ \A r, q \in Req : req[r].phase = "queued" => passed[r][q] <= 1
    /\ InTurn(queue, passed)

Inv == RequestsOK /\ LockOK /\ TasksOK /\ BatchesOK /\ LogOK /\ FairOK

-----------------------------------------------------------------------------
(***************************************************************************)
(* The items that need no waiting.                                         *)
(***************************************************************************)
Below == {ss \in Nat \X Nat : ss[1] < ss[2]}

\* A set of numbers has a least one.
LEMMA LeastNumber ==
    ASSUME NEW S \in SUBSET Nat, S # {}
    PROVE  \E n \in S : \A m \in S : n <= m
<1>1. IsWellFoundedOn(Below, Nat)
  BY NatLessThanWellFounded DEF OpToRel, Below
<1>2. PICK n \in S : \A m \in S : ~ (<<m, n>> \in Below)
  BY <1>1, WFMin
<1>3. ASSUME NEW m \in S PROVE n <= m
  <2>1. m \in Nat /\ n \in Nat /\ ~ (<<m, n>> \in Below)
    BY <1>2
  <2> QED
    BY <2>1 DEF Below
<1> QED
  BY <1>3

\* RunLocal adds a result for each item up to one that needs waiting.
LEMMA RunLocalFacts ==
    ASSUME NEW items \in Seq(Item), NEW results \in Seq(Result), Marked(items, results)
    PROVE  /\ RunLocal(items, results) \in Seq(Result)
           /\ Marked(items, RunLocal(items, results))
           /\ Len(RunLocal(items, results)) = Len(items) \/ Waiting(items, RunLocal(items, results))
<1> DEFINE n == Len(results)
           waits == {i \in n + 1 .. Len(items) : items[i] \notin {"ping", "bad"}}
           first == CHOOSE i \in waits : \A j \in waits : i <= j
           end == IF waits = {} THEN Len(items) ELSE first - 1
           m == (end + 1) - (n + 1)
           b == [k \in 1 .. m |-> LocalResult(items[n + k])]
           done == results \o b
<1>1. RunLocal(items, results) = done
  BY DEF RunLocal
<1>2. n \in Nat /\ Len(items) \in Nat /\ n <= Len(items)
  BY DEF Marked
<1>3. /\ end \in n .. Len(items)
      /\ \A i \in n + 1 .. end : items[i] \in {"ping", "bad"}
      /\ end < Len(items) => items[end + 1] \notin {"ping", "bad"}
  <2>1. CASE waits = {}
    BY <1>2, <2>1
  <2>2. CASE waits # {}
    <3>1. waits \in SUBSET Nat
      BY <1>2
    <3>2. \E i \in waits : \A j \in waits : i <= j
      <4> HIDE DEF waits
      <4> QED
        BY <2>2, <3>1, LeastNumber
    <3>3. first \in waits /\ \A j \in waits : first <= j
      <4> HIDE DEF waits
      <4> QED
        BY <3>2
    <3> HIDE DEF first
    <3>4. first \in n + 1 .. Len(items) /\ items[first] \notin {"ping", "bad"}
      BY <3>3
    <3>5. end = first - 1 /\ end \in n .. Len(items)
      BY <1>2, <2>2, <3>4
    <3>6. ASSUME NEW i \in n + 1 .. end PROVE items[i] \in {"ping", "bad"}
      <4>1. i \in n + 1 .. Len(items) /\ ~ (first <= i)
        BY <1>2, <3>4, <3>5, <3>6
      <4> QED
        BY <3>3, <4>1
    <3> HIDE DEF end
    <3> QED
      BY <1>2, <3>4, <3>5, <3>6
  <2> QED
    BY <2>1, <2>2
<1> HIDE DEF end
<1>4. m \in Nat /\ n + m = end
  BY <1>2, <1>3
<1>5. /\ b \in Seq(Result) /\ Len(b) = m
      /\ \A k \in 1 .. m : b[k] = LocalResult(items[n + k])
  <2> HIDE DEF m
  <2>1. \A k \in 1 .. m : LocalResult(items[n + k]) \in Result
    BY DEF LocalResult, Result
  <2>2. b \in [1 .. m -> Result]
    BY <2>1
  <2>3. b \in Seq(Result) /\ Len(b) = m
    <3> HIDE DEF b
    <3> QED
      BY <1>4, <2>2
  <2> QED
    BY <2>3
<1> HIDE DEF b
<1>6. /\ done \in Seq(Result) /\ Len(done) = n + m
      /\ \A i \in 1 .. n : done[i] = results[i]
      /\ \A i \in n + 1 .. n + m : done[i] = b[i - n]
  <2> HIDE DEF m
  <2> QED
    BY <1>2, <1>4, <1>5, ConcatProperties
<1> HIDE DEF m
<1>7. ASSUME NEW i \in 1 .. Len(done), items[i] = "bad" PROVE done[i] = "failed"
  <2>1. CASE i \in 1 .. n
    BY <1>6, <1>7, <2>1 DEF Marked
  <2>2. CASE i \in n + 1 .. n + m
    <3>1. i - n \in 1 .. m /\ n + (i - n) = i
      BY <1>2, <1>4, <2>2
    <3>2. done[i] = LocalResult(items[i])
      BY <1>5, <1>6, <2>2, <3>1
    <3> QED
      BY <1>7, <3>2 DEF LocalResult
  <2> QED
    BY <1>2, <1>4, <1>6, <2>1, <2>2
<1> HIDE DEF done
<1>8. Marked(items, done)
  BY <1>2, <1>3, <1>4, <1>6, <1>7 DEF Marked
<1>9. Len(done) = Len(items) \/ Waiting(items, done)
  BY <1>2, <1>3, <1>4, <1>6 DEF Waiting
<1> QED
  BY <1>1, <1>6, <1>8, <1>9

-----------------------------------------------------------------------------
(***************************************************************************)
(* The jobs of Batch::submit.                                              *)
(***************************************************************************)
LEMMA CountFacts ==
    ASSUME NEW s \in Seq(Result), NEW x \in Result
    PROVE  /\ Count(s, x) \in Nat
           /\ (Count(s, x) = 0) <=> (\A i \in 1 .. Len(s) : s[i] # x)
<1> DEFINE hits == {i \in DOMAIN s : s[i] = x}
<1>1. DOMAIN s = 1 .. Len(s) /\ Len(s) \in Nat
  OBVIOUS
<1>2. IsFiniteSet(1 .. Len(s))
  BY <1>1, FS_Interval
<1>3. IsFiniteSet(hits)
  BY <1>1, <1>2, FS_Subset
<1>4. Count(s, x) = Cardinality(hits)
  BY DEF Count
<1>5. Cardinality(hits) \in Nat /\ (Cardinality(hits) = 0 <=> hits = {})
  <2> HIDE DEF hits
  <2> QED
    BY <1>3, FS_CardinalityType, FS_EmptySet
<1> QED
  BY <1>1, <1>4, <1>5

LEMMA CountsAddUp ==
    ASSUME NEW s \in Seq(Result)
    PROVE  Count(s, "ok") + Count(s, "failed") = Len(s)
<1> DEFINE oks == {i \in DOMAIN s : s[i] = "ok"}
           fails == {i \in DOMAIN s : s[i] = "failed"}
<1>1. DOMAIN s = 1 .. Len(s) /\ Len(s) \in Nat
  OBVIOUS
<1>2. IsFiniteSet(1 .. Len(s)) /\ Cardinality(1 .. Len(s)) = Len(s)
  BY <1>1, FS_Interval
<1>3. IsFiniteSet(oks) /\ IsFiniteSet(fails)
  BY <1>1, <1>2, FS_Subset
<1>4. oks \cup fails = 1 .. Len(s) /\ oks \cap fails = {}
  BY <1>1 DEF Result
<1>5. Count(s, "ok") = Cardinality(oks) /\ Count(s, "failed") = Cardinality(fails)
  BY DEF Count
<1> HIDE DEF oks, fails
<1>6. /\ Cardinality(oks) \in Nat /\ Cardinality(fails) \in Nat
      /\ Cardinality(oks \cap fails) = 0
  BY <1>3, <1>4, FS_CardinalityType, FS_EmptySet
<1>7. Cardinality(oks \cup fails) = Cardinality(oks) + Cardinality(fails) - Cardinality(oks \cap fails)
  BY <1>3, FS_Union
<1>8. Len(s) = Cardinality(oks) + Cardinality(fails) - Cardinality(oks \cap fails)
  <2>1. Cardinality(oks \cup fails) = Len(s)
    BY <1>2, <1>4, Zenon
  <2> QED
    BY <1>7, <2>1, Zenon
<1>9. Len(s) = Cardinality(oks) + Cardinality(fails)
  BY <1>6, <1>8
<1> QED
  BY <1>5, <1>9

\* A job is stored whole, and is finished.
LEMMA JobFacts ==
    ASSUME NEW s \in Seq(Result)
    PROVE  /\ Job(s) # NoBatch
           /\ Job(s).status \in Final
           /\ (Job(s).status = "completed") <=> (\A i \in 1 .. Len(s) : s[i] = "ok")
           /\ (Job(s).status = "failed") <=> (s # <<>> /\ \A i \in 1 .. Len(s) : s[i] = "failed")
<1>1. /\ Count(s, "ok") \in Nat /\ Count(s, "failed") \in Nat
      /\ (Count(s, "ok") = 0) <=> (\A i \in 1 .. Len(s) : s[i] # "ok")
      /\ (Count(s, "failed") = 0) <=> (\A i \in 1 .. Len(s) : s[i] # "failed")
  BY CountFacts DEF Result
<1>2. \A i \in 1 .. Len(s) : s[i] \in {"ok", "failed"}
  BY DEF Result
<1>3. s = <<>> <=> Len(s) = 0
  OBVIOUS
<1>4. Len(s) \in Nat
  OBVIOUS
<1>5. Job(s).status = BatchStatus(s)
  BY DEF Job
<1>6. BatchStatus(s) \in Final
  BY DEF BatchStatus, Final
<1>7. (BatchStatus(s) = "completed") <=> (Count(s, "failed") = 0)
  BY DEF BatchStatus
<1>8. (BatchStatus(s) = "failed") <=> (Count(s, "failed") # 0 /\ Count(s, "ok") = 0)
  BY DEF BatchStatus
<1>9. Job(s) # NoBatch
  <2>1. BatchStatus(s) \in Final
    BY <1>6
  <2>2. s \in Seq({"ok", "failed"})
    BY DEF Result
  <2>3. Job(s) \in [status : Final, results : Seq({"ok", "failed"}),
                   succeeded : Nat, failed : Nat]
    BY <1>1, <2>1, <2>2 DEF Job
  <2> QED
    BY <2>3, ServingAssumption DEF Final
<1>10. (Count(s, "failed") = 0) <=> (\A i \in 1 .. Len(s) : s[i] = "ok")
  BY <1>1, <1>2
<1>11. (Count(s, "failed") # 0 /\ Count(s, "ok") = 0)
         <=> (s # <<>> /\ \A i \in 1 .. Len(s) : s[i] = "failed")
  <2>1. ASSUME Count(s, "failed") # 0, Count(s, "ok") = 0
        PROVE  s # <<>> /\ \A i \in 1 .. Len(s) : s[i] = "failed"
    BY <1>1, <1>2, <1>3, <1>4, <2>1
  <2>2. ASSUME s # <<>>, \A i \in 1 .. Len(s) : s[i] = "failed"
        PROVE  Count(s, "failed") # 0 /\ Count(s, "ok") = 0
    <3>1. 1 \in 1 .. Len(s)
      BY <1>3, <1>4, <2>2
    <3> QED
      BY <1>1, <2>2, <3>1
  <2> QED
    BY <2>1, <2>2
<1> QED
  BY <1>5, <1>6, <1>7, <1>8, <1>9, <1>10, <1>11

-----------------------------------------------------------------------------
(***************************************************************************)
(* The queue of the lock: who joins it waits behind all others, and when   *)
(* one leaves it the others keep their order.                              *)
(***************************************************************************)
InOrder(s, q) ==
    \A i, j \in DOMAIN s :
        i < j => \E k, l \in DOMAIN q : k < l /\ s[i] = q[k] /\ s[j] = q[l]

LEMMA JoinedQueue ==
    ASSUME NEW q \in Seq(Req), NEW r \in Req, OnceEach(q), ~ Waits(q, r)
    PROVE  /\ Append(q, r) \in Seq(Req)
           /\ OnceEach(Append(q, r))
           /\ \A d \in Req : Waits(Append(q, r), d) <=> Waits(q, d) \/ d = r
<1>1. /\ Append(q, r) \in Seq(Req)
      /\ Len(Append(q, r)) = Len(q) + 1
      /\ \A i \in 1 .. Len(q) : Append(q, r)[i] = q[i]
      /\ Append(q, r)[Len(q) + 1] = r
      /\ Len(q) \in Nat
      /\ DOMAIN q = 1 .. Len(q)
      /\ DOMAIN Append(q, r) = 1 .. Len(q) + 1
  OBVIOUS
<1>2. OnceEach(Append(q, r))
  BY <1>1 DEF OnceEach, Waits
<1>3. \A d \in Req : Waits(Append(q, r), d) <=> Waits(q, d) \/ d = r
  BY <1>1 DEF Waits
<1> QED
  BY <1>1, <1>2, <1>3

LEMMA ServedQueue ==
    ASSUME NEW q \in Seq(Req), q # <<>>, OnceEach(q)
    PROVE  /\ Head(q) \in Req
           /\ Waits(q, Head(q))
           /\ Tail(q) \in Seq(Req)
           /\ OnceEach(Tail(q))
           /\ \A d \in Req : Waits(Tail(q), d) <=> Waits(q, d) /\ d # Head(q)
<1>1. /\ Head(q) = q[1] /\ Head(q) \in Req
      /\ Tail(q) \in Seq(Req)
      /\ Len(q) \in Nat \ {0}
      /\ DOMAIN q = 1 .. Len(q)
      /\ DOMAIN Tail(q) = 1 .. Len(q) - 1
      /\ \A i \in 1 .. Len(q) - 1 : Tail(q)[i] = q[i + 1]
  OBVIOUS
<1>2. OnceEach(Tail(q))
  BY <1>1 DEF OnceEach
<1>3. ASSUME NEW d \in Req
      PROVE  Waits(Tail(q), d) <=> Waits(q, d) /\ d # Head(q)
  <2>1. ASSUME Waits(Tail(q), d) PROVE Waits(q, d) /\ d # Head(q)
    <3>1. PICK i \in 1 .. Len(q) - 1 : q[i + 1] = d
      BY <1>1, <2>1 DEF Waits
    <3>2. i + 1 \in DOMAIN q /\ 1 \in DOMAIN q /\ i + 1 # 1
      BY <1>1
    <3> QED
      BY <1>1, <3>1, <3>2 DEF Waits, OnceEach
  <2>2. ASSUME Waits(q, d), d # Head(q) PROVE Waits(Tail(q), d)
    <3>1. PICK i \in 1 .. Len(q) : q[i] = d
      BY <1>1, <2>2 DEF Waits
    <3>2. i - 1 \in 1 .. Len(q) - 1 /\ Tail(q)[i - 1] = q[(i - 1) + 1] /\ (i - 1) + 1 = i
      BY <1>1, <2>2, <3>1
    <3> QED
      BY <1>1, <3>1, <3>2 DEF Waits
  <2> QED
    BY <2>1, <2>2
<1>4. Waits(q, Head(q))
  BY <1>1 DEF Waits
<1> QED
  BY <1>1, <1>2, <1>3, <1>4

LEMMA Behind ==
    ASSUME NEW A, NEW a \in Seq(A), NEW b \in Seq(A), NEW i \in 1 .. Len(b)
    PROVE  (a \o b)[Len(a) + i] = b[i]
OBVIOUS

LEMMA LeftQueue ==
    ASSUME queue \in Seq(Req), OnceEach(queue), NEW r \in Req
    PROVE  /\ QueueWithout(r) \in Seq(Req)
           /\ OnceEach(QueueWithout(r))
           /\ \A d \in Req : Waits(QueueWithout(r), d) <=> Waits(queue, d) /\ d # r
           /\ InOrder(QueueWithout(r), queue)
<1> DEFINE places == {i \in DOMAIN queue : queue[i] = r}
<1>1. CASE places = {}
  <2>1. QueueWithout(r) = queue
    BY <1>1 DEF QueueWithout
  <2>2. \A i \in DOMAIN queue : queue[i] # r
    BY <1>1
  <2> QED
    BY <2>1, <2>2 DEF Waits, InOrder
<1>2. CASE places # {}
  <2> DEFINE n == CHOOSE i \in places : TRUE
             q == SubSeq(queue, 1, n - 1) \o SubSeq(queue, n + 1, Len(queue))
  <2>1. n \in DOMAIN queue /\ queue[n] = r
    BY <1>2
  <2>2. QueueWithout(r) = q
    BY <1>2 DEF QueueWithout, RemoveAt
  <2> HIDE DEF n
  <2>3. n \in 1 .. Len(queue) /\ Len(queue) \in Nat
    BY <2>1
  <2>4. /\ q \in Seq(Req)
        /\ DOMAIN q = 1 .. Len(queue) - 1
        /\ \A i \in 1 .. Len(queue) - 1 : q[i] = IF i < n THEN queue[i] ELSE queue[i + 1]
    <3>1. /\ SubSeq(queue, 1, n - 1) \in Seq(Req)
          /\ Len(SubSeq(queue, 1, n - 1)) = n - 1
          /\ \A i \in 1 .. n - 1 : SubSeq(queue, 1, n - 1)[i] = queue[i]
      BY <2>3
    <3>2. /\ SubSeq(queue, n + 1, Len(queue)) \in Seq(Req)
          /\ Len(SubSeq(queue, n + 1, Len(queue))) = Len(queue) - n
          /\ \A i \in 1 .. Len(queue) - n :
                SubSeq(queue, n + 1, Len(queue))[i] = queue[n + i]
      BY <2>3
    <3> DEFINE a == SubSeq(queue, 1, n - 1)
               b == SubSeq(queue, n + 1, Len(queue))
    <3>3. q = a \o b
      OBVIOUS
    <3> HIDE DEF a, b, q
    <3>4. /\ a \in Seq(Req) /\ Len(a) = n - 1 /\ \A i \in 1 .. n - 1 : a[i] = queue[i]
          /\ b \in Seq(Req) /\ Len(b) = Len(queue) - n
          /\ \A i \in 1 .. Len(queue) - n : b[i] = queue[n + i]
      BY <3>1, <3>2 DEF a, b
    <3>5. q \in Seq(Req) /\ Len(q) = Len(queue) - 1
      <4>1. Len(q) = Len(a) + Len(b)
        BY <3>3, <3>4, ConcatProperties
      <4> QED
        BY <2>3, <3>3, <3>4, <4>1, ConcatProperties
    <3>6. DOMAIN q = 1 .. Len(queue) - 1
      BY <3>5
    <3>7. ASSUME NEW i \in 1 .. Len(queue) - 1
          PROVE  q[i] = IF i < n THEN queue[i] ELSE queue[i + 1]
      <4>1. CASE i < n
        BY <2>3, <3>3, <3>4, <4>1
      <4>2. CASE ~ (i < n)
        <5>1. i - (n - 1) \in 1 .. Len(queue) - n /\ n + (i - (n - 1)) = i + 1
          BY <2>3, <4>2
        <5>2. PICK j \in 1 .. Len(b) : j = i - (n - 1) /\ Len(a) + j = i
          BY <2>3, <3>4, <5>1
        <5>3. (a \o b)[Len(a) + j] = b[j]
          BY <3>4, Behind
        <5>4. q[i] = b[i - (n - 1)]
          BY <3>3, <5>2, <5>3
        <5> QED
          BY <3>4, <4>2, <5>1, <5>4
      <4> QED
        BY <4>1, <4>2
    <3> QED
      BY <3>5, <3>6, <3>7
  <2> HIDE DEF q
  <2>5. OnceEach(q)
    <3> SUFFICES ASSUME NEW i \in 1 .. Len(queue) - 1, NEW j \in 1 .. Len(queue) - 1, q[i] = q[j]
                 PROVE  i = j
      BY <2>4 DEF OnceEach
    <3> DEFINE f(k) == IF k < n THEN k ELSE k + 1
    <3>1. f(i) \in DOMAIN queue /\ f(j) \in DOMAIN queue
      BY <2>3
    <3>2. queue[f(i)] = queue[f(j)]
      BY <2>4
    <3>3. f(i) = f(j)
      BY <3>1, <3>2 DEF OnceEach
    <3> QED
      BY <2>3, <3>3
  <2>6. ASSUME NEW d \in Req
        PROVE  Waits(q, d) <=> Waits(queue, d) /\ d # r
    <3>1. ASSUME Waits(q, d) PROVE Waits(queue, d) /\ d # r
      <4>1. PICK i \in 1 .. Len(queue) - 1 : q[i] = d
        BY <2>4, <3>1 DEF Waits
      <4> DEFINE k == IF i < n THEN i ELSE i + 1
      <4>2. k \in DOMAIN queue /\ k # n /\ queue[k] = d
        BY <2>3, <2>4, <4>1
      <4> QED
        BY <2>1, <4>2 DEF Waits, OnceEach
    <3>2. ASSUME Waits(queue, d), d # r PROVE Waits(q, d)
      <4>1. PICK k \in 1 .. Len(queue) : queue[k] = d
        BY <3>2 DEF Waits
      <4>2. k # n
        BY <2>1, <3>2, <4>1
      <4> DEFINE i == IF k < n THEN k ELSE k - 1
      <4>3. i \in 1 .. Len(queue) - 1 /\ q[i] = queue[k]
        BY <2>3, <2>4, <4>1, <4>2
      <4> QED
        BY <2>4, <4>1, <4>3 DEF Waits
    <3> QED
      BY <3>1, <3>2
  <2>7. ASSUME NEW i \in DOMAIN q, NEW j \in DOMAIN q, i < j
        PROVE  \E k, l \in DOMAIN queue : k < l /\ q[i] = queue[k] /\ q[j] = queue[l]
    <3> DEFINE f(k) == IF k < n THEN k ELSE k + 1
    <3>1. i \in 1 .. Len(queue) - 1 /\ j \in 1 .. Len(queue) - 1
      BY <2>4
    <3>2. f(i) \in DOMAIN queue /\ f(j) \in DOMAIN queue /\ f(i) < f(j)
      BY <2>3, <2>7, <3>1
    <3>3. q[i] = queue[f(i)] /\ q[j] = queue[f(j)]
      BY <2>4, <3>1
    <3> QED
      BY <3>2, <3>3
  <2>8. InOrder(q, queue)
    BY <2>7 DEF InOrder
  <2> QED
    BY <2>2, <2>4, <2>5, <2>6, <2>8
<1> QED
  BY <1>1, <1>2

-----------------------------------------------------------------------------
(***************************************************************************)
(* LogBuffer::push: the ring holds the requests answered last.             *)
(***************************************************************************)
LEMMA PushedRing ==
    ASSUME NEW ans \in Seq(Req), NEW log, RingOK(log, ans), NEW r \in Req
    PROVE  RingOK(Pushed(log, r), Append(ans, r))
<1> DEFINE ans2 == Append(ans, r)
<1>1. PICK n \in 0 .. Len(ans) :
         log = SubSeq(ans, n + 1, Len(ans)) /\ (n > 0 => Len(log) = LogCap)
  BY DEF RingOK
<1>2. log \in Seq(Req) /\ Len(log) <= LogCap /\ LogCap \in Nat \ {0}
  BY ServingAssumption DEF RingOK
<1>3. Len(ans) \in Nat /\ n \in Nat /\ n <= Len(ans)
  OBVIOUS
<1>4. Len(log) = Len(ans) - n /\ \A i \in 1 .. Len(ans) - n : log[i] = ans[n + i]
  BY <1>1, <1>3
<1>5. /\ ans2 \in Seq(Req) /\ Len(ans2) = Len(ans) + 1
      /\ \A i \in 1 .. Len(ans) : ans2[i] = ans[i]
      /\ ans2[Len(ans) + 1] = r
  OBVIOUS
<1> HIDE DEF ans2
<1>6. CASE Len(log) >= LogCap
  <2> DEFINE t == Tail(log)
             log2 == Append(t, r)
             want == SubSeq(ans2, (n + 1) + 1, Len(ans2))
  <2>1. Pushed(log, r) = log2
    BY <1>6 DEF Pushed
  <2>2. Len(log) = LogCap /\ Len(ans) - n = LogCap /\ log # <<>>
    <3>1. Len(log) = LogCap /\ Len(log) # 0
      BY <1>2, <1>6
    <3>2. log # <<>>
      BY <3>1
    <3> QED
      BY <1>4, <3>1, <3>2
  <2>3. /\ t \in Seq(Req) /\ Len(t) = LogCap - 1
        /\ \A i \in 1 .. LogCap - 1 : t[i] = log[i + 1]
    BY <1>2, <2>2
  <2> HIDE DEF t
  <2>4. /\ log2 \in Seq(Req) /\ Len(log2) = LogCap
        /\ \A i \in 1 .. LogCap - 1 : log2[i] = log[i + 1]
        /\ log2[LogCap] = r
    BY <1>2, <2>3
  <2>5. /\ want \in Seq(Req) /\ Len(want) = LogCap
        /\ \A i \in 1 .. LogCap : want[i] = ans2[n + 1 + i]
    BY <1>3, <1>5, <2>2
  <2> HIDE DEF log2, want
  <2>6. ASSUME NEW i \in 1 .. LogCap PROVE log2[i] = want[i]
    <3>1. CASE i = LogCap
      <4>1. n + 1 + i = Len(ans) + 1
        BY <1>3, <2>2, <3>1
      <4> QED
        BY <1>5, <2>4, <2>5, <3>1, <4>1
    <3>2. CASE i # LogCap
      <4>1. i \in 1 .. LogCap - 1 /\ i + 1 \in 1 .. Len(ans) - n
        BY <1>2, <2>2, <3>2
      <4>2. n + 1 + i \in 1 .. Len(ans) /\ n + (i + 1) = n + 1 + i
        BY <1>3, <4>1
      <4>3. log2[i] = ans[n + (i + 1)]
        BY <1>4, <2>4, <4>1
      <4> QED
        BY <1>5, <2>5, <4>2, <4>3
    <3> QED
      BY <3>1, <3>2
  <2>7. log2 = want
    BY <1>2, <2>4, <2>5, <2>6, SeqEqual
  <2>8. n + 1 \in 0 .. Len(ans2)
    BY <1>3, <1>5
  <2>9. log2 = SubSeq(ans2, (n + 1) + 1, Len(ans2)) /\ Len(log2) = LogCap /\ Len(log2) <= LogCap
    BY <1>2, <2>4, <2>7 DEF want
  <2>10. RingOK(log2, ans2)
    BY <2>4, <2>8, <2>9 DEF RingOK
  <2> QED
    BY <2>1, <2>10 DEF ans2
<1>7. CASE ~ (Len(log) >= LogCap)
  <2> DEFINE log2 == Append(log, r)
             want == SubSeq(ans2, 0 + 1, Len(ans2))
  <2>1. Pushed(log, r) = log2
    BY <1>7 DEF Pushed
  <2>2. n = 0 /\ Len(log) = Len(ans) /\ Len(ans) + 1 <= LogCap
    BY <1>1, <1>2, <1>3, <1>4, <1>7
  <2>3. /\ log2 \in Seq(Req) /\ Len(log2) = Len(ans) + 1
        /\ \A i \in 1 .. Len(ans) : log2[i] = ans[i]
        /\ log2[Len(ans) + 1] = r
    BY <1>2, <1>3, <1>4, <2>2
  <2>4. /\ want \in Seq(Req) /\ Len(want) = Len(ans) + 1
        /\ \A i \in 1 .. Len(ans) + 1 : want[i] = ans2[i]
    BY <1>3, <1>5
  <2> HIDE DEF log2, want
  <2>5. \A i \in 1 .. Len(ans) + 1 : log2[i] = want[i]
    BY <1>3, <1>5, <2>3, <2>4
  <2>6. log2 = want
    BY <2>3, <2>4, <2>5, SeqEqual
  <2>7. 0 \in 0 .. Len(ans2) /\ ~ (0 > 0)
    BY <1>3, <1>5
  <2> QED
    BY <2>1, <2>2, <2>3, <2>6, <2>7 DEF RingOK, want, ans2
<1> QED
  BY <1>6, <1>7
-----------------------------------------------------------------------------
(***************************************************************************)
(* The steps.                                                              *)
(***************************************************************************)
LEMMA WorkFacts ==
    /\ NoWork.items = <<>> /\ NoWork.items \in Seq(Item) /\ NoWork.kind = "denied"
    /\ \A w \in Works :
          /\ w.items \in Seq(Item) /\ w.kind \in Kind /\ w.target \in Req \cup {NoReq}
          /\ w.kind = "send" => w.items \in {<<"chat">>, <<"bad">>}
<1>1. \A w \in Works : w \in Work /\ (w.kind = "send" => w.items \in {<<"chat">>, <<"bad">>})
  BY ServingAssumption
<1> QED
  BY <1>1 DEF NoWork, Work

LEMMA InitInv == Init => Inv
<1> SUFFICES ASSUME Init PROVE Inv
  OBVIOUS
<1>1. req = [r \in Req |-> NewReq]
  BY DEF Init
<1>2. NewReq \in Progress /\ Shape(NewReq)
  BY DEF NewReq, Progress, Phase, Shape, NoWork, Marked, InProgress, Result
<1>3. RequestsOK
  BY <1>1, <1>2 DEF RequestsOK
<1>4. LockOK
  BY <1>1, ServingAssumption DEF Init, LockOK, NewReq, OnceEach, Waits
<1>5. TasksOK
  BY <1>1 DEF Init, TasksOK, TaskTruth, NewReq, NoWork
<1>6. BatchesOK
  BY <1>1 DEF Init, BatchesOK, JobOf, NewReq
<1>7. RingOK(<<>>, <<>>)
  <2>1. <<>> = SubSeq(<<>>, 0 + 1, Len(<<>>)) /\ 0 \in 0 .. Len(<<>>) /\ ~ (0 > 0)
    OBVIOUS
  <2> QED
    BY <2>1, ServingAssumption DEF RingOK
<1>8. LogOK
  <2>1. answered = <<>> /\ ring = <<>> /\ pending = {} /\ rows = {}
    BY DEF Init
  <2>2. \A r \in Req : req[r].phase = "new"
    BY <1>1 DEF NewReq
  <2> QED
    BY <1>7, <2>1, <2>2 DEF LogOK, InProgress
<1>9. FairOK
  BY <1>1 DEF Init, FairOK, InTurn, NewReq
<1> QED
  BY <1>3, <1>4, <1>5, <1>6, <1>8, <1>9 DEF Inv

(***************************************************************************)
(* A handler that goes on: what it has become is q.                        *)
(***************************************************************************)
Became(r, q) ==
    /\ q \in Progress /\ Shape(q) /\ q.work \in Works
    /\ q.phase \in {"over", "calling", "queued"}
    /\ req' = [req EXCEPT ![r] = q]

LEMMA ProceedFacts ==
    ASSUME NEW r \in Req, NEW work \in Works, NEW results \in Seq(Result),
           Marked(work.items, results), Proceed(r, work, results, queue)
    PROVE  \E q \in Progress :
              /\ Became(r, q) /\ q.work = work
              /\ queue' = IF q.phase = "queued" THEN Append(queue, r) ELSE queue
              /\ passed' = [passed EXCEPT ![r] = [x \in Req |-> 0]]
              /\ q.phase = "over" => Store(r, work, q.results) /\ Respond(r, work)
              /\ q.phase # "over" =>
                    /\ UNCHANGED <<batches, ring, rows, answered>>
                    /\ pending' = pending \cup {r}
                    /\ tasks' = IF work.kind = "send"
                                THEN [tasks EXCEPT ![r] = "working"] ELSE tasks
<1> DEFINE done == RunLocal(work.items, results)
           over == Len(done) = Len(work.items)
           phase == IF over THEN "over"
                    ELSE IF work.items[Len(done) + 1] = "call" THEN "calling" ELSE "queued"
           q == [phase |-> phase, work |-> work, results |-> done]
<1>1. /\ done \in Seq(Result) /\ Marked(work.items, done)
      /\ Len(done) = Len(work.items) \/ Waiting(work.items, done)
  BY RunLocalFacts, WorkFacts
<1>2. /\ req' = [req EXCEPT ![r] = q]
      /\ queue' = IF phase = "queued" THEN Enqueued(queue, r) ELSE queue
      /\ passed' = [passed EXCEPT ![r] = [x \in Req |-> 0]]
      /\ IF over
         THEN Store(r, work, done) /\ Respond(r, work)
         ELSE /\ UNCHANGED <<batches, ring, rows, answered>>
              /\ pending' = pending \cup {r}
              /\ tasks' = IF work.kind = "send" THEN [tasks EXCEPT ![r] = "working"] ELSE tasks
  BY DEF Proceed
<1> HIDE DEF done
<1>3. /\ phase \in {"over", "calling", "queued"} /\ (over <=> phase = "over")
  OBVIOUS
<1> HIDE DEF over, phase
<1>4. q \in Progress
  BY <1>1, <1>3 DEF Progress, Phase, InProgress
<1>5. q.phase = phase /\ q.work = work /\ q.results = done
  OBVIOUS
<1>6. Shape(q)
  BY <1>1, <1>3, <1>5 DEF Shape, InProgress, over
<1> HIDE DEF q
<1>7. Became(r, q)
  BY <1>2, <1>3, <1>4, <1>5, <1>6 DEF Became
<1> QED
  BY <1>2, <1>3, <1>4, <1>5, <1>7 DEF Enqueued
LEMMA BecameRequests ==
    ASSUME RequestsOK, NEW r \in Req, NEW q \in Progress, Became(r, q)
    PROVE  RequestsOK' /\ \A x \in Req : req'[x] = IF x = r THEN q ELSE req[x]
<1>1. \A x \in Req : req'[x] = IF x = r THEN q ELSE req[x]
  BY DEF RequestsOK, Became
<1>2. req' \in [Req -> Progress]
  BY DEF RequestsOK, Became
<1>3. \A x \in Req : Shape(req[x])
  BY DEF RequestsOK
<1>4. ASSUME NEW x \in Req PROVE Shape(req'[x])
  <2>1. CASE x = r
    BY <1>1, <2>1 DEF Became
  <2>2. CASE x # r
    <3>1. req'[x] = req[x]
      BY <1>1, <2>2
    <3> QED
      BY <1>3, <3>1
  <2> QED
    BY <2>1, <2>2
<1> QED
  BY <1>1, <1>2, <1>4 DEF RequestsOK

LEMMA BecameLock ==
    ASSUME RequestsOK, LockOK, NEW r \in Req, NEW q \in Progress, Became(r, q),
           req[r].phase \in {"new", "holding", "calling"}, holder' = HolderWithout(r),
           queue' = IF q.phase = "queued" THEN Append(queue, r) ELSE queue
    PROVE  LockOK'
<1>1. \A x \in Req : req'[x] = IF x = r THEN q ELSE req[x]
  BY BecameRequests
<1>2. q.phase \in {"over", "calling", "queued"}
  BY DEF Became
<1>3. queue \in Seq(Req) /\ OnceEach(queue) /\ ~ Waits(queue, r)
  BY DEF LockOK
<1>4. /\ queue' \in Seq(Req) /\ OnceEach(queue')
      /\ \A x \in Req : Waits(queue', x) <=> Waits(queue, x) \/ (x = r /\ q.phase = "queued")
  <2>1. CASE q.phase = "queued"
    BY <1>3, <2>1, JoinedQueue
  <2>2. CASE q.phase # "queued"
    BY <1>3, <2>2
  <2> QED
    BY <2>1, <2>2
<1>5. \A x \in Req : (req'[x].phase = "queued") <=> Waits(queue', x)
  BY <1>1, <1>3, <1>4 DEF LockOK
<1>6. \A x \in Req : (req'[x].phase = "holding") <=> (holder' = x)
  <2>1. holder' = IF holder = r THEN NoReq ELSE holder
    BY DEF HolderWithout
  <2> QED
    BY <1>1, <1>2, <2>1, ServingAssumption DEF LockOK
<1>7. holder' \in Req \cup {NoReq}
  BY DEF LockOK, HolderWithout
<1> QED
  BY <1>4, <1>5, <1>6, <1>7 DEF LockOK, OnceEach, Waits

\* Who joins the queue has not passed anybody in it.
LEMMA BecameFair ==
    ASSUME RequestsOK, LockOK, FairOK, NEW r \in Req, NEW q \in Progress, Became(r, q),
           req[r].phase \in {"new", "holding", "calling"},
           queue' = IF q.phase = "queued" THEN Append(queue, r) ELSE queue,
           passed' = [passed EXCEPT ![r] = [x \in Req |-> 0]]
    PROVE  FairOK'
<1>1. \A x \in Req : req'[x] = IF x = r THEN q ELSE req[x]
  BY BecameRequests
<1>2. /\ passed' \in [Req -> [Req -> Nat]]
      /\ \A x \in Req : passed'[x] = IF x = r THEN [y \in Req |-> 0] ELSE passed[x]
  BY DEF FairOK
<1>3. \A x, y \in Req : req'[x].phase = "queued" => passed'[x][y] <= 1
  <2> SUFFICES ASSUME NEW x \in Req, NEW y \in Req, req'[x].phase = "queued"
               PROVE  passed'[x][y] <= 1
    OBVIOUS
  <2>1. CASE x = r
    BY <1>2, <2>1
  <2>2. CASE x # r
    BY <1>1, <1>2, <2>2 DEF FairOK
  <2> QED
    BY <2>1, <2>2
<1>4. queue \in Seq(Req) /\ ~ Waits(queue, r)
  BY DEF LockOK
<1>5. \A i \in 1 .. Len(queue) : queue[i] \in Req /\ queue[i] # r
  BY <1>4 DEF Waits
<1>6. \A i, j \in 1 .. Len(queue) : i < j => passed[queue[j]][queue[i]] = 0
  <2>1. DOMAIN queue = 1 .. Len(queue)
    BY <1>4
  <2>2. InTurn(queue, passed)
    BY DEF FairOK
  <2> QED
    BY <2>1, <2>2, Zenon DEF InTurn
<1>7. ASSUME NEW i \in DOMAIN queue', NEW j \in DOMAIN queue', i < j
      PROVE  passed'[queue'[j]][queue'[i]] = 0
  <2>1. CASE i \in 1 .. Len(queue) /\ j \in 1 .. Len(queue)
    <3>1. queue'[i] = queue[i] /\ queue'[j] = queue[j]
      BY <1>4, <2>1
    <3>2. passed'[queue[j]] = passed[queue[j]]
      BY <1>2, <1>5, <2>1
    <3> QED
      BY <1>6, <1>7, <2>1, <3>1, <3>2
  <2>2. CASE ~ (i \in 1 .. Len(queue) /\ j \in 1 .. Len(queue))
    <3>1. queue' = Append(queue, r)
      BY <1>4, <1>7, <2>2
    <3>2. i \in 1 .. Len(queue) /\ j = Len(queue) + 1
      BY <1>4, <1>7, <2>2, <3>1
    <3>3. queue'[j] = r /\ queue'[i] \in Req
      BY <1>4, <1>5, <3>1, <3>2
    <3> QED
      BY <1>2, <3>3
  <2> QED
    BY <2>1, <2>2
<1>8. InTurn(queue, passed)'
  BY <1>7 DEF InTurn
<1> QED
  BY <1>2, <1>3, <1>8 DEF FairOK
\* What the handler stores: the outcome of its task and its batch.
LEMMA BecameStored ==
    ASSUME RequestsOK, TasksOK, BatchesOK, NEW r \in Req, NEW q \in Progress, Became(r, q),
           req[r].phase = "new" \/ (req[r].phase \in {"holding", "calling"} /\ q.work = req[r].work),
           q.phase = "over" => Store(r, q.work, q.results),
           q.phase # "over" =>
              /\ UNCHANGED batches
              /\ tasks' = IF q.work.kind = "send" THEN [tasks EXCEPT ![r] = "working"] ELSE tasks
    PROVE  TasksOK' /\ BatchesOK'
<1>1. \A x \in Req : req'[x] = IF x = r THEN q ELSE req[x]
  BY BecameRequests
<1>2. /\ q.results \in Seq(Result) /\ q.work \in Works /\ q.phase \in {"over", "calling", "queued"}
      /\ Marked(q.work.items, q.results)
      /\ q.phase = "over" => Len(q.results) = Len(q.work.items)
      /\ q.phase # "over" => Waiting(q.work.items, q.results)
  BY DEF Became, Progress, Shape, InProgress
<1>3. \A x \in Req : req[x].results \in Seq(Result)
  BY DEF RequestsOK, Progress
<1>4. TasksOK'
  <2>1. tasks \in [Req -> {"none", "working", "completed", "failed"}]
    BY DEF TasksOK
  <2>2. req[r].phase = "new" => tasks[r] = "none"
    <3>1. ASSUME req[r].phase = "new" PROVE req[r].work.kind # "send"
      <4>1. req[r].work = NoWork
        BY <3>1 DEF RequestsOK, Shape
      <4> QED
        BY <4>1, WorkFacts
    <3> QED
      BY <3>1 DEF TasksOK, TaskTruth
  <2> DEFINE task == IF q.work.kind # "send" \/ q.work.items # <<"chat">> THEN "none"
                     ELSE IF q.phase # "over" THEN "working"
                     ELSE IF q.results[1] = "ok" THEN "completed" ELSE "failed"
  <2>3. tasks' = [tasks EXCEPT ![r] = task]
    <3>1. CASE q.work.kind # "send"
      <4>1. tasks[r] = "none"
        BY <2>2, <3>1 DEF TasksOK, TaskTruth
      <4>2. tasks' = tasks
        BY <3>1 DEF Store
      <4> QED
        BY <2>1, <3>1, <4>1, <4>2
    <3>2. CASE q.work.kind = "send" /\ q.work.items = <<"bad">>
      <4>1. q.phase = "over"
        <5>1. ASSUME q.phase # "over" PROVE FALSE
          <6>1. Len(q.results) < 1 /\ q.work.items[Len(q.results) + 1] # "bad"
            BY <1>2, <3>2, <5>1 DEF Waiting
          <6>2. Len(q.results) = 0
            BY <1>2, <6>1
          <6> QED
            BY <3>2, <6>1, <6>2
        <5> QED
          BY <5>1
      <4>2. q.work.items # <<"chat">>
        BY <3>2
      <4>3. tasks[r] = "none"
        BY <2>2, <3>2, <4>2 DEF TasksOK, TaskTruth
      <4>4. tasks' = tasks
        BY <4>1, <4>2 DEF Store
      <4> QED
        BY <2>1, <4>2, <4>3, <4>4
    <3>3. CASE q.work.kind = "send" /\ q.work.items = <<"chat">>
      <4>1. CASE q.phase = "over"
        <5>1. tasks' = [tasks EXCEPT ![r] = TaskStatus(q.results)]
          BY <3>3, <4>1 DEF Store
        <5>2. Len(q.results) = 1
          BY <1>2, <3>3, <4>1
        <5>3. (q.results = <<"ok">>) <=> (q.results[1] = "ok")
          BY <1>2, <5>2
        <5>4. TaskStatus(q.results) = task
          BY <3>3, <4>1, <5>3 DEF TaskStatus
        <5> QED
          BY <5>1, <5>4
      <4>2. CASE q.phase # "over"
        BY <3>3, <4>2
      <4> QED
        BY <4>1, <4>2
    <3> QED
      BY <1>2, <3>1, <3>2, <3>3, WorkFacts
  <2>4. task \in {"none", "working", "completed", "failed"}
    OBVIOUS
  <2>5. \A x \in Req : tasks'[x] = IF x = r THEN task ELSE tasks[x]
    <3> HIDE DEF task
    <3> QED
      BY <2>1, <2>3
  <2>6. ASSUME NEW x \in Req
        PROVE  tasks'[x] =
                  IF req'[x].work.kind # "send" \/ req'[x].work.items # <<"chat">> THEN "none"
                  ELSE IF req'[x].phase \in InProgress \cup {"gone"} THEN "working"
                  ELSE IF req'[x].results[1] = "ok" THEN "completed" ELSE "failed"
    <3>1. CASE x = r
      <4>1. req'[x] = q /\ tasks'[x] = task
        BY <1>1, <2>5, <3>1
      <4>2. (q.phase \in InProgress \cup {"gone"}) <=> (q.phase # "over")
        BY <1>2 DEF InProgress
      <4> HIDE DEF Became
      <4> QED
        BY <4>1, <4>2
    <3>2. CASE x # r
      <4>1. req'[x] = req[x] /\ tasks'[x] = tasks[x]
        BY <1>1, <2>5, <3>2
      <4> QED
        BY <4>1 DEF TasksOK, TaskTruth
    <3> QED
      BY <3>1, <3>2
  <2>7. tasks' \in [Req -> {"none", "working", "completed", "failed"}]
    <3> HIDE DEF task
    <3> QED
      BY <2>1, <2>3, <2>4
  <2> QED
    BY <2>6, <2>7 DEF TasksOK, TaskTruth
<1>5. BatchesOK'
  <2>1. \A x \in Req : batches[x] = JobOf(req[x])
    BY DEF BatchesOK
  <2>2. \A x \in Req : batches[x] = NoBatch \/ batches[x].status \in Final
    BY <1>3, <2>1, JobFacts DEF JobOf
  <2>3. batches' = [batches EXCEPT ![r] = JobOf(q)]
    <3>1. req[r].phase # "over" /\ batches[r] = NoBatch
      BY <2>1 DEF JobOf
    <3>2. batches = [x \in Req |-> batches[x]]
      BY DEF BatchesOK
    <3>3. CASE q.phase = "over" /\ q.work.kind = "batch"
      BY <3>3 DEF Store, JobOf
    <3>4. CASE ~ (q.phase = "over" /\ q.work.kind = "batch")
      <4>1. batches' = batches
        BY <2>2, <3>4 DEF Store
      <4>2. JobOf(q) = batches[r]
        BY <3>1, <3>4 DEF JobOf
      <4> QED
        BY <3>2, <4>1, <4>2
    <3> QED
      BY <3>3, <3>4
  <2>4. \A x \in Req : batches'[x] = JobOf(req'[x])
    BY <1>1, <2>1, <2>3 DEF BatchesOK
  <2>5. batches' = [x \in Req |-> batches'[x]]
    BY <2>3 DEF BatchesOK
  <2>6. batches' = [x \in Req |-> JobOf(req'[x])]
    BY <2>4, <2>5
  <2> QED
    BY <2>6 DEF BatchesOK, JobOf
<1> QED
  BY <1>4, <1>5

\* What the layers around the handler write.
LEMMA BecameLogged ==
    ASSUME RequestsOK, LogOK, NEW r \in Req, NEW q \in Progress, Became(r, q),
           req[r].phase \in {"new", "holding", "calling"},
           q.phase = "over" => Respond(r, q.work),
           q.phase # "over" => UNCHANGED <<ring, rows, answered>> /\ pending' = pending \cup {r}
    PROVE  LogOK'
<1>1. \A x \in Req : req'[x] = IF x = r THEN q ELSE req[x]
  BY BecameRequests
<1>2. q.phase \in {"over", "calling", "queued"}
  BY DEF Became
<1>3. CASE q.phase = "over"
  <2>1. RingOK(ring', answered') /\ answered' \in Seq(Req)
    <3>1. answered \in Seq(Req) /\ RingOK(ring, answered)
      BY DEF LogOK
    <3>2. RingOK(Pushed(ring, r), Append(answered, r))
      BY <3>1, PushedRing
    <3>3. ring' = Pushed(ring, r) /\ answered' = Append(answered, r)
      BY <1>3 DEF Respond
    <3> QED
      BY <3>1, <3>2, <3>3
  <2>2. pending' = {x \in Req : req'[x].phase \in InProgress \cup {"gone"}}
    BY <1>1, <1>3 DEF Respond, LogOK, InProgress
  <2>3. \A x \in Req : req'[x].phase # "lost" =>
            (x \in rows' <=> req'[x].phase = "over" /\ req'[x].work.kind # "chat")
    BY <1>1, <1>3 DEF Respond, LogOK
  <2>4. rows' \subseteq Req
    BY <1>3 DEF Respond, LogOK
  <2> QED
    BY <2>1, <2>2, <2>3, <2>4 DEF LogOK, RingOK
<1>4. CASE q.phase # "over"
  <2>1. pending' = {x \in Req : req'[x].phase \in InProgress \cup {"gone"}}
    BY <1>1, <1>2, <1>4 DEF LogOK, InProgress
  <2>2. \A x \in Req : req'[x].phase # "lost" =>
            (x \in rows' <=> req'[x].phase = "over" /\ req'[x].work.kind # "chat")
    BY <1>1, <1>2, <1>4 DEF LogOK
  <2> QED
    BY <1>4, <2>1, <2>2 DEF LogOK, RingOK
<1> QED
  BY <1>3, <1>4
LEMMA ProceedKeeps ==
    ASSUME Inv, NEW r \in Req, NEW work \in Works, NEW results \in Seq(Result),
           Marked(work.items, results),
           req[r].phase = "new" \/ (req[r].phase \in {"holding", "calling"} /\ work = req[r].work),
           Proceed(r, work, results, queue), holder' = HolderWithout(r)
    PROVE  Inv'
<1>1. PICK q \in Progress :
         /\ Became(r, q) /\ q.work = work
         /\ queue' = IF q.phase = "queued" THEN Append(queue, r) ELSE queue
         /\ passed' = [passed EXCEPT ![r] = [x \in Req |-> 0]]
         /\ q.phase = "over" => Store(r, work, q.results) /\ Respond(r, work)
         /\ q.phase # "over" =>
               /\ UNCHANGED <<batches, ring, rows, answered>>
               /\ pending' = pending \cup {r}
               /\ tasks' = IF work.kind = "send"
                           THEN [tasks EXCEPT ![r] = "working"] ELSE tasks
  BY ProceedFacts
<1>2. RequestsOK /\ LockOK /\ TasksOK /\ BatchesOK /\ LogOK /\ FairOK
  BY DEF Inv
<1>3. req[r].phase \in {"new", "holding", "calling"}
  OBVIOUS
<1>4. RequestsOK'
  BY <1>1, <1>2, BecameRequests
<1>5. LockOK'
  BY <1>1, <1>2, <1>3, BecameLock
<1>6. TasksOK' /\ BatchesOK'
  BY <1>1, <1>2, BecameStored
<1>7. LogOK'
  BY <1>1, <1>2, <1>3, BecameLogged
<1>8. FairOK'
  BY <1>1, <1>2, <1>3, BecameFair
<1> QED
  BY <1>4, <1>5, <1>6, <1>7, <1>8 DEF Inv

LEMMA ArriveKeeps ==
    ASSUME Inv, NEW r \in Req, NEW work \in Works, NEW ip \in Ip, Arrive(r, work, ip)
    PROVE  Inv'
<1>1. req[r].phase = "new" /\ Proceed(r, work, <<>>, queue) /\ holder' = holder
  BY DEF Arrive
<1>2. holder' = HolderWithout(r)
  BY <1>1 DEF Inv, LockOK, HolderWithout
<1>3. <<>> \in Seq(Result) /\ Marked(work.items, <<>>)
  BY WorkFacts DEF Marked
<1> QED
  BY <1>1, <1>2, <1>3, ProceedKeeps

\* The item a request waited for is done.
LEMMA ItemDone ==
    ASSUME Inv, NEW r \in Req, req[r].phase \in InProgress, NEW result \in Result
    PROVE  /\ req[r].work \in Works
           /\ Append(req[r].results, result) \in Seq(Result)
           /\ Marked(req[r].work.items, Append(req[r].results, result))
<1>1. PICK q \in Progress : q = req[r]
  BY DEF Inv, RequestsOK
<1>2. Shape(q) /\ q.phase \in InProgress
  BY <1>1 DEF Inv, RequestsOK
<1>3. /\ q.results \in Seq(Result) /\ Marked(q.work.items, q.results)
      /\ Waiting(q.work.items, q.results) /\ q.work \in Works \cup {NoWork}
  BY <1>2 DEF Shape, Progress
<1>4. q.work.items \in Seq(Item)
  BY <1>3, WorkFacts
<1>5. q.work \in Works
  <2>1. Len(NoWork.items) = 0
    BY WorkFacts
  <2>2. ~ Waiting(NoWork.items, q.results)
    BY <1>3, <2>1 DEF Waiting
  <2> QED
    BY <1>3, <2>2
<1> DEFINE s == q.results
           items == q.work.items
           t == Append(s, result)
<1>6. /\ t \in Seq(Result) /\ Len(t) = Len(s) + 1 /\ Len(s) \in Nat /\ Len(items) \in Nat
      /\ \A i \in 1 .. Len(s) : t[i] = s[i]
  BY <1>3, <1>4
<1>7. Len(s) < Len(items) /\ items[Len(s) + 1] # "bad"
  BY <1>3 DEF Waiting
<1>8. \A i \in 1 .. Len(s) : items[i] = "bad" => s[i] = "failed"
  BY <1>3 DEF Marked
<1> HIDE DEF t, items, s
<1>9. Marked(items, t)
  BY <1>6, <1>7, <1>8 DEF Marked
<1> QED
  BY <1>1, <1>5, <1>6, <1>9 DEF t, items, s

LEMMA ExecutedKeeps ==
    ASSUME Inv, NEW r \in Req, NEW result \in Result, Executed(r, result)
    PROVE  Inv'
<1>1. /\ req[r].phase = "holding" /\ holder' = NoReq
      /\ Proceed(r, req[r].work, Append(req[r].results, result), queue)
  BY DEF Executed
<1>2. holder' = HolderWithout(r)
  BY <1>1 DEF Inv, LockOK, HolderWithout
<1>3. PICK work \in Works, results \in Seq(Result) :
         /\ work = req[r].work /\ results = Append(req[r].results, result)
         /\ Marked(work.items, results)
  BY <1>1, ItemDone DEF InProgress
<1> QED
  BY <1>1, <1>2, <1>3, ProceedKeeps

LEMMA RelayedKeeps ==
    ASSUME Inv, NEW r \in Req, NEW result \in Result, Relayed(r, result)
    PROVE  Inv'
<1>1. /\ req[r].phase = "calling" /\ holder' = holder
      /\ Proceed(r, req[r].work, Append(req[r].results, result), queue)
  BY DEF Relayed
<1>2. holder' = HolderWithout(r)
  BY <1>1 DEF Inv, LockOK, HolderWithout
<1>3. PICK work \in Works, results \in Seq(Result) :
         /\ work = req[r].work /\ results = Append(req[r].results, result)
         /\ Marked(work.items, results)
  BY <1>1, ItemDone DEF InProgress
<1> QED
  BY <1>1, <1>2, <1>3, ProceedKeeps
\* A request in progress gets the lock, or its client leaves.
LEMMA PhaseMoves ==
    ASSUME Inv, NEW r \in Req, req[r].phase \in InProgress, NEW p \in {"holding", "gone"},
           req' = [req EXCEPT ![r].phase = p],
           UNCHANGED <<tasks, batches, pending, ring, rows, answered>>
    PROVE  /\ RequestsOK' /\ TasksOK' /\ BatchesOK' /\ LogOK'
           /\ \A x \in Req : x # r => req'[x] = req[x]
           /\ req'[r].phase = p
<1>1. req \in [Req -> Progress]
  BY DEF Inv, RequestsOK
<1>2. /\ req' \in [Req -> Progress]
      /\ \A x \in Req : req'[x] = IF x = r THEN [req[r] EXCEPT !.phase = p] ELSE req[x]
  <2>1. p \in Phase
    BY DEF Phase, InProgress
  <2>2. [req[r] EXCEPT !.phase = p] \in Progress
    BY <1>1, <2>1 DEF Progress
  <2> QED
    BY <1>1, <2>2
<1>3. /\ req'[r].phase = p /\ req'[r].work = req[r].work /\ req'[r].results = req[r].results
      /\ \A x \in Req : x # r => req'[x] = req[x]
  <2>1. req[r] \in Progress
    BY <1>1
  <2> QED
    BY <1>2, <2>1 DEF Progress
<1>4. RequestsOK'
  <2>1. ASSUME NEW x \in Req PROVE Shape(req'[x])
    <3>1. Shape(req[x])
      BY DEF Inv, RequestsOK
    <3>2. CASE x = r
      BY <1>3, <3>1, <3>2 DEF Shape, InProgress
    <3>3. CASE x # r
      <4>1. req'[x] = req[x]
        BY <1>3, <3>3
      <4> QED
        BY <3>1, <4>1
    <3> QED
      BY <3>2, <3>3
  <2> QED
    BY <1>2, <2>1 DEF RequestsOK
<1>5. TasksOK'
  <2>1. \A x \in Req : tasks[x] =
            IF req'[x].work.kind # "send" \/ req'[x].work.items # <<"chat">> THEN "none"
            ELSE IF req'[x].phase \in InProgress \cup {"gone"} THEN "working"
            ELSE IF req'[x].results[1] = "ok" THEN "completed" ELSE "failed"
    BY <1>3 DEF Inv, TasksOK, TaskTruth, InProgress
  <2> QED
    BY <2>1 DEF Inv, TasksOK, TaskTruth
<1>6. BatchesOK'
  <2>1. req[r].phase # "over" /\ req'[r].phase # "over"
    BY <1>3 DEF InProgress
  <2>2. \A x \in Req : JobOf(req'[x]) = JobOf(req[x])
    BY <1>3, <2>1 DEF JobOf
  <2>3. batches = [x \in Req |-> JobOf(req[x])]
    BY DEF Inv, BatchesOK
  <2>4. batches' = [x \in Req |-> JobOf(req'[x])]
    BY <2>2, <2>3
  <2> QED
    BY <2>4 DEF BatchesOK, JobOf
<1>7. LogOK'
  <2>1. pending = {x \in Req : req'[x].phase \in InProgress \cup {"gone"}}
    BY <1>3 DEF Inv, LogOK, InProgress
  <2>2. \A x \in Req : req'[x].phase # "lost" =>
            (x \in rows <=> req'[x].phase = "over" /\ req'[x].work.kind # "chat")
    BY <1>3 DEF Inv, LogOK, InProgress
  <2> QED
    BY <2>1, <2>2 DEF Inv, LogOK, RingOK
<1> QED
  BY <1>3, <1>4, <1>5, <1>6, <1>7

LEMMA AcquireKeeps ==
    ASSUME Inv, NEW r \in Req, Acquire(r)
    PROVE  Inv'
<1>1. /\ holder = NoReq /\ queue # <<>> /\ r = Head(queue)
      /\ holder' = r /\ queue' = Tail(queue)
      /\ req' = [req EXCEPT ![r].phase = "holding"]
      /\ passed' = [w \in Req |-> IF w # r /\ req[w].phase = "queued"
                                  THEN [passed[w] EXCEPT ![r] = @ + 1] ELSE passed[w]]
      /\ UNCHANGED <<tasks, batches, pending, ring, rows, answered>>
  BY DEF Acquire
<1>2. queue \in Seq(Req) /\ OnceEach(queue)
  BY DEF Inv, LockOK
<1>3. /\ queue' \in Seq(Req) /\ OnceEach(queue') /\ Waits(queue, r)
      /\ \A x \in Req : Waits(queue', x) <=> Waits(queue, x) /\ x # r
  BY <1>1, <1>2, ServedQueue
<1>4. req[r].phase = "queued"
  BY <1>3 DEF Inv, LockOK
<1>5. /\ RequestsOK' /\ TasksOK' /\ BatchesOK' /\ LogOK'
      /\ \A x \in Req : x # r => req'[x] = req[x]
      /\ req'[r].phase = "holding"
  BY <1>1, <1>4, PhaseMoves DEF InProgress
<1>6. LockOK'
  <2>1. \A x \in Req : (req'[x].phase = "queued") <=> Waits(queue', x)
    BY <1>3, <1>5 DEF Inv, LockOK
  <2>2. \A x \in Req : (req'[x].phase = "holding") <=> (holder' = x)
    BY <1>1, <1>5, ServingAssumption DEF Inv, LockOK
  <2> QED
    BY <1>1, <1>3, <2>1, <2>2 DEF LockOK, OnceEach, Waits
<1>7. FairOK'
  <2>1. passed \in [Req -> [Req -> Nat]]
    BY DEF Inv, FairOK
  <2>2. /\ passed' \in [Req -> [Req -> Nat]]
        /\ \A x, y \in Req : passed'[x][y] =
              IF x # r /\ req[x].phase = "queued" /\ y = r THEN passed[x][y] + 1 ELSE passed[x][y]
    BY <1>1, <2>1
  <2>3. /\ queue[1] = r /\ Len(queue) \in Nat \ {0} /\ DOMAIN queue = 1 .. Len(queue)
        /\ DOMAIN queue' = 1 .. Len(queue) - 1
        /\ \A i \in 1 .. Len(queue) - 1 : queue'[i] = queue[i + 1]
    BY <1>1, <1>2
  <2>4. \A i, j \in 1 .. Len(queue) : i < j => passed[queue[j]][queue[i]] = 0
    <3>1. InTurn(queue, passed)
      BY DEF Inv, FairOK
    <3> QED
      BY <2>3, <3>1, Zenon DEF InTurn
  <2>5. ASSUME NEW x \in Req, NEW y \in Req, req'[x].phase = "queued"
        PROVE  passed'[x][y] <= 1
    <3>1. x # r /\ req[x].phase = "queued"
      BY <1>5, <2>5
    <3>2. CASE y = r
      <4>1. PICK i \in 1 .. Len(queue) : queue[i] = x
        BY <2>3, <3>1 DEF Inv, LockOK, Waits
      <4>2. 1 < i /\ 1 \in 1 .. Len(queue)
        BY <2>3, <3>1, <4>1
      <4>3. passed[x][r] = 0
        BY <2>3, <2>4, <4>1, <4>2
      <4> QED
        BY <2>2, <3>1, <3>2, <4>3
    <3>3. CASE y # r
      <4>1. passed'[x][y] = passed[x][y]
        BY <2>2, <3>3
      <4> QED
        BY <3>1, <4>1 DEF Inv, FairOK
    <3> QED
      BY <3>2, <3>3
  <2>6. ASSUME NEW i \in DOMAIN queue', NEW j \in DOMAIN queue', i < j
        PROVE  passed'[queue'[j]][queue'[i]] = 0
    <3>1. i + 1 \in 1 .. Len(queue) /\ j + 1 \in 1 .. Len(queue) /\ i + 1 < j + 1 /\ i + 1 # 1
      BY <2>3, <2>6
    <3>2. queue'[i] = queue[i + 1] /\ queue'[j] = queue[j + 1]
      BY <2>3
    <3>3. passed[queue[j + 1]][queue[i + 1]] = 0
      BY <2>4, <3>1
    <3>4. queue[i + 1] # r
      BY <1>2, <2>3, <3>1 DEF OnceEach
    <3>5. queue[i + 1] \in Req /\ queue[j + 1] \in Req
      BY <1>2, <3>1
    <3> QED
      BY <2>2, <3>2, <3>3, <3>4, <3>5
  <2>7. InTurn(queue, passed)'
    BY <2>6 DEF InTurn
  <2> QED
    BY <2>2, <2>5, <2>7 DEF FairOK
<1> QED
  BY <1>5, <1>6, <1>7 DEF Inv

LEMMA LeaveKeeps ==
    ASSUME Inv, NEW r \in Req, Leave(r)
    PROVE  Inv'
<1>1. /\ req[r].phase \in InProgress
      /\ req' = [req EXCEPT ![r].phase = "gone"]
      /\ holder' = HolderWithout(r)
      /\ queue' = QueueWithout(r)
      /\ UNCHANGED <<tasks, batches, pending, ring, rows, answered>>
      /\ passed' = passed
  BY DEF Leave
<1>2. queue \in Seq(Req) /\ OnceEach(queue)
  BY DEF Inv, LockOK
<1>3. /\ queue' \in Seq(Req) /\ OnceEach(queue') /\ InOrder(queue', queue)
      /\ \A x \in Req : Waits(queue', x) <=> Waits(queue, x) /\ x # r
  BY <1>1, <1>2, LeftQueue
<1>4. /\ RequestsOK' /\ TasksOK' /\ BatchesOK' /\ LogOK'
      /\ \A x \in Req : x # r => req'[x] = req[x]
      /\ req'[r].phase = "gone"
  BY <1>1, PhaseMoves
<1>5. LockOK'
  <2>1. \A x \in Req : (req'[x].phase = "queued") <=> Waits(queue', x)
    BY <1>3, <1>4 DEF Inv, LockOK
  <2>2. holder' = IF holder = r THEN NoReq ELSE holder
    BY <1>1 DEF HolderWithout
  <2>3. \A x \in Req : (req'[x].phase = "holding") <=> (holder' = x)
    BY <1>4, <2>2, ServingAssumption DEF Inv, LockOK
  <2>4. holder' \in Req \cup {NoReq}
    BY <2>2 DEF Inv, LockOK
  <2> QED
    BY <1>3, <2>1, <2>3, <2>4 DEF LockOK, OnceEach, Waits
<1>6. FairOK'
  <2>1. ASSUME NEW x \in Req, NEW y \in Req, req'[x].phase = "queued" PROVE passed'[x][y] <= 1
    <3>1. req[x].phase = "queued"
      BY <1>4, <2>1
    <3> QED
      BY <1>1, <3>1 DEF Inv, FairOK
  <2>2. ASSUME NEW i \in DOMAIN queue', NEW j \in DOMAIN queue', i < j
        PROVE  passed'[queue'[j]][queue'[i]] = 0
    <3>1. PICK k \in DOMAIN queue, l \in DOMAIN queue :
             k < l /\ queue'[i] = queue[k] /\ queue'[j] = queue[l]
      BY <1>3, <2>2 DEF InOrder
    <3>2. passed[queue[l]][queue[k]] = 0
      BY <3>1 DEF Inv, FairOK, InTurn
    <3> QED
      BY <1>1, <3>1, <3>2
  <2>3. InTurn(queue, passed)'
    BY <2>2 DEF InTurn
  <2> QED
    BY <1>1, <2>1, <2>3 DEF Inv, FairOK
<1> QED
  BY <1>4, <1>5, <1>6 DEF Inv

LEMMA RestartKeeps == ASSUME Inv, Restart PROVE Inv'
<1> DEFINE Lost == [NewReq EXCEPT !.phase = "lost"]
<1>1. req' = [r \in Req |-> IF req[r].phase = "new" THEN NewReq ELSE Lost]
  BY DEF Restart
<1>2. Lost = [phase |-> "lost", work |-> NoWork, results |-> <<>>]
  BY DEF NewReq
<1> HIDE DEF Lost
<1>3. \A q \in {NewReq, Lost} :
         /\ q \in Progress /\ Shape(q) /\ q.work.kind # "send" /\ q.phase \in {"new", "lost"}
  <2> DEFINE Blank(p) == [phase |-> p, work |-> NoWork, results |-> <<>>]
  <2>1. ASSUME NEW p \in {"new", "lost"}
        PROVE  /\ Blank(p) \in Progress /\ Shape(Blank(p))
               /\ Blank(p).work.kind # "send" /\ Blank(p).phase = p
    BY DEF Progress, Phase, Shape, NoWork, Marked, InProgress, Result
  <2>2. NewReq = Blank("new") /\ Lost = Blank("lost")
    BY <1>2 DEF NewReq
  <2> HIDE DEF Blank
  <2> QED
    BY <2>1, <2>2
<1>4. \A r \in Req : /\ req'[r] \in {NewReq, Lost}
                     /\ req'[r].phase # "lost" => req[r].phase = "new"
  BY <1>1, <1>2
<1>5. RequestsOK'
  BY <1>1, <1>3, <1>4 DEF RequestsOK
<1>6. \A r \in Req : req'[r].phase \in {"new", "lost"} /\ req'[r].work.kind # "send"
  BY <1>3, <1>4
<1>7. LockOK'
  BY <1>6, ServingAssumption DEF Restart, LockOK, OnceEach, Waits
<1>8. TasksOK'
  BY <1>6 DEF Restart, TasksOK, TaskTruth
<1>9. BatchesOK'
  BY <1>6 DEF Restart, BatchesOK, JobOf
<1>10. LogOK'
  <2>1. answered' = <<>> /\ ring' = <<>> /\ pending' = {} /\ rows' = rows
    BY DEF Restart
  <2>2. RingOK(<<>>, <<>>)
    <3>1. <<>> = SubSeq(<<>>, 0 + 1, Len(<<>>)) /\ 0 \in 0 .. Len(<<>>) /\ ~ (0 > 0)
      OBVIOUS
    <3> QED
      BY <3>1, ServingAssumption DEF RingOK
  <2>3. \A r \in Req : req'[r].phase # "lost" =>
            (r \in rows' <=> req'[r].phase = "over" /\ req'[r].work.kind # "chat")
    BY <1>4, <1>6, <2>1 DEF Inv, LogOK
  <2>4. \A r \in Req : req'[r].phase \notin InProgress \cup {"gone"}
    BY <1>6 DEF InProgress
  <2> QED
    BY <2>1, <2>2, <2>3, <2>4 DEF Inv, LogOK, RingOK
<1>11. FairOK'
  BY <1>6 DEF Restart, FairOK, InTurn
<1> QED
  BY <1>5, <1>7, <1>8, <1>9, <1>10, <1>11 DEF Inv
LEMMA StutterKeeps == ASSUME Inv, UNCHANGED vars PROVE Inv'
<1>1. /\ req' = req /\ holder' = holder /\ queue' = queue /\ tasks' = tasks
      /\ batches' = batches /\ pending' = pending /\ ring' = ring /\ rows' = rows
      /\ answered' = answered /\ passed' = passed
  BY DEF vars
<1>2. RequestsOK' /\ BatchesOK'
  BY <1>1 DEF Inv, RequestsOK, BatchesOK, JobOf
<1>3. LockOK' /\ FairOK'
  BY <1>1 DEF Inv, LockOK, OnceEach, Waits, FairOK, InTurn
<1>4. TasksOK'
  BY <1>1 DEF Inv, TasksOK, TaskTruth
<1>5. LogOK'
  BY <1>1 DEF Inv, LogOK, RingOK
<1> QED
  BY <1>2, <1>3, <1>4, <1>5 DEF Inv

LEMMA NextInv == Inv /\ [Next]_vars => Inv'
<1> SUFFICES ASSUME Inv, [Next]_vars PROVE Inv'
  OBVIOUS
<1>1. ASSUME NEW r \in Req, NEW w \in Works, NEW ip \in Ip, Arrive(r, w, ip) PROVE Inv'
  BY <1>1, ArriveKeeps
<1>2. ASSUME NEW r \in Req, Acquire(r) PROVE Inv'
  BY <1>2, AcquireKeeps
<1>3. ASSUME NEW r \in Req, NEW result \in {"ok", "failed"}, Executed(r, result) PROVE Inv'
  BY <1>3, ExecutedKeeps DEF Result
<1>4. ASSUME NEW r \in Req, NEW result \in {"ok", "failed"}, Relayed(r, result) PROVE Inv'
  BY <1>4, RelayedKeeps DEF Result
<1>5. ASSUME NEW r \in Req, Leave(r) PROVE Inv'
  BY <1>5, LeaveKeeps
<1>6. CASE Restart
  BY <1>6, RestartKeeps
<1>7. CASE UNCHANGED vars
  BY <1>7, StutterKeeps
<1> QED
  BY <1>1, <1>2, <1>3, <1>4, <1>5, <1>6, <1>7 DEF Next

LEMMA Invariance == Spec => []Inv
  BY InitInv, NextInv, PTL DEF Spec

-----------------------------------------------------------------------------
(***************************************************************************)
(* The stores and the ring have their types, the ring never exceeds its    *)
(* cap, and the lock's holder and queue are those the requests say         *)
(* (LogBuffer::push, combo.write().await in every handler).                *)
(***************************************************************************)
THEOREM TypeCorrect == Spec => []TypeOK
<1>1. Inv => TypeOK
  <2> SUFFICES ASSUME Inv PROVE TypeOK
    OBVIOUS
  <2>1. \A r \in Req : /\ req[r].phase \in InProgress \cup {"new", "over", "gone", "lost"}
                       /\ req[r].work \in Works \cup {NoWork}
                       /\ req[r].results \in Seq({"ok", "failed"})
                       /\ tasks[r] \in {"none", "working", "completed", "failed"}
    BY DEF Inv, RequestsOK, TasksOK, Progress, Phase, Result
  <2>2. /\ \A r \in Req : (req[r].phase = "holding") <=> (holder = r)
        /\ \A r \in Req : (req[r].phase = "queued") <=> \E i \in DOMAIN queue : queue[i] = r
    BY DEF Inv, LockOK, Waits
  <2>3. /\ pending \subseteq Req /\ rows \subseteq Req
        /\ ring \in Seq(Req) /\ Len(ring) <= LogCap
    BY DEF Inv, LogOK, RingOK
  <2> QED
    BY <2>1, <2>2, <2>3 DEF TypeOK
<1> QED
  BY <1>1, Invariance, PTL

(***************************************************************************)
(* What message/get tells of a task is true, whoever leaves and whenever   *)
(* the process stops (A2a::handle).                                        *)
(***************************************************************************)
THEOREM TasksAreTrue == Spec => []TaskTruth
<1>1. Inv => TaskTruth
  BY DEF Inv, TasksOK
<1> QED
  BY <1>1, Invariance, PTL

(***************************************************************************)
(* A batch that was answered can be read until the process stops, whole,   *)
(* in its order, with counts and a status that agree with its results and  *)
(* that no cancel changes (Batch::submit, get, cancel).                    *)
(***************************************************************************)
THEOREM BatchesAreWhole == Spec => []BatchWhole
<1>1. ASSUME Inv PROVE BatchWhole
  <2> SUFFICES ASSUME NEW r \in Req, req[r].phase = "over", req[r].work.kind = "batch"
      PROVE LET job == batches[r]
                items == req[r].work.items
                AllAre(result) == \A i \in DOMAIN items : job.results[i] = result
            IN  /\ job # NoBatch
                /\ Len(job.results) = Len(items)
                /\ \A i \in DOMAIN items : items[i] = "bad" => job.results[i] = "failed"
                /\ job.succeeded + job.failed = Len(items)
                /\ job.status = IF AllAre("ok") THEN "completed"
                                ELSE IF AllAre("failed") THEN "failed"
                                ELSE "completed_with_errors"
    BY DEF BatchWhole
  <2>1. PICK s \in Seq(Result), items \in Seq(Item) :
           s = req[r].results /\ items = req[r].work.items
    BY <1>1, WorkFacts DEF Inv, RequestsOK, Progress
  <2>2. Len(s) = Len(items) /\ Marked(items, s)
    BY <1>1, <2>1 DEF Inv, RequestsOK, Shape
  <2>3. batches[r] = Job(s)
    BY <1>1, <2>1 DEF Inv, BatchesOK, JobOf
  <2>4. /\ Job(s).results = s
        /\ Job(s).succeeded = Count(s, "ok") /\ Job(s).failed = Count(s, "failed")
    BY DEF Job
  <2>5. DOMAIN items = 1 .. Len(s) /\ (items # <<>> <=> s # <<>>)
    BY <2>2
  <2>6. \A i \in DOMAIN items : items[i] = "bad" => s[i] = "failed"
    BY <2>2, <2>5 DEF Marked
  <2>7. Count(s, "ok") + Count(s, "failed") = Len(items)
    BY <2>2, CountsAddUp
  <2>8. /\ Job(s) # NoBatch /\ Job(s).status \in Final
        /\ (Job(s).status = "completed") <=> (\A i \in DOMAIN items : s[i] = "ok")
        /\ (Job(s).status = "failed") <=> (items # <<>> /\ \A i \in DOMAIN items : s[i] = "failed")
    BY <2>5, JobFacts
  <2>9. items = <<>> => \A i \in DOMAIN items : s[i] = "ok"
    OBVIOUS
  <2>10. Job(s).status = IF \A i \in DOMAIN items : s[i] = "ok" THEN "completed"
                         ELSE IF \A i \in DOMAIN items : s[i] = "failed" THEN "failed"
                         ELSE "completed_with_errors"
    BY <2>8, <2>9 DEF Final
  <2> QED
    BY <2>1, <2>2, <2>3, <2>4, <2>6, <2>7, <2>8, <2>10
<1> QED
  BY <1>1, Invariance, PTL

(***************************************************************************)
(* The ring holds the requests answered last, in their order; an entry is  *)
(* pending exactly while its request is in progress or has been dropped;   *)
(* and every answer but a chat's has its row (LogBuffer::push,             *)
(* build_router).                                                          *)
(***************************************************************************)
THEOREM LogIsExact == Spec => []LogExact
<1>1. Inv => LogExact
  BY DEF Inv, LogOK, RingOK, LogExact
<1> QED
  BY <1>1, Invariance, PTL

(***************************************************************************)
(* While a request waits for the engine, no other request gets it twice,   *)
(* however many items that one has (drop(combo) in Batch::submit).         *)
(***************************************************************************)
THEOREM OvertakenOnce == Spec => []NoOvertakingTwice
<1>1. Inv => NoOvertakingTwice
  BY DEF Inv, FairOK, NoOvertakingTwice
<1> QED
  BY <1>1, Invariance, PTL
=============================================================================
