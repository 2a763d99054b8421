------------------------------ MODULE Serving ------------------------------
(***************************************************************************)
(* Requests of several calls: batches (batch.rs), A2A tasks (a2a.rs), MCP  *)
(* arrays (mcp.rs) and relayed calls, beside plain chats, from the layers  *)
(* around every handler (proxy.rs, ratelimit.rs, logs.rs, telemetry.rs) to *)
(* the stores in memory that outlive the request.                          *)
(*                                                                         *)
(* A request is a kind and a sequence of items, of which                   *)
(*   chat   is a call of the combo engine, under its lock,                 *)
(*   read   looks at the engine, under its lock as well,                   *)
(*   call   is the outbound request of the relay, without the lock,        *)
(*   ping   needs nothing and succeeds, bad is refused without a call.     *)
(* What a chat does inside of the engine is the business of Fallback.      *)
(***************************************************************************)
EXTENDS Naturals, FiniteSets, SequencesExt

CONSTANTS
    Req, NoReq,  \* the requests that may come; no request
    Works,       \* what they may ask for, see Work
    Ip,          \* addresses of clients
    LogCap,      \* cap of LOG_BUFFER, 200 in the code
    MaxRequests, \* max_requests of the rate limiter, 60 in the code
    MaxIps,      \* max_ips of it, 10000 in the code
    NoBatch      \* no batch is stored

Kind == {"chat", "batch", "send", "skill", "mcp", "relay", "get", "cancel", "denied"}

Item == {"chat", "read", "call", "ping", "bad"}

Work == [kind : Kind, items : Seq(Item), target : Req \cup {NoReq}]

ASSUME ServingAssumption ==
    /\ NoReq \notin Req
    /\ \A w \in Works :
          /\ w \in Work
          \* message/send runs one chat, or is refused for want of a text.
          /\ w.kind = "send" => w.items \in {<<"chat">>, <<"bad">>}
    /\ NoBatch \notin [status : {"completed", "failed", "completed_with_errors"},
                       results : Seq({"ok", "failed"}), succeeded : Nat, failed : Nat]
    /\ LogCap \in Nat \ {0} /\ MaxRequests \in Nat \ {0} /\ MaxIps \in Nat \ {0}

VARIABLES
    req,      \* the progress of each request
    holder,   \* who holds the engine's lock
    queue,    \* who waits for it, first in first out
    tasks,    \* TASKS: the status of each A2A task
    batches,  \* BATCHES: the jobs
    pending,  \* PENDING_LOGS
    ring,     \* LOG_BUFFER, oldest first
    rows,     \* the requests, chats apart, that request_logs has a row for
    \* History, read by the properties only:
    answered, \* the requests answered since the process started
    passed    \* who got the lock how often since a request waits for it

vars == <<req, holder, queue, tasks, batches, pending, ring, rows, answered, passed>>

-----------------------------------------------------------------------------
NoWork == [kind |-> "denied", items |-> <<>>, target |-> NoReq]

NewReq == [phase |-> "new", work |-> NoWork, results |-> <<>>]

InProgress == {"queued", "holding", "calling"}

(***************************************************************************)
(* IpRateLimiter::check, for a client that comes at the instant now.  The  *)
(* middleware makes a limiter for each request, which is empty.            *)
(***************************************************************************)
Check(buckets, ip, now, window) ==
    LET kept == IF Cardinality(DOMAIN buckets) >= MaxIps THEN <<>> ELSE buckets
        recent == IF ip \in DOMAIN kept
                  THEN SelectSeq(kept[ip], LAMBDA t : now - t < window) ELSE <<>>
    IN  Len(recent) < MaxRequests

RateLimit(ip) == Check(<<>>, ip, 0, 60)

\* The results of the items that need no waiting, from the next one on.
LocalResult(item) == IF item = "ping" THEN "ok" ELSE "failed"

RunLocal(items, results) ==
    LET next == Len(results) + 1
        waits == {i \in next .. Len(items) : items[i] \notin {"ping", "bad"}}
        end == IF waits = {} THEN Len(items) ELSE (CHOOSE i \in waits : \A j \in waits : i <= j) - 1
    IN  results \o [k \in 1 .. (end + 1) - next |-> LocalResult(items[Len(results) + k])]

Count(results, result) == Cardinality({i \in DOMAIN results : results[i] = result})

\* Batch::submit (status).
\* Mutant: the test for no success comes first.
BatchStatusFailedFirst(results) ==
    IF Count(results, "ok") = 0 THEN "failed"
    ELSE IF Count(results, "failed") = 0 THEN "completed" ELSE "completed_with_errors"

BatchStatus(results) ==
    IF Count(results, "failed") = 0 THEN "completed"
    ELSE IF Count(results, "ok") = 0 THEN "failed" ELSE "completed_with_errors"

Job(results) ==
    [status |-> BatchStatus(results), results |-> results,
     succeeded |-> Count(results, "ok"), failed |-> Count(results, "failed")]

Final == {"completed", "failed", "completed_with_errors"}

\* A2a::handle (outcome).
\* Mutant: an error of the engine is not looked at.
TaskStatusBlind(results) == "completed"

TaskStatus(results) == IF results = <<"ok">> THEN "completed" ELSE "failed"

\* LogBuffer::push.
\* Mutants: a full ring keeps the old entries; it grows.
PushedFull(log, r) == IF Len(log) >= LogCap THEN log ELSE Append(log, r)

PushedAlways(log, r) == Append(log, r)

Pushed(log, r) == Append(IF Len(log) >= LogCap THEN Tail(log) ELSE log, r)

-----------------------------------------------------------------------------
(***************************************************************************)
(* A request whose items are done is answered: its handler stores what is  *)
(* to be kept, and on the way out the layers write the row and the log.  A *)
(* batch is stored here and nowhere else, with a status that is final, so  *)
(* that nobody can read one that is in progress and no cancel finds one it *)
(* could stop, whatever the lifecycle in batch.rs says.                    *)
(***************************************************************************)
Store(r, work, results) ==
    /\ batches' = CASE work.kind = "batch" -> [batches EXCEPT ![r] = Job(results)]
                    [] work.kind = "cancel" /\ work.target \in Req ->
                          IF batches[work.target] = NoBatch
                             \/ batches[work.target].status \in Final
                          THEN batches
                          ELSE [batches EXCEPT ![work.target].status = "cancelled"]
                    [] OTHER -> batches
    /\ tasks' = IF work.kind = "send" /\ work.items = <<"chat">>
                THEN [tasks EXCEPT ![r] = TaskStatus(results)] ELSE tasks

Respond(r, work) ==
    /\ pending' = pending \ {r}
    /\ ring' = Pushed(ring, r)
    /\ rows' = IF work.kind = "chat" THEN rows ELSE rows \cup {r}
    /\ answered' = Append(answered, r)

\* Who asks for the lock waits behind those who asked before.
\* Mutant: a handler with further items goes first.
EnqueuedFirst(others, r) == <<r>> \o others

Enqueued(others, r) == Append(others, r)

(***************************************************************************)
(* The handler goes on with these results: it is answered, or comes to the *)
(* next item it has to wait for.  others is the queue without r.           *)
(***************************************************************************)
Proceed(r, work, results, others) ==
    LET done == RunLocal(work.items, results)
        over == Len(done) = Len(work.items)
        phase == IF over THEN "over"
                 ELSE IF work.items[Len(done) + 1] = "call" THEN "calling" ELSE "queued"
    IN  /\ req' = [req EXCEPT ![r] = [phase |-> phase, work |-> work, results |-> done]]
        /\ queue' = IF phase = "queued" THEN Enqueued(others, r) ELSE others
        /\ passed' = [passed EXCEPT ![r] = [q \in Req |-> 0]]
        /\ IF over
           THEN Store(r, work, done) /\ Respond(r, work)
           ELSE /\ UNCHANGED <<batches, ring, rows, answered>>
                /\ pending' = pending \cup {r}
                /\ tasks' = IF work.kind = "send" THEN [tasks EXCEPT ![r] = "working"] ELSE tasks

\* The layers let the request in, and the handler runs up to its first wait.
Arrive(r, work, ip) ==
    /\ req[r].phase = "new"
    /\ RateLimit(ip)
    /\ Proceed(r, work, <<>>, queue)
    /\ UNCHANGED holder

\* combo.write().await, combo.read().await.
Acquire(r) ==
    /\ holder = NoReq /\ queue # <<>> /\ r = Head(queue)
    /\ holder' = r /\ queue' = Tail(queue)
    /\ req' = [req EXCEPT ![r].phase = "holding"]
    /\ passed' = [w \in Req |-> IF w # r /\ req[w].phase = "queued"
                                THEN [passed[w] EXCEPT ![r] = @ + 1] ELSE passed[w]]
    /\ UNCHANGED <<tasks, batches, pending, ring, rows, answered>>

\* The lock is dropped when an item is done, even if there are more items.
Executed(r, result) ==
    /\ req[r].phase = "holding"
    /\ req[r].work.items[Len(req[r].results) + 1] = "read" => result = "ok"
    /\ holder' = NoReq
    /\ Proceed(r, req[r].work, Append(req[r].results, result), queue)

Relayed(r, result) ==
    /\ req[r].phase = "calling"
    /\ Proceed(r, req[r].work, Append(req[r].results, result), queue)
    /\ UNCHANGED holder

-----------------------------------------------------------------------------
\* The lock of a handler that is dropped while it holds it.
\* Mutant: it stays taken.
HolderKept(r) == holder

HolderWithout(r) == IF holder = r THEN NoReq ELSE holder

QueueWithout(r) ==
    LET places == {i \in DOMAIN queue : queue[i] = r}
    IN  IF places = {} THEN queue ELSE RemoveAt(queue, CHOOSE i \in places : TRUE)

(***************************************************************************)
(* The client leaves, or the handler panics: its future is dropped where   *)
(* it waits.  Nothing after that point is done.                            *)
(***************************************************************************)
Leave(r) ==
    /\ req[r].phase \in InProgress
    /\ req' = [req EXCEPT ![r].phase = "gone"]
    /\ holder' = HolderWithout(r)
    /\ queue' = QueueWithout(r)
    /\ UNCHANGED <<tasks, batches, pending, ring, rows, answered, passed>>

\* The process stops and starts: only request_logs is still there.
Restart ==
    /\ req' = [r \in Req |-> IF req[r].phase = "new" THEN NewReq
                             ELSE [NewReq EXCEPT !.phase = "lost"]]
    /\ holder' = NoReq /\ queue' = <<>>
    /\ tasks' = [r \in Req |-> "none"] /\ batches' = [r \in Req |-> NoBatch]
    /\ pending' = {} /\ ring' = <<>> /\ answered' = <<>>
    /\ passed' = [r \in Req |-> [q \in Req |-> 0]]
    /\ UNCHANGED rows

Init ==
    /\ req = [r \in Req |-> NewReq]
    /\ holder = NoReq /\ queue = <<>>
    /\ tasks = [r \in Req |-> "none"] /\ batches = [r \in Req |-> NoBatch]
    /\ pending = {} /\ ring = <<>> /\ rows = {} /\ answered = <<>>
    /\ passed = [r \in Req |-> [q \in Req |-> 0]]

Next ==
    \/ \E r \in Req, w \in Works, ip \in Ip : Arrive(r, w, ip)
    \/ \E r \in Req :
          \/ Acquire(r)
          \/ \E result \in {"ok", "failed"} : Executed(r, result) \/ Relayed(r, result)
          \/ Leave(r)
    \/ Restart

Spec == Init /\ [][Next]_vars

(***************************************************************************)
(* Calls return, at the latest with their timeout, and the runtime lets    *)
(* every handler that can go on do so.                                     *)
(***************************************************************************)
Fairness ==
    \A r \in Req :
        /\ WF_vars(Acquire(r))
        /\ WF_vars(\E result \in {"ok", "failed"} : Executed(r, result))
        /\ WF_vars(\E result \in {"ok", "failed"} : Relayed(r, result))

FairSpec == Spec /\ Fairness

-----------------------------------------------------------------------------
(***************************************************************************)
(* Types, the cap of the ring (LogBuffer::push), and the lock's holder and *)
(* queue agreeing with the requests.                                       *)
(***************************************************************************)
TypeOK ==
    /\ \A r \in Req :
          /\ req[r].phase \in InProgress \cup {"new", "over", "gone", "lost"}
          /\ req[r].work \in Works \cup {NoWork}
          /\ req[r].results \in Seq({"ok", "failed"})
          /\ tasks[r] \in {"none", "working", "completed", "failed"}
    /\ \A r \in Req : req[r].phase = "holding" <=> holder = r
    /\ \A r \in Req : req[r].phase = "queued" <=> \E i \in DOMAIN queue : queue[i] = r
    /\ pending \subseteq Req /\ rows \subseteq Req
    /\ ring \in Seq(Req) /\ Len(ring) <= LogCap

(***************************************************************************)
(* What message/get tells of a task is true: it is working while its call  *)
(* is in progress and, for ever, when its client has left; otherwise it    *)
(* has the outcome of the call (A2a::handle, message/send).                *)
(***************************************************************************)
TaskTruth ==
    \A r \in Req :
        tasks[r] =
            IF req[r].work.kind # "send" \/ req[r].work.items # <<"chat">> THEN "none"
            ELSE IF req[r].phase \in InProgress \cup {"gone"} THEN "working"
            ELSE IF req[r].results[1] = "ok" THEN "completed" ELSE "failed"

(***************************************************************************)
(* A batch that was answered can be read, whole, until the process stops:  *)
(* one result for each of its items, in their order, counts that add up,   *)
(* and a status that agrees with the results, which no cancel of a batch   *)
(* that has all its results changes (Batch::submit, get, cancel).  What    *)
(* can be read or cancelled of a batch before its answer is left open: the *)
(* module's comment has a batch in progress, the code has none (see Store).*)
(***************************************************************************)
BatchWhole ==
    \A r \in Req :
        req[r].phase = "over" /\ req[r].work.kind = "batch" =>
            LET job == batches[r]
                items == req[r].work.items
                AllAre(result) == \A i \in DOMAIN items : job.results[i] = result
            IN  /\ job # NoBatch
                /\ Len(job.results) = Len(items)
                /\ \A i \in DOMAIN items : items[i] = "bad" => job.results[i] = "failed"
                /\ job.succeeded + job.failed = Len(items)
                /\ job.status = IF AllAre("ok") THEN "completed"
                                ELSE IF AllAre("failed") THEN "failed"
                                ELSE "completed_with_errors"

(***************************************************************************)
(* The request log: its ring holds the requests answered last, in the      *)
(* order of their answers; an entry is pending while its request is in     *)
(* progress and, until the process stops, when its client has left; and    *)
(* every answer but a chat's has its row (TraceLayer in build_router).     *)
(***************************************************************************)
LogExact ==
    /\ \E n \in 0 .. Len(answered) :
          /\ ring = SubSeq(answered, n + 1, Len(answered))
          /\ n > 0 => Len(ring) = LogCap
    /\ pending = {r \in Req : req[r].phase \in InProgress \cup {"gone"}}
    /\ \A r \in Req : req[r].phase # "lost" =>
          (r \in rows <=> req[r].phase = "over" /\ req[r].work.kind # "chat")

(***************************************************************************)
(* A long batch does not keep others out: while a request waits for the    *)
(* engine, no other request gets it twice (drop(combo) in Batch::submit).  *)
(***************************************************************************)
NoOvertakingTwice ==
    \A r, q \in Req : req[r].phase = "queued" => passed[r][q] <= 1

(***************************************************************************)
(* Every request that comes is answered, unless its client leaves or the   *)
(* process stops.                                                          *)
(***************************************************************************)
Ended(r) == req[r].phase \in {"over", "gone", "lost"}

EveryoneAnswered == \A r \in Req : req[r].phase \in InProgress ~> Ended(r)
=============================================================================
