-------------------------- MODULE FallbackPromise --------------------------
(***************************************************************************)
(* What the combo engine promises a client, whatever accounts, pools,      *)
(* scores, locks and sessions do (omniroute-core/src/combo.rs): a request  *)
(* names a chain of candidates; each is refused at most once; the client   *)
(* gets an answer from a candidate that has not refused, or an error, and  *)
(* an error only after enough refusals or an unusable answer.              *)
(***************************************************************************)
EXTENDS Naturals, FiniteSets

CONSTANTS
    Chat,        \* chat requests in progress
    Request,     \* what a chat can ask for
    NoRequest,
    Candidates,  \* the candidates of each request
    MaxAttempts  \* max_attempts of the engine

VARIABLES
    asked,    \* the request of each chat, if it has come
    refused,  \* the candidates that refused the chat
    unusable, \* those of them whose answer could not be used
    verdict   \* what the client got

vars == <<asked, refused, unusable, verdict>>

Verdict == {"pending", "answered", "failed", "left"}

Init ==
    /\ asked = [c \in Chat |-> NoRequest]
    /\ refused = [c \in Chat |-> {}]
    /\ unusable = [c \in Chat |-> {}]
    /\ verdict = [c \in Chat |-> "pending"]

Pending(c) == asked[c] # NoRequest /\ verdict[c] = "pending"

\* The refusals after which a request has failed.
Limit(r) ==
    IF Cardinality(Candidates[r]) < MaxAttempts
    THEN Cardinality(Candidates[r]) ELSE MaxAttempts

Ask(c, r) ==
    /\ asked[c] = NoRequest
    /\ asked' = [asked EXCEPT ![c] = r]
    /\ UNCHANGED <<refused, unusable, verdict>>

\* Candidate i refuses.  The request fails with its last refusal, goes on
\* otherwise, and may do either when the answer was unusable.
Refuse(c, i, bad) ==
    /\ Pending(c)
    /\ i \in Candidates[asked[c]] \ refused[c]
    /\ refused' = [refused EXCEPT ![c] = @ \cup {i}]
    /\ unusable' = [unusable EXCEPT ![c] = IF bad THEN @ \cup {i} ELSE @]
    /\ \/ /\ Cardinality(refused'[c]) = Limit(asked[c]) \/ bad
          /\ verdict' = [verdict EXCEPT ![c] = "failed"]
       \/ /\ Cardinality(refused'[c]) < Limit(asked[c])
          /\ UNCHANGED verdict
    /\ UNCHANGED asked

\* From a candidate, or from the cache before any candidate was tried.
Answer(c) ==
    /\ Pending(c)
    /\ Cardinality(refused[c]) < Limit(asked[c])
    /\ verdict' = [verdict EXCEPT ![c] = "answered"]
    /\ UNCHANGED <<asked, refused, unusable>>

\* Clients disconnect; a process that stops disconnects all of them.
Leave(C) ==
    /\ \A c \in C : Pending(c)
    /\ verdict' = [c \in Chat |-> IF c \in C THEN "left" ELSE verdict[c]]
    /\ UNCHANGED <<asked, refused, unusable>>

Next ==
    \/ \E c \in Chat, r \in Request : Ask(c, r)
    \/ \E c \in Chat : Answer(c)
    \/ \E c \in Chat, i \in UNION {Candidates[r] : r \in Request}, bad \in BOOLEAN :
          Refuse(c, i, bad)
    \/ \E C \in SUBSET Chat : Leave(C)

Spec == Init /\ [][Next]_vars

=============================================================================
