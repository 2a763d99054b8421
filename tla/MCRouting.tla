----------------------------- MODULE MCRouting -----------------------------
(***************************************************************************)
(* Instances of Routing for TLC.  A run chooses its connections, its       *)
(* environment keys, the admin endpoints in use and whether the credentials*)
(* are distinct (connection c1 can also lose its key) or shared.           *)
(***************************************************************************)
EXTENDS Routing

CONSTANTS c1, c2, k1, k2, e1

NoEnv == <<>>
OneEnv == <<e1>>

DistinctKeys == [c \in Conn |-> IF c = c1 THEN {k1, NoKey} ELSE {k2}]
SharedKey == [c \in Conn |-> {k1}]

\* c2 is preferred to c1.
ByPriority == [c \in Conn |-> IF c = c1 THEN 2 ELSE 1]

\* Admin requests are interchangeable; the properties are all invariants.
AdminSymmetry == Permutations(Admin)
=============================================================================
