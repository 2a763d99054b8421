------------------------------- MODULE MCGate -------------------------------
(***************************************************************************)
(* Instances of Gate for TLC: one key in the database, and quotas of both  *)
(* units.  A window of 0 is the current instant, which may be an hour.     *)
(***************************************************************************)
EXTENDS Gate, TLC

CONSTANTS d1, td

OneToken == [k \in KeyId |-> td]

Quota(unit, limit, window, policy) ==
    [key |-> d1, unit |-> unit, limit |-> limit, window |-> window, policy |-> policy]

SomeQuotas == {Quota("requests", 1, 0, "hard"), Quota("tokens", 1, 1, "hard")}

OneQuota == {Quota("requests", 1, 0, "hard")}

\* Chats are interchangeable and so are admin requests; all properties of
\* these runs are invariants.
Symmetry == Permutations(Chat) \cup Permutations(Admin)
=============================================================================
