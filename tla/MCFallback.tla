----------------------------- MODULE MCFallback -----------------------------
(***************************************************************************)
(* An instance of Fallback for TLC.  Provider pa has two accounts and pb   *)
(* one, provider free needs no key, and pz has an account but no endpoint. *)
(***************************************************************************)
EXTENDS Fallback

CONSTANTS pa, pb, pz, free, ka1, ka2, kb, kz, plain, stream

Pools == [p \in Provider |-> CASE p = pa -> <<ka1, ka2>>
                               [] p = pb -> <<kb>>
                               [] p = pz -> <<kz>>
                               [] p = free -> <<>>]

\* Longer than max_attempts; the plain chain has two candidates of pa.
Chains == [r \in Request |-> IF r = plain THEN <<pa, pa, free>>
                                          ELSE <<pb, pz, NoProvider>>]

=============================================================================
