---------------------------- MODULE AccountPool ----------------------------
(***************************************************************************)
(* The rotation pool of one provider (omniroute-core/src/account.rs): how  *)
(* an account is picked and how an upstream outcome changes its health.    *)
(* The operators are pure: a pool goes in, a pool or a slot comes out.     *)
(* Routing, Rotation and Fallback run them.                                *)
(*                                                                         *)
(* The vector `accounts` is a sequence, so the Rust index i is slot i + 1. *)
(* `next_idx` keeps its Rust value.  An instant is a natural number;       *)
(* cooldown_until = None is cool = 0, which every instant has passed.      *)
(***************************************************************************)
EXTENDS Naturals, Sequences

CONSTANTS Cooldown,        \* cooldown_secs, in clock ticks
          MaxAuthFailures  \* max_consecutive_auth_failures

ASSUME PoolAssumption == /\ Cooldown \in Nat \ {0}
                         /\ MaxAuthFailures \in Nat \ {0}

Outcome == {"Success", "RateLimited", "AuthFailed"}

\* The account records over credentials K that belong to connections C.
AccountOf(K, C) ==
    [key : K, conn : C, enabled : BOOLEAN, cool : Nat, errs : Nat]

PoolOf(K, C) == [accounts : Seq(AccountOf(K, C)), next_idx : Nat]

\* Account::new / with_connection, and add_connection_cooled when t > 0.
NewAccount(k, c, t) ==
    [key |-> k, conn |-> c, enabled |-> TRUE, cool |-> t, errs |-> 0]

Available(acc, now) == acc.enabled /\ now >= acc.cool

Slots(p) == DOMAIN p.accounts

\* The slot the rotation looks at on its (i+1)-th probe.
Turn(p, i) == ((p.next_idx + i) % Len(p.accounts)) + 1

\* Mutant: the loop makes one probe too few.
NextKeyOneShort(p, now) ==
    {s \in Slots(p) :
        \E i \in 0 .. Len(p.accounts) - 2 :
            /\ s = Turn(p, i)
            /\ Available(p.accounts[s], now)
            /\ \A j \in 0 .. i - 1 : ~ Available(p.accounts[Turn(p, j)], now)}

(***************************************************************************)
(* AccountPool::next_key.  The slot it returns, as a set: empty when no    *)
(* account is available.  The loop makes at most n probes, starting at     *)
(* next_idx, and stops at the first available account.                     *)
(***************************************************************************)
NextKey(p, now) ==
    {s \in Slots(p) :
        \E i \in 0 .. Len(p.accounts) - 1 :
            /\ s = Turn(p, i)
            /\ Available(p.accounts[s], now)
            /\ \A j \in 0 .. i - 1 : ~ Available(p.accounts[Turn(p, j)], now)}

\* AccountPool::prefer_key: the first available account that holds key k.
PreferKey(p, k, now) ==
    LET Usable(s) == p.accounts[s].key = k /\ Available(p.accounts[s], now)
    IN  {s \in Slots(p) : Usable(s) /\ \A r \in 1 .. s - 1 : ~ Usable(r)}

\* Mutants: the index is not wrapped; it is not moved.
AdvanceUnwrapped(p, s) == [p EXCEPT !.next_idx = s]
AdvanceNot(p, s) == p

\* Both leave next_idx just past the slot they return.
Advance(p, s) == [p EXCEPT !.next_idx = s % Len(p.accounts)]

\* RoutingEngine::route_prefer: the preferred account, else the rotation.
RoutePrefer(p, k, now) ==
    IF PreferKey(p, k, now) # {} THEN PreferKey(p, k, now) ELSE NextKey(p, now)

AllCoolingDown(p, now) ==
    /\ p.accounts # <<>>
    /\ \A s \in Slots(p) : ~ Available(p.accounts[s], now)

\* The first account with key k: the only one report and update_health touch.
FirstWith(p, k) ==
    {s \in Slots(p) : /\ p.accounts[s].key = k
                      /\ \A r \in 1 .. s - 1 : p.accounts[r].key # k}

\* Mutant: a rate limit can disable the account, too.
AfterAnyError(acc, o, now) ==
    IF o = "Success" THEN [acc EXCEPT !.errs = 0, !.cool = 0]
    ELSE [acc EXCEPT !.errs = @ + 1,
                     !.cool = IF o = "RateLimited" THEN now + Cooldown ELSE @,
                     !.enabled = @ /\ acc.errs + 1 < MaxAuthFailures]

AfterOutcome(acc, o, now) ==
    CASE o = "Success" ->
            [acc EXCEPT !.errs = 0, !.cool = 0]
      [] o = "RateLimited" ->
            [acc EXCEPT !.errs = @ + 1, !.cool = now + Cooldown]
      [] o = "AuthFailed" ->
            [acc EXCEPT !.errs = @ + 1,
                        !.enabled = @ /\ acc.errs + 1 < MaxAuthFailures]

Report(p, k, o, now) ==
    [p EXCEPT !.accounts =
        [s \in Slots(p) |-> IF s \in FirstWith(p, k)
                            THEN AfterOutcome(p.accounts[s], o, now)
                            ELSE p.accounts[s]]]

=============================================================================
