------------------------------ MODULE Rotation ------------------------------
(***************************************************************************)
(* The round robin of one AccountPool (omniroute-core/src/account.rs), as  *)
(* chats drive it one after the other while an engine lives: pick an       *)
(* account, by rotation or by session affinity, and report its outcome.    *)
(* Cooldowns run out in between.  Account i of the pool has key i.         *)
(***************************************************************************)
EXTENDS AccountPool

CONSTANTS
    Accounts,   \* the number of accounts of the pool
    MaxErrors,  \* bound: the errors in a row an account is reported
    MaxTime     \* bound: the last instant of the clock

ASSUME RotationAssumption == /\ Accounts \in Nat \ {0}
                             /\ MaxErrors \in Nat
                             /\ MaxTime \in Nat

VARIABLES
    now,    \* the clock
    pool,   \* the AccountPool
    caller, \* the account in use, none: 0
    \* History, read by the properties only:
    passed, \* turns the rotation gave to others since the account is usable
            \* and no session has moved the rotation
    auths   \* the auth failures the account's last reports have in a row

vars == <<now, pool, caller, passed, auths>>

Account == 1 .. Accounts

Usable(s) == Available(pool.accounts[s], now)

-----------------------------------------------------------------------------
Init ==
    /\ now = 0
    /\ pool = [accounts |-> [s \in Account |-> NewAccount(s, 0, 0)], next_idx |-> 0]
    /\ caller = 0
    /\ passed = [s \in Account |-> 0]
    /\ auths = [s \in Account |-> 0]

Use(s) ==
    /\ caller = 0
    /\ pool' = Advance(pool, s)
    /\ caller' = s
    /\ UNCHANGED <<now, auths>>

\* `passed` need not count further than the number of accounts.
Rotate ==
    \E s \in NextKey(pool, now) :
        /\ Use(s)
        /\ passed' = [t \in Account |->
                        CASE t = s \/ ~ Usable(t) -> 0
                          [] t # s /\ Usable(t) /\ passed[t] < Accounts -> passed[t] + 1
                          [] OTHER -> passed[t]]

Prefer(k) ==
    \E s \in PreferKey(pool, k, now) :
        Use(s) /\ passed' = [t \in Account |-> 0]

Finish(o) ==
    /\ caller # 0
    /\ o # "Success" => pool.accounts[caller].errs < MaxErrors
    /\ pool' = Report(pool, caller, o, now)
    /\ auths' = [auths EXCEPT ![caller] = IF o = "AuthFailed" THEN @ + 1 ELSE 0]
    /\ passed' = [passed EXCEPT ![caller] =
                     IF Available(pool'.accounts[caller], now) THEN @ ELSE 0]
    /\ caller' = 0
    /\ UNCHANGED now

\* A stream, or a client that is gone: no outcome is reported.
FinishUnreported ==
    /\ caller # 0
    /\ caller' = 0
    /\ UNCHANGED <<now, pool, passed, auths>>

Tick ==
    /\ now < MaxTime
    /\ now' = now + 1
    /\ UNCHANGED <<pool, caller, passed, auths>>

Next ==
    \/ Rotate
    \/ \E k \in Account : Prefer(k)
    \/ \E o \in Outcome : Finish(o)
    \/ FinishUnreported
    \/ Tick

Spec == Init /\ [][Next]_vars

-----------------------------------------------------------------------------
TypeOK ==
    /\ now \in Nat
    /\ pool \in PoolOf(Account, {0})
    /\ Len(pool.accounts) = Accounts
    /\ pool.next_idx < Accounts
    /\ caller \in 0 .. Accounts
    /\ passed \in [Account -> Nat]
    /\ auths \in [Account -> Nat]

(***************************************************************************)
(* next_key finds an account whenever there is one: its n probes miss no   *)
(* usable account wherever the rotation stands, and the account it returns *)
(* is unique.                                                              *)
(***************************************************************************)
NoneMissed ==
    \/ \E s \in Account : NextKey(pool, now) = {s} /\ Usable(s)
    \/ NextKey(pool, now) = {} /\ \A s \in Account : ~ Usable(s)

(***************************************************************************)
(* Round robin: while an account stays usable and no session's preference  *)
(* moves the rotation, it gives at most n - 1 turns to others before it    *)
(* picks that account, wherever a preference left it and whatever becomes  *)
(* of the others ("Round-robin pool of accounts", account.rs).             *)
(***************************************************************************)
RoundRobin == \A s \in Account : passed[s] < Accounts

(***************************************************************************)
(* An account is disabled only at an auth failure, with the configured     *)
(* number of errors behind it: rate limits alone never disable one.        *)
(***************************************************************************)
DisabledByAuthFailure ==
    \A s \in Account : ~ pool.accounts[s].enabled =>
        auths[s] > 0 /\ pool.accounts[s].errs >= MaxAuthFailures

=============================================================================
