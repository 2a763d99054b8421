-------------------------------- MODULE Gate --------------------------------
(***************************************************************************)
(* What a chat passes before it reaches the combo engine: auth_middleware  *)
(* (omniroute-core/src/auth.rs), the lookup of its API key and quota_check *)
(* (proxy.rs), and what the engine then records for the key (telemetry.rs, *)
(* request_logs).  Meanwhile administrators change keys and quotas, and    *)
(* every change of a key rebuilds the list of gateway keys.                *)
(*                                                                         *)
(* request_logs is kept as what quotas read of it: per key and instant,    *)
(* the number of rows and their tokens.  Rows without a key count for no   *)
(* quota and are left out, and so is the unit usd, tokens times a price.   *)
(***************************************************************************)
EXTENDS Integers, FiniteSets, FiniteSetsExt

CONSTANTS
    KeyId, NoKeyId, \* ids of apiKeys rows; none
    Token, NoToken, \* bearer tokens; a request without one
    TokenOf,        \* the key column of each row, which is UNIQUE
    EnvTokens,      \* OMNIROUTE_API_KEYS
    Chat, NoChat,   \* concurrent chat requests; none
    Admin,          \* admin requests that can be in progress together
    QuotaBody,      \* the quotas an operator creates
    MaxAttempts,    \* max_attempts of the combo engine
    MaxTokens,      \* the most tokens one answer uses
    MaxQuotas,      \* bound: quotas there are together
    MaxRows,        \* bound: chats arrive while a key has fewer rows
    MaxTime         \* bound: the last instant of the clock

Unit == {"requests", "tokens"}

ASSUME GateAssumption ==
    /\ NoKeyId \notin KeyId
    /\ NoToken \notin Token
    /\ TokenOf \in [KeyId -> Token]
    /\ \A j, k \in KeyId : TokenOf[j] = TokenOf[k] => j = k
    /\ EnvTokens \subseteq Token
    /\ IsFiniteSet(Chat)
    /\ NoChat \notin Chat
    /\ QuotaBody \subseteq [key : KeyId, unit : Unit, limit : Nat,
                            window : Nat, policy : {"hard", "soft"}]
    /\ MaxAttempts \in Nat \ {0}
    /\ MaxTokens \in Nat
    /\ MaxTime \in Nat

VARIABLES
    now,    \* the clock
    rows,   \* the apiKeys table: what has become of each row
    keys,   \* GatewayKeys, the list auth_middleware reads
    quotas, \* the quotas table
    log,    \* request_logs
    chat,   \* how far each chat has got
    holder, \* the chat that has the engine's lock
    step,   \* how far each admin request has got
    list,   \* the list a reload has built and not yet swapped in
    \* History, read by the properties only:
    newer,  \* the admin requests that have read the rows after each reload
    raced,  \* the reloads that one with newer rows has overtaken
    stale   \* the list in use was swapped in by such a reload

adminVars == <<step, list, newer, raced, stale>>
vars == <<now, rows, keys, quotas, log, chat, holder, adminVars>>

-----------------------------------------------------------------------------
(***************************************************************************)
(* The list of gateway keys.                                               *)
(***************************************************************************)
Active == {k \in KeyId : rows[k] = "active"}

\* Mutant: is_active is not looked at.
FromDbInactive ==
    EnvTokens \cup {TokenOf[k] : k \in {j \in KeyId : rows[j] \in {"active", "inactive"}}}

\* GatewayKeys::from_db: the environment's tokens and the active rows'.
FromDb == EnvTokens \cup {TokenOf[k] : k \in Active}

\* auth_middleware: a valid token, or any request while the list is empty.
Admitted(t) == keys = {} \/ t \in keys

-----------------------------------------------------------------------------
(***************************************************************************)
(* Quotas.                                                                 *)
(***************************************************************************)
Instants(window) == {t \in 0 .. now : t >= now - window}

\* What the log has for the key in a window, one by one.
Consumed(k, unit, instants) == UNION {{t} \X (1 .. log[k][t][unit]) : t \in instants}

\* usage_for_key: how much that is in the window that ends now.
Usage(k, unit, window) == Cardinality(Consumed(k, unit, Instants(window)))

Used(q) == Usage(q.key, q.unit, q.window)

\* Mutant: the limit itself is still free to use.
OverLimit(q) == Used(q) > q.limit

\* quota_check: soft quotas are only logged.
Exceeded(q) == Used(q) >= q.limit

QuotaPasses(id) ==
    \A q \in quotas : q.key = id /\ q.policy = "hard" => ~ Exceeded(q)

-----------------------------------------------------------------------------
(***************************************************************************)
(* A chat.                                                                 *)
(***************************************************************************)
Idle == [at |-> "idle", token |-> NoToken, id |-> NoKeyId, stream |-> FALSE, tried |-> 0]

End(c) == chat' = [chat EXCEPT ![c] = Idle]

\* auth_middleware lets the request through to handle_chat.
Arrive(c) ==
    /\ chat[c].at = "idle"
    /\ \A k \in KeyId : Usage(k, "requests", now) < MaxRows
    /\ \E t \in Token \cup {NoToken}, s \in BOOLEAN :
          /\ Admitted(t)
          /\ chat' = [chat EXCEPT ![c] = [Idle EXCEPT !.at = "admitted",
                                                      !.token = t, !.stream = s]]
    /\ UNCHANGED <<now, rows, keys, quotas, log, holder, adminVars>>

\* key_id_for_token: the active row with the token, in the table as it is now.
Identify(c) ==
    /\ chat[c].at = "admitted"
    /\ \E id \in KeyId \cup {NoKeyId} :
          /\ IF \E k \in Active : TokenOf[k] = chat[c].token
             THEN id \in Active /\ TokenOf[id] = chat[c].token
             ELSE id = NoKeyId
          /\ chat' = [chat EXCEPT ![c].at = "identified", ![c].id = id, ![c].token = NoToken]
    /\ UNCHANGED <<now, rows, keys, quotas, log, holder, adminVars>>

\* quota_check, in another critical section; over a hard limit the answer
\* is 429 "quota_exceeded".
CheckQuota(c) ==
    /\ chat[c].at = "identified"
    /\ IF QuotaPasses(chat[c].id)
       THEN chat' = [chat EXCEPT ![c].at = "waiting"]
       ELSE End(c)
    /\ UNCHANGED <<now, rows, keys, quotas, log, holder, adminVars>>

TakeLock(c) ==
    /\ chat[c].at = "waiting" /\ holder = NoChat
    /\ holder' = c
    /\ chat' = [chat EXCEPT ![c].at = "running"]
    /\ UNCHANGED <<now, rows, keys, quotas, log, adminVars>>

\* Telemetry::record_chat.  execute_stream does not call it.
Record(c, tokens) ==
    log' = [k \in KeyId |->
              IF k = chat[c].id /\ ~ chat[c].stream
              THEN [log[k] EXCEPT ![now] = [requests |-> @.requests + 1,
                                            tokens |-> @.tokens + tokens]]
              ELSE log[k]]

\* Mutant: the chain is followed to its end.
MayGoOnAlways(c) == TRUE

\* The loop over the candidates stops at max_attempts.
MayGoOn(c) == chat[c].tried + 1 < MaxAttempts

GoOn(c) == MayGoOn(c) /\ chat' = [chat EXCEPT ![c].tried = @ + 1] /\ UNCHANGED holder

Release(c) == End(c) /\ holder' = NoChat

Answer(c) ==
    /\ holder = c
    /\ \E tokens \in 0 .. MaxTokens : Record(c, tokens)
    /\ Release(c)
    /\ UNCHANGED <<now, rows, keys, quotas, adminVars>>

\* The upstream fails: the row has no tokens, and the next candidate is
\* tried if there is one and the error allows it.
Fail(c) ==
    /\ holder = c
    /\ Record(c, 0)
    /\ GoOn(c) \/ Release(c)
    /\ UNCHANGED <<now, rows, keys, quotas, adminVars>>

\* No account for this candidate: nothing is recorded.
Skip(c) ==
    /\ holder = c
    /\ GoOn(c) \/ Release(c)
    /\ UNCHANGED <<now, rows, keys, quotas, log, adminVars>>

\* The client leaves and the handler's future is dropped wherever it waits;
\* or, for the chat that has the lock, the cache has the answer.
Leave(c) ==
    /\ chat[c].at \in {"admitted", "waiting", "running"}
    /\ End(c)
    /\ holder' = IF holder = c THEN NoChat ELSE holder
    /\ UNCHANGED <<now, rows, keys, quotas, log, adminVars>>

-----------------------------------------------------------------------------
(***************************************************************************)
(* Administration.  A change of a row is one statement under the database  *)
(* lock; reload_gateway_keys then reads all rows in another critical       *)
(* section and, after that, writes the list.                               *)
(***************************************************************************)
SetStep(a, st) == step' = [step EXCEPT ![a] = st]

\* The statement of admin request a: create_api_key, update_api_key and
\* delete_api_key change row k; of the other writes that reload, those of
\* connections and combos, nothing shows here but the reload.
Save(a, table) ==
    /\ step[a] = "idle"
    /\ rows' = table
    /\ SetStep(a, "saved")
    /\ UNCHANGED <<now, keys, quotas, log, chat, holder, list, newer, raced, stale>>

CreateKey(a, k) == rows[k] = "unused" /\ Save(a, [rows EXCEPT ![k] = "active"])

UpdateKey(a, k) ==
    /\ rows[k] \in {"active", "inactive"}
    /\ \E st \in {"active", "inactive"} : Save(a, [rows EXCEPT ![k] = st])

\* The id is a uuid and does not come back.
DeleteKey(a, k) ==
    rows[k] \in {"active", "inactive"} /\ Save(a, [rows EXCEPT ![k] = "deleted"])

OtherWrite(a) == Save(a, rows)

ReloadRead(a) ==
    /\ step[a] = "saved"
    /\ list' = [list EXCEPT ![a] = FromDb]
    /\ newer' = [b \in Admin |-> IF b = a THEN {}
                                 ELSE IF step[b] = "loaded" THEN newer[b] \cup {a}
                                 ELSE newer[b]]
    /\ raced' = raced \ {a}
    /\ SetStep(a, "loaded")
    /\ UNCHANGED <<now, rows, keys, quotas, log, chat, holder, stale>>

ReloadSwap(a) ==
    /\ step[a] = "loaded"
    /\ keys' = list[a]
    /\ stale' = (a \in raced)
    /\ raced' = (raced \cup {b \in Admin : a \in newer[b]}) \ {a}
    /\ list' = [list EXCEPT ![a] = {}]
    /\ newer' = [newer EXCEPT ![a] = {}]
    /\ SetStep(a, "idle")
    /\ UNCHANGED <<now, rows, quotas, log, chat, holder>>

\* The most one chat adds to the usage of its key.
PerChat(unit) == IF unit = "requests" THEN MaxAttempts ELSE MaxTokens

\* What the chats that have passed quota_check may still add for key k.
Underway(k, unit) ==
    PerChat(unit) * Cardinality({c \in Chat : /\ chat[c].at \in {"waiting", "running"}
                                             /\ chat[c].id = k})

\* POST /admin/quotas.  `base` is history: the usage that is there already
\* or that no check against this quota can keep off any more.
CreateQuota ==
    /\ Cardinality(quotas) < MaxQuotas
    /\ \E q \in QuotaBody :
          quotas' = quotas \cup {[key |-> q.key, unit |-> q.unit, limit |-> q.limit,
                                  window |-> q.window, policy |-> q.policy,
                                  base |-> Used(q) + Underway(q.key, q.unit)]}
    /\ UNCHANGED <<now, rows, keys, log, chat, holder, adminVars>>

DeleteQuota ==
    /\ \E q \in quotas : quotas' = quotas \ {q}
    /\ UNCHANGED <<now, rows, keys, log, chat, holder, adminVars>>

\* The process stops at any point; start_server loads the list anew.
Restart ==
    /\ keys' = FromDb
    /\ chat' = [c \in Chat |-> Idle]
    /\ holder' = NoChat
    /\ step' = [a \in Admin |-> "idle"]
    /\ list' = [a \in Admin |-> {}]
    /\ newer' = [a \in Admin |-> {}]
    /\ raced' = {}
    /\ stale' = FALSE
    /\ UNCHANGED <<now, rows, quotas, log>>

Tick ==
    /\ now < MaxTime
    /\ now' = now + 1
    /\ UNCHANGED <<rows, keys, quotas, log, chat, holder, adminVars>>

\* A database with any keys, no quotas and no requests yet.
Init ==
    /\ now = 0
    /\ rows \in [KeyId -> {"unused", "active", "inactive"}]
    /\ keys = FromDb
    /\ quotas = {}
    /\ log = [k \in KeyId |-> [t \in 0 .. MaxTime |-> [requests |-> 0, tokens |-> 0]]]
    /\ chat = [c \in Chat |-> Idle]
    /\ holder = NoChat
    /\ step = [a \in Admin |-> "idle"]
    /\ list = [a \in Admin |-> {}]
    /\ newer = [a \in Admin |-> {}]
    /\ raced = {}
    /\ stale = FALSE

ChatStep(c) ==
    \/ Arrive(c) \/ Identify(c) \/ CheckQuota(c) \/ TakeLock(c)
    \/ Answer(c) \/ Fail(c) \/ Skip(c) \/ Leave(c)

AdminStep(a) ==
    \/ \E k \in KeyId : CreateKey(a, k) \/ UpdateKey(a, k) \/ DeleteKey(a, k)
    \/ OtherWrite(a) \/ ReloadRead(a) \/ ReloadSwap(a)

Next ==
    \/ \E c \in Chat : ChatStep(c)
    \/ \E a \in Admin : AdminStep(a)
    \/ CreateQuota \/ DeleteQuota
    \/ Restart \/ Tick

Spec == Init /\ [][Next]_vars

-----------------------------------------------------------------------------
TypeOK ==
    /\ now \in 0 .. MaxTime
    /\ rows \in [KeyId -> {"unused", "active", "inactive", "deleted"}]
    /\ keys \in SUBSET Token
    /\ quotas \subseteq [key : KeyId, unit : Unit, limit : Nat, window : Nat,
                         policy : {"hard", "soft"}, base : Nat]
    /\ log \in [KeyId -> [0 .. MaxTime -> [Unit -> Nat]]]
    /\ chat \in [Chat -> [at : {"idle", "admitted", "identified", "waiting", "running"},
                          token : Token \cup {NoToken}, id : KeyId \cup {NoKeyId},
                          stream : BOOLEAN, tried : 0 .. MaxAttempts - 1]]
    /\ holder \in Chat \cup {NoChat}
    /\ step \in [Admin -> {"idle", "saved", "loaded"}]
    /\ list \in [Admin -> SUBSET Token]
    /\ newer \in [Admin -> SUBSET Admin]
    /\ raced \in SUBSET Admin
    /\ stale \in BOOLEAN

LiveTokens == EnvTokens \cup {TokenOf[k] : k \in Active}

NoReload == \A a \in Admin : step[a] = "idle"

(***************************************************************************)
(* Changes of keys apply live ("so admin changes apply live", auth.rs):    *)
(* when no admin request is in progress, the list has the environment's    *)
(* tokens and those of the active rows, unless the list was swapped in by  *)
(* a reload that another one, with newer rows, had overtaken between its   *)
(* read and its swap.  There is no other way for the list to be wrong.     *)
(***************************************************************************)
KeysLiveUnlessStale == NoReload /\ ~ stale => keys = LiveTokens

(***************************************************************************)
(* How far usage can pass a hard limit.  quota_check does not reserve      *)
(* anything and each chat records its rows later, so all chats that are in *)
(* progress together can pass the check on the last free unit.  Nothing    *)
(* else adds to the overshoot: usage is what it was to be when the quota   *)
(* was created, or below the limit plus at most one chat's worth for each. *)
(***************************************************************************)
OvershootBounded ==
    \A q \in quotas : q.policy = "hard" =>
        Used(q) <= Max({q.base, q.limit - 1 + PerChat(q.unit) * Cardinality(Chat)})

=============================================================================
