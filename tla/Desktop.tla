------------------------------ MODULE Desktop ------------------------------
(***************************************************************************)
(* The desktop shell (src-tauri/src/lib.rs), the sidecars it starts and    *)
(* stops, and the database file they migrate at their start                *)
(* (omniroute-db).                                                         *)
(*                                                                         *)
(* Each call of run_migrations to the database is a step of its own: no    *)
(* transaction is open, so that a process may stop between two of them or  *)
(* within a batch, and two processes may migrate one file at once.         *)
(***************************************************************************)
EXTENDS Naturals, Sequences

CONSTANTS
    MaxServers,  \* bound: sidecars that are spawned
    Call,        \* concurrent proxy_start commands
    Tries,       \* pings of one proxy_start, 25 in the code
    Older        \* how many steps the versions got to that made the file

ASSUME DesktopAssumption ==
    MaxServers \in Nat /\ Tries \in Nat \ {0} /\ Older \subseteq Nat

VARIABLES
    app,        \* "open" or "closed"
    autostart,  \* whether the task of setup has spawned its sidecar
    child,      \* ProxyState.child, NoChild for None
    call,       \* the pings each proxy_start has left
    spawned,    \* sidecars spawned so far: their numbers are 1 .. spawned
    origin,     \* who spawned each: "auto" or "start"
    phase,      \* where each process is
    pc,         \* the step of run_migrations each is at
    seen,       \* the columns found by the last table_info
    attached,   \* Database::open succeeded
    schema,     \* tables <<t, "">> and added columns <<t, c>> of the file
    \* History, read by the properties only:
    inherited,  \* sidecars spawned by earlier sessions of the app
    asked       \* the last command that was carried out

shell == <<app, autostart, child, call, spawned, origin, inherited, asked>>
opening == <<pc, seen, attached, schema>>
vars == <<shell, phase, opening>>

-----------------------------------------------------------------------------
Server == 1 .. MaxServers

NoChild == 0

Live == {"migrating", "binding", "serving"}

Served == \E s \in Server : phase[s] = "serving"

\* A batch of CREATE TABLE IF NOT EXISTS, PRAGMA table_info, ALTER TABLE ADD COLUMN.
Create(tables) == [op |-> "create", what |-> [i \in DOMAIN tables |-> <<tables[i], "">>]]

Look(t) == [op |-> "look", what |-> <<<<t, "">>>>]

Add(t, c) == [op |-> "add", what |-> <<<<t, c>>>>]

\* run_migrations
Steps ==
    <<Create(<<"_migrations", "providerConnections", "apiKeys", "settings", "combos">>),
      Look("providerConnections"),
      Add("providerConnections", "rate_limited_until"),
      Add("providerConnections", "backoff_level"),
      Create(<<"session_account_affinity">>), Create(<<"provider_stats">>),
      Create(<<"request_logs">>),
      Look("request_logs"),
      Add("request_logs", "prompt_tokens"), Add("request_logs", "completion_tokens"),
      Add("request_logs", "api_key_id"),
      Create(<<"pricing", "budgets">>),
      Create(<<"webhooks", "audit_logs", "synced_models", "quotas">>),
      Create(<<"cache_entries">>)>>

\* The names of step n, up to the one at m; what the steps before n are there for.
Names(n) == {Steps[n].what[i] : i \in DOMAIN Steps[n].what}

Named(n, m) == {Steps[n].what[i] : i \in {j \in DOMAIN Steps[n].what : j <= m}}

Established(n) == UNION {Names(i) : i \in {j \in 1 .. Len(Steps) : j < n /\ Steps[j].op # "look"}}

Complete == Established(Len(Steps) + 1)

\* A batch is cut off after some of its tables.
CutOff(p) ==
    IF phase[p] = "migrating" /\ pc[p] <= Len(Steps) /\ Steps[pc[p]].op = "create"
    THEN \E m \in {0} \cup DOMAIN Steps[pc[p]].what : schema' = schema \cup Named(pc[p], m)
    ELSE UNCHANGED schema

\* The process is over: killed, or by a panic.
End(p, how) ==
    /\ phase' = [phase EXCEPT ![p] = how]
    /\ attached' = [attached EXCEPT ![p] = FALSE]
    /\ pc' = [pc EXCEPT ![p] = 1] /\ seen' = [seen EXCEPT ![p] = {}]

-----------------------------------------------------------------------------
\* spawn_proxy, when the sidecar's file is there.
Spawn(s, by) ==
    /\ s = spawned + 1 /\ s <= MaxServers
    /\ spawned' = s
    /\ origin' = [origin EXCEPT ![s] = by]
    /\ phase' = [phase EXCEPT ![s] = "migrating"]

\* The task of setup: the handle of its sidecar is dropped.
AutoStart ==
    /\ app = "open" /\ autostart = "due"
    /\ autostart' = "done"
    /\ \/ Spawn(spawned + 1, "auto")
       \/ UNCHANGED <<spawned, origin, phase>>
    /\ UNCHANGED <<app, child, call, inherited, asked, opening>>

\* Whether proxy_start spawns: the lock of child is held from here to the end of it.
\* Mutant: the handle is not looked at.
MaySpawnAlways == TRUE

MaySpawn == child = NoChild

\* proxy_start up to its first ping
ProxyStart(c) ==
    /\ app = "open" /\ call[c] = 0
    /\ asked' = "start"
    /\ IF MaySpawn
       THEN /\ call' = [call EXCEPT ![c] = Tries]
            /\ \/ Spawn(spawned + 1, "start") /\ child' = spawned + 1
               \/ UNCHANGED <<spawned, origin, phase, child>>
       ELSE UNCHANGED <<call, spawned, origin, phase, child>>
    /\ UNCHANGED <<app, autostart, inherited, opening>>

\* One round of its loop: it answers "running" either way.
Ping(c) ==
    /\ call[c] > 0
    /\ call' = [call EXCEPT ![c] = IF Served THEN 0 ELSE @ - 1]
    /\ UNCHANGED <<app, autostart, child, spawned, origin, inherited, asked, phase, opening>>

\* proxy_stop
ProxyStop ==
    /\ app = "open"
    /\ asked' = "stop" /\ child' = NoChild
    /\ IF child # NoChild /\ phase[child] \in Live
       THEN End(child, "killed") /\ CutOff(child)
       ELSE UNCHANGED <<phase, opening>>
    /\ UNCHANGED <<app, autostart, call, spawned, origin, inherited>>

\* proxy_status (running)
Running == child # NoChild

\* The app is left.  Whether its sidecars go with it is up to the system, see Crash.
AppExit ==
    /\ app = "open"
    /\ app' = "closed" /\ autostart' = "off" /\ child' = NoChild
    /\ call' = [c \in Call |-> 0] /\ asked' = "none"
    /\ inherited' = spawned
    /\ UNCHANGED <<spawned, origin, phase, opening>>

\* run
AppOpen ==
    /\ app = "closed"
    /\ app' = "open" /\ autostart' = "due"
    /\ UNCHANGED <<child, call, spawned, origin, inherited, asked, phase, opening>>

-----------------------------------------------------------------------------
\* What start_server does after Database::open, whether it succeeded or not.
\* Mutants: it gives up without the database; it does not care for the port.
AfterOpenStrict(ok) == IF ok THEN "binding" ELSE "panicked"

AfterOpenShared(ok) == "serving"

AfterOpen(ok) == "binding"

Opened(p, ok) ==
    /\ phase' = [phase EXCEPT ![p] = AfterOpen(ok)]
    /\ attached' = [attached EXCEPT ![p] = ok]
    /\ pc' = [pc EXCEPT ![p] = 1] /\ seen' = [seen EXCEPT ![p] = {}]
    /\ UNCHANGED shell

\* The column is looked for in what table_info has told.
\* Mutant: any column added to the table stands for all of them.
LacksAny(p, n) == \A x \in seen[p] : x[2] = ""

Lacks(p, n) == ~ Names(n) \subseteq seen[p]

\* One statement of run_migrations, or one batch.
Migrate(p) ==
    /\ phase[p] = "migrating" /\ pc[p] <= Len(Steps)
    /\ pc' = [pc EXCEPT ![p] = @ + 1]
    /\ LET n == pc[p]
       IN  \/ /\ Steps[n].op = "create"
              /\ schema' = schema \cup Names(n) /\ UNCHANGED seen
           \/ /\ Steps[n].op = "look"
              /\ seen' = [seen EXCEPT ![p] = {x \in schema : \E t \in Names(n) : x[1] = t[1]}]
              /\ UNCHANGED schema
           \/ /\ Steps[n].op = "add" /\ ~ Lacks(p, n)
              /\ UNCHANGED <<schema, seen>>
           \/ /\ Steps[n].op = "add" /\ Lacks(p, n) /\ ~ Names(n) \subseteq schema
              /\ schema' = schema \cup Names(n) /\ UNCHANGED seen
    /\ UNCHANGED <<shell, phase, attached>>

\* Another process has added the column since: the statement is refused.
DuplicateColumn(p) ==
    /\ phase[p] = "migrating" /\ pc[p] <= Len(Steps)
    /\ Steps[pc[p]].op = "add" /\ Lacks(p, pc[p]) /\ Names(pc[p]) \subseteq schema
    /\ Opened(p, FALSE) /\ UNCHANGED schema

\* The file cannot be opened, read or written.
OpenFails(p) == phase[p] = "migrating" /\ Opened(p, FALSE) /\ CutOff(p)

OpenDone(p) ==
    /\ phase[p] = "migrating" /\ pc[p] > Len(Steps)
    /\ Opened(p, TRUE) /\ UNCHANGED schema

\* The rest of start_server: bind, or panic on its error.
Bind(s) ==
    /\ phase[s] = "binding"
    /\ IF Served THEN End(s, "panicked")
       ELSE phase' = [phase EXCEPT ![s] = "serving"] /\ UNCHANGED <<pc, seen, attached>>
    /\ UNCHANGED <<shell, schema>>

\* A sidecar is killed or panics, at any point: nobody is told.
Crash(s) ==
    /\ phase[s] \in Live
    /\ End(s, "killed") /\ CutOff(s)
    /\ UNCHANGED shell

Init ==
    /\ app = "closed" /\ autostart = "off" /\ child = NoChild
    /\ call = [c \in Call |-> 0]
    /\ spawned = 0 /\ origin = [s \in Server |-> "none"]
    /\ phase = [p \in Server |-> "absent"]
    /\ pc = [p \in Server |-> 1] /\ seen = [p \in Server |-> {}]
    /\ attached = [p \in Server |-> FALSE]
    /\ schema \in {Established(n + 1) : n \in Older}
    /\ inherited = 0 /\ asked = "none"

Open(p) == Migrate(p) \/ DuplicateColumn(p) \/ OpenFails(p) \/ OpenDone(p)

Next ==
    \/ AutoStart \/ ProxyStop \/ AppExit \/ AppOpen
    \/ \E c \in Call : ProxyStart(c) \/ Ping(c)
    \/ \E s \in Server : Open(s) \/ Bind(s) \/ Crash(s)

Spec == Init /\ [][Next]_vars

(***************************************************************************)
(* A process runs until it ends, and the loop of proxy_start sleeps no     *)
(* longer than 200 ms.                                                     *)
(***************************************************************************)
Fairness ==
    /\ \A c \in Call : WF_vars(Ping(c))
    /\ \A s \in Server : WF_vars(Open(s)) /\ WF_vars(Bind(s))

FairSpec == Spec /\ Fairness

-----------------------------------------------------------------------------
(***************************************************************************)
(* Types, and the port has one owner.                                      *)
(***************************************************************************)
TypeOK ==
    /\ app \in {"open", "closed"} /\ autostart \in {"due", "done", "off"}
    /\ spawned \in 0 .. MaxServers /\ inherited \in 0 .. spawned
    /\ child \in 0 .. spawned
    /\ call \in [Call -> 0 .. Tries]
    /\ origin \in [Server -> {"none", "auto", "start"}]
    /\ phase \in [Server -> Live \cup {"absent", "panicked", "killed"}]
    /\ \A s \in Server : phase[s] = "absent" <=> s > spawned
    /\ pc \in [Server -> 1 .. Len(Steps) + 1]
    /\ schema \subseteq Complete /\ seen \in [Server -> SUBSET Complete]
    /\ attached \in [Server -> BOOLEAN]
    /\ \A r, s \in Server : phase[r] = "serving" /\ phase[s] = "serving" => r = s

(***************************************************************************)
(* Whoever has the database finds every table and column that any          *)
(* statement of the program names, whichever version made the file,        *)
(* wherever earlier migrations were cut off, and whoever migrates beside   *)
(* it (run_migrations without a transaction).                              *)
(***************************************************************************)
AttachedComplete == \A p \in Server : attached[p] => Complete \subseteq schema

(***************************************************************************)
(* A live sidecar that proxy_start has spawned is the one whose handle is  *)
(* kept, however commands overlap: proxy_stop reaches it, and when         *)
(* proxy_status denies that a proxy runs, what may run still is the one of *)
(* the auto-start, or of an earlier session of the app.                    *)
(***************************************************************************)
OnlyChild ==
    \A s \in inherited + 1 .. spawned :
        phase[s] \in Live /\ origin[s] = "start" => child = s

(***************************************************************************)
(* A sidecar that is spawned brings the gateway up: whatever becomes of    *)
(* its database, it serves, or another one does, unless it is killed.  And *)
(* every proxy_start is answered.                                          *)
(***************************************************************************)
ComesUp ==
    /\ \A s \in Server : phase[s] \in Live ~> Served \/ phase[s] = "killed"
    /\ \A c \in Call : call[c] > 0 ~> call[c] = 0

\* "exposes IPC commands to start/stop/inspect it" (src-tauri/src/lib.rs, of
\* the sidecar): after a stop, none of this session is left.
StopStops ==
    asked = "stop" => \A s \in inherited + 1 .. spawned : phase[s] \notin Live
=============================================================================
