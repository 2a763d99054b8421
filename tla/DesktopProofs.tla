--------------------------- MODULE DesktopProofs ----------------------------
(***************************************************************************)
(* Proofs about Desktop, for any number of sidecars, of proxy_start        *)
(* commands and of pings, and for a file that any step of run_migrations   *)
(* may have been the last to touch.                                        *)
(***************************************************************************)
EXTENDS Desktop, TLAPS

-----------------------------------------------------------------------------
(***************************************************************************)
(* The steps of run_migrations.                                            *)
(***************************************************************************)
LEMMA StepsCount == Len(Steps) \in Nat
BY DEF Steps

LEMMA NothingYet == Established(1) = {}
BY StepsCount DEF Established

LEMMA EstablishedBelow ==
    ASSUME NEW n \in Nat
    PROVE  Established(n) \subseteq Complete
BY StepsCount DEF Established, Complete

LEMMA EstablishedNext ==
    ASSUME NEW n \in 1 .. Len(Steps)
    PROVE  Established(n + 1) \subseteq
              Established(n) \cup (IF Steps[n].op = "look" THEN {} ELSE Names(n))
BY StepsCount DEF Established

LEMMA NamesComplete ==
    ASSUME NEW n \in 1 .. Len(Steps), Steps[n].op # "look"
    PROVE  Names(n) \subseteq Complete
BY StepsCount DEF Established, Complete

LEMMA NamedSome == ASSUME NEW n, NEW m PROVE Named(n, m) \subseteq Names(n)
BY DEF Named, Names

-----------------------------------------------------------------------------
(***************************************************************************)
(* Who migrates has established what its steps so far are there for, and   *)
(* has seen only columns that are there.                                   *)
(***************************************************************************)
Progress ==
    \A s \in Server :
        /\ seen[s] \subseteq schema
        /\ Established(pc[s]) \subseteq schema
        /\ phase[s] # "migrating" => pc[s] = 1 /\ seen[s] = {}
        /\ attached[s] => Complete \subseteq schema


(***************************************************************************)
(* Type correctness.                                                       *)
(***************************************************************************)
LEMMA InitTyped == Init => TypeOK
<1> SUFFICES ASSUME Init PROVE TypeOK
  OBVIOUS
<1>1. PICK n \in Older : schema = Established(n + 1)
  BY DEF Init
<1>2. schema \subseteq Complete
  BY <1>1, EstablishedBelow, DesktopAssumption
<1> QED
  BY <1>2, StepsCount, DesktopAssumption DEF Init, TypeOK, NoChild, Server

\* A batch that is cut off has left only names of the schema.
LEMMA CutOffTyped ==
    ASSUME NEW s \in Server, TypeOK, CutOff(s)
    PROVE  schema' \subseteq Complete /\ schema \subseteq schema'
<1>1. CASE phase[s] = "migrating" /\ pc[s] <= Len(Steps) /\ Steps[pc[s]].op = "create"
  <2>1. PICK m : schema' = schema \cup Named(pc[s], m)
    BY <1>1 DEF CutOff
  <2>2. pc[s] \in 1 .. Len(Steps) /\ Steps[pc[s]].op # "look"
    BY <1>1, StepsCount DEF TypeOK
  <2>3. Names(pc[s]) \subseteq Complete
    BY <2>2, NamesComplete
  <2> QED
    BY <2>1, <2>3, NamedSome DEF TypeOK
<1>2. CASE ~ (phase[s] = "migrating" /\ pc[s] <= Len(Steps) /\ Steps[pc[s]].op = "create")
  BY <1>2 DEF CutOff, TypeOK
<1> QED
  BY <1>1, <1>2

\* What Migrate does to the schema, to seen and to pc.
LEMMA MigrateTyped ==
    ASSUME NEW s \in Server, TypeOK, Migrate(s)
    PROVE  /\ schema' \subseteq Complete /\ schema \subseteq schema'
           /\ seen' \in [Server -> SUBSET Complete]
           /\ pc' \in [Server -> 1 .. Len(Steps) + 1]
<1>1. pc[s] \in 1 .. Len(Steps) /\ pc' = [pc EXCEPT ![s] = pc[s] + 1]
  BY StepsCount DEF TypeOK, Migrate
<1>2. Steps[pc[s]].op # "look" => Names(pc[s]) \subseteq Complete
  BY <1>1, NamesComplete
<1>3. pc' \in [Server -> 1 .. Len(Steps) + 1]
  BY <1>1, StepsCount DEF TypeOK
<1>4. CASE Steps[pc[s]].op = "look"
  BY <1>3, <1>4 DEF TypeOK, Migrate
<1>5. CASE Steps[pc[s]].op # "look"
  BY <1>2, <1>3, <1>5 DEF TypeOK, Migrate
<1> QED
  BY <1>4, <1>5

\* What the end of a live sidecar does to the variables.
LEMMA EndTyped ==
    ASSUME TypeOK, NEW s \in Server, phase[s] \in Live,
           NEW how \in {"panicked", "killed"}, End(s, how)
    PROVE  /\ phase' \in [Server -> Live \cup {"absent", "panicked", "killed"}]
           /\ \A r \in Server : phase'[r] = "absent" <=> r > spawned
           /\ \A q, r \in Server : phase'[q] = "serving" /\ phase'[r] = "serving" => q = r
           /\ pc' \in [Server -> 1 .. Len(Steps) + 1]
           /\ seen' \in [Server -> SUBSET Complete]
           /\ attached' \in [Server -> BOOLEAN]
<1>1. phase' = [phase EXCEPT ![s] = how]
  BY DEF End
<1>2. phase' \in [Server -> Live \cup {"absent", "panicked", "killed"}]
  BY <1>1 DEF TypeOK
<1>3. ASSUME NEW r \in Server PROVE phase'[r] = "absent" <=> r > spawned
  BY <1>1 DEF TypeOK, Live
<1>4. ASSUME NEW q \in Server, NEW r \in Server, phase'[q] = "serving", phase'[r] = "serving"
      PROVE  q = r
  BY <1>1, <1>4 DEF TypeOK
<1>5. pc' \in [Server -> 1 .. Len(Steps) + 1]
  BY StepsCount DEF End, TypeOK
<1>6. seen' \in [Server -> SUBSET Complete] /\ attached' \in [Server -> BOOLEAN]
  BY DEF End, TypeOK
<1> QED
  BY <1>2, <1>3, <1>4, <1>5, <1>6

\* What a spawn does to the numbers and phases of the sidecars.
Numbered ==
    /\ spawned \in 0 .. MaxServers /\ inherited \in 0 .. spawned
    /\ origin \in [Server -> {"none", "auto", "start"}]
    /\ phase \in [Server -> Live \cup {"absent", "panicked", "killed"}]
    /\ \A s \in Server : phase[s] = "absent" <=> s > spawned
    /\ \A r, s \in Server : phase[r] = "serving" /\ phase[s] = "serving" => r = s

LEMMA SpawnTyped ==
    ASSUME TypeOK, NEW by \in {"auto", "start"}, Spawn(spawned + 1, by), inherited' = inherited
    PROVE  Numbered' /\ spawned' = spawned + 1
<1>1. /\ spawned \in Nat /\ spawned + 1 \in Server
      /\ spawned' = spawned + 1 /\ spawned' \in 0 .. MaxServers
  BY DesktopAssumption DEF Spawn, TypeOK, Server
<1>2. /\ phase' = [phase EXCEPT ![spawned + 1] = "migrating"]
      /\ origin' = [origin EXCEPT ![spawned + 1] = by]
  BY DEF Spawn
<1>3. origin' \in [Server -> {"none", "auto", "start"}] /\ inherited' \in 0 .. spawned'
  BY <1>1, <1>2 DEF TypeOK
<1>4. phase' \in [Server -> Live \cup {"absent", "panicked", "killed"}]
  BY <1>1, <1>2 DEF TypeOK, Live
<1>5. ASSUME NEW s \in Server PROVE phase'[s] = "absent" <=> s > spawned'
  BY <1>1, <1>2 DEF TypeOK, Server
<1>6. ASSUME NEW r \in Server, NEW s \in Server, phase'[r] = "serving", phase'[s] = "serving"
      PROVE  r = s
  BY <1>1, <1>2, <1>6 DEF TypeOK
<1> QED
  BY <1>1, <1>3, <1>4, <1>5, <1>6 DEF Numbered

LEMMA NextTyped == TypeOK /\ [Next]_vars => TypeOK'
<1> SUFFICES ASSUME TypeOK, [Next]_vars PROVE TypeOK'
  OBVIOUS
<1>1. CASE AutoStart
  <2>1. CASE Spawn(spawned + 1, "auto")
    BY <1>1, <2>1, SpawnTyped, DesktopAssumption DEF AutoStart, Numbered, TypeOK, opening
  <2>2. CASE UNCHANGED <<spawned, origin, phase>>
    BY <1>1, <2>2 DEF AutoStart, TypeOK, opening
  <2> QED
    BY <1>1, <2>1, <2>2 DEF AutoStart
<1>2. CASE ProxyStop
  <2>1. CASE child # NoChild /\ phase[child] \in Live
    <3>1. child \in Server
      BY <2>1, DesktopAssumption DEF TypeOK, Server, NoChild
    <3>2. End(child, "killed") /\ CutOff(child)
      BY <1>2, <2>1 DEF ProxyStop
    <3>3. schema' \subseteq Complete
      BY <3>1, <3>2, CutOffTyped
    <3> QED
      BY <1>2, <2>1, <3>1, <3>2, <3>3, EndTyped DEF ProxyStop, TypeOK, NoChild
  <2>2. CASE ~ (child # NoChild /\ phase[child] \in Live)
    <3>1. child' \in 0 .. spawned
      BY <1>2, DesktopAssumption DEF ProxyStop, TypeOK, NoChild
    <3>2. UNCHANGED <<phase, opening, app, autostart, call, spawned, origin, inherited>>
      BY <1>2, <2>2 DEF ProxyStop
    <3> QED
      BY <3>1, <3>2 DEF TypeOK, opening
  <2> QED
    BY <2>1, <2>2
<1>3. CASE AppExit
  BY <1>3, DesktopAssumption DEF AppExit, TypeOK, opening, NoChild
<1>4. CASE AppOpen
  BY <1>4 DEF AppOpen, TypeOK, opening
<1>5. ASSUME NEW c \in Call, ProxyStart(c) PROVE TypeOK'
  <2>1. call' \in [Call -> 0 .. Tries]
    <3>1. call' = call \/ call' = [call EXCEPT ![c] = Tries]
      BY <1>5 DEF ProxyStart
    <3>2. Tries \in 0 .. Tries
      BY DesktopAssumption
    <3> QED
      BY <3>1, <3>2 DEF TypeOK
  <2>2. CASE MaySpawn /\ Spawn(spawned + 1, "start") /\ child' = spawned + 1
    BY <1>5, <2>1, <2>2, SpawnTyped, DesktopAssumption DEF ProxyStart, Numbered, TypeOK, opening
  <2>3. CASE UNCHANGED <<spawned, origin, phase, child>>
    BY <1>5, <2>1, <2>3 DEF ProxyStart, TypeOK, opening
  <2> QED
    BY <1>5, <2>2, <2>3 DEF ProxyStart
<1>6. ASSUME NEW c \in Call, Ping(c) PROVE TypeOK'
  BY <1>6, DesktopAssumption DEF Ping, TypeOK, opening
<1>7. ASSUME NEW s \in Server, Migrate(s) PROVE TypeOK'
  BY <1>7, MigrateTyped DEF Migrate, TypeOK, shell
<1>8. ASSUME NEW s \in Server, NEW ok \in BOOLEAN, phase[s] = "migrating", Opened(s, ok),
             schema' \subseteq Complete
      PROVE  TypeOK'
  BY <1>8, StepsCount DEF Opened, AfterOpen, TypeOK, Live, shell
<1>9. ASSUME NEW s \in Server, DuplicateColumn(s) PROVE TypeOK'
  <2>1. phase[s] = "migrating" /\ Opened(s, FALSE) /\ schema' = schema
    BY <1>9 DEF DuplicateColumn
  <2> QED
    BY <1>8, <2>1 DEF TypeOK
<1>10. ASSUME NEW s \in Server, OpenFails(s) PROVE TypeOK'
  BY <1>8, <1>10, CutOffTyped DEF OpenFails
<1>11. ASSUME NEW s \in Server, OpenDone(s) PROVE TypeOK'
  <2>1. phase[s] = "migrating" /\ Opened(s, TRUE) /\ schema' = schema
    BY <1>11 DEF OpenDone
  <2> QED
    BY <1>8, <2>1 DEF TypeOK
<1>12. ASSUME NEW s \in Server, Bind(s) PROVE TypeOK'
  <2>1. CASE Served
    <3>1. End(s, "panicked") /\ phase[s] \in Live /\ UNCHANGED <<shell, schema>>
      BY <1>12, <2>1 DEF Bind, Live
    <3> QED
      BY <3>1, EndTyped DEF TypeOK, shell
  <2>2. CASE ~ Served
    BY <1>12, <2>2 DEF Bind, Served, TypeOK, Live, shell
  <2> QED
    BY <2>1, <2>2
<1>13. ASSUME NEW s \in Server, Crash(s) PROVE TypeOK'
  <2>1. schema' \subseteq Complete
    BY <1>13, CutOffTyped DEF Crash
  <2> QED
    BY <1>13, <2>1, EndTyped DEF Crash, TypeOK, shell
<1>14. CASE UNCHANGED vars
  BY <1>14 DEF vars, shell, opening, TypeOK
<1> QED
  BY <1>1, <1>2, <1>3, <1>4, <1>5, <1>6, <1>7, <1>9, <1>10, <1>11, <1>12, <1>13, <1>14
  DEF Next, Open

\* Every variable keeps its type, the numbers of the sidecars are those that
\* were spawned, and never do two of them own the port.
THEOREM TypeCorrect == Spec => []TypeOK
BY InitTyped, NextTyped, PTL DEF Spec

-----------------------------------------------------------------------------
(***************************************************************************)
(* The database.                                                           *)
(***************************************************************************)
LEMMA InitProgress == Init => Progress
<1> SUFFICES ASSUME Init, NEW s \in Server
             PROVE  /\ seen[s] \subseteq schema
                    /\ Established(pc[s]) \subseteq schema
                    /\ phase[s] # "migrating" => pc[s] = 1 /\ seen[s] = {}
                    /\ attached[s] => Complete \subseteq schema
  BY DEF Progress
<1> QED
  BY NothingYet DEF Init

\* A step that leaves the others alone, and s at rest, keeps Progress.
LEMMA ProgressAtRest ==
    ASSUME TypeOK, Progress, NEW s \in Server, schema \subseteq schema',
           NEW to, to # "migrating", NEW a \in BOOLEAN,
           a => Complete \subseteq schema',
           phase' = [phase EXCEPT ![s] = to],
           attached' = [attached EXCEPT ![s] = a],
           pc' = [pc EXCEPT ![s] = 1], seen' = [seen EXCEPT ![s] = {}]
    PROVE  Progress'
<1> SUFFICES ASSUME NEW r \in Server
             PROVE  /\ seen'[r] \subseteq schema'
                    /\ Established(pc'[r]) \subseteq schema'
                    /\ phase'[r] # "migrating" => pc'[r] = 1 /\ seen'[r] = {}
                    /\ attached'[r] => Complete \subseteq schema'
  BY DEF Progress
<1>1. CASE r = s
  BY <1>1, NothingYet DEF TypeOK
<1>2. CASE r # s
  <2>1. /\ phase'[r] = phase[r] /\ attached'[r] = attached[r]
        /\ pc'[r] = pc[r] /\ seen'[r] = seen[r]
    BY <1>2 DEF TypeOK
  <2> QED
    BY <2>1 DEF Progress
<1> QED
  BY <1>1, <1>2

\* A step that changes no process, but perhaps starts one.
LEMMA ProgressOfOthers ==
    ASSUME TypeOK, Progress, UNCHANGED opening,
           \/ UNCHANGED phase
           \/ \E s \in Server : phase' = [phase EXCEPT ![s] = "migrating"]
    PROVE  Progress'
<1> SUFFICES ASSUME NEW r \in Server
             PROVE  phase'[r] # "migrating" => phase[r] # "migrating"
  BY DEF Progress, opening
<1> QED
  BY DEF TypeOK

LEMMA MigrateProgress ==
    ASSUME TypeOK, Progress, NEW s \in Server, Migrate(s)
    PROVE  Progress'
<1>1. /\ pc[s] \in 1 .. Len(Steps) /\ pc' = [pc EXCEPT ![s] = pc[s] + 1]
      /\ phase[s] = "migrating" /\ UNCHANGED <<phase, attached>>
  BY StepsCount DEF TypeOK, Migrate
<1>2. schema \subseteq schema'
  BY MigrateTyped
<1>3. Established(pc[s] + 1) \subseteq
          Established(pc[s]) \cup (IF Steps[pc[s]].op = "look" THEN {} ELSE Names(pc[s]))
  BY <1>1, EstablishedNext
<1>4. Steps[pc[s]].op # "look" => Names(pc[s]) \subseteq schema'
  BY DEF Migrate, Lacks, Progress
<1>5. Established(pc'[s]) \subseteq schema'
  <2>1. pc'[s] = pc[s] + 1
    BY <1>1 DEF TypeOK
  <2>2. Established(pc[s]) \subseteq schema'
    BY <1>2 DEF Progress
  <2> QED
    BY <1>3, <1>4, <2>1, <2>2
<1>6. seen'[s] \subseteq schema'
  BY <1>2 DEF Migrate, Progress, TypeOK
<1>7. ASSUME NEW r \in Server, r # s PROVE seen'[r] = seen[r] /\ pc'[r] = pc[r]
  BY <1>1, <1>7 DEF Migrate, TypeOK
<1>8. ASSUME NEW r \in Server
      PROVE  /\ seen'[r] \subseteq schema'
             /\ Established(pc'[r]) \subseteq schema'
             /\ phase'[r] # "migrating" => pc'[r] = 1 /\ seen'[r] = {}
             /\ attached'[r] => Complete \subseteq schema'
  <2>1. attached'[r] => Complete \subseteq schema'
    BY <1>1, <1>2 DEF Progress
  <2>2. CASE r = s
    BY <1>1, <1>5, <1>6, <2>1, <2>2
  <2>3. CASE r # s
    BY <1>1, <1>2, <1>7, <2>1, <2>3 DEF Progress
  <2> QED
    BY <2>2, <2>3
<1> QED
  BY <1>8 DEF Progress

LEMMA NextProgress == TypeOK /\ Progress /\ [Next]_vars => Progress'
<1> SUFFICES ASSUME TypeOK, Progress, [Next]_vars PROVE Progress'
  OBVIOUS
<1>1. ASSUME NEW by, Spawn(spawned + 1, by), UNCHANGED opening PROVE Progress'
  <2>1. spawned + 1 \in Server /\ phase' = [phase EXCEPT ![spawned + 1] = "migrating"]
    BY <1>1, DesktopAssumption DEF Spawn, TypeOK, Server
  <2> QED
    BY <1>1, <2>1, ProgressOfOthers
<1>2. CASE AutoStart
  BY <1>1, <1>2, ProgressOfOthers DEF AutoStart
<1>3. ASSUME NEW c \in Call, ProxyStart(c) PROVE Progress'
  BY <1>1, <1>3, ProgressOfOthers DEF ProxyStart
<1>4. ASSUME NEW s \in Server, NEW how \in {"panicked", "killed"}, End(s, how),
             schema \subseteq schema'
      PROVE  Progress'
  <2>1. /\ phase' = [phase EXCEPT ![s] = how] /\ how # "migrating"
        /\ attached' = [attached EXCEPT ![s] = FALSE]
        /\ pc' = [pc EXCEPT ![s] = 1] /\ seen' = [seen EXCEPT ![s] = {}]
    BY <1>4 DEF End
  <2> QED
    BY <1>4, <2>1, ProgressAtRest
<1>5. CASE ProxyStop
  <2>1. CASE child # NoChild /\ phase[child] \in Live
    <3>1. child \in Server
      BY <2>1, DesktopAssumption DEF TypeOK, Server, NoChild
    <3>2. End(child, "killed") /\ CutOff(child)
      BY <1>5, <2>1 DEF ProxyStop
    <3> QED
      BY <1>4, <3>1, <3>2, CutOffTyped
  <2>2. CASE ~ (child # NoChild /\ phase[child] \in Live)
    BY <1>5, <2>2, ProgressOfOthers DEF ProxyStop
  <2> QED
    BY <2>1, <2>2
<1>6. CASE AppExit \/ AppOpen \/ (\E c \in Call : Ping(c)) \/ UNCHANGED vars
  BY <1>6, ProgressOfOthers DEF AppExit, AppOpen, Ping, vars, opening
<1>7. ASSUME NEW s \in Server, NEW ok \in BOOLEAN, Opened(s, ok), schema \subseteq schema',
             ok => Complete \subseteq schema'
      PROVE  Progress'
  <2>1. /\ phase' = [phase EXCEPT ![s] = "binding"]
        /\ attached' = [attached EXCEPT ![s] = ok]
        /\ pc' = [pc EXCEPT ![s] = 1] /\ seen' = [seen EXCEPT ![s] = {}]
    BY <1>7 DEF Opened, AfterOpen
  <2> QED
    BY <1>7, <2>1, ProgressAtRest
<1>8. ASSUME NEW s \in Server, DuplicateColumn(s) \/ OpenFails(s) PROVE Progress'
  BY <1>7, <1>8, CutOffTyped DEF DuplicateColumn, OpenFails
<1>9. ASSUME NEW s \in Server, OpenDone(s) PROVE Progress'
  <2>1. pc[s] = Len(Steps) + 1
    <3>1. pc[s] \in 1 .. Len(Steps) + 1 /\ pc[s] > Len(Steps)
      BY <1>9 DEF OpenDone, TypeOK
    <3> QED
      BY <3>1, StepsCount
  <2>2. Complete \subseteq schema
    BY <2>1 DEF Progress, Complete
  <2> QED
    BY <1>7, <1>9, <2>2 DEF OpenDone
<1>10. ASSUME NEW s \in Server, Bind(s) PROVE Progress'
  <2>1. CASE Served
    BY <1>4, <1>10, <2>1 DEF Bind
  <2>2. CASE ~ Served
    <3>1. /\ phase' = [phase EXCEPT ![s] = "serving"] /\ phase[s] = "binding"
          /\ UNCHANGED <<pc, seen, attached, schema>>
      BY <1>10, <2>2 DEF Bind
    <3>2. ASSUME NEW r \in Server, phase'[r] # "migrating" PROVE phase[r] # "migrating"
      BY <3>1, <3>2 DEF TypeOK
    <3> QED
      BY <3>1, <3>2 DEF Progress
  <2> QED
    BY <2>1, <2>2
<1>11. ASSUME NEW s \in Server, Crash(s) PROVE Progress'
  BY <1>4, <1>11, CutOffTyped DEF Crash
<1> QED
  BY <1>2, <1>3, <1>5, <1>6, <1>8, <1>9, <1>10, <1>11, MigrateProgress DEF Next, Open

\* A sidecar that has the database finds in it all that the migrations are
\* there for, whoever else migrates it, and wherever others have stopped.
THEOREM DatabaseComplete == Spec => []AttachedComplete
<1>1. Init => TypeOK /\ Progress
  BY InitTyped, InitProgress
<1>2. TypeOK /\ Progress /\ [Next]_vars => (TypeOK /\ Progress)'
  BY NextTyped, NextProgress
<1>3. TypeOK /\ Progress => AttachedComplete
  BY DEF Progress, AttachedComplete
<1> QED
  BY <1>1, <1>2, <1>3, PTL DEF Spec

-----------------------------------------------------------------------------
(***************************************************************************)
(* The handle.                                                             *)
(***************************************************************************)
LEMMA NextHandle == TypeOK /\ OnlyChild /\ [Next]_vars => OnlyChild'
<1> SUFFICES ASSUME TypeOK, OnlyChild, [Next]_vars PROVE OnlyChild'
  OBVIOUS
<1> spawned \in Nat /\ inherited \in Nat /\ spawned <= MaxServers
  BY DesktopAssumption DEF TypeOK
\* Steps of the processes: none comes to life.
<1>1. ASSUME UNCHANGED shell, NEW s \in Server, NEW to, phase' = [phase EXCEPT ![s] = to],
             phase[s] \in Live
      PROVE  OnlyChild'
  <2>1. ASSUME NEW r \in Server, phase'[r] \in Live PROVE phase[r] \in Live
    BY <1>1, <2>1 DEF TypeOK
  <2> QED
    BY <1>1, <2>1, DesktopAssumption DEF OnlyChild, shell, Server
<1>2. CASE \E s \in Server : Bind(s) \/ Crash(s) \/ DuplicateColumn(s) \/ OpenFails(s) \/ OpenDone(s)
  BY <1>1, <1>2 DEF Bind, Crash, DuplicateColumn, OpenFails, OpenDone, Opened, End, Live
<1>3. CASE (\E s \in Server : Migrate(s)) \/ (\E c \in Call : Ping(c)) \/ UNCHANGED vars
  BY <1>3 DEF Migrate, Ping, vars, shell, OnlyChild
\* Steps of the shell.
<1>4. ASSUME NEW by \in {"auto", "start"}, Spawn(spawned + 1, by), inherited' = inherited,
             by = "auto" => child' = child,
             by = "start" => child = NoChild /\ child' = spawned + 1
      PROVE  OnlyChild'
  <2>1. /\ spawned + 1 \in Server /\ spawned' = spawned + 1
        /\ origin' = [origin EXCEPT ![spawned + 1] = by]
        /\ phase' = [phase EXCEPT ![spawned + 1] = "migrating"]
    BY <1>4, DesktopAssumption DEF Spawn, Server
  <2>2. ASSUME NEW s \in inherited + 1 .. spawned', phase'[s] \in Live, origin'[s] = "start"
        PROVE  child' = s
    <3>1. CASE s = spawned + 1
      BY <1>4, <2>1, <2>2, <3>1 DEF TypeOK
    <3>2. CASE s # spawned + 1
      <4>1. s \in inherited + 1 .. spawned /\ s \in Server
        BY <2>1, <2>2, <3>2, DesktopAssumption DEF Server
      <4>2. phase[s] \in Live /\ origin[s] = "start"
        BY <2>1, <2>2, <3>2, <4>1 DEF TypeOK
      <4>3. child = s /\ s # NoChild
        BY <4>1, <4>2 DEF OnlyChild, NoChild
      <4> QED
        BY <1>4, <4>3
    <3> QED
      BY <3>1, <3>2
  <2> QED
    BY <1>4, <2>2 DEF OnlyChild
<1>5. CASE AutoStart
  BY <1>4, <1>5 DEF AutoStart, OnlyChild
<1>6. ASSUME NEW c \in Call, ProxyStart(c) PROVE OnlyChild'
  BY <1>4, <1>6 DEF ProxyStart, MaySpawn, OnlyChild
<1>7. CASE ProxyStop
  <2>1. CASE child # NoChild /\ phase[child] \in Live
    <3>1. child \in Server
      BY <2>1, DesktopAssumption DEF TypeOK, Server, NoChild
    <3>2. phase' = [phase EXCEPT ![child] = "killed"] /\ UNCHANGED <<spawned, origin, inherited>>
      BY <1>7, <2>1 DEF ProxyStop, End
    <3>3. ASSUME NEW s \in inherited + 1 .. spawned, phase'[s] \in Live, origin[s] = "start"
          PROVE  FALSE
      <4>1. s \in Server
        BY DesktopAssumption DEF Server
      <4>2. s # child /\ phase[s] \in Live
        BY <3>1, <3>2, <3>3, <4>1 DEF TypeOK, Live
      <4> QED
        BY <3>3, <4>2 DEF OnlyChild
    <3> QED
      BY <3>2, <3>3 DEF OnlyChild
  <2>2. CASE ~ (child # NoChild /\ phase[child] \in Live)
    <3>1. UNCHANGED <<phase, spawned, origin, inherited>>
      BY <1>7, <2>2 DEF ProxyStop
    <3>2. ASSUME NEW s \in inherited + 1 .. spawned, phase[s] \in Live, origin[s] = "start"
          PROVE  FALSE
      <4>1. child = s /\ s # NoChild
        BY <3>2 DEF OnlyChild, NoChild
      <4> QED
        BY <2>2, <3>2, <4>1
    <3> QED
      BY <3>1, <3>2 DEF OnlyChild
  <2> QED
    BY <2>1, <2>2
<1>8. CASE AppExit
  BY <1>8 DEF AppExit, OnlyChild
<1>9. CASE AppOpen
  BY <1>9 DEF AppOpen, OnlyChild
<1> QED
  BY <1>2, <1>3, <1>5, <1>6, <1>7, <1>8, <1>9 DEF Next, Open

\* However start and stop commands follow one another, the handle that is kept
\* is that of the only sidecar that proxy_start has left running.
THEOREM HandleKept == Spec => []OnlyChild
<1>1. Init => TypeOK /\ OnlyChild
  BY InitTyped DEF Init, OnlyChild
<1>2. TypeOK /\ OnlyChild /\ [Next]_vars => (TypeOK /\ OnlyChild)'
  BY NextTyped, NextHandle
<1> QED
  BY <1>1, <1>2, PTL DEF Spec
=============================================================================
