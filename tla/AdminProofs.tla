---------------------------- MODULE AdminProofs -----------------------------
(***************************************************************************)
(* Proofs about Admin: for any tables, chats, price lists, lists of models *)
(* and operators, and for every bound on them.                             *)
(***************************************************************************)
EXTENDS Admin, FiniteSetTheorems, WellFoundedInduction, TLAPS

-----------------------------------------------------------------------------
\* Chats write to no table of the administrators but the cache and the log.
LEMMA ChatApart ==
    ASSUME ChatNext
    PROVE  UNCHANGED <<shared, AdminVars>>
<1>1. ASSUME NEW rk \in Sent, Begin(rk[1], rk[2]) PROVE UNCHANGED <<shared, AdminVars>>
  BY <1>1 DEF Begin, Goes
<1>2. ASSUME Hit \/ Miss \/ Store \/ Leave \/ OtherRow PROVE UNCHANGED <<shared, AdminVars>>
  BY <1>2 DEF Hit, Miss, Store, Leave, OtherRow, Goes
<1>3. ASSUME Dispatch PROVE UNCHANGED <<shared, AdminVars>>
  BY <1>3 DEF Dispatch, Goes
<1>4. ASSUME NEW c \in Called, Failed(c) \/ \E t \in TokenCounts : Answered(c, t)
      PROVE  UNCHANGED <<shared, AdminVars>>
  BY <1>4 DEF Failed, Answered, Goes
<1>5. ASSUME NEW d \in deliveries, Deliver(d) PROVE UNCHANGED <<shared, AdminVars>>
  BY <1>5 DEF Deliver, Goes, AdminVars
<1> QED
  BY <1>1, <1>2, <1>3, <1>4, <1>5 DEF ChatNext

-----------------------------------------------------------------------------
(***************************************************************************)
(* Automatic combos.  On the shared connection no request is between its   *)
(* check and its insert.                                                   *)
(***************************************************************************)
AutoInv ==
    /\ shared => \A o \in Operator : checked[o] = NoModel
    /\ AutoOnce

LEMMA InitAuto == Init => AutoInv
BY DEF Init, AutoInv, AutoOnce

\* What leaves the combos and the checks alone.
LEMMA AutoUntouched ==
    ASSUME AutoInv, shared' = shared, combos' \subseteq combos, checked' = checked
    PROVE  AutoInv'
BY DEF AutoInv, AutoOnce

LEMMA CombosAuto ==
    ASSUME AutoInv, CombosNext
    PROVE  AutoInv'
<1>1. ASSUME NEW b \in ComboBody, CreateCombo(b) PROVE AutoInv'
  <2>1. /\ shared' = shared /\ checked' = checked
        /\ combos' = combos \cup {[id |-> ids + 1, name |-> b.name, kind |-> "model",
                                   models |-> b.models]}
    BY <1>1 DEF CreateCombo, Asked
  <2> QED
    BY <2>1 DEF AutoInv, AutoOnce
<1>2. ASSUME NEW id \in 1 .. ids, DeleteCombo(id) PROVE AutoInv'
  <2>1. shared' = shared /\ checked' = checked /\ combos' \subseteq combos
    BY <1>2 DEF DeleteCombo, Asked
  <2> QED
    BY <2>1, AutoUntouched
<1>3. ASSUME NEW p \in Provider, Connection(p) PROVE AutoInv'
  <2>1. shared' = shared /\ checked' = checked /\ combos' = combos
    BY <1>3 DEF Connection, Asked
  <2> QED
    BY <2>1, AutoUntouched
<1>4. ASSUME NEW m \in Model, AutoCreate(m) PROVE AutoInv'
  <2>1. shared' = shared /\ checked' = checked
    BY <1>4 DEF AutoCreate, Asked
  <2>2. CASE Taken(m)
    <3>1. combos' = combos
      BY <1>4, <2>2 DEF AutoCreate
    <3> QED
      BY <2>1, <3>1, AutoUntouched
  <2>3. CASE ~ Taken(m)
    <3>1. combos' = combos \cup {AutoRow(m, ids + 1)}
      BY <1>4, <2>3 DEF AutoCreate
    <3>2. AutoRow(m, ids + 1).name = <<"auto", m>>
      BY DEF AutoRow
    <3>3. \A c \in combos : c.name # <<"auto", m>>
      BY <2>3 DEF Taken
    <3> QED
      BY <2>1, <3>1, <3>2, <3>3 DEF AutoInv, AutoOnce
  <2> QED
    BY <2>2, <2>3
<1>5. ASSUME NEW m \in Model, NEW o \in Operator, AutoCheck(o, m) PROVE AutoInv'
  BY <1>5 DEF AutoCheck, Asked, AutoInv, AutoOnce
<1>6. ASSUME NEW o \in Operator, AutoInsert(o) PROVE AutoInv'
  BY <1>6 DEF AutoInsert, AutoInv, AutoOnce
<1> QED
  BY <1>1, <1>2, <1>3, <1>4, <1>5, <1>6 DEF CombosNext

\* The other areas have other tables.
LEMMA OthersAuto ==
    ASSUME CostsNext \/ HooksNext \/ CacheNext \/ ModelsNext \/ ChatNext \/ Tick \/ UNCHANGED vars
    PROVE  shared' = shared /\ UNCHANGED comboVars
<1>1. CASE CostsNext
  BY <1>1 DEF CostsNext, UpsertPricing, DeletePricing, UpsertBudget, DeleteBudget, Asked
<1>2. CASE HooksNext
  BY <1>2 DEF HooksNext, CreateWebhook, AuditWebhook, UpdateWebhook, DeleteWebhook, Asked, Goes,
              comboVars
<1>3. CASE CacheNext
  BY <1>3 DEF CacheNext, ListCache, ClearCache, DeleteCacheEntry, Asked
<1>4. CASE ModelsNext
  BY <1>4 DEF ModelsNext, LiveChange, SyncFetch, SyncStore, SyncAudit, Asked, Goes
<1>5. CASE ChatNext
  BY <1>5, ChatApart DEF AdminVars
<1>6. CASE Tick
  BY <1>6 DEF Tick, AdminVars
<1>7. CASE UNCHANGED vars
  BY <1>7 DEF vars
<1> QED
  BY <1>1, <1>2, <1>3, <1>4, <1>5, <1>6, <1>7

LEMMA NextAuto == AutoInv /\ [Next]_vars => AutoInv'
<1> SUFFICES ASSUME AutoInv, [Next]_vars PROVE AutoInv'
  OBVIOUS
<1>1. CASE CombosNext
  BY <1>1, CombosAuto
<1>2. CASE Restart
  BY <1>2 DEF Restart, AutoInv, AutoOnce
<1>3. CASE ~ (CombosNext \/ Restart)
  <2>1. shared' = shared /\ UNCHANGED comboVars
    BY <1>3, OthersAuto DEF Next
  <2> QED
    BY <2>1, AutoUntouched DEF comboVars
<1> QED
  BY <1>1, <1>2, <1>3

\* Operators who ask for the automatic combo of one model, at once or one after
\* the other and whatever else is done to the combos, get one combo for it, as
\* long as all of them use the shared connection.
THEOREM OneAutoCombo == Spec => []AutoOnce
<1>1. AutoInv => AutoOnce
  BY DEF AutoInv
<1> QED
  BY <1>1, InitAuto, NextAuto, PTL DEF Spec

-----------------------------------------------------------------------------
(***************************************************************************)
(* Synchronised models.  The lists in flight are numbered apart, and none  *)
(* of them is the newest that was stored.                                  *)
(***************************************************************************)
Numbering ==
    /\ fetches \in Nat /\ newest.n \in 0 .. fetches
    /\ \A o \in Operator : syncing[o].at = "fetched" =>
          /\ syncing[o].n \in 1 .. fetches /\ syncing[o].n # newest.n
          /\ \A p \in Operator : syncing[p].at = "fetched" /\ syncing[p].n = syncing[o].n => p = o

SyncTyped ==
    /\ live \in ModelList /\ synced \in ModelList
    /\ syncing \in [Operator -> [at : {"idle", "fetched", "stored"}, models : ModelList, n : Nat]]
    /\ newest \in [models : ModelList, n : Nat]
    /\ overtaken \in BOOLEAN

SyncInv == SyncTyped /\ Numbering /\ SyncedAsFetched

LEMMA NoModelsListed == NoModels \in ModelList
BY DEF NoModels, ModelList

LEMMA InitSync == Init => SyncInv
<1> SUFFICES ASSUME Init PROVE SyncInv
  OBVIOUS
<1>1. SyncTyped
  BY NoModelsListed DEF Init, SyncTyped, NoSync
<1>2. Numbering
  BY DEF Init, Numbering, NoSync
<1>3. SyncedAsFetched
  BY DEF Init, SyncedAsFetched, NoModels
<1> QED
  BY <1>1, <1>2, <1>3 DEF SyncInv

LEMMA FetchSync ==
    ASSUME SyncInv, NEW o \in Operator, SyncFetch(o)
    PROVE  SyncInv'
<1> USE DEF SyncInv
<1>1. CASE live = NoModels
  BY <1>1 DEF SyncFetch, SyncTyped, Numbering, SyncedAsFetched
<1>2. CASE live # NoModels
  <2>1. /\ syncing' = [syncing EXCEPT ![o] = [at |-> "fetched", models |-> live, n |-> fetches + 1]]
        /\ fetches' = fetches + 1
        /\ UNCHANGED <<live, synced, newest, overtaken>>
    BY <1>2 DEF SyncFetch
  <2>2. SyncTyped'
    BY <2>1 DEF SyncTyped, Numbering
  <2>3. Numbering'
    BY <2>1 DEF SyncTyped, Numbering
  <2> QED
    BY <2>1, <2>2, <2>3 DEF SyncedAsFetched
<1> QED
  BY <1>1, <1>2

LEMMA StoreSync ==
    ASSUME SyncInv, NEW o \in Operator, SyncStore(o)
    PROVE  SyncInv'
<1> DEFINE mine == syncing[o]
<1>1. /\ mine.at = "fetched" /\ mine.models \in ModelList /\ mine.n \in 1 .. fetches
      /\ mine.n # newest.n /\ fetches' = fetches /\ live' = live
      /\ syncing' = [syncing EXCEPT ![o] = [mine EXCEPT !.at = "stored"]]
  BY DEF SyncStore, SyncInv, SyncTyped, Numbering
<1>2. CASE shared
  <2>1. /\ synced' = Merged(synced, mine.models)
        /\ newest' = IF mine.n > newest.n THEN [models |-> mine.models, n |-> mine.n] ELSE newest
        /\ overtaken' = (overtaken \/ mine.n < newest.n)
    BY <1>2 DEF SyncStore
  <2>2. synced' \in ModelList
    BY <1>1, <2>1 DEF Merged, ModelList, SyncInv, SyncTyped
  <2>3. SyncTyped'
    BY <1>1, <2>1, <2>2 DEF SyncInv, SyncTyped
  <2>4. Numbering'
    BY <1>1, <2>1 DEF SyncInv, SyncTyped, Numbering
  <2>5. SyncedAsFetched'
    <3>1. CASE mine.n > newest.n
      <4>1. newest'.models = mine.models
        BY <2>1, <3>1
      <4> QED
        BY <2>1, <4>1 DEF SyncedAsFetched, Merged
    <3>2. CASE mine.n < newest.n
      BY <2>1, <3>2 DEF SyncedAsFetched
    <3> QED
      BY <1>1, <3>1, <3>2 DEF SyncInv, SyncTyped
  <2> QED
    BY <2>3, <2>4, <2>5 DEF SyncInv
<1>3. CASE ~ shared
  <2>1. UNCHANGED <<synced, newest, overtaken>>
    BY <1>3 DEF SyncStore
  <2>2. SyncTyped' /\ Numbering'
    BY <1>1, <2>1 DEF SyncInv, SyncTyped, Numbering
  <2> QED
    BY <2>1, <2>2 DEF SyncInv, SyncedAsFetched
<1> QED
  BY <1>2, <1>3

LEMMA ModelsSync ==
    ASSUME SyncInv, ModelsNext
    PROVE  SyncInv'
<1>1. ASSUME NEW l \in LiveLists, LiveChange(l) PROVE SyncInv'
  BY <1>1, AdminAssumption DEF LiveChange, SyncInv, SyncTyped, Numbering, SyncedAsFetched
<1>2. ASSUME NEW o \in Operator, SyncAudit(o) PROVE SyncInv'
  <2>1. /\ syncing' = [syncing EXCEPT ![o] = NoSync]
        /\ UNCHANGED <<live, synced, fetches, newest, overtaken>>
    BY <1>2 DEF SyncAudit
  <2>2. SyncTyped'
    BY <2>1, NoModelsListed DEF SyncInv, SyncTyped, NoSync
  <2>3. Numbering'
    BY <2>1 DEF SyncInv, SyncTyped, Numbering, NoSync
  <2> QED
    BY <2>1, <2>2, <2>3 DEF SyncInv, SyncedAsFetched
<1> QED
  BY <1>1, <1>2, FetchSync, StoreSync DEF ModelsNext

\* A restart forgets the lists in flight.
LEMMA RestartSync ==
    ASSUME SyncInv, Restart
    PROVE  SyncInv'
<1>1. /\ syncing' = [o \in Operator |-> NoSync]
      /\ UNCHANGED <<live, synced, fetches, newest, overtaken>>
  BY DEF Restart
<1>2. SyncTyped'
  BY <1>1, NoModelsListed DEF SyncInv, SyncTyped, NoSync
<1>3. Numbering'
  BY <1>1 DEF SyncInv, Numbering, NoSync
<1> QED
  BY <1>1, <1>2, <1>3 DEF SyncInv, SyncedAsFetched

LEMMA OthersSync ==
    ASSUME CostsNext \/ HooksNext \/ CombosNext \/ CacheNext \/ ChatNext \/ Tick \/ UNCHANGED vars
    PROVE  UNCHANGED modelVars
<1>1. CASE CostsNext
  BY <1>1 DEF CostsNext, UpsertPricing, DeletePricing, UpsertBudget, DeleteBudget
<1>2. CASE HooksNext
  BY <1>2 DEF HooksNext, CreateWebhook, AuditWebhook, UpdateWebhook, DeleteWebhook
<1>3. CASE CombosNext
  BY <1>3 DEF CombosNext, CreateCombo, DeleteCombo, Connection, AutoCreate, AutoCheck, AutoInsert
<1>4. CASE CacheNext
  BY <1>4 DEF CacheNext, ListCache, ClearCache, DeleteCacheEntry
<1>5. CASE ChatNext
  BY <1>5, ChatApart DEF AdminVars
<1>6. CASE Tick
  BY <1>6 DEF Tick, AdminVars
<1>7. CASE UNCHANGED vars
  BY <1>7 DEF vars
<1> QED
  BY <1>1, <1>2, <1>3, <1>4, <1>5, <1>6, <1>7

LEMMA NextSync == SyncInv /\ [Next]_vars => SyncInv'
<1> SUFFICES ASSUME SyncInv, [Next]_vars PROVE SyncInv'
  OBVIOUS
<1>1. CASE ModelsNext
  BY <1>1, ModelsSync
<1>2. CASE Restart
  BY <1>2, RestartSync
<1>3. CASE ~ (ModelsNext \/ Restart)
  <2>1. UNCHANGED modelVars
    BY <1>3, OthersSync DEF Next
  <2> QED
    BY <2>1 DEF modelVars, SyncInv, SyncTyped, Numbering, SyncedAsFetched
<1> QED
  BY <1>1, <1>2, <1>3

\* However many synchronisations overlap, every model of the newest list stored
\* has the name that list gives it, unless an older list was stored after it.
THEOREM NamesAreNewest == Spec => []SyncedAsFetched
<1>1. SyncInv => SyncedAsFetched
  BY DEF SyncInv
<1> QED
  BY <1>1, InitSync, NextSync, PTL DEF Spec

-----------------------------------------------------------------------------
(***************************************************************************)
(* Chats: the log, the cache and the events.                               *)
(***************************************************************************)
ChatRecord == [at : {"lookup", "hit", "calling", "logged", "erred", "stored"}, req : Request,
               key : Key \cup {NoKey}, row : Nat, from : Request, age : Int]

Entry == [row : Nat, created : Nat, expires : Nat, hits : Nat, req : Request]

ChatTyped ==
    /\ now \in Nat /\ log \in Seq(Row)
    /\ chat = NoChat \/ chat \in ChatRecord
    /\ \A k \in DOMAIN cache : cache[k] \in Entry

\* An entry is the answer of a row, and expires when its request said.
EntryHonest(k) ==
    /\ cache[k].row \in DOMAIN log /\ log[cache[k].row].ok
    /\ KeyOf[cache[k].req] = k
    /\ cache[k].expires = cache[k].created + Ttl[cache[k].req]

\* The row of the chat that has the engine's lock, between the log and the events.
Pending == chat.at \in {"logged", "erred", "stored"}

RowHonest ==
    /\ Pending => chat.row \in DOMAIN log /\ log[chat.row].provider # NoProvider
    /\ chat.at = "logged" => log[chat.row].ok

\* A row that a stop has cut off is none that a chat stands at.
CutHonest == cut \subseteq DOMAIN log /\ (Pending => chat.row \notin cut)

HitHonest ==
    chat.at = "hit" =>
       /\ chat.row \in DOMAIN log /\ log[chat.row].ok
       /\ KeyOf[chat.from] = KeyOf[chat.req] /\ chat.age <= Ttl[chat.from]

ChatInv ==
    /\ ChatTyped
    /\ \A k \in DOMAIN cache : EntryHonest(k)
    /\ RowHonest /\ HitHonest /\ CutHonest /\ EventsMatchLog

LEMMA InitChat == Init => ChatInv
<1> SUFFICES ASSUME Init PROVE ChatInv
  OBVIOUS
<1>1. DOMAIN cache = {} /\ DOMAIN log = {} /\ log \in Seq(Row)
  BY DEF Init
<1>2. chat.at = "idle"
  BY DEF Init, NoChat
<1> QED
  BY <1>1, <1>2 DEF Init, ChatInv, ChatTyped, RowHonest, Pending, HitHonest, CutHonest,
    EventsMatchLog, Unfired

LEMMA Appended ==
    ASSUME NEW r \in Row, log \in Seq(Row), log' = Append(log, r)
    PROVE  /\ log' \in Seq(Row)
           /\ Len(log) + 1 \in DOMAIN log' /\ Len(log) + 1 \notin DOMAIN log
           /\ log'[Len(log) + 1] = r
           /\ DOMAIN log' = DOMAIN log \cup {Len(log) + 1}
           /\ \A i \in DOMAIN log : log'[i] = log[i]
OBVIOUS

\* Deleting entries of the cache leaves honest ones.
LEMMA FewerEntries ==
    ASSUME ChatInv, UNCHANGED <<now, log, chat, fired, cut>>, DOMAIN cache' \subseteq DOMAIN cache,
           \A k \in DOMAIN cache' : cache'[k] = cache[k]
    PROVE  ChatInv'
BY DEF ChatInv, ChatTyped, EntryHonest, RowHonest, Pending, HitHonest, CutHonest,
    EventsMatchLog, Unfired

LEMMA CacheAdminChat ==
    ASSUME ChatInv, CacheNext
    PROVE  ChatInv'
<1>1. UNCHANGED <<now, log, chat, fired, cut>>
  BY DEF CacheNext, ListCache, ClearCache, DeleteCacheEntry, Asked
<1>2. /\ DOMAIN cache' \subseteq DOMAIN cache
      /\ \A k \in DOMAIN cache' : cache'[k] = cache[k]
  <2>1. CASE ListCache
    BY <2>1 DEF ListCache
  <2>2. CASE ClearCache
    BY <2>2 DEF ClearCache
  <2>3. ASSUME NEW k \in DOMAIN cache, DeleteCacheEntry(k)
        PROVE  /\ DOMAIN cache' \subseteq DOMAIN cache
               /\ \A j \in DOMAIN cache' : cache'[j] = cache[j]
    BY <2>3 DEF DeleteCacheEntry, Without
  <2> QED
    BY <2>1, <2>2, <2>3 DEF CacheNext
<1> QED
  BY <1>1, <1>2, FewerEntries

LEMMA BeginChat ==
    ASSUME ChatInv, NEW r \in Request, NEW k \in Key \cup {NoKey}, Begin(r, k)
    PROVE  ChatInv'
<1>1. /\ chat' \in ChatRecord /\ chat'.at \in {"lookup", "calling"}
      /\ chat.at = "idle" /\ UNCHANGED <<now, log, cache, fired, cut>>
  BY DEF Begin, Goes, NoChat, ChatRecord
<1> QED
  BY <1>1 DEF ChatInv, ChatTyped, EntryHonest, RowHonest, Pending, HitHonest, CutHonest,
    EventsMatchLog, Unfired

LEMMA HitChat ==
    ASSUME ChatInv, Hit
    PROVE  ChatInv'
<1> DEFINE k == KeyOf[chat.req]
           e == cache[k]
<1>1. /\ chat \in ChatRecord /\ k \in DOMAIN cache /\ e \in Entry /\ e.expires >= now
      /\ EntryHonest(k)
  BY DEF Hit, Unexpired, ChatInv, ChatTyped, NoChat
<1>2. /\ UNCHANGED <<now, log, fired, cut>> /\ cache' = [cache EXCEPT ![k].hits = @ + 1]
      /\ chat' = [chat EXCEPT !.at = "hit", !.row = e.row, !.from = e.req, !.age = now - e.created]
  BY DEF Hit, Goes
<1>3. DOMAIN cache' = DOMAIN cache
  BY <1>2
<1>4. ASSUME NEW j \in DOMAIN cache' PROVE cache'[j] \in Entry /\ EntryHonest(j)'
  <2>1. j \in DOMAIN cache /\ cache[j] \in Entry /\ EntryHonest(j)
    BY <1>3 DEF ChatInv, ChatTyped
  <2>2. cache'[j] = cache[j] \/ cache'[j] = [cache[j] EXCEPT !.hits = @ + 1]
    BY <1>2, <2>1
  <2>3. /\ cache'[j] \in Entry /\ cache'[j].row = cache[j].row /\ cache'[j].req = cache[j].req
        /\ cache'[j].created = cache[j].created /\ cache'[j].expires = cache[j].expires
    BY <2>1, <2>2 DEF Entry
  <2> QED
    BY <1>2, <2>1, <2>3 DEF EntryHonest
<1>5. /\ chat' \in ChatRecord /\ chat'.at = "hit" /\ chat'.row = e.row
      /\ chat'.from = e.req /\ chat'.req = chat.req /\ chat'.age = now - e.created
  <2>1. e.row \in Nat /\ e.req \in Request /\ now - e.created \in Int
    BY <1>1 DEF ChatInv, ChatTyped, Entry
  <2> DEFINE c1 == [chat EXCEPT !.at = "hit"]
             c2 == [c1 EXCEPT !.row = e.row]
             c3 == [c2 EXCEPT !.from = e.req]
  <2>2. c1 \in ChatRecord /\ c1.at = "hit" /\ c1.req = chat.req
    BY <1>1 DEF ChatRecord
  <2>3. c2 \in ChatRecord /\ c2.at = "hit" /\ c2.row = e.row /\ c2.req = chat.req
    BY <2>1, <2>2 DEF ChatRecord
  <2>4. /\ c3 \in ChatRecord /\ c3.at = "hit" /\ c3.row = e.row /\ c3.req = chat.req
        /\ c3.from = e.req
    BY <2>1, <2>3 DEF ChatRecord
  <2>5. chat' = [c3 EXCEPT !.age = now - e.created]
    BY <1>2
  <2> QED
    BY <2>1, <2>4, <2>5 DEF ChatRecord
<1>6. now - e.created <= Ttl[e.req]
  BY <1>1, AdminAssumption DEF EntryHonest, Entry, ChatInv, ChatTyped
<1>7. HitHonest'
  BY <1>1, <1>2, <1>5, <1>6 DEF HitHonest, EntryHonest
<1>8. chat.at = "lookup"
  BY DEF Hit
<1> QED
  BY <1>2, <1>3, <1>4, <1>5, <1>7, <1>8
  DEF ChatInv, ChatTyped, RowHonest, Pending, CutHonest, EventsMatchLog, Unfired

LEMMA MissChat ==
    ASSUME ChatInv, Miss
    PROVE  ChatInv'
<1>1. /\ chat \in ChatRecord /\ UNCHANGED <<now, log, fired, cut>>
      /\ chat.at = "lookup" /\ chat' = [chat EXCEPT !.at = "calling"]
      /\ cache' = Without(cache, KeyOf[chat.req])
  BY DEF Miss, Goes, ChatInv, ChatTyped, NoChat
<1>2. chat' \in ChatRecord /\ chat'.at = "calling"
  BY <1>1 DEF ChatRecord
<1>3. \A k \in DOMAIN cache' : k \in DOMAIN cache /\ cache'[k] = cache[k]
  BY <1>1 DEF Without
<1> QED
  BY <1>1, <1>2, <1>3
  DEF ChatInv, ChatTyped, EntryHonest, RowHonest, Pending, HitHonest, CutHonest,
    EventsMatchLog, Unfired

\* The end of an attempt, with its row in the log.
LEMMA RowChat ==
    ASSUME ChatInv, NEW r \in Row, r.provider # NoProvider, log' = Append(log, r),
           NEW end \in {"logged", "erred"}, end = "logged" => r.ok,
           chat.at = "calling", UNCHANGED <<now, fired, cache, cut>>,
           chat' = [chat EXCEPT !.at = end, !.row = Len(log) + 1]
    PROVE  ChatInv'
<1>1. chat \in ChatRecord /\ log \in Seq(Row)
  BY DEF ChatInv, ChatTyped, NoChat
<1>2. /\ chat' \in ChatRecord /\ chat'.at = end /\ chat'.row = Len(log) + 1
  <2>1. Len(log) + 1 \in Nat
    BY <1>1
  <2>2. [chat EXCEPT !.at = end] \in ChatRecord /\ [chat EXCEPT !.at = end].at = end
    BY <1>1 DEF ChatRecord
  <2> QED
    BY <2>1, <2>2 DEF ChatRecord
<1>3. /\ log' \in Seq(Row) /\ Len(log) + 1 \in DOMAIN log' /\ Len(log) + 1 \notin DOMAIN log
      /\ log'[Len(log) + 1] = r /\ DOMAIN log' = DOMAIN log \cup {Len(log) + 1}
      /\ \A i \in DOMAIN log : log'[i] = log[i]
  BY <1>1, Appended
<1>4. \A k \in DOMAIN cache : EntryHonest(k)'
  BY <1>3 DEF ChatInv, EntryHonest
<1>5. RowHonest' /\ HitHonest' /\ CutHonest'
  BY <1>2, <1>3 DEF ChatInv, RowHonest, Pending, HitHonest, CutHonest
<1>6. EventsMatchLog'
  BY <1>2, <1>3 DEF ChatInv, CutHonest, EventsMatchLog, Unfired
<1> QED
  BY <1>2, <1>3, <1>4, <1>5, <1>6 DEF ChatInv, ChatTyped

LEMMA AttemptChat ==
    ASSUME ChatInv, NEW c \in Called, Failed(c) \/ \E t \in TokenCounts : Answered(c, t)
    PROVE  ChatInv'
<1>1. /\ chat.at = "calling" /\ UNCHANGED <<now, fired, cache, cut>>
      /\ chat \in ChatRecord /\ now \in Nat
  <2>1. CASE Failed(c)
    BY <2>1 DEF Failed, Goes, ChatInv, ChatTyped, NoChat
  <2>2. ASSUME NEW t \in TokenCounts, Answered(c, t)
        PROVE  /\ chat.at = "calling" /\ UNCHANGED <<now, fired, cache, cut>>
               /\ chat \in ChatRecord /\ now \in Nat
    BY <2>2 DEF Answered, Goes, ChatInv, ChatTyped, NoChat
  <2> QED
    BY <2>1, <2>2
<1>2. c[1] \in Provider /\ c[2] \in Model /\ c[1] # NoProvider
  BY AdminAssumption DEF AdminAssumption, CostsAssumption
<1>3. chat.key \in Key \cup {NoKey}
  BY <1>1 DEF ChatRecord
<1>4. CASE Failed(c)
  <2> DEFINE r == [ts |-> now, provider |-> c[1], model |-> c[2], ok |-> FALSE,
                   tokens |-> 0, key |-> chat.key]
  <2>1. r \in Row /\ r.provider # NoProvider
    BY <1>1, <1>2, <1>3 DEF Row
  <2>2. log' = Append(log, r) /\ chat' = [chat EXCEPT !.at = "erred", !.row = Len(log) + 1]
    BY <1>4 DEF Failed
  <2> QED
    BY <1>1, <2>1, <2>2, RowChat
<1>5. ASSUME NEW t \in TokenCounts, Answered(c, t) PROVE ChatInv'
  <2> DEFINE r == [ts |-> now, provider |-> c[1], model |-> c[2], ok |-> TRUE,
                   tokens |-> t, key |-> chat.key]
  <2>1. r \in Row /\ r.provider # NoProvider /\ r.ok
    BY <1>1, <1>2, <1>3, AdminAssumption DEF Row
  <2>2. log' = Append(log, r) /\ chat' = [chat EXCEPT !.at = "logged", !.row = Len(log) + 1]
    BY <1>5 DEF Answered
  <2> QED
    BY <1>1, <2>1, <2>2, RowChat
<1> QED
  BY <1>4, <1>5

LEMMA StoreChat ==
    ASSUME ChatInv, Store
    PROVE  ChatInv'
<1> DEFINE k == KeyOf[chat.req]
           e == [row |-> chat.row, created |-> now, expires |-> now + Ttl[chat.req], hits |-> 0,
                 req |-> chat.req]
<1>1. /\ chat.at = "logged" /\ chat \in ChatRecord /\ UNCHANGED <<now, log, fired, cut>>
      /\ chat' = [chat EXCEPT !.at = "stored"] /\ cache' = With(cache, k, e)
  BY DEF Store, Goes, ChatInv, ChatTyped, NoChat
<1>2. /\ chat' \in ChatRecord /\ chat'.at = "stored" /\ chat'.row = chat.row
  BY <1>1 DEF ChatRecord
<1>3. /\ chat.row \in DOMAIN log /\ log[chat.row].ok
      /\ log[chat.row].provider # NoProvider
  BY <1>1 DEF ChatInv, RowHonest, Pending
<1>4. e \in Entry
  <2>1. chat.req \in Request /\ chat.row \in Nat
    BY <1>1 DEF ChatRecord
  <2>2. Ttl[chat.req] \in Nat /\ now \in Nat
    BY <2>1, AdminAssumption DEF ChatInv, ChatTyped
  <2> QED
    BY <2>1, <2>2 DEF Entry
<1>5. ASSUME NEW j \in DOMAIN cache' PROVE cache'[j] \in Entry /\ EntryHonest(j)'
  <2>1. CASE j = k
    <3>1. cache'[j] = e
      BY <1>1, <2>1 DEF With
    <3> QED
      BY <1>1, <1>3, <1>4, <2>1, <3>1 DEF EntryHonest
  <2>2. CASE j # k
    <3>1. j \in DOMAIN cache /\ cache'[j] = cache[j]
      BY <1>1, <2>2 DEF With
    <3> QED
      BY <1>1, <3>1 DEF ChatInv, ChatTyped, EntryHonest
  <2> QED
    BY <2>1, <2>2
<1>6. RowHonest' /\ HitHonest' /\ CutHonest' /\ EventsMatchLog'
  BY <1>1, <1>2, <1>3 DEF ChatInv, RowHonest, Pending, HitHonest, CutHonest,
    EventsMatchLog, Unfired
<1> QED
  BY <1>1, <1>2, <1>5, <1>6 DEF ChatInv, ChatTyped

LEMMA DispatchChat ==
    ASSUME ChatInv, Dispatch
    PROVE  ChatInv'
<1>1. /\ Pending /\ chat \in ChatRecord /\ UNCHANGED <<now, log, cache, cut>>
      /\ fired' = fired \cup {chat.row}
      /\ chat' = NoChat \/ chat' = [chat EXCEPT !.at = "calling", !.row = 0]
  BY DEF Dispatch, Dispatches, Goes, ChatInv, ChatTyped, NoChat, Pending
<1>2. /\ chat' = NoChat \/ chat' \in ChatRecord
      /\ chat'.at \in {"idle", "calling"}
  <2>1. CASE chat' = NoChat
    BY <2>1 DEF NoChat
  <2>2. CASE chat' = [chat EXCEPT !.at = "calling", !.row = 0]
    <3> DEFINE c == [chat EXCEPT !.at = "calling"]
    <3>1. c \in ChatRecord /\ c.at = "calling"
      BY <1>1 DEF ChatRecord
    <3>2. chat' = [c EXCEPT !.row = 0]
      BY <2>2
    <3> QED
      BY <3>1, <3>2 DEF ChatRecord
  <2> QED
    BY <1>1, <2>1, <2>2
<1>3. chat.row \in DOMAIN log /\ log[chat.row].provider # NoProvider
  BY <1>1 DEF ChatInv, RowHonest
<1>4. EventsMatchLog'
  BY <1>1, <1>2, <1>3 DEF ChatInv, EventsMatchLog, CutHonest, Unfired, Pending
<1> QED
  BY <1>1, <1>2, <1>4 DEF ChatInv, ChatTyped, EntryHonest, RowHonest, Pending, HitHonest, CutHonest

LEMMA LeaveChat ==
    ASSUME ChatInv, Leave
    PROVE  ChatInv'
<1>1. /\ chat.at \in {"hit", "calling"} /\ chat' = NoChat /\ chat'.at = "idle"
      /\ UNCHANGED <<now, log, cache, fired, cut>>
  BY DEF Leave, Goes, NoChat
<1> QED
  BY <1>1 DEF ChatInv, ChatTyped, EntryHonest, RowHonest, Pending, HitHonest, CutHonest,
    EventsMatchLog, Unfired

LEMMA OtherRowChat ==
    ASSUME ChatInv, OtherRow
    PROVE  ChatInv'
<1> DEFINE r == [ts |-> now, provider |-> NoProvider, model |-> NoModel, ok |-> TRUE,
                 tokens |-> 0, key |-> NoKey]
<1>1. log \in Seq(Row) /\ log' = Append(log, r) /\ UNCHANGED <<now, fired, cache, chat, cut>>
  BY DEF OtherRow, Goes, ChatInv, ChatTyped
<1>2. r \in Row
  BY DEF Row, ChatInv, ChatTyped
<1>3. /\ log' \in Seq(Row) /\ log'[Len(log) + 1] = r
      /\ DOMAIN log' = DOMAIN log \cup {Len(log) + 1} /\ Len(log) + 1 \notin DOMAIN log
      /\ \A i \in DOMAIN log : log'[i] = log[i]
  BY <1>1, <1>2, Appended
<1>4. EventsMatchLog'
  BY <1>1, <1>3 DEF ChatInv, CutHonest, EventsMatchLog, Unfired
<1> QED
  BY <1>1, <1>3, <1>4 DEF ChatInv, ChatTyped, EntryHonest, RowHonest, Pending, HitHonest, CutHonest

LEMMA ChatUntouched ==
    ASSUME ChatInv, now' \in Nat, UNCHANGED <<log, cache, chat, fired, cut>>
    PROVE  ChatInv'
BY DEF ChatInv, ChatTyped, EntryHonest, RowHonest, Pending, HitHonest, CutHonest,
    EventsMatchLog, Unfired

\* A restart adds the row of the chat it ends to those that are cut off.
LEMMA RestartChat ==
    ASSUME ChatInv, Restart
    PROVE  ChatInv'
<1>1. /\ cut' = cut \cup Unfired /\ chat' = NoChat /\ chat'.at = "idle"
      /\ UNCHANGED <<now, log, cache, fired>>
  BY DEF Restart, NoChat
<1>2. Unfired \subseteq DOMAIN log
  BY DEF ChatInv, RowHonest, Pending, Unfired
<1>3. Unfired' = {} /\ ~ Pending'
  BY <1>1 DEF Unfired, Pending
<1>4. CutHonest' /\ EventsMatchLog'
  BY <1>1, <1>2, <1>3 DEF ChatInv, CutHonest, EventsMatchLog
<1> QED
  BY <1>1, <1>3, <1>4 DEF ChatInv, ChatTyped, EntryHonest, RowHonest, Pending, HitHonest

LEMMA ChatChat ==
    ASSUME ChatInv, ChatNext
    PROVE  ChatInv'
<1>1. ASSUME NEW rk \in Sent, Begin(rk[1], rk[2]) PROVE ChatInv'
  <2>1. rk[1] \in Request /\ rk[2] \in Key \cup {NoKey}
    BY AdminAssumption
  <2> QED
    BY <1>1, <2>1, BeginChat
<1>2. ASSUME NEW d \in deliveries, Deliver(d) PROVE ChatInv'
  <2>1. UNCHANGED <<now, log, cache, chat, fired, cut>>
    BY <1>2 DEF Deliver, Goes
  <2> QED
    BY <2>1, ChatUntouched DEF ChatInv, ChatTyped
<1> QED
  BY <1>1, <1>2, HitChat, MissChat, StoreChat, DispatchChat, LeaveChat, OtherRowChat, AttemptChat
  DEF ChatNext

LEMMA OthersChat ==
    ASSUME ChatInv,
           CostsNext \/ HooksNext \/ CombosNext \/ ModelsNext \/ Tick \/ UNCHANGED vars
    PROVE  now' \in Nat /\ UNCHANGED <<log, cache, chat, fired, cut>>
<1> USE DEF chatVars
<1>1. now \in Nat
  BY DEF ChatInv, ChatTyped
<1>2. CASE CostsNext
  BY <1>1, <1>2 DEF CostsNext, UpsertPricing, DeletePricing, UpsertBudget, DeleteBudget, Asked
<1>3. CASE HooksNext
  BY <1>1, <1>3 DEF HooksNext, CreateWebhook, AuditWebhook, UpdateWebhook, DeleteWebhook, Asked, Goes
<1>4. CASE CombosNext
  BY <1>1, <1>4
  DEF CombosNext, CreateCombo, DeleteCombo, Connection, AutoCreate, AutoCheck, AutoInsert, Asked
<1>5. CASE ModelsNext
  BY <1>1, <1>5 DEF ModelsNext, LiveChange, SyncFetch, SyncStore, SyncAudit, Asked, Goes
<1>6. CASE Tick
  BY <1>1, <1>6 DEF Tick
<1>7. CASE UNCHANGED vars
  BY <1>1, <1>7 DEF vars
<1> QED
  BY <1>2, <1>3, <1>4, <1>5, <1>6, <1>7

LEMMA NextChat == ChatInv /\ [Next]_vars => ChatInv'
<1> SUFFICES ASSUME ChatInv, [Next]_vars PROVE ChatInv'
  OBVIOUS
<1>1. CASE ChatNext
  BY <1>1, ChatChat
<1>2. CASE CacheNext
  BY <1>2, CacheAdminChat
<1>3. CASE Restart
  BY <1>3, RestartChat
<1>4. CASE ~ (ChatNext \/ CacheNext \/ Restart)
  BY <1>4, OthersChat, ChatUntouched DEF Next
<1> QED
  BY <1>1, <1>2, <1>3, <1>4

\* Whatever administrators list, delete or clear meanwhile, and however long an
\* entry has been there: a cached answer is one that a request with the same key
\* has got, no longer ago than the cache_ttl of that request.
THEOREM CacheAnswers == Spec => []CacheHonest
<1>1. ChatInv => CacheHonest
  BY DEF ChatInv, EntryHonest, HitHonest, CacheHonest
<1> QED
  BY <1>1, InitChat, NextChat, PTL DEF Spec

\* Every attempt in the log has raised its event, but for the one under way and
\* those that a stop of the process has cut off from theirs.
THEOREM NoEventMissed == Spec => []EventsMatchLog
<1>1. ChatInv => EventsMatchLog
  BY DEF ChatInv
<1> QED
  BY <1>1, InitChat, NextChat, PTL DEF Spec
-----------------------------------------------------------------------------
(***************************************************************************)
(* The types of all tables.  Ids are made in order, so a new one is not in *)
(* any table; and a chat counts one hit, after its lookup, at most.        *)
(***************************************************************************)
CountsOK ==
    /\ now \in 0 .. MaxTime /\ left \in 0 .. MaxAdmin /\ ids \in Nat
    /\ begun \in 0 .. MaxChats

CostsOK ==
    /\ \A r \in prices \cup budgets : r.id \in 1 .. ids
    /\ \A r, s \in prices : (r.provider = s.provider /\ r.model = s.model) \/ r.id = s.id => r = s
    /\ \A r, s \in budgets : (r.provider = s.provider /\ r.month = s.month) \/ r.id = s.id => r = s

HooksOK ==
    /\ DOMAIN hooks \subseteq 1 .. ids /\ inserted \subseteq 1 .. ids
    /\ deliveries \subseteq fired \X (1 .. ids)

CombosOK ==
    /\ conns \subseteq Provider /\ checked \in [Operator -> Model \cup {NoModel}]
    /\ \A c \in combos :
          /\ c.id \in 1 .. ids /\ c.models \in Seq(Model)
          /\ c.kind = "auto" => Len(c.models) \in 1 .. 3
    /\ \A c, d \in combos : c.id = d.id => c = d

HitsOK ==
    \A k \in DOMAIN cache :
       /\ cache[k].hits \in Nat
       /\ cache[k].hits + (IF chat.at = "lookup" THEN 1 ELSE 0) <= begun

TablesOK == CountsOK /\ CostsOK /\ HooksOK /\ CombosOK /\ HitsOK

\* Ids are only ever added.
LEMMA CountsStep ==
    ASSUME CountsOK, [Next]_vars
    PROVE  CountsOK' /\ ids <= ids' /\ ids' \in Nat
<1> USE AdminAssumption
<1>1. ASSUME NEW area, NEW n \in Nat, Asked(area, n), begun' = begun
      PROVE  CountsOK' /\ ids <= ids' /\ ids' \in Nat
  BY <1>1 DEF Asked, CountsOK
<1>2. ASSUME Goes, begun' = begun
      PROVE  CountsOK' /\ ids <= ids' /\ ids' \in Nat
  BY <1>2 DEF Goes, CountsOK
<1>3. CASE CostsNext
  <2>1. begun' = begun
    BY <1>3 DEF CostsNext, UpsertPricing, DeletePricing, UpsertBudget, DeleteBudget, chatVars
  <2>2. \E n \in Nat : Asked("costs", n)
    BY <1>3 DEF CostsNext, UpsertPricing, DeletePricing, UpsertBudget, DeleteBudget
  <2> QED
    BY <1>1, <2>1, <2>2
<1>4. CASE HooksNext
  <2>1. begun' = begun
    BY <1>4 DEF HooksNext, CreateWebhook, AuditWebhook, UpdateWebhook, DeleteWebhook, chatVars
  <2>2. Goes \/ \E n \in Nat : Asked("hooks", n)
    BY <1>4 DEF HooksNext, CreateWebhook, AuditWebhook, UpdateWebhook, DeleteWebhook
  <2> QED
    BY <1>1, <1>2, <2>1, <2>2
<1>5. CASE CombosNext
  <2>1. begun' = begun
    BY <1>5 DEF CombosNext, CreateCombo, DeleteCombo, Connection, AutoCreate, AutoCheck, AutoInsert,
                chatVars
  <2>2. \/ \E n \in Nat : Asked("combos", n)
        \/ ids' = ids + 1 /\ now' = now /\ left' = left
    BY <1>5 DEF CombosNext, CreateCombo, DeleteCombo, Connection, AutoCreate, AutoCheck, AutoInsert
  <2> QED
    BY <1>1, <2>1, <2>2 DEF CountsOK
<1>6. CASE CacheNext
  <2>1. begun' = begun /\ Asked("cache", 0)
    BY <1>6 DEF CacheNext, ListCache, ClearCache, DeleteCacheEntry
  <2> QED
    BY <1>1, <2>1
<1>7. CASE ModelsNext
  <2>1. begun' = begun /\ (Goes \/ Asked("models", 0))
    BY <1>7 DEF ModelsNext, LiveChange, SyncFetch, SyncStore, SyncAudit, chatVars
  <2> QED
    BY <1>1, <1>2, <2>1
<1>8. CASE ChatNext
  <2>1. ASSUME NEW rk \in Sent, Begin(rk[1], rk[2])
        PROVE  CountsOK' /\ ids <= ids' /\ ids' \in Nat
    BY <2>1 DEF Begin, Goes, CountsOK
  <2>2. ASSUME NEW d \in deliveries, Deliver(d)
        PROVE  CountsOK' /\ ids <= ids' /\ ids' \in Nat
    BY <1>2, <2>2 DEF Deliver
  <2>3. ASSUME NEW c \in Called, Failed(c) \/ \E t \in TokenCounts : Answered(c, t)
        PROVE  CountsOK' /\ ids <= ids' /\ ids' \in Nat
    <3>1. Goes /\ begun' = begun
      BY <2>3 DEF Failed, Answered
    <3> QED
      BY <1>2, <3>1
  <2>4. ASSUME Hit \/ Miss \/ Store \/ Dispatch \/ Leave \/ OtherRow
        PROVE  CountsOK' /\ ids <= ids' /\ ids' \in Nat
    <3>1. Goes /\ begun' = begun
      BY <2>4 DEF Hit, Miss, Store, Dispatch, Leave, OtherRow
    <3> QED
      BY <1>2, <3>1
  <2> QED
    BY <1>8, <2>1, <2>2, <2>3, <2>4 DEF ChatNext
<1>9. CASE Tick
  BY <1>9 DEF Tick, CountsOK, chatVars
<1>10. CASE UNCHANGED vars
  BY <1>10 DEF vars, chatVars, CountsOK
<1>11. CASE Restart
  BY <1>11 DEF Restart, CountsOK
<1> QED
  BY <1>3, <1>4, <1>5, <1>6, <1>7, <1>8, <1>9, <1>10, <1>11 DEF Next
LEMMA CostsStep ==
    ASSUME CountsOK, CostsOK, [Next]_vars
    PROVE  CostsOK'
<1>1. ids \in Nat /\ ids' \in Nat /\ ids <= ids'
  BY CountsStep DEF CountsOK
<1>2. ASSUME prices' \subseteq prices, budgets' \subseteq budgets PROVE CostsOK'
  <2>1. 1 .. ids \subseteq 1 .. ids'
    BY <1>1
  <2> QED
    BY <1>2, <2>1 DEF CostsOK
<1>3. ASSUME NEW b \in PriceBody, NEW given \in {0} \cup {r.id : r \in prices},
             UpsertPricing(b, given)
      PROVE  CostsOK'
  <2> DEFINE old == Exact(prices, b.provider, b.model)
             id == IF given = 0 THEN ids + 1 ELSE given
             new == {[id |-> i, provider |-> b.provider, model |-> b.model, price |-> b.price] :
                       i \in IF old = {} THEN {id} ELSE {r.id : r \in old}}
  <2>1. /\ budgets' = budgets
        /\ prices' = prices \/ (prices' = (prices \ old) \cup new
                                 /\ (old # {} \/ ~ \E r \in prices \ old : r.id = id))
        /\ ids' = ids + (IF given = 0 THEN 1 ELSE 0)
    BY <1>3 DEF UpsertPricing, Asked
  <2>2. CASE prices' = prices
    BY <1>2, <2>1, <2>2
  <2>3. CASE /\ prices' = (prices \ old) \cup new
             /\ old # {} \/ ~ \E r \in prices \ old : r.id = id
    <3>1. \A r \in prices : r.id \in 1 .. ids
      BY DEF CostsOK
    <3>2. id \in 1 .. ids'
      BY <1>1, <2>1, <3>1
    <3>3. \A r \in old : r \in prices /\ r.provider = b.provider /\ r.model = b.model
      BY DEF Exact
    <3>4. PICK j : /\ new = {[id |-> j, provider |-> b.provider, model |-> b.model, price |-> b.price]}
                   /\ j \in 1 .. ids' /\ \A r \in prices \ old : r.id # j
      <4>1. CASE old = {}
        BY <2>3, <3>2, <4>1
      <4>2. CASE old # {}
        <5>1. PICK r \in old : TRUE
          BY <4>2
        <5>2. \A s \in old : s = r
          BY <3>3 DEF CostsOK
        <5>3. {s.id : s \in old} = {r.id}
          BY <5>2
        <5>4. r.id \in 1 .. ids'
          BY <1>1, <3>1, <3>3
        <5>5. \A s \in prices \ old : s.id # r.id
          BY <3>3 DEF CostsOK
        <5> QED
          BY <4>2, <5>3, <5>4, <5>5
      <4> QED
        BY <4>1, <4>2
    <3>5. \A r \in prices \ old : ~ (r.provider = b.provider /\ r.model = b.model)
      BY DEF Exact
    <3> DEFINE row == [id |-> j, provider |-> b.provider, model |-> b.model, price |-> b.price]
    <3>6. prices' = (prices \ old) \cup {row} /\ row.id = j
          /\ row.provider = b.provider /\ row.model = b.model
      BY <2>3, <3>4
    <3> HIDE DEF row, new, old, id
    <3>7. \A r \in prices' \cup budgets' : r.id \in 1 .. ids'
      <4>1. 1 .. ids \subseteq 1 .. ids'
        BY <1>1
      <4> QED
        BY <2>1, <3>4, <3>6, <4>1 DEF CostsOK
    <3>8. \A r, s \in prices' :
             (r.provider = s.provider /\ r.model = s.model) \/ r.id = s.id => r = s
      BY <3>4, <3>5, <3>6 DEF CostsOK
    <3> QED
      BY <2>1, <3>7, <3>8 DEF CostsOK
  <2> QED
    BY <2>1, <2>2, <2>3
<1>4. ASSUME NEW b \in BudgetBody, UpsertBudget(b) PROVE CostsOK'
  <2> DEFINE old == {r \in budgets : r.provider = b.provider /\ r.month = b.month}
             new == {[id |-> i, provider |-> b.provider, month |-> b.month, limit |-> b.limit] :
                       i \in IF old = {} THEN {ids + 1} ELSE {r.id : r \in old}}
  <2>1. prices' = prices /\ budgets' = (budgets \ old) \cup new /\ ids' = ids + 1
    BY <1>4 DEF UpsertBudget, Asked
  <2>2. PICK j : /\ new = {[id |-> j, provider |-> b.provider, month |-> b.month, limit |-> b.limit]}
                 /\ j \in 1 .. ids' /\ \A r \in budgets \ old : r.id # j
    <3>1. CASE old = {}
      <4>1. \A r \in budgets : r.id # ids + 1
        BY <1>1 DEF CostsOK
      <4> QED
        BY <1>1, <2>1, <3>1, <4>1
    <3>2. CASE old # {}
      <4>1. PICK r \in old : TRUE
        BY <3>2
      <4>2. \A s \in old : s = r
        BY DEF CostsOK
      <4>3. {s.id : s \in old} = {r.id}
        BY <4>2
      <4>4. r.id \in 1 .. ids'
        BY <1>1, <2>1 DEF CostsOK
      <4>5. \A s \in budgets \ old : s.id # r.id
        BY DEF CostsOK
      <4> QED
        BY <3>2, <4>3, <4>4, <4>5
    <3> QED
      BY <3>1, <3>2
  <2>3. \A r \in budgets \ old : ~ (r.provider = b.provider /\ r.month = b.month)
    OBVIOUS
  <2> DEFINE row == [id |-> j, provider |-> b.provider, month |-> b.month, limit |-> b.limit]
  <2>4. budgets' = (budgets \ old) \cup {row} /\ row.id = j
        /\ row.provider = b.provider /\ row.month = b.month
    BY <2>1, <2>2
  <2> HIDE DEF row, new, old
  <2>5. \A r \in prices' \cup budgets' : r.id \in 1 .. ids'
    <3>1. 1 .. ids \subseteq 1 .. ids'
      BY <1>1
    <3> QED
      BY <2>1, <2>2, <2>4, <3>1 DEF CostsOK
  <2>6. \A r, s \in budgets' :
           (r.provider = s.provider /\ r.month = s.month) \/ r.id = s.id => r = s
    BY <2>2, <2>3, <2>4 DEF CostsOK
  <2> QED
    BY <2>1, <2>5, <2>6 DEF CostsOK
<1>5. ASSUME NEW id \in 1 .. ids, DeletePricing(id) \/ DeleteBudget(id) PROVE CostsOK'
  BY <1>2, <1>5 DEF DeletePricing, DeleteBudget
<1>6. CASE CostsNext
  BY <1>3, <1>4, <1>5, <1>6 DEF CostsNext
<1>7. CASE ~ CostsNext
  <2>1. UNCHANGED costVars
    <3>1. CASE HooksNext
      BY <3>1 DEF HooksNext, CreateWebhook, AuditWebhook, UpdateWebhook, DeleteWebhook
    <3>2. CASE CombosNext
      BY <3>2 DEF CombosNext, CreateCombo, DeleteCombo, Connection, AutoCreate, AutoCheck, AutoInsert
    <3>3. CASE CacheNext
      BY <3>3 DEF CacheNext, ListCache, ClearCache, DeleteCacheEntry
    <3>4. CASE ModelsNext
      BY <3>4 DEF ModelsNext, LiveChange, SyncFetch, SyncStore, SyncAudit
    <3>5. CASE ChatNext
      BY <3>5, ChatApart DEF AdminVars
    <3>6. CASE Tick
      BY <3>6 DEF Tick, AdminVars
    <3>7. CASE UNCHANGED vars
      BY <3>7 DEF vars
    <3>8. CASE Restart
      BY <3>8 DEF Restart
    <3> QED
      BY <1>7, <3>1, <3>2, <3>3, <3>4, <3>5, <3>6, <3>7, <3>8 DEF Next
  <2> QED
    BY <1>2, <2>1 DEF costVars
<1> QED
  BY <1>6, <1>7
LEMMA HooksStep ==
    ASSUME CountsOK, HooksOK, [Next]_vars
    PROVE  HooksOK'
<1>1. ids \in Nat /\ ids' \in Nat /\ ids <= ids'
  BY CountsStep DEF CountsOK
<1>2. 1 .. ids \subseteq 1 .. ids'
  BY <1>1
<1>3. ASSUME DOMAIN hooks' \subseteq DOMAIN hooks, inserted' \subseteq inserted,
             deliveries' \subseteq deliveries, fired' = fired
      PROVE  HooksOK'
  BY <1>2, <1>3 DEF HooksOK
<1>4. CASE HooksNext
  <2>1. ASSUME NEW b \in HookBody, CreateWebhook(b) PROVE HooksOK'
    <3>1. /\ ids' = ids + 1 /\ hooks' = With(hooks, ids + 1, b)
          /\ inserted' = inserted \cup {ids + 1} /\ UNCHANGED <<fired, deliveries>>
      BY <2>1 DEF CreateWebhook, Asked, chatVars
    <3>2. DOMAIN hooks' = DOMAIN hooks \cup {ids + 1}
      BY <3>1 DEF With
    <3> QED
      BY <1>1, <1>2, <3>1, <3>2 DEF HooksOK
  <2>2. ASSUME NEW b \in HookBody, NEW id \in 1 .. ids, UpdateWebhook(id, b) PROVE HooksOK'
    <3>1. DOMAIN hooks' = DOMAIN hooks /\ UNCHANGED <<inserted, fired, deliveries>>
      BY <2>2 DEF UpdateWebhook, chatVars
    <3> QED
      BY <1>3, <3>1
  <2>3. ASSUME NEW id \in 1 .. ids, AuditWebhook(id) PROVE HooksOK'
    BY <1>3, <2>3 DEF AuditWebhook, chatVars
  <2>4. ASSUME NEW id \in 1 .. ids, DeleteWebhook(id) PROVE HooksOK'
    <3>1. DOMAIN hooks' \subseteq DOMAIN hooks /\ UNCHANGED <<inserted, fired, deliveries>>
      BY <2>4 DEF DeleteWebhook, Without, chatVars
    <3> QED
      BY <1>3, <3>1
  <2> QED
    BY <1>4, <2>1, <2>2, <2>3, <2>4 DEF HooksNext
<1>5. CASE ChatNext
  <2>1. UNCHANGED <<hooks, inserted>>
    BY <1>5, ChatApart DEF AdminVars, hookVars
  <2>2. CASE Dispatch
    <3>1. /\ fired' = fired \cup {chat.row}
          /\ deliveries' = deliveries \cup
                {<<row, id>> : row \in {chat.row},
                               id \in Subscribed(IF log[chat.row].ok THEN "success" ELSE "error")}
      BY <2>2 DEF Dispatch, Dispatches
    <3>2. \A event : Subscribed(event) \subseteq 1 .. ids
      BY DEF Subscribed, HooksOK
    <3> QED
      BY <1>2, <2>1, <3>1, <3>2 DEF HooksOK
  <2>3. ASSUME NEW d \in deliveries, Deliver(d) PROVE HooksOK'
    BY <1>3, <2>1, <2>3 DEF Deliver
  <2>4. ASSUME NEW rk \in Sent, Begin(rk[1], rk[2]) PROVE HooksOK'
    BY <1>3, <2>1, <2>4 DEF Begin
  <2>5. ASSUME NEW c \in Called, Failed(c) \/ \E t \in TokenCounts : Answered(c, t) PROVE HooksOK'
    <3>1. UNCHANGED <<fired, deliveries>>
      BY <2>5 DEF Failed, Answered
    <3> QED
      BY <1>3, <2>1, <3>1
  <2>6. CASE Hit \/ Miss \/ Store \/ Leave \/ OtherRow
    <3>1. UNCHANGED <<fired, deliveries>>
      BY <2>6 DEF Hit, Miss, Store, Leave, OtherRow
    <3> QED
      BY <1>3, <2>1, <3>1
  <2> QED
    BY <1>5, <2>2, <2>3, <2>4, <2>5, <2>6 DEF ChatNext
<1>6. CASE Restart
  BY <1>3, <1>6 DEF Restart
<1>7. CASE ~ (HooksNext \/ ChatNext \/ Restart)
  <2>1. UNCHANGED <<hooks, inserted, fired, deliveries>>
    <3>1. CASE CostsNext
      BY <3>1 DEF CostsNext, UpsertPricing, DeletePricing, UpsertBudget, DeleteBudget,
                  hookVars, chatVars
    <3>2. CASE CombosNext
      BY <3>2 DEF CombosNext, CreateCombo, DeleteCombo, Connection, AutoCreate, AutoCheck, AutoInsert,
                  hookVars, chatVars
    <3>3. CASE CacheNext
      BY <3>3 DEF CacheNext, ListCache, ClearCache, DeleteCacheEntry, hookVars
    <3>4. CASE ModelsNext
      BY <3>4 DEF ModelsNext, LiveChange, SyncFetch, SyncStore, SyncAudit, hookVars, chatVars
    <3>5. CASE Tick
      BY <3>5 DEF Tick, AdminVars, hookVars, chatVars
    <3>6. CASE UNCHANGED vars
      BY <3>6 DEF vars, hookVars, chatVars
    <3> QED
      BY <1>7, <3>1, <3>2, <3>3, <3>4, <3>5, <3>6 DEF Next
  <2> QED
    BY <1>3, <2>1
<1> QED
  BY <1>4, <1>5, <1>6, <1>7

\* A hit is the one of the chat that has looked up.
LEMMA HitsStep ==
    ASSUME CountsOK, HitsOK, ChatInv, [Next]_vars
    PROVE  HitsOK'
<1>1. begun \in Nat
  BY AdminAssumption DEF CountsOK
<1>2. ASSUME begun' = begun, chat'.at = "lookup" => chat.at = "lookup",
             DOMAIN cache' \subseteq DOMAIN cache, \A k \in DOMAIN cache' : cache'[k] = cache[k]
      PROVE  HitsOK'
  BY <1>1, <1>2 DEF HitsOK
<1>3. CASE ChatNext
  <2>1. ASSUME NEW rk \in Sent, Begin(rk[1], rk[2]) PROVE HitsOK'
    <3>1. begun' = begun + 1 /\ cache' = cache
      BY <2>1 DEF Begin
    <3> QED
      BY <1>1, <3>1 DEF HitsOK
  <2>2. CASE Hit
    <3> DEFINE k == KeyOf[chat.req]
    <3>1. /\ chat.at = "lookup" /\ k \in DOMAIN cache /\ begun' = begun
          /\ cache' = [cache EXCEPT ![k].hits = @ + 1] /\ cache[k] \in Entry
      BY <2>2 DEF Hit, ChatInv, ChatTyped
    <3>2. chat'.at = "hit"
      <4>1. chat \in ChatRecord
        BY <3>1 DEF ChatInv, ChatTyped, NoChat
      <4>2. chat' = [chat EXCEPT !.at = "hit", !.row = cache[k].row,
                                 !.from = cache[k].req, !.age = now - cache[k].created]
        BY <2>2 DEF Hit
      <4> QED
        BY <4>1, <4>2 DEF ChatRecord
    <3>3. cache'[k].hits = cache[k].hits + 1
      BY <3>1 DEF Entry
    <3>4. DOMAIN cache' = DOMAIN cache /\ \A j \in DOMAIN cache : j # k => cache'[j] = cache[j]
      BY <3>1
    <3> QED
      BY <1>1, <3>1, <3>2, <3>3, <3>4 DEF HitsOK
  <2>3. CASE Miss
    <3>1. begun' = begun /\ chat.at = "lookup" /\ cache' = Without(cache, KeyOf[chat.req])
      BY <2>3 DEF Miss
    <3>2. DOMAIN cache' \subseteq DOMAIN cache /\ \A k \in DOMAIN cache' : cache'[k] = cache[k]
      BY <3>1 DEF Without
    <3> QED
      BY <1>2, <3>1, <3>2
  <2>4. CASE Store
    <3>1. /\ begun' = begun /\ chat.at = "logged" /\ chat'.at = "stored"
          /\ cache' = With(cache, KeyOf[chat.req],
                           [row |-> chat.row, created |-> now, expires |-> now + Ttl[chat.req],
                            hits |-> 0, req |-> chat.req])
      <4>1. chat \in ChatRecord
        BY <2>4 DEF Store, ChatInv, ChatTyped, NoChat
      <4> QED
        BY <2>4, <4>1 DEF Store, ChatRecord
    <3>2. ASSUME NEW j \in DOMAIN cache' PROVE cache'[j].hits \in Nat /\ cache'[j].hits <= begun
      <4>1. cache'[j].hits = 0 \/ (j \in DOMAIN cache /\ cache'[j] = cache[j])
        BY <3>1 DEF With
      <4> QED
        BY <1>1, <3>1, <4>1 DEF HitsOK
    <3> QED
      BY <3>1, <3>2, <1>1 DEF HitsOK
  <2>5. CASE Dispatch
    <3>1. begun' = begun /\ cache' = cache
      BY <2>5 DEF Dispatch
    <3>2. chat'.at \in {"idle", "calling"}
      <4>1. chat \in ChatRecord
        BY <2>5 DEF Dispatch, ChatInv, ChatTyped, NoChat
      <4>2. chat' = NoChat \/ chat' = [chat EXCEPT !.at = "calling", !.row = 0]
        BY <2>5 DEF Dispatch
      <4>3. CASE chat' = NoChat
        BY <4>3 DEF NoChat
      <4>4. CASE chat' = [chat EXCEPT !.at = "calling", !.row = 0]
        BY <4>1, <4>4 DEF ChatRecord
      <4> QED
        BY <4>2, <4>3, <4>4
    <3> QED
      BY <1>2, <3>1, <3>2
  <2>6. CASE Leave \/ OtherRow
    BY <1>2, <2>6 DEF Leave, OtherRow, NoChat
  <2>7. ASSUME NEW c \in Called, Failed(c) \/ \E t \in TokenCounts : Answered(c, t) PROVE HitsOK'
    <3>1. begun' = begun /\ cache' = cache /\ chat.at = "calling"
      BY <2>7 DEF Failed, Answered
    <3>2. chat \in ChatRecord
      BY <3>1 DEF ChatInv, ChatTyped, NoChat
    <3>3. chat' = [chat EXCEPT !.at = "logged", !.row = Len(log) + 1]
          \/ chat' = [chat EXCEPT !.at = "erred", !.row = Len(log) + 1]
      BY <2>7 DEF Failed, Answered
    <3>4. chat'.at \in {"logged", "erred"}
      BY <3>2, <3>3 DEF ChatRecord
    <3> QED
      BY <1>2, <3>1, <3>4
  <2>8. ASSUME NEW d \in deliveries, Deliver(d) PROVE HitsOK'
    BY <1>2, <2>8 DEF Deliver
  <2> QED
    BY <1>3, <2>1, <2>2, <2>3, <2>4, <2>5, <2>6, <2>7, <2>8 DEF ChatNext
<1>4. CASE CacheNext
  <2>1. begun' = begun /\ chat' = chat
    BY <1>4 DEF CacheNext, ListCache, ClearCache, DeleteCacheEntry
  <2>2. CASE ListCache
    BY <1>2, <2>1, <2>2 DEF ListCache
  <2>3. CASE ClearCache
    <3>1. DOMAIN cache' = {}
      BY <2>3 DEF ClearCache
    <3> QED
      BY <1>2, <2>1, <3>1
  <2>4. ASSUME NEW k \in DOMAIN cache, DeleteCacheEntry(k) PROVE HitsOK'
    <3>1. DOMAIN cache' \subseteq DOMAIN cache /\ \A j \in DOMAIN cache' : cache'[j] = cache[j]
      BY <2>4 DEF DeleteCacheEntry, Without
    <3> QED
      BY <1>2, <2>1, <3>1
  <2> QED
    BY <1>4, <2>2, <2>3, <2>4 DEF CacheNext
<1>5. CASE Restart
  BY <1>2, <1>5 DEF Restart, NoChat
<1>6. CASE ~ (ChatNext \/ CacheNext \/ Restart)
  <2>1. UNCHANGED <<cache, chat>>
    BY <1>6, OthersChat DEF Next
  <2>2. begun' = begun
    <3>1. CASE CostsNext
      BY <3>1 DEF CostsNext, UpsertPricing, DeletePricing, UpsertBudget, DeleteBudget, chatVars
    <3>2. CASE CombosNext
      BY <3>2 DEF CombosNext, CreateCombo, DeleteCombo, Connection, AutoCreate, AutoCheck, AutoInsert,
                  chatVars
    <3>3. CASE HooksNext
      BY <3>3 DEF HooksNext, CreateWebhook, AuditWebhook, UpdateWebhook, DeleteWebhook, chatVars
    <3>4. CASE ModelsNext
      BY <3>4 DEF ModelsNext, LiveChange, SyncFetch, SyncStore, SyncAudit, chatVars
    <3>5. CASE Tick
      BY <3>5 DEF Tick, chatVars
    <3>6. CASE UNCHANGED vars
      BY <3>6 DEF vars, chatVars
    <3> QED
      BY <1>6, <3>1, <3>2, <3>3, <3>4, <3>5, <3>6 DEF Next
  <2> QED
    BY <1>2, <2>1, <2>2
<1> QED
  BY <1>3, <1>4, <1>5, <1>6
-----------------------------------------------------------------------------
(***************************************************************************)
(* The chain of an automatic combo: the sort has a first place, since the  *)
(* scores have a greatest and the places a least.                          *)
(***************************************************************************)
Below == {ij \in Nat \X Nat : ij[1] < ij[2]}

\* A set of numbers has a least one.
LEMMA LeastNumber ==
    ASSUME NEW S \in SUBSET Nat, S # {}
    PROVE  \E n \in S : \A m \in S : n <= m
<1>1. IsWellFoundedOn(Below, Nat)
  BY NatLessThanWellFounded DEF OpToRel, Below
<1>2. PICK n \in S : \A m \in S : ~ (<<m, n>> \in Below)
  BY <1>1, WFMin
<1>3. ASSUME NEW m \in S PROVE n <= m
  <2>1. m \in Nat /\ n \in Nat /\ ~ (<<m, n>> \in Below)
    BY <1>2
  <2> QED
    BY <2>1 DEF Below
<1> QED
  BY <1>3

\* The least value that a function has.
LEMMA LeastValue ==
    ASSUME NEW S, S # {}, NEW f \in [S -> Nat]
    PROVE  \E a \in S : \A b \in S : f[a] <= f[b]
<1>1. {f[a] : a \in S} \in SUBSET Nat /\ {f[a] : a \in S} # {}
  OBVIOUS
<1>2. PICK n \in {f[a] : a \in S} : \A m \in {f[a] : a \in S} : n <= m
  BY <1>1, LeastNumber
<1> QED
  BY <1>2

Rank(best, a, b) ==
    \/ best[a] > best[b]
    \/ best[a] = best[b] /\ (a[1] < b[1] \/ (a[1] = b[1] /\ a[2] < b[2]))

LEMMA FirstPlace ==
    ASSUME NEW S \in SUBSET (Nat \X Nat), S # {}, NEW M \in Nat, NEW best \in [S -> 0 .. M]
    PROVE  \E a \in S : \A b \in S \ {a} : Rank(best, a, b)
<1> DEFINE f == [a \in S |-> M - best[a]]
           i == [a \in S |-> a[1]]
           j == [a \in S |-> a[2]]
<1>1. f \in [S -> Nat] /\ i \in [S -> Nat] /\ j \in [S -> Nat]
  OBVIOUS
<1>2. PICK x \in S : \A b \in S : f[x] <= f[b]
  BY <1>1, LeastValue
<1>3. \A b \in S : best[b] <= best[x] /\ best[b] \in Nat
  BY <1>2
<1> DEFINE T == {b \in S : best[b] = best[x]}
<1>4. T # {} /\ [a \in T |-> a[1]] \in [T -> Nat]
  OBVIOUS
<1>5. PICK y \in T : \A b \in T : y[1] <= b[1]
  <2> HIDE DEF T
  <2>1. PICK y \in T : \A b \in T : [a \in T |-> a[1]][y] <= [a \in T |-> a[1]][b]
    BY <1>4, LeastValue
  <2> QED
    BY <2>1
<1> DEFINE U == {b \in T : b[1] = y[1]}
<1>6. U # {} /\ [a \in U |-> a[2]] \in [U -> Nat]
  OBVIOUS
<1>7. PICK z \in U : \A b \in U : z[2] <= b[2]
  <2> HIDE DEF U
  <2>1. PICK z \in U : \A b \in U : [a \in U |-> a[2]][z] <= [a \in U |-> a[2]][b]
    BY <1>6, LeastValue
  <2> QED
    BY <2>1
<1>8. z \in S /\ best[z] = best[x] /\ z[1] = y[1]
  BY <1>7
<1>9. ASSUME NEW b \in S \ {z} PROVE Rank(best, z, b)
  <2>1. b \in Nat \X Nat /\ z \in Nat \X Nat /\ b # z
    BY <1>8, <1>9
  <2>2. b[1] # z[1] \/ b[2] # z[2]
    BY <2>1
  <2>3. CASE b \notin T
    <3>1. best[z] > best[b]
      BY <1>3, <1>8, <1>9, <2>3
    <3> QED
      BY <3>1 DEF Rank
  <2>4. CASE b \in T /\ b \notin U
    <3>1. best[z] = best[b] /\ z[1] < b[1]
      BY <1>5, <1>8, <2>1, <2>4
    <3> QED
      BY <3>1 DEF Rank
  <2>5. CASE b \in U
    <3>1. best[z] = best[b] /\ z[1] = b[1] /\ z[2] < b[2]
      BY <1>7, <1>8, <2>1, <2>2, <2>5
    <3> QED
      BY <3>1 DEF Rank
  <2> QED
    BY <2>3, <2>4, <2>5
<1> QED
  BY <1>8, <1>9

\* The highest score there is.
Highest == 6000

\* Health counts for 1800 at most, and everything for 6000.
LEMMA TotalBounded ==
    ASSUME NEW n \in Nat, NEW e \in Nat, e <= n,
           NEW c \in Nat, c <= 900, NEW u \in Nat, u <= 1500
    PROVE  Health(n, e) + Latency + c + Stability(n) + u \in 0 .. Highest
<1>1. Health(n, e) \in 0 .. 1800
  <2>1. CASE n > 0
    <3>1. PICK x \in Nat : x = 1800 * (n - e)
      OBVIOUS
    <3>2. x <= 1800 * n
      BY <3>1
    <3>3. x \div n \in 0 .. 1800
      BY <2>1, <3>2
    <3> QED
      BY <2>1, <3>1, <3>3 DEF Health
  <2>2. CASE ~ (n > 0)
    BY <2>2 DEF Health
  <2> QED
    BY <2>1, <2>2
<1>2. Stability(n) \in 0 .. 600
  <2>1. CASE n < 10
    <3>1. 60 * n \in 0 .. 600
      BY <2>1
    <3> QED
      BY <2>1, <3>1 DEF Stability
  <2>2. CASE ~ (n < 10)
    BY <2>2 DEF Stability
  <2> QED
    BY <2>1, <2>2
<1>3. PICK h \in Nat : h = Health(n, e) /\ h <= 1800
  BY <1>1
<1>4. PICK s \in Nat : s = Stability(n) /\ s <= 600
  BY <1>2
<1>5. h + 600 + c + s + u \in 0 .. Highest
  <2>1. h <= 1800 /\ s <= 600
    BY <1>3, <1>4
  <2> QED
    BY <2>1 DEF Highest
<1>6. h = Health(n, e)
  BY <1>3
<1>7. s = Stability(n)
  BY <1>4
<1> QED
  BY <1>5, <1>6, <1>7 DEF Latency

LEMMA ScoreBounded ==
    ASSUME log \in Seq(Row), NEW p
    PROVE  Score(log, conns, p) \in 0 .. Highest
<1> DEFINE R == Requests(log, p)
           E == Errors(log, p)
<1>1. R \subseteq 1 .. Len(log) /\ Len(log) \in Nat /\ E \subseteq R
  BY DEF Requests, Errors
<1>2. Cardinality(E) <= Cardinality(R) /\ Cardinality(R) \in Nat /\ Cardinality(E) \in Nat
  <2> HIDE DEF R, E
  <2>1. PICK len \in Nat : len = Len(log)
    BY <1>1
  <2>2. IsFiniteSet(1 .. len) /\ R \subseteq 1 .. len
    BY <1>1, <2>1, FS_Interval
  <2>3. IsFiniteSet(R)
    BY <2>2, FS_Subset
  <2> QED
    BY <1>1, <2>3, FS_Subset, FS_CardinalityType
<1>3. Score(log, conns, p) = Health(Cardinality(R), Cardinality(E)) + Latency + CostInv(p)
                             + Stability(Cardinality(R)) + Connected(p, conns)
  BY DEF Score
<1>4. /\ CostInv(p) \in Nat /\ CostInv(p) <= 900
      /\ Connected(p, conns) \in Nat /\ Connected(p, conns) <= 1500
  BY DEF CostInv, Connected
<1> HIDE DEF R, E
<1>5. PICK n \in Nat, e \in Nat : n = Cardinality(R) /\ e = Cardinality(E) /\ e <= n
  BY <1>2
<1>6. PICK c \in Nat, u \in Nat :
         c = CostInv(p) /\ c <= 900 /\ u = Connected(p, conns) /\ u <= 1500
  BY <1>4
<1>7. Health(n, e) + Latency + c + Stability(n) + u \in 0 .. Highest
  <2>1. e <= n /\ c <= 900 /\ u <= 1500
    BY <1>5, <1>6
  <2> QED
    BY <2>1, TotalBounded
<1>8. n = Cardinality(R)
  BY <1>5
<1>9. e = Cardinality(E)
  BY <1>5
<1>10. c = CostInv(p)
  BY <1>6
<1>11. u = Connected(p, conns)
  BY <1>6
<1> QED
  BY <1>3, <1>7, <1>8, <1>9, <1>10, <1>11

LEMMA BestBounded ==
    ASSUME log \in Seq(Row), NEW m \in Model
    PROVE  Best(m, log, conns) \in 0 .. Highest
<1>1. CASE Ranked(m, log, conns) = <<>>
  <2>1. Best(m, log, conns) = 0
    BY <1>1, Zenon DEF Best
  <2>2. 0 \in 0 .. Highest
    BY DEF Highest
  <2> QED
    BY <2>1, <2>2
<1>2. CASE Ranked(m, log, conns) # <<>>
  <2>1. PICK p \in {Head(Ranked(m, log, conns))} : p = Head(Ranked(m, log, conns))
    OBVIOUS
  <2>2. Score(log, conns, p) \in 0 .. Highest
    BY ScoreBounded
  <2>3. Best(m, log, conns) = Score(log, conns, p)
    BY <1>2, <2>1, Zenon DEF Best
  <2> QED
    BY <2>2, <2>3
<1> QED
  BY <1>1, <1>2

\* suggest_chain: the model and at most two places of free models.
LEMMA ChainTyped ==
    ASSUME log \in Seq(Row), NEW m \in Model
    PROVE  SuggestChain(m, log, conns) \in Seq(Model) /\ Len(SuggestChain(m, log, conns)) \in 1 .. 3
<1> DEFINE Places == {ij \in Nat \X Nat : ModelAt(ij) \in Model}
<1>1. Fallbacks(m, conns) \in SUBSET Places
  <2>1. Catalogue \in Seq([provider : Provider, noauth : BOOLEAN, models : Seq(Model)])
    BY AdminAssumption DEF AdminAssumption, AutoComboAssumption
  <2>2. ASSUME NEW ij \in Fallbacks(m, conns) PROVE ij \in Places
    <3>0. ASSUME NEW R, Catalogue \in Seq(R), NEW i \in DOMAIN Catalogue PROVE Catalogue[i] \in R
      BY <3>0
    <3>1. PICK i \in DOMAIN Catalogue, j \in 1 .. 6 : ij = <<i, j>> /\ j \in DOMAIN Catalogue[i].models
      BY <2>2 DEF Fallbacks
    <3>2. i \in Nat
      BY <2>1, <3>1
    <3>3. Catalogue[i] \in [provider : Provider, noauth : BOOLEAN, models : Seq(Model)]
      BY <2>1, <3>0
    <3>4. Catalogue[i].models \in Seq(Model)
      BY <3>3
    <3>5. Catalogue[i].models[j] \in Model
      BY <3>1, <3>4
    <3>6. ij \in Nat \X Nat /\ ij[1] = i /\ ij[2] = j
      BY <3>1, <3>2
    <3> QED
      BY <3>5, <3>6 DEF ModelAt
  <2> QED
    BY <2>2
<1>2. ASSUME NEW S \in SUBSET Places, S # {} PROVE Foremost(S, log, conns) \in S
  <2>1. ASSUME NEW ij \in S PROVE Best(ModelAt(ij), log, conns) \in 0 .. Highest
    <3>1. PICK model \in Model : model = ModelAt(ij)
      OBVIOUS
    <3>2. Best(model, log, conns) \in 0 .. Highest
      BY BestBounded
    <3> QED
      BY <3>1, <3>2
  <2>2. [ij \in S |-> Best(ModelAt(ij), log, conns)] \in [S -> 0 .. Highest]
    <3> HIDE DEF Places
    <3> QED
      BY <2>1
  <2>3. PICK best \in [S -> 0 .. Highest] : best = [ij \in S |-> Best(ModelAt(ij), log, conns)]
    BY <2>2, Zenon
  <2>4. \E a \in S : \A b \in S \ {a} : Rank(best, a, b)
    <3>1. S \in SUBSET (Nat \X Nat)
      OBVIOUS
    <3>2. Highest \in Nat
      BY DEF Highest
    <3> HIDE DEF Places
    <3> QED
      BY <1>2, <3>1, <3>2, FirstPlace
  <2>5. \E a \in S : \A b \in S \ {a} :
           \/ Best(ModelAt(a), log, conns) > Best(ModelAt(b), log, conns)
           \/ /\ Best(ModelAt(a), log, conns) = Best(ModelAt(b), log, conns)
              /\ a[1] < b[1] \/ (a[1] = b[1] /\ a[2] < b[2])
    BY <2>3, <2>4 DEF Rank
  <2> QED
    BY <2>5 DEF Foremost
<1>3. ASSUME NEW S \in SUBSET Places
      PROVE  First(S, log, conns) \in Seq(Model) /\ Len(First(S, log, conns)) \in 0 .. 1
  <2>1. CASE S = {}
    BY <2>1 DEF First
  <2>2. CASE S # {}
    <3>1. ModelAt(Foremost(S, log, conns)) \in Model
      BY <1>2, <2>2
    <3> QED
      BY <2>2, <3>1 DEF First
  <2> QED
    BY <2>1, <2>2
<1>4. Later(Fallbacks(m, conns), log, conns) \in SUBSET Places
  BY <1>1 DEF Later
<1> HIDE DEF Places
<1>5. PICK a \in Seq(Model) : a = First(Fallbacks(m, conns), log, conns) /\ Len(a) \in 0 .. 1
  BY <1>1, <1>3
<1>6. PICK b \in Seq(Model) : b = First(Later(Fallbacks(m, conns), log, conns), log, conns)
                              /\ Len(b) \in 0 .. 1
  BY <1>3, <1>4
<1>7. SuggestChain(m, log, conns) = <<m>> \o a \o b
  BY <1>5, <1>6 DEF SuggestChain
<1>8. PICK ma \in Seq(Model) : ma = <<m>> \o a /\ Len(ma) = 1 + Len(a)
  <2>1. <<m>> \o a \in Seq(Model) /\ Len(<<m>> \o a) = 1 + Len(a)
    OBVIOUS
  <2> QED
    BY <2>1
<1>9. PICK c \in Seq(Model) : c = ma \o b /\ Len(c) = Len(ma) + Len(b)
  <2>1. ma \o b \in Seq(Model) /\ Len(ma \o b) = Len(ma) + Len(b)
    OBVIOUS
  <2> QED
    BY <2>1
<1>10. SuggestChain(m, log, conns) = c
  BY <1>7, <1>8, <1>9
<1>11. Len(c) \in 1 .. 3
  <2>1. Len(a) \in 0 .. 1 /\ Len(b) \in 0 .. 1
    BY <1>5, <1>6
  <2>2. Len(c) = (1 + Len(a)) + Len(b)
    BY <1>8, <1>9
  <2>3. \A x, y \in 0 .. 1 : (1 + x) + y \in 1 .. 3
    OBVIOUS
  <2> QED
    BY <2>1, <2>2, <2>3, Zenon
<1> QED
  BY <1>10, <1>11

LEMMA CombosStep ==
    ASSUME CountsOK, CombosOK, log \in Seq(Row), [Next]_vars
    PROVE  CombosOK'
<1>1. ids \in Nat /\ ids' \in Nat /\ ids <= ids'
  BY CountsStep DEF CountsOK
<1>2. 1 .. ids \subseteq 1 .. ids'
  BY <1>1
<1>3. ASSUME conns' \subseteq Provider, checked' \in [Operator -> Model \cup {NoModel}],
             combos' \subseteq combos
      PROVE  CombosOK'
  BY <1>2, <1>3 DEF CombosOK
\* A new row has a new id.
<1>4. ASSUME NEW c, c.id = ids + 1, c.models \in Seq(Model),
             c.kind = "auto" => Len(c.models) \in 1 .. 3,
             ids' = ids + 1, combos' = combos \cup {c},
             conns' = conns, checked' \in [Operator -> Model \cup {NoModel}]
      PROVE  CombosOK'
  <2>1. \A d \in combos : d.id # ids + 1
    BY <1>1 DEF CombosOK
  <2>2. ids + 1 \in 1 .. ids'
    BY <1>1, <1>4
  <2> QED
    BY <1>2, <1>4, <2>1, <2>2 DEF CombosOK
<1>5. ASSUME NEW m \in Model, ids' = ids + 1, combos' = combos \cup {AutoRow(m, ids + 1)},
             conns' = conns, checked' \in [Operator -> Model \cup {NoModel}]
      PROVE  CombosOK'
  <2>1. PICK chain \in Seq(Model) : chain = SuggestChain(m, log, conns) /\ Len(chain) \in 1 .. 3
    BY ChainTyped
  <2>2. AutoRow(m, ids + 1).id = ids + 1 /\ AutoRow(m, ids + 1).models = chain
    BY <2>1 DEF AutoRow
  <2> QED
    BY <1>4, <1>5, <2>1, <2>2
<1>6. CASE CombosNext
  <2>1. ASSUME NEW b \in ComboBody, CreateCombo(b) PROVE CombosOK'
    <3> DEFINE c == [id |-> ids + 1, name |-> b.name, kind |-> "model", models |-> b.models]
    <3>1. /\ ids' = ids + 1 /\ combos' = combos \cup {c} /\ UNCHANGED <<conns, checked>>
      BY <2>1 DEF CreateCombo, Asked
    <3>2. c.id = ids + 1 /\ c.models \in Seq(Model) /\ c.kind # "auto"
      BY AdminAssumption
    <3> HIDE DEF c
    <3> QED
      BY <1>4, <3>1, <3>2 DEF CombosOK
  <2>2. ASSUME NEW id \in 1 .. ids, DeleteCombo(id) PROVE CombosOK'
    BY <1>3, <2>2 DEF DeleteCombo, CombosOK
  <2>3. ASSUME NEW p \in Provider, Connection(p) PROVE CombosOK'
    BY <1>3, <2>3 DEF Connection, CombosOK
  <2>4. ASSUME NEW m \in Model, AutoCreate(m) PROVE CombosOK'
    <3>1. /\ ids' = ids + 1 /\ UNCHANGED <<conns, checked>>
          /\ combos' = combos \/ combos' = combos \cup {AutoRow(m, ids + 1)}
      BY <2>4 DEF AutoCreate, Asked
    <3> QED
      BY <1>3, <1>5, <3>1 DEF CombosOK
  <2>5. ASSUME NEW m \in Model, NEW o \in Operator, AutoCheck(o, m) PROVE CombosOK'
    BY <1>3, <2>5 DEF AutoCheck, CombosOK
  <2>6. ASSUME NEW o \in Operator, AutoInsert(o) PROVE CombosOK'
    <3>1. /\ checked[o] \in Model /\ ids' = ids + 1 /\ conns' = conns
          /\ combos' = combos \cup {AutoRow(checked[o], ids + 1)}
          /\ checked' = [checked EXCEPT ![o] = NoModel]
      BY <2>6 DEF AutoInsert, CombosOK
    <3>2. checked' \in [Operator -> Model \cup {NoModel}]
      BY <3>1 DEF CombosOK
    <3>3. PICK m \in Model : m = checked[o]
      BY <3>1
    <3> QED
      BY <1>5, <3>1, <3>2, <3>3
  <2> QED
    BY <1>6, <2>1, <2>2, <2>3, <2>4, <2>5, <2>6 DEF CombosNext
<1>7. CASE Restart
  BY <1>3, <1>7 DEF Restart, CombosOK
<1>8. CASE ~ (CombosNext \/ Restart)
  <2>1. UNCHANGED comboVars
    BY <1>8, OthersAuto DEF Next
  <2> QED
    BY <1>3, <2>1 DEF comboVars, CombosOK
<1> QED
  BY <1>6, <1>7, <1>8

LEMMA InitTables == Init => TablesOK
<1> SUFFICES ASSUME Init PROVE TablesOK
  OBVIOUS
<1>1. CountsOK
  BY AdminAssumption DEF Init, CountsOK
<1>2. CostsOK
  BY DEF Init, CostsOK
<1>3. HooksOK
  <2>1. DOMAIN hooks = {}
    BY DEF Init
  <2> QED
    BY <2>1 DEF Init, HooksOK
<1>4. CombosOK
  BY DEF Init, CombosOK
<1>5. HitsOK
  <2>1. DOMAIN cache = {}
    BY DEF Init
  <2> QED
    BY <2>1 DEF HitsOK
<1> QED
  BY <1>1, <1>2, <1>3, <1>4, <1>5 DEF TablesOK

\* The tables of administrators and chats stay typed, whoever edits them and in
\* which order: prices, budgets and combos have distinct keys and ids, deliveries
\* are of rows whose event was raised, a cached answer has a row and no more hits
\* than there were chats, and an automatic chain has three models at most.
THEOREM TypeCorrect == Spec => []TypeOK
<1>1. Init => TablesOK /\ ChatInv /\ SyncInv
  BY InitTables, InitChat, InitSync
<1>2. TablesOK /\ ChatInv /\ SyncInv /\ [Next]_vars => (TablesOK /\ ChatInv /\ SyncInv)'
  <2> SUFFICES ASSUME TablesOK, ChatInv, SyncInv, [Next]_vars
               PROVE  TablesOK' /\ ChatInv' /\ SyncInv'
    OBVIOUS
  <2>1. CountsOK /\ CostsOK /\ HooksOK /\ CombosOK /\ HitsOK /\ log \in Seq(Row)
    BY DEF TablesOK, ChatInv, ChatTyped
  <2>2. CountsOK' /\ CostsOK' /\ HooksOK' /\ CombosOK' /\ HitsOK'
    BY <2>1, CountsStep, CostsStep, HooksStep, CombosStep, HitsStep
  <2> QED
    BY <2>2, NextChat, NextSync DEF TablesOK
<1>3. TablesOK /\ ChatInv /\ SyncInv => TypeOK
  <2> SUFFICES ASSUME TablesOK, ChatInv, SyncInv PROVE TypeOK
    OBVIOUS
  <2>1. now \in 0 .. MaxTime /\ left \in 0 .. MaxAdmin /\ ids \in Nat /\ log \in Seq(Row)
    BY DEF TablesOK, CountsOK, ChatInv, ChatTyped
  <2>2. fired \subseteq DOMAIN log /\ cut \subseteq DOMAIN log
    BY DEF ChatInv, EventsMatchLog, CutHonest
  <2>3. \A k \in DOMAIN cache : cache[k].row \in DOMAIN log /\ cache[k].hits \in 0 .. MaxChats
    <3> SUFFICES ASSUME NEW k \in DOMAIN cache
                 PROVE  cache[k].row \in DOMAIN log /\ cache[k].hits \in 0 .. MaxChats
      OBVIOUS
    <3>1. cache[k].row \in DOMAIN log
      BY DEF ChatInv, EntryHonest
    <3>2. cache[k].hits \in Nat /\ cache[k].hits <= begun /\ begun \in 0 .. MaxChats
      BY AdminAssumption DEF TablesOK, HitsOK, CountsOK
    <3> QED
      BY <3>1, <3>2, AdminAssumption
  <2>4. chat.at \in {"idle", "lookup", "hit", "calling", "logged", "erred", "stored"}
    BY DEF ChatInv, ChatTyped, NoChat, ChatRecord
  <2>5. live \in ModelList /\ synced \in ModelList
    BY DEF SyncInv, SyncTyped
  <2>6. /\ \A r, s \in prices :
              (r.provider = s.provider /\ r.model = s.model) \/ r.id = s.id => r = s
        /\ \A r, s \in budgets :
              (r.provider = s.provider /\ r.month = s.month) \/ r.id = s.id => r = s
    BY DEF TablesOK, CostsOK
  <2>7. /\ DOMAIN hooks \subseteq 1 .. ids /\ inserted \subseteq 1 .. ids
        /\ deliveries \subseteq fired \X (1 .. ids)
    BY DEF TablesOK, HooksOK
  <2>8. /\ \A c, d \in combos : c.id = d.id => c = d
        /\ \A c \in combos : c.models \in Seq(Model) /\ (c.kind = "auto" => Len(c.models) \in 1 .. 3)
        /\ conns \subseteq Provider
    BY DEF TablesOK, CombosOK
  <2> QED
    BY <2>1, <2>2, <2>3, <2>4, <2>5, <2>6, <2>7, <2>8 DEF TypeOK
<1> QED
  BY <1>1, <1>2, <1>3, PTL DEF Spec
-----------------------------------------------------------------------------
(***************************************************************************)
(* Sums.  A sum is the number of pairs that Units makes of a function, so  *)
(* that sums are compared by comparing finite sets: no induction is needed.*)
(***************************************************************************)
\* The units of a sum, one by one.
LEMMA UnitsAre ==
    ASSUME NEW S, NEW f \in [S -> Nat]
    PROVE  Units(f) = {e \in S \X Nat : e[2] \in 1 .. f[e[1]]}
<1> DEFINE E == {e \in S \X Nat : e[2] \in 1 .. f[e[1]]}
<1>1. ASSUME NEW e \in Units(f) PROVE e \in E
  <2>1. PICK x \in S : e \in {x} \X (1 .. f[x])
    BY <1>1 DEF Units
  <2>2. f[x] \in Nat
    OBVIOUS
  <2> QED
    BY <2>1, <2>2
<1>2. ASSUME NEW e \in E PROVE e \in Units(f)
  <2>1. e[1] \in S /\ e \in {e[1]} \X (1 .. f[e[1]])
    OBVIOUS
  <2> QED
    BY <2>1 DEF Units
<1> QED
  BY <1>1, <1>2

\* So many units from one to a number, and a set of that many pairs.
LEMMA UpTo ==
    ASSUME NEW n \in Nat
    PROVE  IsFiniteSet(1 .. n) /\ Cardinality(1 .. n) = n
<1>1. 1 \in Int /\ n \in Int /\ (IF 1 > n THEN 0 ELSE n - 1 + 1) = n
  OBVIOUS
<1> QED
  BY <1>1, FS_Interval

LEMMA Pairs ==
    ASSUME NEW S, IsFiniteSet(S), NEW n \in Nat
    PROVE  /\ IsFiniteSet((1 .. n) \X S) /\ Cardinality((1 .. n) \X S) = n * Cardinality(S)
           /\ IsFiniteSet(S \X (1 .. n)) /\ Cardinality(S \X (1 .. n)) = n * Cardinality(S)
<1>1. IsFiniteSet(1 .. n) /\ Cardinality(1 .. n) = n
  BY UpTo
<1>2. /\ IsFiniteSet((1 .. n) \X S)
      /\ Cardinality((1 .. n) \X S) = Cardinality(1 .. n) * Cardinality(S)
  BY <1>1, FS_Product
<1>3. /\ IsFiniteSet(S \X (1 .. n))
      /\ Cardinality(S \X (1 .. n)) = Cardinality(S) * Cardinality(1 .. n)
  BY <1>1, FS_Product
<1>4. Cardinality(S) \in Nat
  BY FS_CardinalityType
<1>5. Cardinality(S) * n = n * Cardinality(S)
  BY <1>4
<1> QED
  BY <1>1, <1>2, <1>3, <1>5

\* The units of one value.
LEMMA Column ==
    ASSUME NEW x, NEW n \in Nat
    PROVE  IsFiniteSet({x} \X (1 .. n)) /\ Cardinality({x} \X (1 .. n)) = n
<1>1. IsFiniteSet({x}) /\ Cardinality({x}) = 1
  BY FS_Singleton
<1>2. IsFiniteSet({x} \X (1 .. n)) /\ Cardinality({x} \X (1 .. n)) = n * 1
  BY <1>1, Pairs
<1> QED
  BY <1>2

\* A sum counts the members of a finite set, if it has so many of each kind.
LEMMA Counting ==
    ASSUME NEW S, NEW f \in [S -> Nat], NEW T, IsFiniteSet(T), NEW kind \in [T -> S],
           \A x \in S : Cardinality({t \in T : kind[t] = x}) = f[x]
    PROVE  IsFiniteSet(Units(f)) /\ SumOf(f) = Cardinality(T) /\ SumOf(f) \in Nat
<1> DEFINE Of(x) == {t \in T : kind[t] = x}
<1>1. ASSUME NEW x \in S PROVE \E b : b \in Bijection(1 .. f[x], Of(x))
  <2>1. IsFiniteSet(Of(x))
    BY FS_Subset
  <2> QED
    BY <2>1, FS_CardinalityType DEF ExistsBijection
<1> DEFINE B == [x \in S |-> CHOOSE b : b \in Bijection(1 .. f[x], Of(x))]
<1>2. \A x \in S : B[x] \in Bijection(1 .. f[x], Of(x))
  BY <1>1
<1> HIDE DEF B
<1>3. /\ \A x \in S : \A k \in 1 .. f[x] : B[x][k] \in T /\ kind[B[x][k]] = x
      /\ \A x \in S : \A k, j \in 1 .. f[x] : B[x][k] = B[x][j] => k = j
      /\ \A x \in S : \A t \in Of(x) : \E k \in 1 .. f[x] : B[x][k] = t
  BY <1>2 DEF Bijection, Injection, Surjection, IsInjective
<1> DEFINE F == [e \in Units(f) |-> B[e[1]][e[2]]]
<1>4. \A e \in Units(f) : e[1] \in S /\ e[2] \in 1 .. f[e[1]] /\ e = <<e[1], e[2]>>
  BY UnitsAre
<1>5. \A e \in Units(f) : F[e] \in T /\ kind[F[e]] = e[1]
  BY <1>3, <1>4
<1>6. ASSUME NEW e \in Units(f), NEW d \in Units(f), F[e] = F[d] PROVE e = d
  <2>1. e[1] = d[1]
    BY <1>5, <1>6
  <2>2. e[2] = d[2]
    BY <1>3, <1>4, <1>6, <2>1
  <2> QED
    BY <1>4, <2>1, <2>2
<1>7. ASSUME NEW t \in T PROVE \E e \in Units(f) : F[e] = t
  <2>1. kind[t] \in S /\ t \in Of(kind[t])
    OBVIOUS
  <2>2. PICK k \in 1 .. f[kind[t]] : B[kind[t]][k] = t
    BY <1>3, <2>1
  <2>3. <<kind[t], k>> \in Units(f)
    BY <2>1, UnitsAre
  <2> QED
    BY <2>2, <2>3
<1>8. F \in [Units(f) -> T]
  BY <1>5
<1> HIDE DEF F
<1>9. F \in Injection(Units(f), T)
  BY <1>6, <1>8 DEF Injection, IsInjective
<1>10. F \in Surjection(Units(f), T)
  BY <1>7, <1>8 DEF Surjection
<1>11. IsFiniteSet(Units(f)) /\ Cardinality(Units(f)) = Cardinality(T)
  BY <1>9, <1>10, FS_Injection
<1> QED
  BY <1>11, FS_CardinalityType DEF SumOf

\* A sum of finitely many values is a number.
LEMMA UnitsFinite ==
    ASSUME NEW S, IsFiniteSet(S), NEW f \in [S -> Nat]
    PROVE  IsFiniteSet(Units(f)) /\ SumOf(f) \in Nat
<1> DEFINE g == [x \in S |-> {x} \X (1 .. f[x])]
           parts == {g[x] : x \in S}
<1>1. IsFiniteSet(parts)
  <2>1. g \in Surjection(S, parts)
    BY DEF Surjection
  <2> QED
    BY <2>1, FS_Surjection
<1>2. \A p \in parts : IsFiniteSet(p)
  <2> SUFFICES ASSUME NEW x \in S PROVE IsFiniteSet({x} \X (1 .. f[x]))
    OBVIOUS
  <2>1. PICK n \in Nat : n = f[x]
    OBVIOUS
  <2> QED
    BY <2>1, Column
<1>3. Units(f) = UNION parts
  BY DEF Units
<1>4. IsFiniteSet(Units(f))
  <2> HIDE DEF parts
  <2> QED
    BY <1>1, <1>2, <1>3, FS_UNION
<1> QED
  BY <1>4, FS_CardinalityType DEF SumOf

\* A sum is the sum of the sums of its parts.
PartSums(S, f, G, part, h) ==
    /\ IsFiniteSet(S) /\ f \in [S -> Nat] /\ part \in [S -> G] /\ h \in [G -> Nat]
    /\ \A g \in G : h[g] = SumOf([x \in {y \in S : part[y] = g} |-> f[x]])

LEMMA SumByParts ==
    ASSUME NEW S, NEW f, NEW G, NEW part, NEW h, PartSums(S, f, G, part, h)
    PROVE  SumOf(h) = SumOf(f) /\ SumOf(h) \in Nat
<1>0. IsFiniteSet(S) /\ f \in [S -> Nat] /\ part \in [S -> G] /\ h \in [G -> Nat]
  BY DEF PartSums
<1> DEFINE T == Units(f)
           kind == [e \in T |-> part[e[1]]]
<1>1. \A e \in T : e[1] \in S
  BY <1>0, UnitsAre
<1>2. kind \in [T -> G]
  BY <1>0, <1>1
<1>3. ASSUME NEW g \in G PROVE Cardinality({e \in T : kind[e] = g}) = h[g]
  <2> DEFINE P == {y \in S : part[y] = g}
             r == [x \in P |-> f[x]]
  <2>1. r \in [P -> Nat]
    BY <1>0
  <2>2. Units(r) = {e \in P \X Nat : e[2] \in 1 .. r[e[1]]}
    BY <2>1, UnitsAre
  <2>3. T = {e \in S \X Nat : e[2] \in 1 .. f[e[1]]}
    BY <1>0, UnitsAre
  <2>4. Units(r) = {e \in T : kind[e] = g}
    BY <2>2, <2>3
  <2>5. h[g] = SumOf(r)
    BY DEF PartSums
  <2> QED
    BY <2>4, <2>5 DEF SumOf
<1>4. IsFiniteSet(T)
  BY <1>0, UnitsFinite
<1> HIDE DEF T, kind
<1>5. SumOf(h) = Cardinality(T) /\ SumOf(h) \in Nat
  BY <1>0, <1>2, <1>3, <1>4, Counting
<1> QED
  BY <1>5 DEF T, SumOf

\* n times each value is n times the sum.
LEMMA SumOfMultiples ==
    ASSUME NEW S, IsFiniteSet(S), NEW f \in [S -> Nat], NEW n \in Nat
    PROVE  SumOf([x \in S |-> n * f[x]]) = n * SumOf(f)
<1> DEFINE T == (1 .. n) \X Units(f)
           kind == [t \in T |-> t[2][1]]
           g == [x \in S |-> n * f[x]]
<1>1. IsFiniteSet(1 .. n) /\ Cardinality(1 .. n) = n
  BY FS_Interval
<1>2. IsFiniteSet(T) /\ Cardinality(T) = n * SumOf(f)
  BY <1>1, UnitsFinite, FS_Product DEF SumOf
<1>3. g \in [S -> Nat] /\ kind \in [T -> S]
  BY UnitsAre
<1>4. ASSUME NEW x \in S PROVE Cardinality({t \in T : kind[t] = x}) = g[x]
  <2> DEFINE U == {x} \X (1 .. f[x])
  <2>1. {t \in T : kind[t] = x} = (1 .. n) \X U
    BY UnitsAre
  <2>2. PICK m \in Nat : m = f[x]
    OBVIOUS
  <2>3. IsFiniteSet(U) /\ Cardinality(U) = m
    BY <2>2, Column
  <2> HIDE DEF U
  <2>4. Cardinality((1 .. n) \X U) = n * m
    BY <2>3, Pairs
  <2> QED
    BY <2>1, <2>2, <2>4
<1> HIDE DEF T, kind, g
<1>5. SumOf(g) = Cardinality(T)
  BY <1>2, <1>3, <1>4, Counting
<1> QED
  BY <1>2, <1>5 DEF g

\* Values that are at most d more make a sum that is at most d more for each.
LEMMA SumWithin ==
    ASSUME NEW S, IsFiniteSet(S), NEW f \in [S -> Nat], NEW g \in [S -> Nat], NEW d \in Nat,
           \A x \in S : f[x] <= g[x] + d
    PROVE  SumOf(f) <= SumOf(g) + d * Cardinality(S)
<1> DEFINE D == S \X (1 .. d)
           T == Units(g) \X {0} \cup D \X {1}
           kind == [t \in T |-> t[1][1]]
           h == [x \in S |-> g[x] + d]
<1>1. IsFiniteSet(D) /\ Cardinality(D) = d * Cardinality(S)
  BY Pairs
<1>2. ASSUME NEW A, IsFiniteSet(A), NEW i
      PROVE  IsFiniteSet(A \X {i}) /\ Cardinality(A \X {i}) = Cardinality(A)
  <2>1. IsFiniteSet({i}) /\ Cardinality({i}) = 1
    BY FS_Singleton
  <2>2. IsFiniteSet(A \X {i}) /\ Cardinality(A \X {i}) = Cardinality(A) * Cardinality({i})
    BY <1>2, <2>1, FS_Product
  <2>3. Cardinality(A) \in Nat
    BY <1>2, FS_CardinalityType
  <2>4. Cardinality(A) * 1 = Cardinality(A)
    BY <2>3
  <2> QED
    BY <2>1, <2>2, <2>4
<1>3. ASSUME NEW A, NEW B, IsFiniteSet(A), IsFiniteSet(B)
      PROVE  /\ IsFiniteSet(A \X {0} \cup B \X {1})
             /\ Cardinality(A \X {0} \cup B \X {1}) = Cardinality(A) + Cardinality(B)
  <2> DEFINE A0 == A \X {0}
             B1 == B \X {1}
  <2>1. A0 \cap B1 = {}
    OBVIOUS
  <2>2. /\ IsFiniteSet(A0) /\ Cardinality(A0) = Cardinality(A)
        /\ IsFiniteSet(B1) /\ Cardinality(B1) = Cardinality(B)
    BY <1>2, <1>3
  <2>3. Cardinality(A) \in Nat /\ Cardinality(B) \in Nat
    BY <1>3, FS_CardinalityType
  <2> HIDE DEF A0, B1
  <2>4. /\ IsFiniteSet(A0 \cup B1)
        /\ Cardinality(A0 \cup B1) = Cardinality(A0) + Cardinality(B1) - Cardinality(A0 \cap B1)
    BY <2>2, FS_Union
  <2>5. Cardinality(A0 \cap B1) = 0
    BY <2>1, FS_EmptySet
  <2> QED
    BY <2>2, <2>3, <2>4, <2>5 DEF A0, B1
<1>4. IsFiniteSet(T) /\ Cardinality(T) = SumOf(g) + d * Cardinality(S)
  BY <1>1, <1>3, UnitsFinite DEF SumOf
<1>5. h \in [S -> Nat] /\ kind \in [T -> S]
  BY UnitsAre
<1>6. ASSUME NEW x \in S PROVE Cardinality({t \in T : kind[t] = x}) = h[x]
  <2> DEFINE A == {x} \X (1 .. g[x])
             B == {x} \X (1 .. d)
  <2>1. {t \in T : kind[t] = x} = A \X {0} \cup B \X {1}
    BY UnitsAre
  <2>2. PICK m \in Nat : m = g[x]
    OBVIOUS
  <2>3. IsFiniteSet(A) /\ Cardinality(A) = m /\ IsFiniteSet(B) /\ Cardinality(B) = d
    BY <2>2, Column
  <2> HIDE DEF A, B
  <2>5. Cardinality(A \X {0} \cup B \X {1}) = m + d
    BY <1>3, <2>3
  <2> QED
    BY <2>1, <2>2, <2>5
<1>7. SumOf(h) = Cardinality(T) /\ IsFiniteSet(Units(h))
  <2> HIDE DEF T, kind, h
  <2> QED
    BY <1>4, <1>5, <1>6, Counting
<1>8. Units(f) \subseteq Units(h)
  <2>1. Units(f) = {e \in S \X Nat : e[2] \in 1 .. f[e[1]]}
    BY UnitsAre
  <2>2. Units(h) = {e \in S \X Nat : e[2] \in 1 .. h[e[1]]}
    BY <1>5, UnitsAre
  <2> QED
    BY <2>1, <2>2
<1>9. Cardinality(Units(f)) <= Cardinality(Units(h))
  BY <1>7, <1>8, FS_Subset
<1> QED
  BY <1>4, <1>7, <1>9 DEF SumOf

\* A part of a sum is no more than the whole.
LEMMA SumOfPart ==
    ASSUME NEW S, IsFiniteSet(S), NEW f \in [S -> Nat], NEW R \in SUBSET S
    PROVE  SumOf([x \in R |-> f[x]]) <= SumOf(f)
<1> DEFINE r == [x \in R |-> f[x]]
<1>1. r \in [R -> Nat]
  OBVIOUS
<1>2. Units(r) \subseteq Units(f)
  <2>1. Units(r) = {e \in R \X Nat : e[2] \in 1 .. r[e[1]]}
    BY <1>1, UnitsAre
  <2>2. Units(f) = {e \in S \X Nat : e[2] \in 1 .. f[e[1]]}
    BY UnitsAre
  <2> QED
    BY <2>1, <2>2
<1> HIDE DEF r
<1>3. Cardinality(Units(r)) <= Cardinality(Units(f))
  BY <1>2, UnitsFinite, FS_Subset
<1> QED
  BY <1>3 DEF r, SumOf

\* Half a unit of rounding either way, and none for what is rounded already.
LEMMA Rounding ==
    /\ \A x \in Nat : Round(x) \in Nat /\ Round(x) <= x + 5 /\ x <= Round(x) + 5
    /\ \A n \in Nat : Round(10 * n) = 10 * n
    /\ \A x \in Nat : (x + 5) \div 10 \in Nat /\ Round(x) = 10 * ((x + 5) \div 10)
BY DEF Round

-----------------------------------------------------------------------------
(***************************************************************************)
(* The cost report.  A line is its price times the tokens of its rows, and *)
(* so what its rows cost one by one.                                       *)
(***************************************************************************)
\* What a price list must be: nothing costs less than nothing.
Priced(ps) == \A r \in ps : r.price \in Nat

\* The price among the rows that apply, and what a row of the log costs by it.
PriceIn(rows) == IF rows = {} THEN 0 ELSE (CHOOSE r \in rows : TRUE).price

PaidFor(l, ps, i) == CostAt(Applicable(ps, l[i].provider, l[i].model), l[i].tokens)

LEMMA CostIs ==
    ASSUME NEW rows, Priced(rows), NEW t \in Nat
    PROVE  PriceIn(rows) \in Nat /\ CostAt(rows, t) = PriceIn(rows) * t /\ CostAt(rows, t) \in Nat
<1>1. PriceIn(rows) \in Nat
  BY DEF PriceIn, Priced
<1>2. CostAt(rows, t) = PriceIn(rows) * t
  <2>1. CASE rows = {}
    BY <2>1 DEF CostAt, PriceIn
  <2>2. CASE rows # {}
    BY <2>2 DEF CostAt, PriceIn
  <2> QED
    BY <2>1, <2>2
<1>3. PriceIn(rows) * t \in Nat
  BY <1>1
<1> QED
  BY <1>1, <1>2, <1>3

LEMMA PricesApply ==
    ASSUME NEW ps, Priced(ps), NEW p, NEW m
    PROVE  Priced(Applicable(ps, p, m)) /\ Priced(Exact(ps, p, m))
BY DEF Priced, Applicable, Exact

\* The rows of a log.
LEMMA LogFacts ==
    ASSUME NEW l \in Seq(Row), NEW ps, Priced(ps)
    PROVE  /\ \A S \in SUBSET (DOMAIN l) : IsFiniteSet(S)
           /\ \A i \in DOMAIN l :
                /\ l[i] \in Row /\ l[i].ts \in Nat /\ l[i].tokens \in Nat
                /\ PaidFor(l, ps, i) \in Nat
<1>1. IsFiniteSet(DOMAIN l)
  <2>1. PICK n \in Nat : n = Len(l)
    OBVIOUS
  <2>2. DOMAIN l = 1 .. n
    BY <2>1
  <2> QED
    BY <2>2, UpTo
<1>2. ASSUME NEW i \in DOMAIN l
      PROVE  l[i] \in Row /\ l[i].ts \in Nat /\ l[i].tokens \in Nat
  <2>1. l[i] \in Row
    OBVIOUS
  <2> QED
    BY <2>1 DEF Row
<1>3. ASSUME NEW i \in DOMAIN l PROVE PaidFor(l, ps, i) \in Nat
  BY <1>2, <1>3, PricesApply, CostIs DEF PaidFor
<1> QED
  BY <1>1, <1>2, <1>3, FS_Subset

\* The lines of a report add up to what their rows cost one by one.
CoveredBy(l, month, L, R) ==
    \A i \in OfMonth(l, month) : i \in R <=> GroupOf(l[i]) \in L

LinesAre(l, ps, month, L, R) ==
    /\ IsFiniteSet(L)
    /\ \A g \in L : Spend(l, ps, month, g) \in Nat
    /\ SumOf([g \in L |-> Spend(l, ps, month, g)]) = SumOf([i \in R |-> PaidFor(l, ps, i)])
    /\ SumOf([i \in R |-> PaidFor(l, ps, i)]) \in Nat

LEMMA LinesAdd ==
    ASSUME NEW l \in Seq(Row), NEW ps, Priced(ps), NEW month,
           NEW L \in SUBSET Groups(l, month), NEW R \in SUBSET OfMonth(l, month),
           CoveredBy(l, month, L, R)
    PROVE  LinesAre(l, ps, month, L, R)
<1> DEFINE f == [i \in R |-> PaidFor(l, ps, i)]
           h == [g \in L |-> Spend(l, ps, month, g)]
           part == [i \in R |-> GroupOf(l[i])]
<1>1. OfMonth(l, month) \subseteq DOMAIN l
  BY DEF OfMonth
<1>2. IsFiniteSet(R) /\ IsFiniteSet(OfMonth(l, month))
  BY <1>1, LogFacts
<1>3. IsFiniteSet(L)
  <2> DEFINE G == [i \in OfMonth(l, month) |-> GroupOf(l[i])]
  <2>1. G \in Surjection(OfMonth(l, month), Groups(l, month))
    BY DEF Surjection, Groups
  <2>2. IsFiniteSet(Groups(l, month))
    BY <1>2, <2>1, FS_Surjection
  <2> QED
    BY <2>2, FS_Subset
<1>4. f \in [R -> Nat] /\ part \in [R -> L]
  BY <1>1, LogFacts DEF CoveredBy
<1>5. ASSUME NEW g \in L
      PROVE  /\ Spend(l, ps, month, g) \in Nat
             /\ Spend(l, ps, month, g) = SumOf([x \in {y \in R : part[y] = g} |-> f[x]])
  <2> DEFINE rows == RowsOf(l, month, g)
             tokens == [i \in rows |-> l[i].tokens]
             price == PriceIn(Applicable(ps, g[1], g[2]))
  <2>1. rows = {y \in R : part[y] = g}
    BY DEF RowsOf, CoveredBy
  <2>2. rows \subseteq DOMAIN l /\ IsFiniteSet(rows)
    BY <1>1, <2>1, LogFacts
  <2>3. tokens \in [rows -> Nat]
    BY <2>2, LogFacts
  <2>4. SumOf(tokens) \in Nat
    BY <2>2, <2>3, UnitsFinite
  <2>5. price \in Nat /\ Spend(l, ps, month, g) = price * SumOf(tokens)
    BY <2>4, PricesApply, CostIs DEF Spend, TokenTotal
  <2>6. ASSUME NEW i \in rows PROVE f[i] = price * tokens[i]
    <3>1. i \in R /\ GroupOf(l[i]) = g /\ l[i].tokens \in Nat
      BY <2>1, <2>2, LogFacts
    <3>2. g[1] = l[i].provider /\ g[2] = l[i].model
      BY <3>1 DEF GroupOf
    <3> QED
      BY <3>1, <3>2, PricesApply, CostIs DEF PaidFor
  <2> HIDE DEF price, tokens, rows, f, part
  <2>7. SumOf([i \in rows |-> price * tokens[i]]) = price * SumOf(tokens)
    BY <2>2, <2>3, <2>5, SumOfMultiples
  <2>8. [i \in rows |-> price * tokens[i]] = [i \in rows |-> f[i]]
    BY <2>6
  <2>9. Spend(l, ps, month, g) \in Nat
    BY <2>4, <2>5
  <2> QED
    BY <2>1, <2>5, <2>7, <2>8, <2>9
<1>6. PartSums(R, f, L, part, h)
  BY <1>2, <1>4, <1>5 DEF PartSums
<1>7. SumOf(h) = SumOf(f) /\ SumOf(h) \in Nat
  <2> HIDE DEF f, h, part
  <2> QED
    BY <1>6, SumByParts
<1> QED
  BY <1>3, <1>5, <1>7 DEF LinesAre

\* The models of a provider are as many as its lines.
LEMMA LinesOfProvider ==
    ASSUME NEW l \in Seq(Row), NEW month, NEW p
    PROVE  /\ IsFiniteSet(BudgetLines(l, month, p))
           /\ Cardinality(BudgetLines(l, month, p)) =
                Cardinality({l[i].model : i \in {j \in OfMonth(l, month) : l[j].provider = p}})
           /\ Cardinality(BudgetLines(l, month, p)) \in Nat
<1> DEFINE L == BudgetLines(l, month, p)
           M == {l[i].model : i \in {j \in OfMonth(l, month) : l[j].provider = p}}
           F == [g \in L |-> g[2]]
<1>1. IsFiniteSet(L)
  <2>1. Priced({})
    BY DEF Priced
  <2> DEFINE R == {i \in OfMonth(l, month) : GroupOf(l[i]) \in L}
  <2>2. L \in SUBSET Groups(l, month) /\ R \in SUBSET OfMonth(l, month)
    BY DEF BudgetLines
  <2>3. CoveredBy(l, month, L, R)
    BY DEF CoveredBy
  <2> HIDE DEF L, R
  <2> QED
    BY <2>1, <2>2, <2>3, LinesAdd DEF LinesAre
<1>2. \A g \in L : g[1] = p /\ g = <<p, g[2]>> /\ g[2] \in M
  BY DEF BudgetLines, Groups, GroupOf
<1>3. \A m \in M : <<p, m>> \in L
  BY DEF BudgetLines, Groups, GroupOf
<1>4. F \in [L -> M] /\ \A m \in M : F[<<p, m>>] = m
  BY <1>2, <1>3
<1> HIDE DEF L, M, F
<1>5. F \in Surjection(L, M)
  BY <1>3, <1>4 DEF Surjection
<1>6. \A g, d \in L : F[g] = F[d] => g = d
  BY <1>2 DEF F
<1>7. F \in Bijection(L, M)
  BY <1>4, <1>5, <1>6 DEF Bijection, Injection, IsInjective
<1>8. Cardinality(M) = Cardinality(L)
  BY <1>1, <1>7, FS_Bijection DEF ExistsBijection
<1> QED
  BY <1>1, <1>8, FS_CardinalityType DEF L, M

\* No further apart than half a unit of the report for each line.
Close(x, y, units) == x - y \in - 5 * units .. 5 * units

LEMMA CloseIf ==
    ASSUME NEW x \in Nat, NEW y \in Nat, NEW n \in Nat, x <= y + 5 * n, y <= x + 5 * n
    PROVE  Close(x, y, n)
BY DEF Close

\* A budget has spent what its lines say, each rounded by half a unit at most.
LEMMA RoundedLines ==
    ASSUME NEW l \in Seq(Row), NEW ps, Priced(ps), NEW month,
           NEW L \in SUBSET Groups(l, month), NEW R \in SUBSET OfMonth(l, month),
           CoveredBy(l, month, L, R)
    PROVE  Close(Round(SumOf([g \in L |-> Round(Spend(l, ps, month, g))])),
                 SumOf([i \in R |-> PaidFor(l, ps, i)]), Cardinality(L))
<1>0. LinesAre(l, ps, month, L, R)
  BY LinesAdd
<1> DEFINE exact == [g \in L |-> Spend(l, ps, month, g)]
           tens == [g \in L |-> (exact[g] + 5) \div 10]
           lines == [g \in L |-> Round(exact[g])]
<1>1. /\ IsFiniteSet(L) /\ exact \in [L -> Nat]
      /\ SumOf(exact) = SumOf([i \in R |-> PaidFor(l, ps, i)]) /\ SumOf(exact) \in Nat
  BY <1>0 DEF LinesAre
<1>2. lines = [g \in L |-> Round(Spend(l, ps, month, g))]
  OBVIOUS
<1> HIDE DEF exact
<1>3. /\ lines \in [L -> Nat] /\ tens \in [L -> Nat]
      /\ \A g \in L : lines[g] = 10 * tens[g] /\ lines[g] <= exact[g] + 5 /\ exact[g] <= lines[g] + 5
  BY <1>1, Rounding
<1> HIDE DEF tens, lines
<1>4. SumOf(lines) = 10 * SumOf(tens)
  <2>1. lines = [g \in L |-> 10 * tens[g]]
    BY <1>3
  <2> QED
    BY <1>1, <1>3, <2>1, SumOfMultiples
<1>5. SumOf(tens) \in Nat /\ SumOf(lines) \in Nat
  BY <1>1, <1>3, UnitsFinite
<1>6. Round(SumOf(lines)) = SumOf(lines)
  BY <1>4, <1>5, Rounding
<1>7. /\ SumOf(lines) <= SumOf(exact) + 5 * Cardinality(L)
      /\ SumOf(exact) <= SumOf(lines) + 5 * Cardinality(L)
  BY <1>1, <1>3, SumWithin
<1>8. Cardinality(L) \in Nat
  BY <1>1, FS_CardinalityType
<1> QED
  <2> PICK y \in Nat : y = SumOf([i \in R |-> PaidFor(l, ps, i)]) /\ y = SumOf(exact)
    BY <1>1
  <2> PICK x \in Nat : x = SumOf(lines)
    BY <1>5
  <2> PICK n \in Nat : n = Cardinality(L)
    BY <1>8
  <2>1. Close(x, y, n)
    BY <1>7, CloseIf
  <2>2. Round(SumOf([g \in L |-> Round(Spend(l, ps, month, g))])) = x
    BY <1>2, <1>6
  <2> QED
    BY <2>1, <2>2

\* ReportExact, of one month of any log.
AddsUp(l, ps, budgetRows, month) ==
    LET report == Report(l, ps, budgetRows, month)
        rowsOf(p) == {i \in OfMonth(l, month) : l[i].provider = p}
        paid(rows) == SumOf([i \in rows |-> PaidFor(l, ps, i)])
    IN  /\ paid(OfMonth(l, month)) \in Nat
        /\ report.total \in Nat /\ Close(report.total, paid(OfMonth(l, month)), 1)
        /\ paid(OfMonth(l, month)) <= report.total + 5
        /\ \A b \in DOMAIN report.spent :
              Close(report.spent[b], paid(rowsOf(b.provider)),
                    Cardinality({l[i].model : i \in rowsOf(b.provider)}))

\* The total of a month is that of its rows, and a budget's that of its provider's.
LEMMA MonthAddsUp ==
    ASSUME NEW l \in Seq(Row), NEW ps, Priced(ps), NEW month, NEW budgetRows
    PROVE  AddsUp(l, ps, budgetRows, month)
<1> DEFINE report == Report(l, ps, budgetRows, month)
           paid(rows) == SumOf([i \in rows |-> PaidFor(l, ps, i)])
           rowsOf(p) == {i \in OfMonth(l, month) : l[i].provider = p}
<1>1. CoveredBy(l, month, Groups(l, month), OfMonth(l, month))
  BY DEF Groups, CoveredBy
<1>2. /\ SumOf([g \in Groups(l, month) |-> Spend(l, ps, month, g)]) = paid(OfMonth(l, month))
      /\ paid(OfMonth(l, month)) \in Nat
  BY <1>1, LinesAdd DEF LinesAre
<1>3. report.total = Round(paid(OfMonth(l, month)))
  BY <1>2 DEF Report
<1>4. /\ report.total \in Nat /\ report.total <= paid(OfMonth(l, month)) + 5
      /\ paid(OfMonth(l, month)) <= report.total + 5
  BY <1>2, <1>3, Rounding
<1>5. Close(report.total, paid(OfMonth(l, month)), 1)
  <2> HIDE DEF report, paid
  <2> QED
    BY <1>2, <1>4, CloseIf
<1>6. ASSUME NEW b \in DOMAIN report.spent
      PROVE  Close(report.spent[b], paid(rowsOf(b.provider)),
                   Cardinality({l[i].model : i \in rowsOf(b.provider)}))
  <2> PICK p : p = b.provider
    OBVIOUS
  <2> PICK L \in SUBSET Groups(l, month) : L = BudgetLines(l, month, p)
    BY DEF BudgetLines
  <2> PICK R \in SUBSET OfMonth(l, month) : R = rowsOf(p)
    OBVIOUS
  <2>1. CoveredBy(l, month, L, R)
    BY <1>1 DEF BudgetLines, GroupOf, CoveredBy
  <2>2. report.spent[b] = Round(SumOf([g \in L |-> Round(Spend(l, ps, month, g))]))
    BY <1>6 DEF Report
  <2>3. Cardinality(L) = Cardinality({l[i].model : i \in rowsOf(p)})
    BY LinesOfProvider
  <2>4. Close(report.spent[b], SumOf([i \in R |-> PaidFor(l, ps, i)]), Cardinality(L))
    <3> HIDE DEF report, rowsOf, paid
    <3>1. Close(Round(SumOf([g \in L |-> Round(Spend(l, ps, month, g))])),
                SumOf([i \in R |-> PaidFor(l, ps, i)]), Cardinality(L))
      BY <2>1, RoundedLines
    <3> QED
      BY <2>2, <3>1
  <2> QED
    BY <2>3, <2>4
<1> QED
  BY <1>2, <1>4, <1>5, <1>6 DEF AddsUp

-----------------------------------------------------------------------------
(***************************************************************************)
(* Quotas.  A key's usage knows a model's own price only, the report the   *)
(* price for "*" as well; and every row of a key is in the month it is of. *)
(***************************************************************************)
\* Later instants are in later months.
LEMMA MonthsGrow ==
    ASSUME NEW s \in Nat, NEW t \in Nat, s <= t
    PROVE  MonthOf(s) \in Nat /\ MonthOf(t) \in Nat /\ MonthOf(s) <= MonthOf(t)
<1> PICK n \in Nat \ {0} : n = MonthLength
  BY AdminAssumption DEF CostsAssumption
<1> DEFINE a == s \div n
           b == t \div n
<1>1. a \in Nat /\ b \in Nat /\ n * a <= s /\ t < n * b + n
  OBVIOUS
<1>2. MonthOf(s) = a /\ MonthOf(t) = b
  BY DEF MonthOf
<1> HIDE DEF a, b
<1>3. n * a < n * (b + 1)
  BY <1>1
<1>4. a < b + 1
  BY <1>1, <1>3
<1> QED
  BY <1>1, <1>2, <1>4

\* What the keys have used since an instant is no more than what the report has
\* for the months from then on.
LEMMA UsageReported ==
    ASSUME NEW l \in Seq(Row), NEW ps, Priced(ps), NEW n \in Nat, NEW since \in 0 .. n,
           NEW bs, \A i \in DOMAIN l : l[i].ts <= n
    PROVE  LET months == MonthOf(since) .. MonthOf(n)
           IN  SumOf([k \in Key |-> Usage(l, ps, k, since).cost])
               <= SumOf([m \in months |-> Report(l, ps, bs, m).total]) + 5 * Cardinality(months)
<1> DEFINE months == MonthOf(since) .. MonthOf(n)
           costOf(i) == CostAt(Exact(ps, l[i].provider, l[i].model), l[i].tokens)
           W == {i \in DOMAIN l : l[i].key \in Key /\ l[i].ts >= since}
           M == {i \in DOMAIN l : MonthOf(l[i].ts) \in months}
           used == [i \in W |-> costOf(i)]
           paidW == [i \in W |-> PaidFor(l, ps, i)]
           paidM == [i \in M |-> PaidFor(l, ps, i)]
           keys == [i \in W |-> l[i].key]
           monthOf == [i \in M |-> MonthOf(l[i].ts)]
           usage == [k \in Key |-> Usage(l, ps, k, since).cost]
           paid == [m \in months |-> SumOf([i \in OfMonth(l, m) |-> PaidFor(l, ps, i)])]
           total == [m \in months |-> Report(l, ps, bs, m).total]
<1>1. IsFiniteSet(W) /\ IsFiniteSet(M)
  BY LogFacts
<1>2. ASSUME NEW i \in DOMAIN l
      PROVE  costOf(i) \in Nat /\ PaidFor(l, ps, i) \in Nat /\ costOf(i) <= PaidFor(l, ps, i)
  <2> DEFINE rows == Exact(ps, l[i].provider, l[i].model)
  <2>1. l[i].tokens \in Nat /\ PaidFor(l, ps, i) \in Nat
    BY LogFacts
  <2>2. costOf(i) \in Nat
    BY <2>1, PricesApply, CostIs
  <2>3. CASE rows = {}
    <3>1. costOf(i) = 0
      BY <2>3 DEF CostAt
    <3> QED
      BY <2>1, <2>2, <3>1
  <2>4. CASE rows # {}
    <3>1. PaidFor(l, ps, i) = costOf(i)
      BY <2>4 DEF PaidFor, Applicable
    <3> QED
      BY <2>1, <2>2, <3>1
  <2> QED
    BY <2>3, <2>4
<1>3. used \in [W -> Nat] /\ paidW \in [W -> Nat] /\ paidM \in [M -> Nat]
  BY <1>2
<1>4. SumOf(usage) = SumOf(used)
  <2>1. keys \in [W -> Key]
    OBVIOUS
  <2>2. ASSUME NEW k \in Key
        PROVE  usage[k] \in Nat /\ usage[k] = SumOf([x \in {y \in W : keys[y] = k} |-> used[x]])
    <3> DEFINE P == {y \in W : keys[y] = k}
               r == [x \in P |-> used[x]]
    <3>1. P = Counted(l, k, since)
      BY DEF Counted
    <3>2. usage[k] = SumOf([i \in Counted(l, k, since) |-> costOf(i)])
      BY DEF Usage
    <3>3. r = [i \in Counted(l, k, since) |-> costOf(i)]
      BY <3>1
    <3>4. r \in [P -> Nat] /\ IsFiniteSet(P)
      BY <1>1, <1>3, FS_Subset
    <3> HIDE DEF P, r, usage
    <3>5. SumOf(r) \in Nat
      BY <3>4, UnitsFinite
    <3> QED
      BY <3>2, <3>3, <3>5 DEF P, r
  <2>3. usage \in [Key -> Nat]
    BY <2>2
  <2>4. PartSums(W, used, Key, keys, usage)
    BY <1>1, <1>3, <2>1, <2>2, <2>3 DEF PartSums
  <2> HIDE DEF W, used, keys, usage
  <2> QED
    BY <2>4, SumByParts
<1>5. SumOf(used) <= SumOf(paidW)
  <2>1. \A i \in W : used[i] <= paidW[i] + 0
    BY <1>2
  <2> HIDE DEF W, used, paidW
  <2>2. SumOf(used) <= SumOf(paidW) + 0 * Cardinality(W)
    BY <1>1, <1>3, <2>1, SumWithin
  <2>3. Cardinality(W) \in Nat /\ SumOf(paidW) \in Nat
    BY <1>1, <1>3, FS_CardinalityType, UnitsFinite
  <2> QED
    BY <2>2, <2>3
<1>6. IsFiniteSet(months) /\ Cardinality(months) \in Nat
  <2>1. MonthOf(since) \in Int /\ MonthOf(n) \in Int
    BY MonthsGrow
  <2> QED
    BY <2>1, FS_Interval, FS_CardinalityType
<1>7. W \subseteq M
  <2> SUFFICES ASSUME NEW i \in W PROVE i \in M
    OBVIOUS
  <2> PICK t \in Nat : t = l[i].ts /\ since <= t /\ t <= n
    BY LogFacts
  <2>1. since \in Nat
    OBVIOUS
  <2>2. MonthOf(since) \in Nat /\ MonthOf(t) \in Nat /\ MonthOf(since) <= MonthOf(t)
    BY <2>1, MonthsGrow
  <2>3. MonthOf(n) \in Nat /\ MonthOf(t) <= MonthOf(n)
    BY MonthsGrow
  <2>4. MonthOf(t) \in MonthOf(since) .. MonthOf(n)
    BY <2>2, <2>3
  <2> QED
    BY <2>4
<1>8. SumOf(paidW) <= SumOf(paidM)
  <2>1. paidW = [i \in W |-> paidM[i]]
    BY <1>7
  <2> HIDE DEF W, M, paidW, paidM
  <2> QED
    BY <1>1, <1>3, <1>7, <2>1, SumOfPart
<1>9. paid \in [months -> Nat] /\ SumOf(paid) = SumOf(paidM)
  <2>1. monthOf \in [M -> months]
    OBVIOUS
  <2>2. ASSUME NEW m \in months
        PROVE  paid[m] \in Nat /\ paid[m] = SumOf([x \in {y \in M : monthOf[y] = m} |-> paidM[x]])
    <3> DEFINE P == {y \in M : monthOf[y] = m}
               r == [x \in P |-> paidM[x]]
    <3>1. P = OfMonth(l, m)
      BY DEF OfMonth
    <3>2. r = [i \in OfMonth(l, m) |-> PaidFor(l, ps, i)]
      BY <3>1
    <3>3. r \in [P -> Nat] /\ IsFiniteSet(P)
      BY <1>1, <1>3, FS_Subset
    <3>4. paid[m] = SumOf(r)
      BY <3>2
    <3> HIDE DEF P, r, paid
    <3>5. SumOf(r) \in Nat
      BY <3>3, UnitsFinite
    <3> QED
      BY <3>4, <3>5 DEF P, r
  <2>3. paid \in [months -> Nat]
    BY <2>2
  <2>4. PartSums(M, paidM, months, monthOf, paid)
    <3> HIDE DEF months
    <3> QED
      BY <1>1, <1>3, <2>1, <2>2, <2>3 DEF PartSums
  <2>5. SumOf(paid) = SumOf(paidM)
    <3> HIDE DEF months, W, M, used, paidW, paidM, keys, monthOf, usage, paid, total
    <3> QED
      BY <2>4, SumByParts
  <2> QED
    BY <2>3, <2>5
<1>10. SumOf(paid) <= SumOf(total) + 5 * Cardinality(months) /\ SumOf(total) \in Nat
  <2>1. ASSUME NEW m \in months PROVE total[m] \in Nat /\ paid[m] <= total[m] + 5
    BY MonthAddsUp DEF AddsUp
  <2>2. total \in [months -> Nat]
    BY <2>1
  <2> HIDE DEF months, total, paid
  <2> QED
    BY <1>6, <1>9, <2>1, <2>2, SumWithin, UnitsFinite
<1>11. SumOf(used) \in Nat /\ SumOf(paidW) \in Nat /\ SumOf(paidM) \in Nat
  <2> HIDE DEF W, M, used, paidW, paidM
  <2> QED
    BY <1>1, <1>3, UnitsFinite
<1>12. SumOf(usage) <= SumOf(total) + 5 * Cardinality(months)
  <2> HIDE DEF months, W, M, used, paidW, paidM, usage, paid, total
  <2> QED
    BY <1>4, <1>5, <1>6, <1>8, <1>9, <1>10, <1>11
<1> QED
  BY <1>12

-----------------------------------------------------------------------------
(***************************************************************************)
(* The sums are those of a log and of a price list that chats and          *)
(* administrators have made.                                               *)
(***************************************************************************)
\* Prices are not negative and no row is from the future.
LedgerOK == Priced(prices) /\ \A i \in DOMAIN log : log[i].ts <= now

LEMMA PricesStep ==
    ASSUME Priced(prices), [Next]_vars
    PROVE  Priced(prices')
<1>1. ASSUME prices' \subseteq prices PROVE Priced(prices')
  BY <1>1 DEF Priced
<1>2. ASSUME NEW b \in PriceBody, NEW given \in {0} \cup {r.id : r \in prices},
             UpsertPricing(b, given)
      PROVE  Priced(prices')
  <2>1. b.price \in Nat
    BY AdminAssumption
  <2>2. \A r \in prices' : r \in prices \/ r.price = b.price
    BY <1>2 DEF UpsertPricing
  <2> QED
    BY <2>1, <2>2 DEF Priced
<1>3. CASE CostsNext
  <2>1. ASSUME NEW b \in BudgetBody, UpsertBudget(b) PROVE Priced(prices')
    BY <1>1, <2>1 DEF UpsertBudget
  <2>2. ASSUME NEW id \in 1 .. ids, DeletePricing(id) \/ DeleteBudget(id) PROVE Priced(prices')
    BY <1>1, <2>2 DEF DeletePricing, DeleteBudget
  <2> QED
    BY <1>2, <1>3, <2>1, <2>2 DEF CostsNext
<1>4. CASE HooksNext
  BY <1>1, <1>4 DEF HooksNext, CreateWebhook, AuditWebhook, UpdateWebhook, DeleteWebhook, costVars
<1>5. CASE CombosNext
  BY <1>1, <1>5
  DEF CombosNext, CreateCombo, DeleteCombo, Connection, AutoCreate, AutoCheck, AutoInsert, costVars
<1>6. CASE CacheNext
  BY <1>1, <1>6 DEF CacheNext, ListCache, ClearCache, DeleteCacheEntry, costVars, AdminVars
<1>7. CASE ModelsNext
  BY <1>1, <1>7 DEF ModelsNext, LiveChange, SyncFetch, SyncStore, SyncAudit, costVars
<1>8. CASE ChatNext
  BY <1>1, <1>8, ChatApart DEF AdminVars, costVars
<1>9. CASE Tick \/ Restart \/ UNCHANGED vars
  BY <1>1, <1>9 DEF Tick, Restart, vars, AdminVars, costVars
<1> QED
  BY <1>3, <1>4, <1>5, <1>6, <1>7, <1>8, <1>9 DEF Next

LEMMA LogStep ==
    ASSUME TypeOK, TypeOK', \A i \in DOMAIN log : log[i].ts <= now, [Next]_vars
    PROVE  \A i \in DOMAIN log' : log'[i].ts <= now'
<1>1. now \in Nat /\ now' \in Nat /\ log \in Seq(Row)
  BY AdminAssumption DEF TypeOK
<1>2. ASSUME log' = log, now' = now \/ now' = now + 1
      PROVE  \A i \in DOMAIN log' : log'[i].ts <= now'
  <2> SUFFICES ASSUME NEW i \in DOMAIN log PROVE log[i].ts <= now'
    BY <1>2
  <2>1. log[i] \in Row
    BY <1>1
  <2>2. log[i].ts \in Nat /\ log[i].ts <= now
    BY <2>1 DEF Row
  <2> QED
    BY <1>1, <1>2, <2>2
<1>3. ASSUME NEW row, log' = Append(log, row), row.ts = now, now' = now
      PROVE  \A i \in DOMAIN log' : log'[i].ts <= now'
  BY <1>1, <1>3
<1>4. CASE ChatNext
  <2>1. ASSUME NEW c \in Called, Failed(c) \/ \E t \in TokenCounts : Answered(c, t)
        PROVE  \A i \in DOMAIN log' : log'[i].ts <= now'
    BY <1>3, <2>1 DEF Failed, Answered, Goes
  <2>2. ASSUME OtherRow PROVE \A i \in DOMAIN log' : log'[i].ts <= now'
    BY <1>3, <2>2 DEF OtherRow, Goes
  <2>3. ASSUME \/ \E rk \in Sent : Begin(rk[1], rk[2])
               \/ Hit \/ Miss \/ Store \/ Dispatch \/ Leave
               \/ \E d \in deliveries : Deliver(d)
        PROVE  log' = log /\ now' = now
    BY <2>3 DEF Begin, Hit, Miss, Store, Dispatch, Leave, Deliver, Goes
  <2> QED
    BY <1>2, <1>4, <2>1, <2>2, <2>3 DEF ChatNext
<1>5. CASE CacheNext
  <2>1. log' = log /\ now' = now
    BY <1>5 DEF CacheNext, ListCache, ClearCache, DeleteCacheEntry, Asked
  <2> QED
    BY <1>2, <2>1
<1>6. CASE Tick \/ Restart
  BY <1>2, <1>6 DEF Tick, Restart, chatVars
<1>7. CASE CostsNext \/ HooksNext \/ CombosNext \/ ModelsNext \/ UNCHANGED vars
  <2>1. log' = log /\ now' = now
    BY <1>7
    DEF CostsNext, UpsertPricing, DeletePricing, UpsertBudget, DeleteBudget,
        HooksNext, CreateWebhook, AuditWebhook, UpdateWebhook, DeleteWebhook,
        CombosNext, CreateCombo, DeleteCombo, Connection, AutoCreate, AutoCheck, AutoInsert,
        ModelsNext, LiveChange, SyncFetch, SyncStore, SyncAudit, Asked, Goes, chatVars, vars
  <2> QED
    BY <1>2, <2>1
<1> QED
  BY <1>4, <1>5, <1>6, <1>7 DEF Next

LEMMA LedgerAlways == Spec => []LedgerOK
<1>1. Init => LedgerOK
  BY DEF Init, LedgerOK, Priced
<1>2. TypeOK /\ TypeOK' /\ LedgerOK /\ [Next]_vars => LedgerOK'
  BY PricesStep, LogStep DEF LedgerOK, Priced
<1> QED
  BY <1>1, <1>2, TypeCorrect, PTL DEF Spec

\* The cost report adds up: whatever prices, budgets and requests there are, its
\* total is what the rows of the month cost one by one, and each budget what its
\* provider's rows cost, but for the rounding of each line (Costs::report).
THEOREM ReportAddsUp == Spec => []ReportExact
<1>1. TypeOK /\ LedgerOK => ReportExact
  <2> SUFFICES ASSUME TypeOK, LedgerOK PROVE ReportExact
    OBVIOUS
  <2>1. log \in Seq(Row) /\ Priced(prices)
    BY DEF TypeOK, LedgerOK
  <2>2. \A month \in MonthOf(0) .. MonthOf(now) : AddsUp(log, prices, budgets, month)
    BY <2>1, MonthAddsUp
  <2> QED
    BY <2>2 DEF AddsUp, Close, ReportExact, PaidFor
<1> QED
  BY <1>1, LedgerAlways, TypeCorrect, PTL

\* What all keys have used of money in any window is no more than the cost report
\* has for the months that the window touches, half a unit apart for each month
\* (usage_for_key, Costs::report).
THEOREM QuotasWithinReport == Spec => []LedgersAgree
<1>1. TypeOK /\ LedgerOK => LedgersAgree
  <2> SUFFICES ASSUME TypeOK, LedgerOK PROVE LedgersAgree
    OBVIOUS
  <2>1. log \in Seq(Row) /\ Priced(prices) /\ now \in Nat /\ \A i \in DOMAIN log : log[i].ts <= now
    BY AdminAssumption DEF TypeOK, LedgerOK
  <2> QED
    BY <2>1, UsageReported DEF LedgersAgree
<1> QED
  BY <1>1, LedgerAlways, TypeCorrect, PTL
=============================================================================
