------------------------------ MODULE CatalogProofs ------------------------------
(* Proofs about Catalog: foreign keys are kept, deletes take only what they*)
(* reached from their targets and changes are those asked for, for every   *)
(* number of requests and rows.                                            *)
EXTENDS Catalog, TLAPS

Closed(rows, own) == \A k \in Keys : own[k] \in rows => k \in rows
Labels == {"idle", "write", "refresh", "list", "voices", "done"}
OwnerType == [Keys -> Keys \cup {Top, Unborn, Gone}]
VoiceType == [Lines -> Characters \cup {Null}]

(* -- operators ----------------------------------------------------------- *)
LEMMA OwnersAreKeys ==
  ASSUME NEW k \in Keys \ Campaigns
  PROVE  Owners(k) \subseteq Keys
  BY KeysAssumption DEF Owners, Keys, CharacterOwners, EpisodeOwners, SceneOwners, LineOwners, BeatOwners

LEMMA CampaignsOnTop ==
  ASSUME NEW k \in Campaigns
  PROVE  Owners(k) = {Top} /\ Top \notin Keys
  BY KeysAssumption DEF Owners, CampaignOwners

(* Three steps down from any rows reach everything there is below them.    *)
LEMMA BelowIsClosed ==
  ASSUME NEW own \in OwnerType, NEW speaks, Consistent(own, speaks), NEW rows \in SUBSET Keys
  PROVE  Below(rows, own) \in SUBSET Keys /\ rows \subseteq Below(rows, own) /\ Closed(Below(rows, own), own)
  <1> DEFINE D1 == Directly(rows, own)
             D2 == Directly(D1, own)
             D3 == Directly(D2, own)
  <1>1. /\ rows \subseteq D1 /\ D1 \subseteq D2 /\ D2 \subseteq D3
        /\ D1 \subseteq Keys /\ D2 \subseteq Keys /\ D3 \subseteq Keys
        /\ Below(rows, own) = D3
    BY DEF Directly, Below
  <1>2. \A k \in D3 : k \notin D2 => own[k] \in D2 /\ own[k] \notin D1
    BY <1>1 DEF Directly
  <1>3. \A k \in D2 : k \notin D1 => own[k] \in D1 /\ own[k] \notin rows
    BY <1>1 DEF Directly
  <1>4. \A k \in D1 : k \notin rows => own[k] \in rows
    BY <1>1 DEF Directly
  <1>5. ASSUME NEW k \in Keys, own[k] \in Keys
        PROVE  own[k] \in Owners(k) /\ k \notin Campaigns
    <2>1. k \in Stored(own)
      BY <1>5, KeysAssumption DEF Stored
    <2> QED BY <2>1, <1>5, CampaignsOnTop DEF Consistent
  <1>6. ASSUME NEW k \in Keys, own[k] \in D3 PROVE k \in D3
    <2> SUFFICES ASSUME own[k] \notin D2 PROVE FALSE
      BY <1>6, <1>1 DEF Directly
    <2> DEFINE a == own[k]
               b == own[a]
               c == own[b]
    <2>1. a \in Keys /\ b \in D2 /\ b \notin D1
      BY <1>6, <1>1, <1>2
    <2>2. b \in Keys /\ c \in D1 /\ c \notin rows
      BY <2>1, <1>1, <1>3
    <2>3. c \in Keys /\ own[c] \in Keys
      BY <2>2, <1>1, <1>4
    <2>4. /\ a \in Owners(k) /\ k \notin Campaigns
          /\ b \in Owners(a) /\ a \notin Campaigns
          /\ c \in Owners(b) /\ b \notin Campaigns
          /\ c \notin Campaigns
      BY <1>5, <2>1, <2>2, <2>3
    <2>5. b \in Episodes \cup Scenes
      <3>1. b \in Scenes \/ b \in Episodes \/ b \in Characters \/ b \in Lines \/ b \in Beats
        BY <2>2, <2>4 DEF Keys
      <3>2. b \notin Characters
        BY <2>4, KeysAssumption DEF Owners, CharacterOwners
      <3>3. b \notin Lines /\ b \notin Beats
        BY <2>1, <2>4, KeysAssumption DEF Owners, CampaignOwners, CharacterOwners, EpisodeOwners, SceneOwners, LineOwners, BeatOwners, Keys
      <3> QED BY <3>1, <3>2, <3>3
    <2>6. b \notin Episodes
      BY <2>4, KeysAssumption DEF Owners, EpisodeOwners
    <2>7. b \in Scenes
      BY <2>5, <2>6
    <2>8. a \in Lines \cup Beats
      BY <2>1, <2>4, <2>7, KeysAssumption DEF Owners, CampaignOwners, CharacterOwners, EpisodeOwners, SceneOwners, LineOwners, BeatOwners, Keys
    <2>9. a \notin Owners(k)
      BY <2>8, <2>4, KeysAssumption DEF Owners, CharacterOwners, EpisodeOwners, SceneOwners, LineOwners, BeatOwners, Keys
    <2> QED BY <2>9, <2>4
  <1> QED BY <1>1, <1>6 DEF Closed

(* Nothing closed that holds the rows can leave out what is below them.    *)
LEMMA BelowIsLeast ==
  ASSUME NEW own, NEW rows, NEW all, rows \subseteq all, Closed(all, own)
  PROVE  Below(rows, own) \subseteq all
  <1>1. ASSUME NEW S, S \subseteq all PROVE Directly(S, own) \subseteq all
    BY <1>1 DEF Directly, Closed
  <1> QED BY <1>1 DEF Below

(* -- the inductive invariant --------------------------------------------- *)
Indexed ==
  /\ DOMAIN task = Requests /\ task = [h \in Requests |-> task[h]]
  /\ DOMAIN todo = Requests /\ todo = [h \in Requests |-> todo[h]]
  /\ DOMAIN victims = Requests /\ victims = [h \in Requests |-> victims[h]]
  /\ DOMAIN muted = Requests /\ muted = [h \in Requests |-> muted[h]]

Shapes ==
  /\ pc \in [Requests -> Labels]
  /\ Indexed
  /\ under \in [Requests -> SUBSET Keys]
  /\ carried \in [Requests -> SUBSET Keys]

(* What a PUT may be about to write.                                       *)
WritesFit(h) ==
  pc[h] = "write" =>
    /\ task[h].key \in Keys
    /\ task[h].owner \in (Owners(task[h].key) \ {Top}) \cup {Keep, Null, Unstorable}
    /\ task[h].voice \in {Keep} \cup (IF task[h].key \in Lines THEN LineVoices ELSE {})

(* What is below the rows a delete has marked is among those it may take.  *)
DeletesBelow(h) ==
  /\ pc[h] \in {"list", "voices"} =>
       /\ task[h].kind = "delete" /\ task[h].key \in Keys
       /\ Below(victims[h], owner) \subseteq Reached(h)
       /\ \A l \in Lines : voice[l] \in Reached(h) => l \in spoke[h]
       /\ muted[h] \subseteq spoke[h]
  /\ pc[h] = "list" => todo[h] \subseteq Reads(victims[h])
  /\ pc[h] = "voices" => todo[h] \subseteq victims[h]
  /\ pc[h] # "voices" => muted[h] = {}
  /\ task[h].kind = "delete" => pc[h] \in {"list", "voices"}

CatalogInv == NothingDangles /\ Shapes /\ \A h \in Requests : WritesFit(h) /\ DeletesBelow(h)

LEMMA InitInv == Init => CatalogInv
  <1> SUFFICES ASSUME Init PROVE CatalogInv
    OBVIOUS
  <1>1. NothingDangles
    BY CatalogsAssumption DEF Init, NothingDangles
  <1>2. Shapes
    BY DEF Init, Shapes, Indexed, Labels
  <1>3. ASSUME NEW h \in Requests PROVE WritesFit(h) /\ DeletesBelow(h)
    BY DEF Init, WritesFit, DeletesBelow, NoTask, Target, Task
  <1> QED BY <1>1, <1>2, <1>3 DEF CatalogInv

(* -- one lemma per part of a step ---------------------------------------- *)
(* What is marked is below what is marked.                                 *)
LEMMA MarkedAreBelow ==
  ASSUME NEW rows, NEW own
  PROVE  rows \subseteq Below(rows, own)
  BY DEF Below, Directly

(* The histories of a delete under way grow, and hold what is below its    *)
(* target and below the rows it had marked.                                *)
LEMMA WatchKeeps ==
  ASSUME CatalogInv, NothingDangles', Watch, NEW h \in Requests,
         pc'[h] \in {"list", "voices"}, task'[h].kind = "delete", task'[h].key \in Keys
  PROVE  /\ Reached(h) \subseteq Reached(h)'
         /\ Below({task'[h].key}, owner') \subseteq Reached(h)'
         /\ victims[h] \subseteq Reached(h) => Below(victims[h], owner') \subseteq Reached(h)'
         /\ \A l \in Lines : voice'[l] \in Reached(h)' => l \in spoke'[h]
         /\ spoke[h] \subseteq spoke'[h]
  <1>1. under'[h] = under[h] \cup Below({task'[h].key}, owner')
    BY DEF Watch, Busy, Deletes
  <1>2. under'[h] # {}
    BY <1>1, MarkedAreBelow
  <1>3. carried'[h] = carried[h] \cup (Below(victims[h] \cap Reached(h), owner') \ under'[h])
    BY <1>2 DEF Watch
  <1>4. Reached(h)' = under'[h] \cup carried'[h]
    BY DEF Reached
  <1>5. Reached(h) \subseteq Reached(h)' /\ Below({task'[h].key}, owner') \subseteq Reached(h)'
    BY <1>1, <1>3, <1>4 DEF Reached
  <1>6. ASSUME victims[h] \subseteq Reached(h) PROVE Below(victims[h], owner') \subseteq Reached(h)'
    <2>1. victims[h] \cap Reached(h) = victims[h]
      BY <1>6
    <2> QED BY <1>3, <1>4, <2>1
  <1>7. spoke'[h] = spoke[h] \cup {l \in Lines : voice'[l] \in Reached(h)'}
    BY <1>2 DEF Watch
  <1> QED BY <1>5, <1>6, <1>7

LEMMA WatchTyped ==
  ASSUME CatalogInv, NothingDangles', Watch, \A h \in Requests : pc'[h] \in {"list", "voices"} => task'[h].key \in Keys,
         \A h \in Requests : pc'[h] \in Labels,
         \A h \in Requests : task'[h].kind = "delete" /\ pc'[h] \notin {"idle", "done"} => pc'[h] \in {"list", "voices"}
  PROVE  /\ under' \in [Requests -> SUBSET Keys]
         /\ carried' \in [Requests -> SUBSET Keys]
  <1>1. ASSUME NEW rows \in SUBSET Keys PROVE Below(rows, owner') \subseteq Keys
    BY BelowIsClosed DEF NothingDangles, OwnerType
  <1>2. ASSUME NEW h \in Requests PROVE under'[h] \subseteq Keys
    <2>1. CASE Busy(h)' /\ Deletes(h)'
      <3>1. {task'[h].key} \in SUBSET Keys
        BY <2>1 DEF Busy, Deletes
      <3> QED BY <1>1, <2>1, <3>1 DEF Watch, CatalogInv, Shapes
    <2> QED BY <2>1 DEF Watch
  <1>3. ASSUME NEW h \in Requests PROVE carried'[h] \subseteq Keys
    <2>1. victims[h] \cap Reached(h) \in SUBSET Keys
      BY DEF Reached, CatalogInv, Shapes
    <2>2. Below(victims[h] \cap Reached(h), owner') \subseteq Keys
      BY <1>1, <2>1
    <2> QED BY <2>2 DEF Watch, CatalogInv, Shapes
  <1> QED BY <1>2, <1>3 DEF Watch

(* Nothing a request does leaves a key without its row.                    *)
LEMMA StoreKeeps ==
  ASSUME NothingDangles, NEW k \in Keys,
         NEW o \in (Owners(k) \cup {Keep, Null, Unstorable}), NEW v, Fits(o, v),
         k \in Stored(owner) => o # Top, o # Keep \/ k \in Stored(owner),
         owner' = IF o = Keep THEN owner ELSE [owner EXCEPT ![k] = o],
         k \in Lines => v \in LineVoices \cup {Keep},
         voice' = IF v = Keep \/ k \notin Lines THEN voice ELSE [voice EXCEPT ![k] = v]
  PROVE  NothingDangles'
  <1> USE DEF NothingDangles
  <1>1. o \in Owners(k) \/ o = Keep
    BY ValuesAssumption, KeysAssumption DEF Fits, Stored
  <1>2. o \in Owners(k) => (IF k \in Campaigns THEN o = Top ELSE o \in Stored(owner) /\ o \in Keys)
    BY OwnersAreKeys, CampaignsOnTop, KeysAssumption DEF Fits
  <1>3. owner' \in [Keys -> Keys \cup {Top, Unborn, Gone}]
    BY <1>1, <1>2
  <1>4. voice' \in [Lines -> Characters \cup {Null}]
    BY DEF LineVoices
  <1>5. Stored(owner') = Stored(owner) \cup {k}
    BY <1>1, <1>2, ValuesAssumption, KeysAssumption DEF Stored
  <1>6. \A r \in Stored(owner') : owner'[r] \in Owners(r) /\ (r \in Campaigns \/ owner'[r] \in Stored(owner'))
    BY <1>1, <1>2, <1>5, KeysAssumption DEF Consistent, Stored
  <1>7. \A l \in Lines : voice'[l] # Null => {l, voice'[l]} \subseteq Stored(owner')
    <2> SUFFICES ASSUME NEW l \in Lines, voice'[l] # Null PROVE {l, voice'[l]} \subseteq Stored(owner')
      OBVIOUS
    <2>1. CASE voice'[l] = voice[l]
      BY <2>1, <1>5 DEF Consistent
    <2>2. CASE voice'[l] # voice[l]
      <3>1. k = l /\ voice'[l] = v /\ v # Keep
        BY <2>2
      <3>2. v \in Stored(owner)
        BY <3>1 DEF Fits
      <3> QED BY <3>1, <3>2, <1>5
    <2> QED BY <2>1, <2>2
  <1> QED BY <1>3, <1>4, <1>6, <1>7 DEF Consistent

(* What a delete commits.                                                  *)
LEMMA FlushKeeps ==
  ASSUME NothingDangles, NEW h \in Requests, NEW quiet,
         {l \in Lines : l \in Lost(h) \/ voice[l] \in Lost(h)} \subseteq quiet,
         owner' = [k \in Keys |-> IF k \in Lost(h) THEN Gone ELSE owner[k]],
         voice' = [l \in Lines |-> IF l \in quiet THEN Null ELSE voice[l]]
  PROVE  NothingDangles' /\ Stored(owner') = Stored(owner) \ Lost(h)
  <1> USE DEF NothingDangles
  <1>1. Lost(h) \in SUBSET Keys /\ Closed(Lost(h), owner)
    <2>1. (victims[h] \cap Stored(owner)) \in SUBSET Keys
      BY DEF Stored
    <2> QED BY <2>1, BelowIsClosed DEF Lost, OwnerType
  <1>2. owner' \in [Keys -> Keys \cup {Top, Unborn, Gone}] /\ voice' \in [Lines -> Characters \cup {Null}]
    OBVIOUS
  <1>3. Stored(owner') = Stored(owner) \ Lost(h)
    BY DEF Stored
  <1>4. \A r \in Stored(owner') : owner'[r] \in Owners(r) /\ (r \in Campaigns \/ owner'[r] \in Stored(owner'))
    BY <1>1, <1>3 DEF Consistent, Closed, Stored
  <1>5. \A l \in Lines : voice'[l] # Null => {l, voice'[l]} \subseteq Stored(owner')
    BY <1>3 DEF Consistent
  <1> QED BY <1>2, <1>3, <1>4, <1>5 DEF Consistent

(* -- the routes ---------------------------------------------------------- *)
Columns(k, o, v) ==
  /\ o \in (Owners(k) \ {Top}) \cup {Keep, Null, Unstorable}
  /\ v \in {Keep} \cup (IF k \in Lines THEN LineVoices ELSE {})

LEMMA RoutesAre ==
  ASSUME NEW h, NEW table, NEW owners, NEW voices, Route(h, table, owners, voices), table \subseteq Keys,
         \A k \in table : Owners(k) = owners,
         \A k \in table : voices = IF k \in Lines THEN LineVoices ELSE {Keep}
  PROVE  \E k \in Keys :
           \/ Read(h, k)
           \/ \E o \in Owners(k) \cup {Unstorable} : \E v :
                owner[k] = Unborn /\ (k \in Lines => v \in LineVoices) /\ Create(h, k, o, v)
           \/ \E o, v, other : Columns(k, o, v) /\ Update(h, k, o, v, other)
           \/ Delete(h, k)
  <1>1. CASE \E k \in table : Read(h, k)
    BY <1>1
  <1>2. CASE \E k \in table, o \in owners \cup {Unstorable}, v \in voices :
               owner[k] = Unborn /\ Create(h, k, o, v)
    <2>1. PICK k \in table, o \in owners \cup {Unstorable}, v \in voices :
                 owner[k] = Unborn /\ Create(h, k, o, v)
      BY <1>2
    <2>2. k \in Keys /\ o \in Owners(k) \cup {Unstorable} /\ (k \in Lines => v \in LineVoices)
      BY <2>1
    <2> QED BY <2>1, <2>2
  <1>3. CASE \E k \in table, o \in (owners \ {Top}) \cup {Keep, Null, Unstorable},
                v \in voices \cup {Keep}, other \in BOOLEAN : Update(h, k, o, v, other)
    <2>1. PICK k \in table, o \in (owners \ {Top}) \cup {Keep, Null, Unstorable},
                 v \in voices \cup {Keep}, other \in BOOLEAN : Update(h, k, o, v, other)
      BY <1>3
    <2>2. k \in Keys /\ Columns(k, o, v)
      BY <2>1 DEF Columns
    <2> QED BY <2>1, <2>2
  <1>4. CASE \E k \in table : Delete(h, k)
    BY <1>4
  <1> QED BY <1>1, <1>2, <1>3, <1>4 DEF Route

LEMMA BeginsAre ==
  ASSUME NEW h, Begin(h)
  PROVE  /\ pc[h] = "idle" /\ Watch
         /\ \E k \in Keys :
              \/ Read(h, k)
              \/ \E o \in Owners(k) \cup {Unstorable} : \E v :
                   owner[k] = Unborn /\ (k \in Lines => v \in LineVoices) /\ Create(h, k, o, v)
              \/ \E o, v, other : Columns(k, o, v) /\ Update(h, k, o, v, other)
              \/ Delete(h, k)
  <1>1. /\ \A k \in Campaigns : Owners(k) = CampaignOwners
        /\ \A k \in Characters : Owners(k) = CharacterOwners
        /\ \A k \in Episodes : Owners(k) = EpisodeOwners
        /\ \A k \in Scenes : Owners(k) = SceneOwners
        /\ \A k \in Lines : Owners(k) = LineOwners
        /\ \A k \in Beats : Owners(k) = BeatOwners
    BY KeysAssumption DEF Owners
  <1>2. /\ \A k \in Campaigns \cup Characters \cup Episodes \cup Scenes \cup Beats : k \notin Lines
        /\ \A T \in {Campaigns, Characters, Episodes, Scenes, Lines, Beats} : T \subseteq Keys
    BY KeysAssumption DEF Keys
  <1>3. CASE CampaignRoutes(h)
    BY <1>1, <1>2, <1>3, RoutesAre DEF CampaignRoutes, Begin
  <1>4. CASE CharacterRoutes(h)
    BY <1>1, <1>2, <1>4, RoutesAre DEF CharacterRoutes, Begin
  <1>5. CASE EpisodeRoutes(h)
    BY <1>1, <1>2, <1>5, RoutesAre DEF EpisodeRoutes, Begin
  <1>6. CASE SceneRoutes(h)
    BY <1>1, <1>2, <1>6, RoutesAre DEF SceneRoutes, Begin
  <1>7. CASE LineRoutes(h)
    BY <1>1, <1>2, <1>7, RoutesAre DEF LineRoutes, Begin
  <1>8. CASE BeatRoutes(h)
    BY <1>1, <1>2, <1>8, RoutesAre DEF BeatRoutes, Begin
  <1> QED BY <1>3, <1>4, <1>5, <1>6, <1>7, <1>8 DEF Begin

(* -- the steps ----------------------------------------------------------- *)
(* A step leaves the tables alone, creates a row, writes what a PUT was    *)
(* asked or takes what a delete has marked.                                *)
LEMMA TablesStep ==
  CatalogInv /\ [Next]_vars => NothingDangles' /\ TakenReached /\ AsAsked
  <1> SUFFICES ASSUME CatalogInv, [Next]_vars PROVE NothingDangles' /\ TakenReached /\ AsAsked
    OBVIOUS
  <1> USE DEF CatalogInv
  <1>1. ASSUME UNCHANGED tables PROVE NothingDangles' /\ TakenReached /\ AsAsked
    BY <1>1 DEF tables, NothingDangles, TakenReached, AsAsked, OwnerAsked, VoiceAsked
  <1>2. ASSUME NEW h \in Requests, NEW k \in Keys, NEW o \in Owners(k) \cup {Unstorable}, NEW v,
               owner[k] = Unborn, k \in Lines => v \in LineVoices, Create(h, k, o, v)
        PROVE  NothingDangles' /\ TakenReached /\ AsAsked
    <2>1. CASE UNCHANGED tables
      BY <1>1, <2>1
    <2>2. CASE Fits(o, v) /\ ~UNCHANGED tables
      <3>1. /\ owner' = [owner EXCEPT ![k] = o]
            /\ voice' = IF k \in Lines THEN [voice EXCEPT ![k] = v] ELSE voice
        BY <1>2, <2>2 DEF Create, Refuse
      <3>2. k \notin Stored(owner)
        BY <1>2 DEF Stored
      <3>3. o # Keep /\ (k \in Lines => v # Keep)
        <4>1. Keep \notin Keys /\ Keep # Top /\ Keep # Unstorable /\ Keep # Null
          BY KeysAssumption, ValuesAssumption
        <4>2. Owners(k) \subseteq Keys \cup {Top}
          BY OwnersAreKeys, CampaignsOnTop
        <4>3. LineVoices \subseteq Keys \cup {Null}
          BY DEF LineVoices, Keys
        <4> QED BY <1>2, <4>1, <4>2, <4>3
      <3>4. NothingDangles'
        BY <1>2, <2>2, <3>1, <3>2, <3>3, StoreKeeps
      <3>5. Stored(owner) \subseteq Stored(owner')
        BY <3>1, <3>2 DEF NothingDangles, Stored
      <3>6. TakenReached
        BY <3>5 DEF TakenReached
      <3>7. AsAsked
        BY <3>1, <3>2 DEF AsAsked, OwnerAsked, VoiceAsked, NothingDangles
      <3> QED BY <3>4, <3>6, <3>7
    <2> QED BY <1>2, <2>1, <2>2 DEF Create, Refuse
  <1>3. ASSUME NEW h \in Requests, Write(h) PROVE NothingDangles' /\ TakenReached /\ AsAsked
    <2> DEFINE k == task[h].key
               o == Change(task[h].owner, task[h].copy.owner)
               v == Change(task[h].voice, task[h].copy.voice)
    <2>1. CASE ~(k \in Stored(owner) /\ Fits(o, v))
      BY <1>1, <1>3, <2>1 DEF Write, Refuse
    <2>2. CASE k \in Stored(owner) /\ Fits(o, v)
      <3>1. /\ pc[h] = "write"
            /\ owner' = IF o = Keep THEN owner ELSE [owner EXCEPT ![k] = o]
            /\ voice' = IF v = Keep THEN voice ELSE [voice EXCEPT ![k] = v]
        BY <1>3, <2>2 DEF Write
      <3>2. Columns(k, task[h].owner, task[h].voice) /\ k \in Keys
        BY <3>1 DEF WritesFit, Columns
      <3>3. /\ o = Keep \/ o = task[h].owner
            /\ v = Keep \/ v = task[h].voice
        BY DEF Change
      <3>4. o \in (Owners(k) \ {Top}) \cup {Keep, Null, Unstorable} /\ Top \notin {Keep, Null, Unstorable}
        BY <3>2, <3>3, ValuesAssumption DEF Columns
      <3>5. (k \in Lines => v \in LineVoices \cup {Keep}) /\ (k \notin Lines => v = Keep)
        BY <3>2, <3>3 DEF Columns
      <3>6. voice' = IF v = Keep \/ k \notin Lines THEN voice ELSE [voice EXCEPT ![k] = v]
        BY <3>1, <3>5
      <3>7. NothingDangles'
        BY <2>2, <3>1, <3>2, <3>4, <3>5, <3>6, StoreKeeps
      <3>8. Stored(owner) \subseteq Stored(owner')
        <4>1. ASSUME o # Keep PROVE o \in Stored(owner) \cup {Top}
          BY <2>2, <4>1 DEF Fits
        <4>2. o # Keep => o \notin {Unborn, Gone}
          BY <4>1, ValuesAssumption, KeysAssumption DEF Stored
        <4> QED BY <3>1, <4>2, ValuesAssumption DEF NothingDangles, Stored
      <3>9. TakenReached
        BY <3>8 DEF TakenReached
      <3>10. AsAsked
        BY <3>1, <3>2, <3>3, <3>6 DEF AsAsked, OwnerAsked, VoiceAsked, NothingDangles
      <3> QED BY <3>7, <3>9, <3>10
    <2> QED BY <2>1, <2>2
  <1>4. ASSUME NEW h \in Requests, Flush(h) PROVE NothingDangles' /\ TakenReached /\ AsAsked
    <2> DEFINE quiet == muted[h] \cup {l \in Lines : l \in Lost(h) \/ voice[l] \in Lost(h)}
    <2>1. CASE ~(muted[h] \subseteq Stored(owner))
      BY <1>1, <1>4, <2>1 DEF Flush, Refuse
    <2>2. CASE muted[h] \subseteq Stored(owner)
      <3>1. /\ pc[h] = "voices"
            /\ owner' = [k \in Keys |-> IF k \in Lost(h) THEN Gone ELSE owner[k]]
            /\ voice' = [l \in Lines |-> IF l \in quiet THEN Null ELSE voice[l]]
        BY <1>4, <2>2 DEF Flush
      <3>2. NothingDangles' /\ Stored(owner') = Stored(owner) \ Lost(h)
        BY <3>1, FlushKeeps
      <3>3. Lost(h) \subseteq Reached(h)
        <4>1. Below(victims[h] \cap Stored(owner), owner) \subseteq Below(victims[h], owner)
          BY DEF Below, Directly
        <4> QED BY <3>1, <4>1 DEF DeletesBelow, Lost
      <3>4. TakenReached
        BY <3>1, <3>2, <3>3 DEF TakenReached
      <3>5. ASSUME NEW l \in Lines, l \in quiet, l \notin Lost(h) PROVE l \in spoke[h]
        BY <3>1, <3>3, <3>5 DEF DeletesBelow
      <3>6. AsAsked
        BY <3>1, <3>2, <3>5 DEF AsAsked, OwnerAsked, VoiceAsked, Stored
      <3> QED BY <3>2, <3>4, <3>6
    <2> QED BY <2>1, <2>2
  <1>5. ASSUME NEW h \in Requests, Begin(h) PROVE NothingDangles' /\ TakenReached /\ AsAsked
    <2>1. PICK k \in Keys :
            \/ Read(h, k)
            \/ \E o \in Owners(k) \cup {Unstorable} : \E v :
                 owner[k] = Unborn /\ (k \in Lines => v \in LineVoices) /\ Create(h, k, o, v)
            \/ \E o, v, other : Columns(k, o, v) /\ Update(h, k, o, v, other)
            \/ Delete(h, k)
      BY <1>5, BeginsAre
    <2>2. CASE Read(h, k)
      BY <1>1, <2>2 DEF Read, Refuse
    <2>3. CASE \E o \in Owners(k) \cup {Unstorable} : \E v :
                 owner[k] = Unborn /\ (k \in Lines => v \in LineVoices) /\ Create(h, k, o, v)
      BY <1>2, <2>3
    <2>4. CASE \E o, v, other : Columns(k, o, v) /\ Update(h, k, o, v, other)
      BY <1>1, <2>4 DEF Update, Refuse, tables
    <2>5. CASE Delete(h, k)
      BY <1>1, <2>5 DEF Delete, Refuse
    <2> QED BY <2>1, <2>2, <2>3, <2>4, <2>5
  <1>6. ASSUME NEW h \in Requests, Refresh(h) \/ List(h) \/ Listed(h) \/ ReadVoices(h) \/ Fail(h)
        PROVE  NothingDangles' /\ TakenReached /\ AsAsked
    BY <1>1, <1>6 DEF Refresh, List, Listed, ReadVoices, Fail, Refuse, tables
  <1>7. CASE UNCHANGED vars
    BY <1>1, <1>7 DEF vars, tables
  <1>8. CASE Done
    BY <1>7, <1>8 DEF Done
  <1> QED BY <1>3, <1>4, <1>5, <1>6, <1>7, <1>8 DEF Next, Step

(* What stays as it is for the requests that do not move.                  *)
Still(g) ==
  /\ pc'[g] = pc[g] /\ task'[g] = task[g] /\ todo'[g] = todo[g]
  /\ victims'[g] = victims[g] /\ muted'[g] = muted[g]

LEMMA OthersKeep ==
  ASSUME CatalogInv, NothingDangles', Watch, NEW g \in Requests, Still(g)
  PROVE  WritesFit(g)' /\ DeletesBelow(g)'
  <1>1. WritesFit(g)'
    BY DEF CatalogInv, WritesFit, Still
  <1>2. ASSUME pc[g] \in {"list", "voices"} PROVE DeletesBelow(g)'
    <2>1. victims[g] \subseteq Reached(g)
      BY <1>2, MarkedAreBelow DEF CatalogInv, DeletesBelow
    <2>2. pc'[g] \in {"list", "voices"} /\ task'[g].kind = "delete" /\ task'[g].key \in Keys
      BY <1>2 DEF CatalogInv, DeletesBelow, Still
    <2>3. /\ Below(victims[g], owner') \subseteq Reached(g)' /\ spoke[g] \subseteq spoke'[g]
          /\ \A l \in Lines : voice'[l] \in Reached(g)' => l \in spoke'[g]
      BY <2>1, <2>2, WatchKeeps
    <2> QED BY <1>2, <2>2, <2>3 DEF CatalogInv, DeletesBelow, Still
  <1>3. ASSUME pc[g] \notin {"list", "voices"} PROVE DeletesBelow(g)'
    BY <1>3 DEF CatalogInv, DeletesBelow, Still
  <1> QED BY <1>1, <1>2, <1>3

(* A request that is answered keeps nothing that matters.                  *)
LEMMA AnswerKeeps ==
  ASSUME CatalogInv, NothingDangles', Watch, NEW h \in Requests, NEW what, Answer(h, what)
  PROVE  pc' \in [Requests -> Labels] /\ WritesFit(h)' /\ DeletesBelow(h)' /\ \A g \in Requests \ {h} : Still(g)
  <1>1. /\ pc' \in [Requests -> Labels] /\ pc'[h] = "done" /\ task'[h].kind = "none" /\ muted'[h] = {}
        /\ \A g \in Requests \ {h} : Still(g)
    BY DEF CatalogInv, Shapes, Indexed, Answer, Goto, Labels, Still, NoTask, Target, Task
  <1> QED BY <1>1 DEF WritesFit, DeletesBelow

LEMMA AcceptShapes ==
  ASSUME CatalogInv, NEW h \in Requests, NEW asked, NEW label \in Labels, Accept(h, asked, label)
  PROVE  /\ pc' = [pc EXCEPT ![h] = label] /\ pc' \in [Requests -> Labels] /\ pc'[h] = label /\ task'[h] = asked
         /\ muted' = muted
         /\ \A g \in Requests \ {h} : pc'[g] = pc[g] /\ task'[g] = task[g]
  BY DEF CatalogInv, Shapes, Indexed, Accept, Goto

(* The rest of the invariant, once the tables are known to be sound.       *)
Rest(h) == pc' \in [Requests -> Labels] /\ WritesFit(h)' /\ DeletesBelow(h)' /\ \A g \in Requests \ {h} : Still(g)

LEMMA BeginRest ==
  ASSUME CatalogInv, NothingDangles', NEW h \in Requests, Begin(h)
  PROVE  Rest(h)
  <1> USE DEF CatalogInv
  <1>1. pc[h] = "idle" /\ Watch /\ muted[h] = {}
    BY BeginsAre DEF DeletesBelow
  <1>2. PICK k \in Keys :
          \/ Read(h, k)
          \/ \E o \in Owners(k) \cup {Unstorable} : \E v :
               owner[k] = Unborn /\ (k \in Lines => v \in LineVoices) /\ Create(h, k, o, v)
          \/ \E o, v, other : Columns(k, o, v) /\ Update(h, k, o, v, other)
          \/ Delete(h, k)
    BY BeginsAre
  <1>3. ASSUME NEW what, Refuse(h, what) PROVE Rest(h)
    BY <1>1, <1>3, AnswerKeeps DEF Refuse, Rest
  <1>4. ASSUME NEW asked, NEW label \in {"refresh", "write"}, Accept(h, asked, label), UNCHANGED <<todo, victims>>,
               asked.kind # "delete", label = "write" => Columns(asked.key, asked.owner, asked.voice) /\ asked.key \in Keys
        PROVE  Rest(h)
    <2>1. /\ pc' \in [Requests -> Labels] /\ pc'[h] = label /\ task'[h] = asked /\ muted' = muted
          /\ \A g \in Requests \ {h} : pc'[g] = pc[g] /\ task'[g] = task[g]
      BY <1>4, AcceptShapes DEF Labels
    <2>2. WritesFit(h)'
      BY <1>4, <2>1 DEF WritesFit, Columns
    <2>3. DeletesBelow(h)'
      BY <1>1, <1>4, <2>1 DEF DeletesBelow
    <2> QED BY <1>4, <2>1, <2>2, <2>3 DEF Rest, Still
  <1>5. CASE Delete(h, k) /\ k \in Stored(owner)
    <2>1. /\ victims' = [victims EXCEPT ![h] = {k}] /\ todo' = [todo EXCEPT ![h] = Reads({k})]
          /\ Accept(h, Target("delete", k), "list")
      BY <1>5 DEF Delete, Refuse
    <2>2. /\ pc' \in [Requests -> Labels] /\ pc'[h] = "list" /\ task'[h] = Target("delete", k) /\ muted' = muted
          /\ \A g \in Requests \ {h} : pc'[g] = pc[g] /\ task'[g] = task[g]
      BY <2>1, AcceptShapes DEF Labels
    <2>3. task'[h].kind = "delete" /\ task'[h].key = k
      BY <2>2 DEF Target, Task
    <2>4. /\ Below({k}, owner') \subseteq Reached(h)'
          /\ \A l \in Lines : voice'[l] \in Reached(h)' => l \in spoke'[h]
      BY <1>1, <2>2, <2>3, WatchKeeps
    <2>5. victims'[h] = {k} /\ todo'[h] = Reads({k}) /\ muted'[h] = {}
      BY <1>1, <2>1, <2>2 DEF Shapes, Indexed
    <2>6. WritesFit(h)' /\ DeletesBelow(h)'
      BY <2>2, <2>3, <2>4, <2>5 DEF WritesFit, DeletesBelow
    <2>7. \A g \in Requests \ {h} : Still(g)
      BY <2>1, <2>2 DEF Still, Shapes, Indexed
    <2> QED BY <2>2, <2>6, <2>7 DEF Rest
  <1>6. CASE \E o \in Owners(k) \cup {Unstorable} : \E v :
               owner[k] = Unborn /\ (k \in Lines => v \in LineVoices) /\ Create(h, k, o, v)
    BY <1>3, <1>4, <1>6 DEF Create, Target, Task
  <1>7. CASE \E o, v, other : Columns(k, o, v) /\ Update(h, k, o, v, other)
    <2>1. PICK o, v, other : Columns(k, o, v) /\ Update(h, k, o, v, other)
      BY <1>7
    <2> DEFINE asked == Task("update", k, o, v, owner[k], IF k \in Lines THEN voice[k] ELSE Keep)
    <2>2. asked.kind # "delete" /\ asked.key = k /\ asked.owner = o /\ asked.voice = v
      BY DEF Task
    <2>3. CASE Refuse(h, "not_found")
      BY <1>3, <2>3
    <2>4. CASE Accept(h, asked, "write") /\ UNCHANGED <<todo, victims>>
      <3> HIDE DEF asked
      <3> QED BY <1>4, <2>1, <2>2, <2>4
    <2>5. CASE Accept(h, Target("update", k), "refresh") /\ UNCHANGED <<todo, victims>>
      BY <1>4, <2>5 DEF Target, Task
    <2> QED BY <2>1, <2>3, <2>4, <2>5 DEF Update
  <1>8. CASE Read(h, k)
    BY <1>3, <1>8 DEF Read
  <1>9. CASE Delete(h, k) /\ k \notin Stored(owner)
    BY <1>3, <1>9 DEF Delete
  <1> QED BY <1>2, <1>5, <1>6, <1>7, <1>8, <1>9

LEMMA MoveRest ==
  ASSUME CatalogInv, NothingDangles', NEW h \in Requests,
         Write(h) \/ Refresh(h) \/ List(h) \/ Listed(h) \/ ReadVoices(h) \/ Flush(h) \/ Fail(h)
  PROVE  Rest(h) /\ Watch
  <1> USE DEF CatalogInv
  <1>0. Watch
    BY DEF Write, Refresh, List, Listed, ReadVoices, Flush, Fail
  <1> SUFFICES Rest(h)
    BY <1>0
  <1>1. ASSUME NEW what, Answer(h, what) PROVE Rest(h)
    BY <1>0, <1>1, AnswerKeeps DEF Rest
  <1>2. CASE Write(h)
    <2>1. CASE Accept(h, Target("update", task[h].key), "refresh") /\ UNCHANGED <<todo, victims>>
      <3>1. /\ pc' \in [Requests -> Labels] /\ pc'[h] = "refresh" /\ muted' = muted
            /\ task'[h].kind = "update"
            /\ \A g \in Requests \ {h} : pc'[g] = pc[g] /\ task'[g] = task[g]
        BY <2>1, AcceptShapes DEF Labels, Target, Task
      <3>2. muted[h] = {}
        BY <1>2 DEF Write, DeletesBelow
      <3> QED BY <2>1, <3>1, <3>2 DEF Rest, WritesFit, DeletesBelow, Still
    <2> QED BY <1>1, <1>2, <2>1 DEF Write, Refuse
  <1>3. CASE Refresh(h) \/ Fail(h)
    BY <1>1, <1>3 DEF Refresh, Fail, Refuse
  <1>4. CASE Flush(h)
    BY <1>1, <1>4 DEF Flush, Refuse
  <1>5. ASSUME pc[h] \in {"list", "voices"}, pc'[h] \in {"list", "voices"}, UNCHANGED tables, task' = task
        PROVE  /\ task'[h].kind = "delete" /\ task'[h].key \in Keys
               /\ victims[h] \subseteq Reached(h) /\ Below(victims[h], owner') \subseteq Reached(h)'
               /\ spoke[h] \subseteq spoke'[h]
               /\ \A l \in Lines : voice'[l] \in Reached(h)' => l \in spoke'[h]
    <2>1. task'[h].kind = "delete" /\ task'[h].key \in Keys
      BY <1>5 DEF DeletesBelow
    <2>2. victims[h] \subseteq Reached(h)
      BY <1>5, MarkedAreBelow DEF DeletesBelow
    <2> QED BY <1>0, <1>5, <2>1, <2>2, WatchKeeps
  <1>6. CASE List(h)
    <2>1. PICK read \in todo[h] :
            LET found == {k \in read[2] : owner[k] = read[1]} \ victims[h]
            IN /\ victims' = [victims EXCEPT ![h] = @ \cup found]
               /\ todo' = [todo EXCEPT ![h] = (@ \ {read}) \cup Reads(found)]
      BY <1>6 DEF List
    <2> DEFINE found == {k \in read[2] : owner[k] = read[1]} \ victims[h]
    <2>2. pc[h] = "list" /\ pc' = pc /\ task' = task /\ muted' = muted /\ UNCHANGED tables
      BY <1>6 DEF List
    <2>3. victims'[h] = victims[h] \cup found /\ todo'[h] = (todo[h] \ {read}) \cup Reads(found)
      BY <2>1 DEF Shapes, Indexed
    <2>4. read[1] \in victims[h] /\ read[2] \in Collections(read[1])
      BY <2>2 DEF DeletesBelow, Reads
    <2>5. read[2] \subseteq Keys
      BY <2>4 DEF Collections, Keys
    <2>6. Below(victims'[h], owner') \subseteq Reached(h)'
      <3>1. victims[h] \in SUBSET Keys
        BY <1>5, <2>2 DEF Reached, Shapes
      <3>2. Closed(Below(victims[h], owner), owner) /\ victims[h] \subseteq Below(victims[h], owner)
        BY <3>1, BelowIsClosed DEF NothingDangles, OwnerType
      <3>3. victims'[h] \subseteq Below(victims[h], owner)
        BY <2>3, <2>4, <2>5, <3>2 DEF Closed
      <3>4. Below(victims'[h], owner) \subseteq Below(victims[h], owner)
        BY <3>2, <3>3, BelowIsLeast
      <3> QED BY <1>5, <2>2, <3>4 DEF tables
    <2>7. todo'[h] \subseteq Reads(victims'[h])
      BY <2>2, <2>3 DEF DeletesBelow, Reads
    <2>8. WritesFit(h)' /\ DeletesBelow(h)'
      <3> HIDE DEF found
      <3>1. WritesFit(h)'
        BY <2>2 DEF WritesFit
      <3>2. muted'[h] = {}
        BY <2>2 DEF DeletesBelow
      <3> QED BY <1>5, <2>2, <2>6, <2>7, <3>1, <3>2 DEF DeletesBelow
    <2>9. \A g \in Requests \ {h} : Still(g)
      BY <2>1, <2>2 DEF Still, Shapes, Indexed
    <2> QED BY <2>2, <2>8, <2>9 DEF Rest, Shapes, Indexed
  <1>7. CASE Listed(h)
    <2>1. /\ pc[h] = "list" /\ pc' = [pc EXCEPT ![h] = "voices"] /\ todo'[h] = victims[h] \cap Characters
          /\ task' = task /\ victims' = victims /\ muted' = muted /\ UNCHANGED tables
      BY <1>7 DEF Listed, Goto, Shapes, Indexed
    <2>2. pc' \in [Requests -> Labels] /\ pc'[h] = "voices"
      BY <2>1 DEF Shapes, Indexed, Labels
    <2>3. WritesFit(h)' /\ DeletesBelow(h)'
      BY <1>5, <2>1, <2>2 DEF WritesFit, DeletesBelow
    <2>4. \A g \in Requests \ {h} : Still(g)
      BY <1>7, <2>1 DEF Still, Shapes, Indexed, Listed
    <2> QED BY <2>2, <2>3, <2>4 DEF Rest
  <1>8. CASE ReadVoices(h)
    <2>1. PICK c \in todo[h] :
            /\ todo' = [todo EXCEPT ![h] = @ \ {c}]
            /\ muted' = [muted EXCEPT ![h] = @ \cup ({l \in Lines : voice[l] = c} \ victims[h])]
      BY <1>8 DEF ReadVoices
    <2>2. /\ pc[h] = "voices" /\ pc' = pc /\ task' = task /\ victims' = victims /\ UNCHANGED tables
      BY <1>8 DEF ReadVoices
    <2>3. todo'[h] \subseteq todo[h] /\ muted'[h] \subseteq muted[h] \cup {l \in Lines : voice[l] = c}
      BY <2>1 DEF Shapes, Indexed
    <2>4. c \in Reached(h)
      BY <1>5, <2>2 DEF DeletesBelow
    <2>5. WritesFit(h)' /\ DeletesBelow(h)'
      BY <1>5, <2>2, <2>3, <2>4 DEF WritesFit, DeletesBelow
    <2>6. \A g \in Requests \ {h} : Still(g)
      BY <2>1, <2>2 DEF Still, Shapes, Indexed
    <2> QED BY <2>2, <2>5, <2>6 DEF Rest, Shapes, Indexed
  <1> QED BY <1>2, <1>3, <1>4, <1>6, <1>7, <1>8

LEMMA IndexedStep == CatalogInv /\ [Next]_vars => Indexed'
  <1> SUFFICES ASSUME Indexed, [Next]_vars PROVE Indexed'
    BY DEF CatalogInv, Shapes
  <1> USE DEF Indexed
  <1>1. ASSUME NEW h \in Requests, NEW what, Answer(h, what) PROVE Indexed'
    BY <1>1 DEF Answer
  <1>2. ASSUME NEW h \in Requests, Begin(h) PROVE Indexed'
    <2>1. PICK k \in Keys :
            \/ Read(h, k)
            \/ \E o \in Owners(k) \cup {Unstorable} : \E v :
                 owner[k] = Unborn /\ (k \in Lines => v \in LineVoices) /\ Create(h, k, o, v)
            \/ \E o, v, other : Columns(k, o, v) /\ Update(h, k, o, v, other)
            \/ Delete(h, k)
      BY <1>2, BeginsAre
    <2>2. ASSUME NEW asked, NEW label, Accept(h, asked, label), UNCHANGED <<todo, victims>> PROVE Indexed'
      BY <2>2 DEF Accept
    <2>3. CASE Read(h, k)
      BY <1>1, <2>3 DEF Read, Refuse
    <2>4. CASE \E o \in Owners(k) \cup {Unstorable} : \E v :
                 owner[k] = Unborn /\ (k \in Lines => v \in LineVoices) /\ Create(h, k, o, v)
      BY <1>1, <2>2, <2>4 DEF Create, Refuse
    <2>5. CASE \E o, v, other : Columns(k, o, v) /\ Update(h, k, o, v, other)
      BY <1>1, <2>2, <2>5 DEF Update, Refuse
    <2>6. CASE Delete(h, k)
      BY <1>1, <2>6 DEF Delete, Refuse, Accept
    <2> QED BY <2>1, <2>3, <2>4, <2>5, <2>6
  <1>3. ASSUME NEW h \in Requests, Write(h) PROVE Indexed'
    BY <1>1, <1>3 DEF Write, Refuse, Accept
  <1>4. ASSUME NEW h \in Requests, Refresh(h) \/ Fail(h) \/ Flush(h) PROVE Indexed'
    BY <1>1, <1>4 DEF Refresh, Fail, Flush, Refuse
  <1>5. ASSUME NEW h \in Requests, List(h) \/ Listed(h) \/ ReadVoices(h) PROVE Indexed'
    BY <1>5 DEF List, Listed, ReadVoices
  <1>6. CASE UNCHANGED vars
    BY <1>6 DEF vars
  <1> QED BY <1>2, <1>3, <1>4, <1>5, <1>6 DEF Next, Step, Done

LEMMA InvStep == CatalogInv /\ [Next]_vars => CatalogInv' /\ TakenReached /\ AsAsked
  <1> SUFFICES ASSUME CatalogInv, [Next]_vars PROVE CatalogInv' /\ TakenReached /\ AsAsked
    OBVIOUS
  <1>1. NothingDangles' /\ TakenReached /\ AsAsked
    BY TablesStep
  <1>2. ASSUME NEW h \in Requests, Step(h) PROVE CatalogInv'
    <2>1. Rest(h) /\ Watch
      BY <1>1, <1>2, BeginRest, MoveRest, BeginsAre DEF Step
    <2>2. \A g \in Requests : WritesFit(g)' /\ DeletesBelow(g)'
      BY <1>1, <2>1, OthersKeep DEF Rest
    <2>3. under' \in [Requests -> SUBSET Keys] /\ carried' \in [Requests -> SUBSET Keys]
      <3>1. \A g \in Requests : pc'[g] \in {"list", "voices"} => task'[g].key \in Keys
        BY <2>2 DEF DeletesBelow
      <3>2. \A g \in Requests : task'[g].kind = "delete" /\ pc'[g] \notin {"idle", "done"} => pc'[g] \in {"list", "voices"}
        BY <2>2 DEF DeletesBelow
      <3> QED BY <1>1, <2>1, <3>1, <3>2, WatchTyped DEF Rest
    <2>4. Shapes'
      BY <2>1, <2>3, IndexedStep DEF Rest, Shapes
    <2> QED BY <1>1, <2>2, <2>4 DEF CatalogInv
  <1>3. CASE UNCHANGED vars
    <2>1. /\ pc' = pc /\ task' = task /\ todo' = todo /\ victims' = victims /\ muted' = muted
          /\ owner' = owner /\ voice' = voice /\ under' = under /\ carried' = carried /\ spoke' = spoke
      BY <1>3 DEF vars
    <2>2. \A h \in Requests : WritesFit(h)' /\ DeletesBelow(h)'
      BY <2>1 DEF CatalogInv, WritesFit, DeletesBelow, Reached
    <2>3. Shapes'
      BY <2>1 DEF CatalogInv, Shapes, Indexed
    <2> QED BY <1>1, <2>2, <2>3 DEF CatalogInv
  <1> QED BY <1>1, <1>2, <1>3 DEF Next, Done

(* The foreign keys hold for every number of requests and rows.            *)
THEOREM CatalogConsistent == Spec => []NothingDangles
  <1>1. CatalogInv => NothingDangles
    BY DEF CatalogInv
  <1> QED BY <1>1, InitInv, InvStep, PTL DEF Spec

(* So does what deletes may take: rows that were below their target at one *)
(* moment, or below a marked row that was moved away from there.           *)
THEOREM DeletesTakeWhatTheyReached == Spec => LostWereReached
  <1>1. CatalogInv /\ [Next]_vars => [TakenReached]_vars
    BY InvStep
  <1>2. CatalogInv /\ [Next]_vars => CatalogInv'
    BY InvStep
  <1> QED BY <1>1, <1>2, InitInv, PTL DEF Spec, LostWereReached

(* And nobody's owner or voice changes unasked.                            *)
THEOREM NothingChangesUnasked == Spec => ChangesWereAsked
  <1>1. CatalogInv /\ [Next]_vars => [AsAsked]_vars
    BY InvStep
  <1>2. CatalogInv /\ [Next]_vars => CatalogInv'
    BY InvStep
  <1> QED BY <1>1, <1>2, InitInv, PTL DEF Spec, ChangesWereAsked
(* -- who may fail -------------------------------------------------------- *)
(* A request misses a row it has loaded, or has failed: it met a delete.    *)
Misses(h) ==
  \/ pc[h] \in {"write", "refresh"} /\ task[h].key \notin Stored(owner)
  \/ ~(muted[h] \subseteq Stored(owner))
  \/ answer[h] = "error"
MissesInv ==
  /\ DOMAIN answer = Requests
  /\ \A h \in Requests : Misses(h) => met[h]

LEMMA MetStays ==
  ASSUME Watch, NEW h \in Requests
  PROVE  /\ met[h] => met'[h]
         /\ \A g \in Requests : Beside(h, g) /\ (Busy(h) \/ pc'[h] # pc[h]) => met'[h]
  BY DEF Watch

(* Rows go in the flush of a delete only.                                   *)
LEMMA OnlyFlushTakes ==
  ASSUME CatalogInv, NEW h \in Requests, Step(h), pc[h] # "voices"
  PROVE  Stored(owner) \subseteq Stored(owner')
  <1> USE DEF CatalogInv
  <1>1. CASE UNCHANGED tables
    BY <1>1 DEF tables
  <1>2. CASE Begin(h)
    <2>1. PICK k \in Keys :
            \/ Read(h, k)
            \/ \E o \in Owners(k) \cup {Unstorable} : \E v :
                 owner[k] = Unborn /\ (k \in Lines => v \in LineVoices) /\ Create(h, k, o, v)
            \/ \E o, v, other : Columns(k, o, v) /\ Update(h, k, o, v, other)
            \/ Delete(h, k)
      BY <1>2, BeginsAre
    <2>2. CASE Read(h, k) \/ Delete(h, k) \/ (\E o, v, other : Update(h, k, o, v, other))
      BY <1>1, <2>2 DEF Read, Delete, Update, Refuse, tables
    <2>3. CASE \E o, v : owner[k] = Unborn /\ Create(h, k, o, v)
      BY <1>1, <2>3 DEF Create, Refuse, NothingDangles, Stored
    <2> QED BY <2>1, <2>2, <2>3
  <1>3. CASE Write(h)
    <2> DEFINE k == task[h].key
               o == Change(task[h].owner, task[h].copy.owner)
               v == Change(task[h].voice, task[h].copy.voice)
    <2>1. CASE ~(k \in Stored(owner) /\ Fits(o, v))
      BY <1>1, <1>3, <2>1 DEF Write, Refuse
    <2>2. CASE k \in Stored(owner) /\ Fits(o, v)
      <3>1. owner' = IF o = Keep THEN owner ELSE [owner EXCEPT ![k] = o]
        BY <1>3, <2>2 DEF Write
      <3>2. o # Keep => o \in Stored(owner) \cup {Top}
        BY <2>2 DEF Fits
      <3>3. o # Keep => o \notin {Unborn, Gone}
        BY <3>2, ValuesAssumption, KeysAssumption DEF Stored
      <3> QED BY <3>1, <3>3 DEF NothingDangles, Stored
    <2> QED BY <2>1, <2>2
  <1>4. CASE Refresh(h) \/ List(h) \/ Listed(h) \/ Fail(h)
    BY <1>1, <1>4 DEF Refresh, List, Listed, Fail, Refuse, tables
  <1>5. CASE ReadVoices(h) \/ Flush(h)
    BY <1>5 DEF ReadVoices, Flush
  <1> QED BY <1>2, <1>3, <1>4, <1>5 DEF Step

(* A request that does not move loses its rows to a delete beside it.       *)
LEMMA OthersMiss ==
  ASSUME CatalogInv, MissesInv, NEW h \in Requests, Step(h), Watch, NEW g \in Requests \ {h},
         Still(g), answer'[g] = answer[g], Misses(g)'
  PROVE  met'[g]
  <1>1. CASE Misses(g)
    BY <1>1, MetStays DEF MissesInv
  <1>2. CASE ~Misses(g)
    <2>1. ~(Stored(owner) \subseteq Stored(owner'))
      BY <1>2 DEF Misses, Still
    <2>2. pc[h] = "voices" /\ Deletes(h)
      BY <2>1, OnlyFlushTakes DEF CatalogInv, DeletesBelow, Deletes
    <2>3. Busy(g)
      BY <1>2 DEF Misses, Still, Busy, CatalogInv, DeletesBelow
    <2>4. Beside(g, h)
      BY <2>2 DEF Beside, Busy
    <2> QED BY <2>3, <2>4, MetStays
  <1> QED BY <1>1, <1>2

LEMMA BeginMisses ==
  ASSUME CatalogInv, MissesInv, NothingDangles', NEW h \in Requests, Begin(h), Misses(h)'
  PROVE  met'[h]
  <1> USE DEF CatalogInv
  <1>1. pc[h] = "idle" /\ Watch /\ muted[h] = {}
    BY BeginsAre DEF DeletesBelow
  <1>2. PICK k \in Keys :
          \/ Read(h, k)
          \/ \E o \in Owners(k) \cup {Unstorable} : \E v :
               owner[k] = Unborn /\ (k \in Lines => v \in LineVoices) /\ Create(h, k, o, v)
          \/ \E o, v, other : Columns(k, o, v) /\ Update(h, k, o, v, other)
          \/ Delete(h, k)
    BY BeginsAre
  <1>3. ASSUME NEW what, Refuse(h, what), what # "error" \/ Deadlocked(h) PROVE met'[h]
    <2>1. pc'[h] = "done" /\ muted'[h] = {} /\ answer'[h] = what
      BY <1>3 DEF Refuse, Answer, Goto, Shapes, Indexed, MissesInv
    <2>2. Deadlocked(h)
      BY <1>3, <2>1 DEF Misses
    <2> QED BY <1>1, <2>1, <2>2, MetStays DEF Deadlocked
  <1>4. ASSUME NEW asked, NEW label \in {"refresh", "write", "list"}, Accept(h, asked, label),
               label # "list" => asked.key \in Stored(owner')
        PROVE  met'[h]
    <2>1. pc'[h] = label /\ task'[h] = asked /\ muted'[h] = {} /\ answer' = answer
      BY <1>1, <1>4, AcceptShapes DEF Labels, Accept
    <2>2. answer[h] = "error"
      BY <1>4, <2>1 DEF Misses
    <2> QED BY <1>1, <2>2, MetStays DEF MissesInv, Misses
  <1>5. CASE \E o \in Owners(k) \cup {Unstorable} : \E v :
               owner[k] = Unborn /\ (k \in Lines => v \in LineVoices) /\ Create(h, k, o, v)
    <2>1. PICK o \in Owners(k) \cup {Unstorable} : \E v : owner[k] = Unborn /\ Create(h, k, o, v)
      BY <1>5
    <2>2. PICK v : owner[k] = Unborn /\ Create(h, k, o, v)
      BY <2>1
    <2>3. CASE Fits(o, v) /\ owner' = [owner EXCEPT ![k] = o] /\ Accept(h, Target("create", k), "refresh")
      <3>1. o \in Owners(k)
        BY <2>3, ValuesAssumption, KeysAssumption DEF Fits, Stored
      <3>2. o \in Keys \cup {Top}
        BY <3>1, OwnersAreKeys, CampaignsOnTop
      <3>3. k \in Stored(owner')
        BY <2>3, <3>2, ValuesAssumption, KeysAssumption DEF NothingDangles, Stored
      <3>4. Target("create", k).key = k
        BY DEF Target, Task
      <3> QED BY <1>4, <2>3, <3>3, <3>4
    <2>4. CASE Refuse(h, WriteError(o))
      BY <1>3, <2>4 DEF WriteError
    <2>5. CASE Deadlocked(h) /\ Refuse(h, "error")
      BY <1>3, <2>5
    <2> QED BY <2>2, <2>3, <2>4, <2>5 DEF Create
  <1>6. CASE \E o, v, other : Columns(k, o, v) /\ Update(h, k, o, v, other)
    <2>1. PICK o, v, other : Update(h, k, o, v, other)
      BY <1>6
    <2> DEFINE asked == Task("update", k, o, v, owner[k], IF k \in Lines THEN voice[k] ELSE Keep)
    <2>2. asked.key = k /\ Target("update", k).key = k
      BY DEF Target, Task
    <2>3. CASE Refuse(h, "not_found")
      BY <1>3, <2>3
    <2>4. CASE k \in Stored(owner) /\ UNCHANGED tables /\ Accept(h, asked, "write")
      <3> HIDE DEF asked
      <3> QED BY <1>4, <2>2, <2>4 DEF tables
    <2>5. CASE k \in Stored(owner) /\ UNCHANGED tables /\ Accept(h, Target("update", k), "refresh")
      BY <1>4, <2>2, <2>5 DEF tables
    <2> QED BY <2>1, <2>3, <2>4, <2>5 DEF Update
  <1>7. CASE Read(h, k)
    BY <1>3, <1>7 DEF Read
  <1>8. CASE Delete(h, k)
    BY <1>3, <1>4, <1>8 DEF Delete
  <1> QED BY <1>2, <1>5, <1>6, <1>7, <1>8

LEMMA MoveMisses ==
  ASSUME CatalogInv, MissesInv, NothingDangles', NEW h \in Requests, Misses(h)',
         Write(h) \/ Refresh(h) \/ List(h) \/ Listed(h) \/ ReadVoices(h) \/ Flush(h) \/ Fail(h)
  PROVE  met'[h]
  <1> USE DEF CatalogInv
  <1>0. Watch
    BY MoveRest
  <1>1. Misses(h) => met'[h]
    BY <1>0, MetStays DEF MissesInv
  <1>2. ASSUME NEW what, Answer(h, what) PROVE answer'[h] = "error" /\ what = "error" /\ pc'[h] = "done"
    <2>1. pc'[h] = "done" /\ muted'[h] = {} /\ answer'[h] = what
      BY <1>2 DEF Answer, Goto, Shapes, Indexed, MissesInv
    <2> QED BY <2>1 DEF Misses
  <1>3. CASE Write(h)
    <2> DEFINE k == task[h].key
               o == Change(task[h].owner, task[h].copy.owner)
               v == Change(task[h].voice, task[h].copy.voice)
    <2>0. pc[h] = "write" /\ muted[h] = {}
      BY <1>3 DEF Write, DeletesBelow
    <2>1. CASE k \notin Stored(owner)
      BY <1>1, <2>0, <2>1 DEF Misses
    <2>2. CASE k \in Stored(owner) /\ ~Fits(o, v)
      <3>1. Answer(h, WriteError(o)) /\ WriteError(o) # "error"
        BY <1>3, <2>2 DEF Write, Refuse, WriteError
      <3> QED BY <1>2, <3>1
    <2>3. CASE k \in Stored(owner) /\ Fits(o, v)
      <3>1. Accept(h, Target("update", k), "refresh") /\ Target("update", k).key = k
        BY <1>3, <2>3 DEF Write, Target, Task
      <3>2. pc'[h] = "refresh" /\ task'[h].key = k /\ muted' = muted /\ answer' = answer
        BY <3>1, AcceptShapes DEF Labels, Accept
      <3>3. k \in Stored(owner')
        BY <1>3, <2>0, <2>3, OnlyFlushTakes DEF Step
      <3> QED BY <1>1, <2>0, <3>2, <3>3 DEF Misses
    <2> QED BY <2>1, <2>2, <2>3
  <1>4. CASE Refresh(h)
    <2>1. pc[h] = "refresh" /\ Answer(h, IF task[h].key \in Stored(owner) THEN "ok" ELSE "error")
      BY <1>4 DEF Refresh, Refuse
    <2>2. task[h].key \notin Stored(owner)
      BY <1>2, <2>1
    <2> QED BY <1>1, <2>1, <2>2 DEF Misses
  <1>5. CASE List(h) \/ Listed(h)
    <2>1. pc[h] = "list" /\ pc'[h] \in {"list", "voices"} /\ muted' = muted /\ answer' = answer
      BY <1>5 DEF List, Listed, Goto, Shapes
    <2>2. muted[h] = {}
      BY <2>1 DEF DeletesBelow
    <2> QED BY <1>1, <2>1, <2>2 DEF Misses
  <1>6. CASE ReadVoices(h)
    <2>1. PICK c \in todo[h] :
            muted' = [muted EXCEPT ![h] = @ \cup ({l \in Lines : voice[l] = c} \ victims[h])]
      BY <1>6 DEF ReadVoices
    <2>2. pc[h] = "voices" /\ pc' = pc /\ answer' = answer /\ owner' = owner
      BY <1>6 DEF ReadVoices, tables
    <2>3. c \in Keys
      BY <2>2, MarkedAreBelow DEF DeletesBelow, Shapes, Reached
    <2>4. \A l \in Lines : voice[l] = c => l \in Stored(owner)
      BY <2>3, KeysAssumption DEF NothingDangles, Consistent
    <2>5. muted'[h] \subseteq muted[h] \cup {l \in Lines : voice[l] = c}
      BY <2>1 DEF Shapes, Indexed
    <2> QED BY <1>1, <2>2, <2>4, <2>5 DEF Misses
  <1>7. CASE Flush(h)
    BY <1>1, <1>2, <1>7 DEF Flush, Refuse, Misses
  <1>8. CASE Fail(h)
    <2>1. Answer(h, "error") /\ pc[h] \in {"write", "voices"} /\ Deadlocked(h)
      BY <1>8 DEF Fail, Refuse, Committing
    <2>2. pc'[h] # pc[h]
      BY <1>2, <2>1
    <2> QED BY <1>0, <2>1, <2>2, MetStays DEF Deadlocked
  <1> QED BY <1>3, <1>4, <1>5, <1>6, <1>7, <1>8

LEMMA MissesStep == CatalogInv /\ MissesInv /\ [Next]_vars => MissesInv'
  <1> SUFFICES ASSUME CatalogInv, MissesInv, [Next]_vars PROVE MissesInv'
    OBVIOUS
  <1>1. NothingDangles'
    BY InvStep DEF CatalogInv
  <1>2. ASSUME NEW h \in Requests, Step(h) PROVE MissesInv'
    <2>1. Rest(h) /\ Watch
      BY <1>1, <1>2, BeginRest, MoveRest, BeginsAre DEF Step
    <2>2. DOMAIN answer' = Requests /\ \A g \in Requests \ {h} : answer'[g] = answer[g]
      <3>1. ASSUME NEW what, Answer(h, what) \/ answer' = answer
            PROVE  DOMAIN answer' = Requests /\ \A g \in Requests \ {h} : answer'[g] = answer[g]
        BY <3>1 DEF Answer, MissesInv
      <3>2. CASE Begin(h)
        <4>1. (\E what : Answer(h, what)) \/ answer' = answer
          <5>1. PICK k \in Keys :
                  \/ Read(h, k)
                  \/ \E o \in Owners(k) \cup {Unstorable} : \E v :
                       owner[k] = Unborn /\ (k \in Lines => v \in LineVoices) /\ Create(h, k, o, v)
                  \/ \E o, v, other : Columns(k, o, v) /\ Update(h, k, o, v, other)
                  \/ Delete(h, k)
            BY <3>2, BeginsAre
          <5> QED BY <5>1 DEF Read, Create, Update, Delete, Refuse, Accept
        <4> QED BY <3>1, <4>1
      <3>3. CASE ~Begin(h)
        <4>1. (\E what : Answer(h, what)) \/ answer' = answer
          BY <1>2, <3>3 DEF Step, Write, Refresh, List, Listed, ReadVoices, Flush, Fail, Refuse, Accept
        <4> QED BY <3>1, <4>1
      <3> QED BY <3>2, <3>3
    <2>3. \A g \in Requests \ {h} : Misses(g)' => met'[g]
      BY <1>2, <2>1, <2>2, OthersMiss DEF Rest
    <2>4. Misses(h)' => met'[h]
      BY <1>1, <1>2, BeginMisses, MoveMisses DEF Step
    <2> QED BY <2>2, <2>3, <2>4 DEF MissesInv
  <1>3. CASE UNCHANGED vars
    BY <1>3 DEF vars, MissesInv, Misses
  <1> QED BY <1>2, <1>3 DEF Next, Done

(* A storable request is answered with a 500 only when it met another and  *)
(* one of the two was a delete.                                            *)
THEOREM OnlyDeletesCauseErrors == Spec => []ErrorsNeedADelete
  <1>1. Init => MissesInv
    BY DEF Init, MissesInv, Misses
  <1>2. MissesInv => ErrorsNeedADelete
    BY DEF MissesInv, Misses, ErrorsNeedADelete
  <1>3. CatalogInv /\ [Next]_vars => CatalogInv'
    BY InvStep
  <1> QED BY <1>1, <1>2, <1>3, InitInv, MissesStep, PTL DEF Spec

===============================================================================
