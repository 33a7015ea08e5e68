--------------------------------- MODULE Catalog ---------------------------------
(***************************************************************************)
(* The content catalog: the CRUD handlers of campaigns, characters,        *)
(* episodes, scenes, voice lines and text beats under backend/app/api/v1,  *)
(* the repository and the ORM models they share.                           *)
(*                                                                         *)
(* Each request has a thread, a session and a transaction of its own       *)
(* (PostgreSQL, READ COMMITTED). It loads ORM copies with one SELECT after *)
(* another and writes at its commit. The writes of one commit are a single *)
(* step here: until then the server hides them, rows they change are       *)
(* locked, and whoever refers to such a row waits for the outcome. What    *)
(* the locks can add, a deadlock, is the action Fail.                      *)
(*                                                                         *)
(* Of a row the model keeps its foreign keys. Primary keys come from       *)
(* sequences, which never hand one out twice.                              *)
(***************************************************************************)
EXTENDS Naturals, FiniteSets

CONSTANTS
  Requests,    \* handlers (each runs once)
  Campaigns, Characters, Episodes, Scenes, Lines, Beats,  \* primary keys
  Catalogs,    \* catalogs that earlier requests may have left
  Top,         \* what owns a campaign
  Unborn,      \* the key has not been drawn yet
  Gone,        \* its row has been deleted
  Null,        \* NULL
  Unstorable,  \* a value the column cannot hold
  Keep         \* a field the payload leaves out

Keys == Campaigns \cup Characters \cup Episodes \cup Scenes \cup Lines \cup Beats

(* The tables share no key, and nothing else is one.                       *)
ASSUME KeysAssumption ==
  /\ Campaigns \cap Characters = {} /\ Campaigns \cap Episodes = {} /\ Campaigns \cap Scenes = {}
  /\ Campaigns \cap Lines = {} /\ Campaigns \cap Beats = {} /\ Characters \cap Episodes = {}
  /\ Characters \cap Scenes = {} /\ Characters \cap Lines = {} /\ Characters \cap Beats = {}
  /\ Episodes \cap Scenes = {} /\ Episodes \cap Lines = {} /\ Episodes \cap Beats = {}
  /\ Scenes \cap Lines = {} /\ Scenes \cap Beats = {} /\ Lines \cap Beats = {}
  /\ {Top, Unborn, Gone, Null, Unstorable, Keep} \cap Keys = {}
ASSUME ValuesAssumption ==
  /\ Top \notin {Unborn, Gone, Null, Unstorable, Keep}
  /\ Unborn \notin {Gone, Null, Unstorable, Keep}
  /\ Gone \notin {Null, Unstorable, Keep}
  /\ Null \notin {Unstorable, Keep}
  /\ Unstorable # Keep

(* -- the tables: which rows can own a row of each ----------------------- *)
CampaignOwners == {Top}
CharacterOwners == Campaigns
EpisodeOwners == Campaigns
SceneOwners == Episodes
LineOwners == Scenes
BeatOwners == Scenes
LineVoices == Characters \cup {Null}

Owners(k) ==
  CASE k \in Campaigns -> CampaignOwners
    [] k \in Characters -> CharacterOwners
    [] k \in Episodes -> EpisodeOwners
    [] k \in Scenes -> SceneOwners
    [] k \in Lines -> LineOwners
    [] k \in Beats -> BeatOwners

(* The collections of a row that the ORM deletes with it. Those of a       *)
(* character, its voice lines, are not among them.                         *)
Collections(k) ==
  CASE k \in Campaigns -> {Characters, Episodes}
    [] k \in Episodes -> {Scenes}
    [] k \in Scenes -> {Lines, Beats}
    [] OTHER -> {}

Stored(own) == {k \in Keys : own[k] \notin {Unborn, Gone}}

(* What the foreign keys ask of the tables.                                *)
Consistent(own, speaks) ==
  /\ \A k \in Stored(own) : own[k] \in Owners(k) /\ (k \in Campaigns \/ own[k] \in Stored(own))
  /\ \A l \in Lines : speaks[l] # Null => {l, speaks[l]} \subseteq Stored(own)

(* A row goes with its owner (ON DELETE CASCADE), and rows are at most     *)
(* three levels below a campaign.                                          *)
Directly(rows, own) == rows \cup {k \in Keys : own[k] \in rows}
Below(rows, own) == Directly(Directly(Directly(rows, own), own), own)

ASSUME CatalogsAssumption ==
  \A c \in Catalogs :
    /\ c.owner \in [Keys -> Keys \cup {Top, Unborn, Gone}]
    /\ c.voice \in [Lines -> Characters \cup {Null}]
    /\ Consistent(c.owner, c.voice)

VARIABLES
  owner,    \* the row above each committed row, or Unborn or Gone
  voice,    \* the character of each committed voice line
  pc,       \* what each request does next
  task,     \* what it was asked, and the copy it has loaded
  todo,     \* collections a delete still has to read
  victims,  \* rows it has read and marked as deleted
  muted,    \* lines whose voice it will clear
  answer,   \* what the client was told
  under,    \* rows that were below its target at one moment since it began (history)
  carried,  \* others, below a marked row that had been moved away from there (history)
  spoke,    \* lines that were voiced by a row of these two sets (history)
  met       \* whether it ran beside another, one of them a delete (history)

tables == <<owner, voice>>
vars == <<owner, voice, pc, task, todo, victims, muted, answer, under, carried, spoke, met>>

(* What a request is about, with its key fields as asked and as loaded.    *)
Task(kind, k, o, v, own, speaks) ==
  [kind |-> kind, key |-> k, owner |-> o, voice |-> v, copy |-> [owner |-> own, voice |-> speaks]]
Target(kind, k) == Task(kind, k, Keep, Keep, Keep, Keep)
NoTask == Target("none", Top)

Busy(h) == pc[h] \notin {"idle", "done"}

Init ==
  /\ \E c \in Catalogs : owner = c.owner /\ voice = c.voice
  /\ pc = [h \in Requests |-> "idle"]
  /\ task = [h \in Requests |-> NoTask]
  /\ todo = [h \in Requests |-> {}]
  /\ victims = [h \in Requests |-> {}]
  /\ muted = [h \in Requests |-> {}]
  /\ answer = [h \in Requests |-> "none"]
  /\ under = [h \in Requests |-> {}]
  /\ carried = [h \in Requests |-> {}]
  /\ spoke = [h \in Requests |-> {}]
  /\ met = [h \in Requests |-> FALSE]

---------------------------------------------------------------------------
(* History: what each delete under way may take, and which requests ran    *)
(* beside a delete, or are deletes that ran beside another request. A row  *)
(* that is marked stays marked when a PUT moves it to another owner, and   *)
(* what is in it then goes with it. Rows that are not marked carry nothing.*)
Deletes(h) == task[h].kind = "delete"
Beside(h, g) == h # g /\ Busy(g) /\ (Deletes(h) \/ Deletes(g))

Reached(h) == under[h] \cup carried[h]

Watch ==
  /\ under' = [h \in Requests |->
        IF Busy(h)' /\ Deletes(h)' THEN under[h] \cup Below({task'[h].key}, owner') ELSE {}]
  /\ carried' = [h \in Requests |->
        IF under'[h] = {} THEN {}
        ELSE carried[h] \cup (Below(victims[h] \cap Reached(h), owner') \ under'[h])]
  /\ spoke' = [h \in Requests |->
        IF under'[h] = {} THEN {} ELSE spoke[h] \cup {l \in Lines : voice'[l] \in Reached(h)'}]
  /\ met' = [h \in Requests |->
        \/ met[h]
        \/ (Busy(h) \/ pc'[h] # pc[h]) /\ (\E g \in Requests : Beside(h, g))
        \/ Busy(h)' /\ (\E g \in Requests : Beside(h, g))']

Goto(h, label) == pc' = [pc EXCEPT ![h] = label]

(* The request is answered, and its session closed.                        *)
Answer(h, what) ==
  /\ Goto(h, "done")
  /\ answer' = [answer EXCEPT ![h] = what]
  /\ todo' = [todo EXCEPT ![h] = {}]
  /\ victims' = [victims EXCEPT ![h] = {}]
  /\ muted' = [muted EXCEPT ![h] = {}]
  /\ task' = [task EXCEPT ![h] = NoTask]

Refuse(h, what) == Answer(h, what) /\ UNCHANGED tables

Accept(h, asked, label) ==
  /\ Goto(h, label)
  /\ task' = [task EXCEPT ![h] = asked]
  /\ UNCHANGED <<answer, muted>>

(* Mutant: SQLite without its foreign_keys pragma.                         *)
FitsUnchecked(o, v) == o \notin {Null, Unstorable}

(* Whether the tables take these values.                                   *)
Fits(o, v) == o \in {Keep, Top} \cup Stored(owner) /\ v \in {Keep, Null} \cup Stored(owner)

(* Mutant: no IntegrityError is caught.                                    *)
WriteErrorUncaught(o) == "error"

(* A foreign key or a NOT NULL constraint that fails is an IntegrityError, *)
(* which the handlers catch; a value the column cannot hold is a DataError,*)
(* which they do not (500).                                                *)
WriteError(o) == IF o = Unstorable THEN "unstorable" ELSE "conflict"

(* A transaction that waits for another in a circle is rolled back. It     *)
(* takes a delete to close one: other writers lock a single row and share  *)
(* what it refers to. Both are at their commit, or the other is just past. *)
Committing(g) == pc[g] = "write" \/ (pc[g] = "voices" /\ todo[g] = {})
Deadlocked(h) ==
  \E g \in Requests : Beside(h, g) /\ (Committing(g) \/ pc[g] = "refresh")

(* POST: INSERT, COMMIT and the refresh, another statement.                *)
Create(h, k, o, v) ==
  \/ /\ Fits(o, v)
     /\ owner' = [owner EXCEPT ![k] = o]
     /\ voice' = IF k \in Lines THEN [voice EXCEPT ![k] = v] ELSE voice
     /\ Accept(h, Target("create", k), "refresh")
     /\ UNCHANGED <<todo, victims>>
  \/ ~Fits(o, v) /\ Refuse(h, WriteError(o))
  \/ Deadlocked(h) /\ Refuse(h, "error")

(* Mutant: every column of the loaded copy is written.                     *)
ChangeWhole(asked, loaded) == IF asked = Keep THEN loaded ELSE asked

(* The value a column is set to: the ORM leaves out what is as loaded.     *)
Change(asked, loaded) == IF asked = loaded THEN Keep ELSE asked

(* PUT: the copy is loaded, and the columns that differ from it will be    *)
(* written. Other stands for the columns that are not keys.                *)
Update(h, k, o, v, other) ==
  LET speaks == IF k \in Lines THEN voice[k] ELSE Keep
      differs == other \/ Change(o, owner[k]) # Keep \/ Change(v, speaks) # Keep
  IN \/ k \notin Stored(owner) /\ Refuse(h, "not_found")
     \/ /\ k \in Stored(owner)
        /\ IF differs THEN Accept(h, Task("update", k, o, v, owner[k], speaks), "write")
                      ELSE Accept(h, Target("update", k), "refresh")
        /\ UNCHANGED <<tables, todo, victims>>

(* An UPDATE that finds no row is a StaleDataError.                        *)
Write(h) ==
  LET k == task[h].key
      o == Change(task[h].owner, task[h].copy.owner)
      v == Change(task[h].voice, task[h].copy.voice)
  IN /\ pc[h] = "write"
     /\ \/ k \notin Stored(owner) /\ Refuse(h, "error")
        \/ k \in Stored(owner) /\ ~Fits(o, v) /\ Refuse(h, WriteError(o))
        \/ /\ k \in Stored(owner) /\ Fits(o, v)
           /\ owner' = IF o = Keep THEN owner ELSE [owner EXCEPT ![k] = o]
           /\ voice' = IF v = Keep THEN voice ELSE [voice EXCEPT ![k] = v]
           /\ Accept(h, Target("update", k), "refresh")
           /\ UNCHANGED <<todo, victims>>
     /\ Watch

(* The row is read once more for the answer.                               *)
Refresh(h) ==
  /\ pc[h] = "refresh"
  /\ Refuse(h, IF task[h].key \in Stored(owner) THEN "ok" ELSE "error")
  /\ Watch

(* DELETE: the row is loaded and marked, and with it the collections the   *)
(* ORM cascades to, read one SELECT at a time.                             *)
Reads(rows) == UNION {{<<k, kind>> : kind \in Collections(k)} : k \in rows}

Delete(h, k) ==
  \/ k \notin Stored(owner) /\ Refuse(h, "not_found")
  \/ /\ k \in Stored(owner)
     /\ victims' = [victims EXCEPT ![h] = {k}]
     /\ todo' = [todo EXCEPT ![h] = Reads({k})]
     /\ Accept(h, Target("delete", k), "list")
     /\ UNCHANGED tables

List(h) ==
  /\ pc[h] = "list"
  /\ \E read \in todo[h] :
       LET found == {k \in read[2] : owner[k] = read[1]} \ victims[h]
       IN /\ victims' = [victims EXCEPT ![h] = @ \cup found]
          /\ todo' = [todo EXCEPT ![h] = (@ \ {read}) \cup Reads(found)]
  /\ UNCHANGED <<tables, task, muted, pc, answer>>
  /\ Watch

(* The flush begins: it reads the voice lines of the characters that go.   *)
Listed(h) ==
  /\ pc[h] = "list" /\ todo[h] = {}
  /\ Goto(h, "voices")
  /\ todo' = [todo EXCEPT ![h] = victims[h] \cap Characters]
  /\ UNCHANGED <<tables, task, victims, muted, answer>>
  /\ Watch

ReadVoices(h) ==
  /\ pc[h] = "voices"
  /\ \E c \in todo[h] :
       /\ todo' = [todo EXCEPT ![h] = @ \ {c}]
       /\ muted' = [muted EXCEPT ![h] = @ \cup ({l \in Lines : voice[l] = c} \ victims[h])]
  /\ UNCHANGED <<tables, task, victims, pc, answer>>
  /\ Watch

(* Mutant: a character takes its voice lines with it.                      *)
LostWithLines(h) == Below((victims[h] \cup muted[h]) \cap Stored(owner), owner)

Lost(h) == Below(victims[h] \cap Stored(owner), owner)

(* Lines that have lost their voice are updated, the marked rows deleted   *)
(* by primary key, and the foreign keys do the rest. A marked row that has *)
(* gone is only warned about, a line to update is not.                     *)
Flush(h) ==
  LET lost == Lost(h)
      quiet == muted[h] \cup {l \in Lines : l \in lost \/ voice[l] \in lost}
  IN /\ pc[h] = "voices" /\ todo[h] = {}
     /\ \/ ~(muted[h] \subseteq Stored(owner)) /\ Refuse(h, "error")
        \/ /\ muted[h] \subseteq Stored(owner)
           /\ owner' = [k \in Keys |-> IF k \in lost THEN Gone ELSE owner[k]]
           /\ voice' = [l \in Lines |-> IF l \in quiet THEN Null ELSE voice[l]]
           /\ Answer(h, "ok")
     /\ Watch

Fail(h) == Committing(h) /\ Deadlocked(h) /\ Refuse(h, "error") /\ Watch

---------------------------------------------------------------------------
(* The routes of a table. GET answers from one SELECT and writes nothing.  *)
Read(h, k) == Refuse(h, IF k \in Stored(owner) THEN "ok" ELSE "not_found")

Route(h, table, owners, voices) ==
  \/ \E k \in table : Read(h, k)
  \/ \E k \in table, o \in owners \cup {Unstorable}, v \in voices :
       owner[k] = Unborn /\ Create(h, k, o, v)
  \/ \E k \in table, o \in (owners \ {Top}) \cup {Keep, Null, Unstorable},
        v \in voices \cup {Keep}, other \in BOOLEAN : Update(h, k, o, v, other)
  \/ \E k \in table : Delete(h, k)

CampaignRoutes(h) == Route(h, Campaigns, CampaignOwners, {Keep})
CharacterRoutes(h) == Route(h, Characters, CharacterOwners, {Keep})
EpisodeRoutes(h) == Route(h, Episodes, EpisodeOwners, {Keep})
SceneRoutes(h) == Route(h, Scenes, SceneOwners, {Keep})
LineRoutes(h) == Route(h, Lines, LineOwners, LineVoices)
BeatRoutes(h) == Route(h, Beats, BeatOwners, {Keep})

Begin(h) ==
  /\ pc[h] = "idle"
  /\ CampaignRoutes(h) \/ CharacterRoutes(h) \/ EpisodeRoutes(h) \/ SceneRoutes(h)
       \/ LineRoutes(h) \/ BeatRoutes(h)
  /\ Watch

Step(h) ==
  Begin(h) \/ Write(h) \/ Refresh(h) \/ List(h) \/ Listed(h) \/ ReadVoices(h) \/ Flush(h) \/ Fail(h)

Done == (\A h \in Requests : pc[h] = "done") /\ UNCHANGED vars

Next == Done \/ \E h \in Requests : Step(h)
Spec == Init /\ [][Next]_vars

---------------------------------------------------------------------------
(* The tables keep their foreign keys whatever the requests do to them:    *)
(* every stored row has its owner, every voice its character, and a key    *)
(* that was used is not used again.                                        *)
NothingDangles ==
  /\ owner \in [Keys -> Keys \cup {Top, Unborn, Gone}]
  /\ voice \in [Lines -> Characters \cup {Null}]
  /\ Consistent(owner, voice)

(* A delete takes only rows that were below its target at one moment since *)
(* it began, or that were below a row it had marked, which had been so and *)
(* was then moved away: DELETE of e1 marks s1, a PUT moves s1 to e2, a POST*)
(* puts l1 into s1, and the delete takes l1 too. It takes nothing else: not*)
(* the voice lines of a character, not what is in rows that were moved out *)
(* before it read them.                                                    *)
TakenReached ==
  \A k \in Stored(owner) \ Stored(owner') :
    \E h \in Requests : pc[h] = "voices" /\ k \in Reached(h)
LostWereReached == [][TakenReached]_vars

(* A surviving row changes its owner or its voice only as the PUT that     *)
(* commits was asked to, never by a column of a stale copy; and a line     *)
(* falls silent by itself only when its voice is or was a character below  *)
(* the target of the delete that commits.                                  *)
OwnerAsked(k) ==
  owner'[k] # owner[k] =>
    \E h \in Requests : pc[h] = "write" /\ task[h].key = k /\ task[h].owner = owner'[k]
VoiceAsked(l) ==
  voice'[l] # voice[l] =>
    \E h \in Requests :
      \/ pc[h] = "write" /\ task[h].key = l /\ task[h].voice = voice'[l]
      \/ pc[h] = "voices" /\ voice'[l] = Null /\ l \in spoke[h]
AsAsked ==
  \A k \in Stored(owner) \cap Stored(owner') : OwnerAsked(k) /\ (k \in Lines => VoiceAsked(k))
ChangesWereAsked == [][AsAsked]_vars

(* A request that could be stored fails with a 500 only when it met        *)
(* another and one of the two was a delete: alone, or among creations and  *)
(* changes, each is answered by what it found.                             *)
ErrorsNeedADelete == \A h \in Requests : answer[h] = "error" => met[h]

===============================================================================
