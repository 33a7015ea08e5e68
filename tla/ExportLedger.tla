------------------------------ MODULE ExportLedger ------------------------------
(***************************************************************************)
(* Exports, their TikTok video ids and their analytics snapshots: the      *)
(* handlers of backend/app/api/v1/exports.py and analytics.py that write,  *)
(* and delete_campaign of campaigns.py, whose rows cascade.                *)
(*                                                                         *)
(* Each handler runs on a thread with a session and a transaction of its   *)
(* own (PostgreSQL, READ COMMITTED). It reads an ORM copy first and writes *)
(* later, statement by statement. A row that is updated or deleted, a row  *)
(* a foreign key refers to and an entry of a unique index are locked until *)
(* the transaction ends; a statement that needs one of them waits. The     *)
(* server breaks a cycle of waits by failing one of the statements.        *)
(***************************************************************************)
EXTENDS Naturals, FiniteSets

CONSTANTS
  Requests,   \* handlers (each runs once)
  Campaigns,  \* primary keys of campaigns
  Exports,    \* primary keys the exports sequence can draw
  Videos,     \* TikTok video ids
  Times,      \* values of snapshot_at
  NoVideo,    \* NULL
  Blank,      \* the empty string
  NoRow,      \* no such row
  None        \* a field a request does not have

Ids == Videos \cup {NoVideo, Blank}

ASSUME ConstantsAssumption ==
  /\ NoVideo \notin Videos \cup {Blank}
  /\ Blank \notin Videos
  /\ None \notin Exports \cup Campaigns \cup Times
  /\ NoRow \notin [campaign: Campaigns, video: Ids]

Export == [campaign: Campaigns, video: Ids]
Snapshot == [export: Exports, campaign: Campaigns, video: Ids, time: Times]

Kinds == {"create", "attach", "snapshot", "ingest", "drop"}
Task == [kind: Kinds \cup {"none"}, export: Exports \cup {None},
         campaign: Campaigns \cup {None}, video: Ids, time: Times \cup {None}]
NoTask == [kind |-> "none", export |-> None, campaign |-> None,
           video |-> NoVideo, time |-> None]

(* What a transaction locks, and how strongly (FOR KEY SHARE, FOR NO KEY   *)
(* UPDATE, FOR UPDATE; an entry of a unique index is like the last).       *)
Things ==
  ({"campaign"} \X Campaigns) \cup ({"export"} \X Exports) \cup ({"video"} \X Ids)
    \cup ({"snapshot"} \X Exports \X Times)
Modes == {"share", "nokey", "update"}
Lock == [on: Things, mode: Modes]
Conflict(m, n) == ~("share" \in {m, n} /\ "update" \notin {m, n})

VARIABLES
  campaigns,  \* committed campaigns
  exports,    \* committed exports
  snapshots,  \* committed analytics_snapshots
  drawn,      \* export ids the sequence has handed out
  pc,         \* the statement each handler is at
  task,       \* what it was asked and has loaded
  locks,      \* what its transaction has locked
  answer      \* what its client was told

tables == <<campaigns, exports, snapshots, drawn>>
vars == <<campaigns, exports, snapshots, drawn, pc, task, locks, answer>>

Labels ==
  {"idle", "lock_row", "video_key", "snapshot_key", "check_export", "check_campaign",
   "lock_campaign", "cascade", "commit", "refresh", "done"}
Answers == {"none", "ok", "not_found", "bad_request", "conflict", "error"}

Exist == {e \in Exports : exports[e] # NoRow}
Taken(v, e) == \E d \in Exist \ {e} : exports[d].video = v

(* Any table that earlier requests have left: distinct ids, no snapshots.  *)
Init ==
  /\ campaigns = Campaigns
  /\ exports \in [Exports -> Export \cup {NoRow}]
  /\ \A e \in Exist : exports[e].video # NoVideo => ~Taken(exports[e].video, e)
  /\ snapshots = {}
  /\ drawn = Exist
  /\ pc = [h \in Requests |-> "idle"]
  /\ task = [h \in Requests |-> NoTask]
  /\ locks = [h \in Requests |-> {}]
  /\ answer = [h \in Requests |-> "none"]

---------------------------------------------------------------------------
(* Ends of a handler, and the way to its next statement.                   *)
Goto(h, label) == pc' = [pc EXCEPT ![h] = label]

Answer(h, what) ==
  /\ answer' = [answer EXCEPT ![h] = what]
  /\ Goto(h, "done")

(* Mutant: the transaction is left open. *)
AbortLeaksLocks(h, what) ==
  /\ Answer(h, what)
  /\ UNCHANGED <<tables, task, locks>>

(* The handler rolls back, or get_db_session closes its session.           *)
Abort(h, what) ==
  /\ Answer(h, what)
  /\ locks' = [locks EXCEPT ![h] = {}]
  /\ UNCHANGED <<tables, task>>

(* Refused before any statement that writes.                               *)
Refuse(h, what) == Answer(h, what) /\ UNCHANGED <<tables, task, locks>>

(* The SELECT is done and the handler goes on with its work.               *)
Set(h, kind, e, c, v, t, label) ==
  /\ task' = [task EXCEPT ![h] = [kind |-> kind, export |-> e, campaign |-> c,
                                  video |-> v, time |-> t]]
  /\ Goto(h, label)
  /\ UNCHANGED <<campaigns, exports, snapshots, locks, answer>>

(* POST /exports: the INSERT draws an id and enters its index entries.     *)
CreateExport(h, c, v) ==
  \E e \in Exports \ drawn :
    /\ drawn' = drawn \cup {e}
    /\ Set(h, "create", e, c, v, None, IF v = NoVideo THEN "check_campaign" ELSE "video_key")

(* PUT /exports/{id}/tiktok-video: the ORM writes nothing when the id is   *)
(* the one it has loaded.                                                  *)
UpdateVideo(h, e, v) ==
  \/ exports[e] = NoRow /\ Refuse(h, "not_found")
  \/ /\ exports[e] # NoRow
     /\ Set(h, "attach", e, exports[e].campaign, v, None,
            IF v = exports[e].video THEN "refresh" ELSE "lock_row")
     /\ UNCHANGED drawn

(* Mutant: the campaign of the payload is taken as it is. *)
CreateSnapshotAnyCampaign(h, e, c, v, t) ==
  \/ exports[e] = NoRow /\ Refuse(h, "not_found")
  \/ /\ exports[e] # NoRow
     /\ Set(h, "snapshot", e, c, v, t, "snapshot_key")
     /\ UNCHANGED drawn

(* POST /analytics/snapshots.                                              *)
CreateSnapshot(h, e, c, v, t) ==
  \/ exports[e] = NoRow /\ Refuse(h, "not_found")
  \/ exports[e] # NoRow /\ exports[e].campaign # c /\ Refuse(h, "bad_request")
  \/ /\ exports[e] # NoRow /\ exports[e].campaign = c
     /\ Set(h, "snapshot", e, c, v, t, "snapshot_key")
     /\ UNCHANGED drawn

(* What write_tiktok_analytics_snapshot refuses, given the id and the time *)
(* in the payload and the id of the loaded export.                         *)
BadPayload(given, t, seen) ==
  \/ t = None
  \/ given = Blank /\ seen \in {NoVideo, Blank}
  \/ given # Blank /\ seen \notin {NoVideo, given}

(* POST /analytics/tiktok/ingest: an export without an id gets the one of  *)
(* the payload first. A payload without a time is refused like a bad id.   *)
Ingest(h, e, given, t) ==
  \/ exports[e] = NoRow /\ Refuse(h, "not_found")
  \/ exports[e] # NoRow /\ BadPayload(given, t, exports[e].video) /\ Refuse(h, "bad_request")
  \/ /\ exports[e] # NoRow /\ ~BadPayload(given, t, exports[e].video)
     /\ Set(h, "ingest", e, exports[e].campaign,
            IF given = Blank THEN exports[e].video ELSE given, t,
            IF exports[e].video = NoVideo THEN "lock_row" ELSE "snapshot_key")
     /\ UNCHANGED drawn

(* DELETE /campaigns/{id}; its characters and episodes are left out.       *)
DeleteCampaign(h, c) ==
  \/ c \notin campaigns /\ Refuse(h, "not_found")
  \/ /\ c \in campaigns
     /\ Set(h, "drop", None, c, NoVideo, None, "lock_campaign")
     /\ UNCHANGED drawn

Arrive(h) ==
  /\ pc[h] = "idle"
  /\ \/ \E c \in Campaigns : DeleteCampaign(h, c) \/ \E v \in Ids : CreateExport(h, c, v)
     \/ \E e \in Exports :
          \/ \E v \in Ids : UpdateVideo(h, e, v)
          \/ \E c \in Campaigns \cup {None}, v \in Videos, t \in Times : CreateSnapshot(h, e, c, v, t)
          \/ \E given \in Videos \cup {Blank}, t \in Times \cup {None} : Ingest(h, e, given, t)

---------------------------------------------------------------------------
(* The lock a statement needs. An UPDATE that changes the unique column    *)
(* locks the row against foreign keys too; a cascade meets the remaining   *)
(* rows in any order.                                                      *)
Mine(c) == {e \in Exist : exports[e].campaign = c}
Writes(h, e) == \E l \in locks[h] : l.on = <<"export", e>> /\ l.mode # "share"
RowMode(h) ==
  IF exports[task[h].export] # NoRow /\ exports[task[h].export].video = task[h].video
    THEN "nokey" ELSE "update"

Wants(h) ==
  LET e == task[h].export  c == task[h].campaign
  IN CASE pc[h] = "lock_row" -> {[on |-> <<"export", e>>, mode |-> RowMode(h)]}
       [] pc[h] = "video_key" -> {[on |-> <<"video", task[h].video>>, mode |-> "update"]}
       [] pc[h] = "snapshot_key" -> {[on |-> <<"snapshot", e, task[h].time>>, mode |-> "update"]}
       [] pc[h] = "check_export" -> {[on |-> <<"export", e>>, mode |-> "share"]}
       [] pc[h] = "check_campaign" -> {[on |-> <<"campaign", c>>, mode |-> "share"]}
       [] pc[h] = "lock_campaign" -> {[on |-> <<"campaign", c>>, mode |-> "update"]}
       [] pc[h] = "cascade" ->
            {[on |-> <<"export", d>>, mode |-> "update"] :
               d \in {x \in Mine(c) : ~Writes(h, x)}}
       [] OTHER -> {}

Held(g, want) == \E l \in locks[g] : l.on = want.on /\ Conflict(l.mode, want.mode)
WaitsFor(h, g) == g # h /\ \E want \in Wants(h) : Held(g, want)
Free(h, want) == \A g \in Requests \ {h} : ~Held(g, want)

(* The statement gets the lock it wants, and what comes with it.           *)
Get(h, extra) == locks' = [locks EXCEPT ![h] = @ \cup Wants(h) \cup extra]

(* A row that is updated or deleted keeps its old index entries locked.    *)
OldVideo(e) ==
  IF exports[e].video = NoVideo THEN {}
    ELSE {[on |-> <<"video", exports[e].video>>, mode |-> "update"]}
OldSnapshots(e) ==
  {[on |-> <<"snapshot", e, s.time>>, mode |-> "update"] : s \in {x \in snapshots : x.export = e}}

(* UPDATE exports ... WHERE id: no row left is a StaleDataError.           *)
LockRow(h) ==
  LET e == task[h].export
  IN /\ pc[h] = "lock_row"
     /\ \A want \in Wants(h) : Free(h, want)
     /\ \/ exports[e] = NoRow /\ Abort(h, "error")
        \/ /\ exports[e] # NoRow
           /\ Get(h, OldVideo(e))
           /\ Goto(h, IF task[h].video \notin {NoVideo, exports[e].video} THEN "video_key"
                      ELSE IF task[h].kind = "attach" THEN "commit" ELSE "snapshot_key")
           /\ UNCHANGED <<tables, task, answer>>

AfterVideoKey(h) ==
  CASE task[h].kind = "create" -> "check_campaign"
    [] task[h].kind = "attach" -> "commit"
    [] OTHER -> "snapshot_key"

(* Mutant: tiktok_video_id is not unique. *)
TakeVideoAnyway(h) ==
  /\ pc[h] = "video_key"
  /\ \A want \in Wants(h) : Free(h, want)
  /\ Get(h, {}) /\ Goto(h, AfterVideoKey(h)) /\ UNCHANGED <<tables, task, answer>>

(* Mutant: update_tiktok_video_id commits. *)
TakeVideoAndCommit(h) ==
  /\ pc[h] = "video_key"
  /\ \A want \in Wants(h) : Free(h, want)
  /\ \/ Taken(task[h].video, task[h].export) /\ Abort(h, "conflict")
     \/ /\ ~Taken(task[h].video, task[h].export)
        /\ Goto(h, AfterVideoKey(h))
        /\ \/ /\ task[h].kind # "create"
              /\ exports' = [exports EXCEPT ![task[h].export].video = task[h].video]
              /\ locks' = [locks EXCEPT ![h] = {}]
           \/ task[h].kind = "create" /\ Get(h, {}) /\ UNCHANGED exports
        /\ UNCHANGED <<campaigns, snapshots, drawn, task, answer>>

(* The unique index on tiktok_video_id.                                    *)
TakeVideo(h) ==
  /\ pc[h] = "video_key"
  /\ \A want \in Wants(h) : Free(h, want)
  /\ \/ Taken(task[h].video, task[h].export) /\ Abort(h, "conflict")
     \/ /\ ~Taken(task[h].video, task[h].export)
        /\ Get(h, {}) /\ Goto(h, AfterVideoKey(h)) /\ UNCHANGED <<tables, task, answer>>

(* INSERT INTO analytics_snapshots: uq_analytics_snapshot_export_snapshot_at. *)
TakeSnapshot(h) ==
  LET there == \E s \in snapshots : s.export = task[h].export /\ s.time = task[h].time
  IN /\ pc[h] = "snapshot_key"
     /\ \A want \in Wants(h) : Free(h, want)
     /\ \/ there /\ Abort(h, "conflict")
        \/ ~there /\ Get(h, {}) /\ Goto(h, "check_export") /\ UNCHANGED <<tables, task, answer>>

(* The foreign keys, tested after the INSERT.                              *)
CheckExport(h) ==
  /\ pc[h] = "check_export"
  /\ \A want \in Wants(h) : Free(h, want)
  /\ \/ task[h].export \notin Exist /\ Abort(h, "conflict")
     \/ /\ task[h].export \in Exist
        /\ Get(h, {}) /\ Goto(h, "check_campaign") /\ UNCHANGED <<tables, task, answer>>

(* Mutant: the row that is referred to is read but not locked. *)
CheckCampaignUnlocked(h) ==
  /\ pc[h] = "check_campaign"
  /\ \A want \in Wants(h) : Free(h, want)
  /\ \/ task[h].campaign \notin campaigns /\ Abort(h, "conflict")
     \/ /\ task[h].campaign \in campaigns
        /\ Goto(h, "commit") /\ UNCHANGED <<tables, task, locks, answer>>

CheckCampaign(h) ==
  /\ pc[h] = "check_campaign"
  /\ \A want \in Wants(h) : Free(h, want)
  /\ \/ task[h].campaign \notin campaigns /\ Abort(h, "conflict")
     \/ /\ task[h].campaign \in campaigns
        /\ Get(h, {}) /\ Goto(h, "commit") /\ UNCHANGED <<tables, task, answer>>

(* DELETE FROM campaigns: no row left is only a warning.                   *)
LockCampaign(h) ==
  /\ pc[h] = "lock_campaign"
  /\ \A want \in Wants(h) : Free(h, want)
  /\ \/ task[h].campaign \notin campaigns /\ Abort(h, "ok")
     \/ /\ task[h].campaign \in campaigns
        /\ Get(h, {}) /\ Goto(h, "cascade") /\ UNCHANGED <<tables, task, answer>>

(* ON DELETE CASCADE takes the campaign's exports one by one.              *)
Cascade(h) ==
  /\ pc[h] = "cascade"
  /\ \/ Wants(h) = {} /\ Goto(h, "commit") /\ UNCHANGED locks
     \/ \E e \in Exports :
          LET want == [on |-> <<"export", e>>, mode |-> "update"]
          IN /\ want \in Wants(h) /\ Free(h, want)
             /\ locks' = [locks EXCEPT ![h] = @ \cup {want} \cup OldVideo(e) \cup OldSnapshots(e)]
             /\ UNCHANGED pc
  /\ UNCHANGED <<tables, task, answer>>

---------------------------------------------------------------------------
(* What the transaction of each kind writes.                               *)
NewExports(h) ==
  LET e == task[h].export
  IN CASE task[h].kind = "create" ->
            [exports EXCEPT ![e] = [campaign |-> task[h].campaign, video |-> task[h].video]]
       [] task[h].kind \in {"attach", "ingest"} /\ Writes(h, e) ->
            [exports EXCEPT ![e].video = task[h].video]
       [] task[h].kind = "drop" ->
            [d \in Exports |-> IF d \in Mine(task[h].campaign) THEN NoRow ELSE exports[d]]
       [] OTHER -> exports

NewSnapshots(h) ==
  CASE task[h].kind \in {"snapshot", "ingest"} ->
         snapshots \cup {[export |-> task[h].export, campaign |-> task[h].campaign,
                          video |-> task[h].video, time |-> task[h].time]}
    [] task[h].kind = "drop" ->
         {s \in snapshots : s.campaign # task[h].campaign /\ s.export \notin Mine(task[h].campaign)}
    [] OTHER -> snapshots

Commit(h) ==
  /\ pc[h] = "commit"
  /\ exports' = NewExports(h)
  /\ snapshots' = NewSnapshots(h)
  /\ campaigns' = IF task[h].kind = "drop" THEN campaigns \ {task[h].campaign} ELSE campaigns
  /\ locks' = [locks EXCEPT ![h] = {}]
  /\ IF task[h].kind = "drop"
       THEN Answer(h, "ok") ELSE Goto(h, "refresh") /\ UNCHANGED answer
  /\ UNCHANGED <<drawn, task>>

(* db.refresh reads the row again: another request may have deleted it.    *)
Refresh(h) ==
  LET there ==
        IF task[h].kind \in {"create", "attach"} THEN task[h].export \in Exist
          ELSE \E s \in snapshots : s.export = task[h].export /\ s.time = task[h].time
  IN /\ pc[h] = "refresh"
     /\ Abort(h, IF there THEN "ok" ELSE "error")

Statement(h) ==
  \/ LockRow(h) \/ TakeVideo(h) \/ TakeSnapshot(h) \/ CheckExport(h) \/ CheckCampaign(h)
  \/ LockCampaign(h) \/ Cascade(h) \/ Commit(h) \/ Refresh(h)

(* The server fails one statement of a cycle of waits; it is no            *)
(* IntegrityError, so the handler does not answer "conflict".              *)
Cycle(S) ==
  \A g \in S : (\E k \in S : WaitsFor(g, k)) /\ (\E k \in S : WaitsFor(k, g))
Deadlock(h) ==
  /\ \E S \in SUBSET Requests : h \in S /\ Cycle(S)
  /\ Abort(h, "error")

(* A statement or the COMMIT fails (a lost connection).                    *)
Fail(h) == pc[h] \notin {"idle", "done"} /\ Abort(h, "error")

Next == \E h \in Requests : Arrive(h) \/ Statement(h) \/ Deadlock(h) \/ Fail(h)

Spec == Init /\ [][Next]_vars

---------------------------------------------------------------------------
TypeOK ==
  /\ campaigns \subseteq Campaigns
  /\ exports \in [Exports -> Export \cup {NoRow}]
  /\ snapshots \subseteq Snapshot
  /\ \A s \in snapshots : s.video \in Videos
  /\ drawn \subseteq Exports
  /\ pc \in [Requests -> Labels]
  /\ task \in [Requests -> Task]
  /\ locks \in [Requests -> SUBSET Lock]
  /\ answer \in [Requests -> Answers]

(* Every export belongs to a campaign, and every snapshot to an export of  *)
(* the campaign it names, whatever is deleted in between.                  *)
RowsAgree ==
  /\ \A e \in Exist : exports[e].campaign \in campaigns
  /\ \A s \in snapshots : s.export \in Exist /\ exports[s.export].campaign = s.campaign

(* A video is attached to one export, and a snapshot of a retried or       *)
(* repeated delivery is recorded once.                                     *)
KeysUnique ==
  /\ \A e \in Exist : exports[e].video # NoVideo => ~Taken(exports[e].video, e)
  /\ \A s, r \in snapshots : s.export = r.export /\ s.time = r.time => s = r

(* The tables at any moment: typed, and with the keys the models declare.  *)
LedgerInv == TypeOK /\ KeysUnique

(* An ingest attaches its video id only together with its snapshot: one    *)
(* that is refused, fails or is a deadlock's victim leaves the export be.  *)
AttachedTogether ==
  [][\A h \in Requests, e \in Exports :
       /\ task[h].kind = "ingest" /\ task[h].export = e /\ pc'[h] # pc[h]
       /\ exports'[e] # exports[e]
       => [export |-> e, campaign |-> exports[e].campaign, video |-> exports'[e].video,
           time |-> task[h].time] \in snapshots' \ snapshots]_vars

===============================================================================
