--------------------------- MODULE ExportLedgerProofs ---------------------------
(***************************************************************************)
(* Proofs about ExportLedger, for any number of handlers, campaigns,       *)
(* exports and ids: the locks a transaction has taken keep what it has     *)
(* tested true until it commits.                                           *)
(***************************************************************************)
EXTENDS ExportLedger, TLAPS

Has(h, x, m) == [on |-> x, mode |-> m] \in locks[h]
Touches(h, x) == \E l \in locks[h] : l.on = x

(* Which kinds of request come to which statement, and what they carry.    *)
Inserters == {"snapshot", "ingest"}
Flow(h) ==
  /\ pc[h] = "lock_row" => task[h].kind \in {"attach", "ingest"}
  /\ pc[h] = "video_key" =>
       task[h].kind \in {"create", "attach", "ingest"} /\ task[h].video # NoVideo
  /\ pc[h] \in {"snapshot_key", "check_export"} => task[h].kind \in Inserters
  /\ pc[h] = "check_campaign" => task[h].kind \in {"create", "snapshot", "ingest"}
  /\ pc[h] \in {"lock_campaign", "cascade"} => task[h].kind = "drop"
  /\ pc[h] = "commit" => task[h].kind # "none"
  /\ task[h].kind # "none" => task[h].campaign \in Campaigns
  /\ IF task[h].kind \in {"none", "drop"} THEN task[h].export = None
       ELSE task[h].export \in Exports
  /\ task[h].kind \in Inserters => task[h].video \in Videos /\ task[h].time \in Times

(* What a lock says of the row or the index entry it is on.                *)
LocksMean(h) ==
  /\ pc[h] \in {"idle", "refresh", "done"} => locks[h] = {}
  /\ \A e \in Exports : Writes(h, e) =>
       /\ exports[e] # NoRow
       /\ \/ task[h].kind = "drop" /\ Has(h, <<"export", e>>, "update")
          \/ task[h].kind \in {"attach", "ingest"} /\ e = task[h].export
  /\ \A e \in Exist :
       exports[e].video # NoVideo /\ Touches(h, <<"video", exports[e].video>>) => Writes(h, e)
  /\ \A s \in snapshots :
       Touches(h, <<"snapshot", s.export, s.time>>) => task[h].kind = "drop" /\ Writes(h, s.export)

(* The tests a transaction has passed, and the locks that keep them true.  *)
WritesVideo(h) ==
  /\ pc[h] \in {"snapshot_key", "check_export", "check_campaign", "commit"}
  /\ task[h].video # NoVideo
  /\ \/ task[h].kind = "create"
     \/ task[h].kind \in {"attach", "ingest"} /\ Writes(h, task[h].export)
Tested(h) ==
  LET e == task[h].export  c == task[h].campaign
  IN /\ WritesVideo(h) =>
          \/ Has(h, <<"video", task[h].video>>, "update")
          \/ Writes(h, e) /\ exports[e].video = task[h].video
     /\ task[h].kind \in {"attach", "ingest"} /\ pc[h] = "video_key" => Writes(h, e)
     /\ task[h].kind \in Inserters /\ pc[h] \in {"check_export", "check_campaign", "commit"} =>
          Has(h, <<"snapshot", e, task[h].time>>, "update")
     /\ task[h].kind \in Inserters /\ pc[h] \in {"check_campaign", "commit"} =>
          e \in Exist /\ Touches(h, <<"export", e>>)
     /\ task[h].kind \in {"create", "snapshot", "ingest"} /\ pc[h] = "commit" =>
          c \in campaigns /\ Touches(h, <<"campaign", c>>)
     /\ task[h].kind = "drop" /\ pc[h] \in {"cascade", "commit"} =>
          Has(h, <<"campaign", c>>, "update")
     /\ task[h].kind = "drop" /\ pc[h] = "commit" => \A d \in Mine(c) : Writes(h, d)

(* The export a request has loaded stays in its campaign, for an id is     *)
(* drawn once.                                                             *)
Knows(h) ==
  LET e == task[h].export
  IN /\ task[h].kind \in {"create", "attach", "snapshot", "ingest"} => e \in drawn
     /\ task[h].kind \in {"attach", "snapshot", "ingest"} /\ exports[e] # NoRow =>
          exports[e].campaign = task[h].campaign
Creating(h) ==
  task[h].kind = "create" /\ pc[h] \in {"video_key", "check_campaign", "commit"}
IdsDrawnOnce ==
  /\ Exist \subseteq drawn
  /\ \A h \in Requests : Creating(h) =>
       /\ exports[task[h].export] = NoRow
       /\ \A g \in Requests \ {h} : task[g].export # task[h].export

(* No two transactions have locks that exclude each other.                 *)
LocksAgree ==
  \A g, h \in Requests :
    g # h => \A l \in locks[g], m \in locks[h] : l.on = m.on => ~Conflict(l.mode, m.mode)

HandlerOK(h) == Flow(h) /\ LocksMean(h) /\ Tested(h) /\ Knows(h)

(* The inductive invariant. *)
TablesInv ==
  /\ TypeOK
  /\ LocksAgree
  /\ IdsDrawnOnce
  /\ \A h \in Requests : HandlerOK(h)
  /\ KeysUnique
  /\ RowsAgree

---------------------------------------------------------------------------
LEMMA LockTypes ==
  ASSUME NEW m \in Modes
  PROVE  /\ \A e \in Exports : [on |-> <<"export", e>>, mode |-> m] \in Lock
         /\ \A c \in Campaigns : [on |-> <<"campaign", c>>, mode |-> m] \in Lock
         /\ \A v \in Ids : [on |-> <<"video", v>>, mode |-> m] \in Lock
         /\ \A e \in Exports, t \in Times : [on |-> <<"snapshot", e, t>>, mode |-> m] \in Lock
  BY DEF Lock, Things

(* What each statement wants to lock.                                       *)
LEMMA WantsAre ==
  ASSUME NEW h \in Requests
  PROVE  LET e == task[h].export
             c == task[h].campaign
             v == task[h].video
         IN /\ pc[h] = "lock_row" => Wants(h) = {[on |-> <<"export", e>>, mode |-> RowMode(h)]}
            /\ pc[h] = "video_key" => Wants(h) = {[on |-> <<"video", v>>, mode |-> "update"]}
            /\ pc[h] = "snapshot_key" =>
                 Wants(h) = {[on |-> <<"snapshot", e, task[h].time>>, mode |-> "update"]}
            /\ pc[h] = "check_export" => Wants(h) = {[on |-> <<"export", e>>, mode |-> "share"]}
            /\ pc[h] = "check_campaign" => Wants(h) = {[on |-> <<"campaign", c>>, mode |-> "share"]}
            /\ pc[h] = "lock_campaign" => Wants(h) = {[on |-> <<"campaign", c>>, mode |-> "update"]}
            /\ pc[h] = "cascade" =>
                 Wants(h) = {[on |-> <<"export", d>>, mode |-> "update"] :
                               d \in {x \in Mine(c) : ~Writes(h, x)}}
  BY DEF Wants

(* A lock that is free can be taken, and the locks still agree.             *)
LEMMA LocksGrow ==
  ASSUME LocksAgree, locks \in [Requests -> SUBSET Lock], NEW h \in Requests,
         NEW L, locks' = [locks EXCEPT ![h] = L],
         \A n \in L : n \in locks[h] \/ \A g \in Requests \ {h} : \A l \in locks[g] :
                         l.on = n.on => ~Conflict(l.mode, n.mode)
  PROVE  LocksAgree'
  <1>1. \A a, b : Conflict(a, b) <=> Conflict(b, a)
    BY DEF Conflict
  <1>2. locks'[h] = L /\ \A g \in Requests : g # h => locks'[g] = locks[g]
    OBVIOUS
  <1>3. ASSUME NEW g \in Requests, NEW k \in Requests, g # k, NEW l \in locks'[g], NEW m \in locks'[k],
               l.on = m.on
        PROVE  ~Conflict(l.mode, m.mode)
    <2>1. CASE l \in locks[g] /\ m \in locks[k]
      BY <1>3, <2>1 DEF LocksAgree
    <2>2. CASE l \notin locks[g]
      <3>1. g = h /\ l \in L /\ m \in locks[k] /\ k # h
        BY <1>2, <1>3, <2>2
      <3>2. ~Conflict(m.mode, l.mode)
        BY <1>3, <2>2, <3>1
      <3> QED BY <1>1, <3>2
    <2>3. CASE m \notin locks[k]
      <3>1. k = h /\ m \in L /\ l \in locks[g] /\ g # h
        BY <1>2, <1>3, <2>3
      <3> QED BY <1>3, <2>3, <3>1
    <2> QED BY <2>1, <2>2, <2>3
  <1> QED BY <1>3 DEF LocksAgree

LEMMA LocksEnd ==
  ASSUME LocksAgree, locks \in [Requests -> SUBSET Lock], NEW h \in Requests,
         locks' = [locks EXCEPT ![h] = {}]
  PROVE  LocksAgree'
  BY DEF LocksAgree

LEMMA FreeAgrees ==
  ASSUME NEW h \in Requests, NEW want, Free(h, want)
  PROVE  \A g \in Requests \ {h} : \A l \in locks[g] :
           l.on = want.on => ~Conflict(l.mode, want.mode)
  BY DEF Free, Held

LEMMA SameLocks ==
  ASSUME NEW g \in Requests, locks'[g] = locks[g]
  PROVE  /\ \A x : Touches(g, x)' <=> Touches(g, x)
         /\ \A e : Writes(g, e)' <=> Writes(g, e)
         /\ \A x, m : Has(g, x, m)' <=> Has(g, x, m)
  BY DEF Touches, Writes, Has

(* A step of one handler that writes no table disturbs no other handler.    *)
LEMMA OneHandler ==
  ASSUME TablesInv, NEW h \in Requests,
         UNCHANGED <<campaigns, exports, snapshots>>, drawn \subseteq drawn',
         \A g \in Requests \ {h} : pc'[g] = pc[g] /\ task'[g] = task[g] /\ locks'[g] = locks[g],
         TypeOK', LocksAgree', IdsDrawnOnce', HandlerOK(h)'
  PROVE  TablesInv'
  <1>a. Exist' = Exist /\ \A c : Mine(c)' = Mine(c)
    BY DEF Exist, Mine
  <1>1. ASSUME NEW g \in Requests \ {h} PROVE HandlerOK(g)'
    <2>0. HandlerOK(g)
      BY DEF TablesInv
    <2> USE DEF HandlerOK
    <2>1. Flow(g)'
      BY <2>0 DEF Flow
    <2>2. LocksMean(g)'
      <3>1. LocksMean(g)
        BY <2>0
      <3> QED BY <3>1, <1>a, SameLocks DEF LocksMean
    <2>3. Tested(g)'
      <3>1. Tested(g)
        BY <2>0
      <3>2. WritesVideo(g)' <=> WritesVideo(g)
        BY SameLocks DEF WritesVideo
      <3> QED BY <3>1, <3>2, <1>a, SameLocks DEF Tested
    <2>4. Knows(g)'
      BY <2>0 DEF Knows
    <2> QED BY <2>1, <2>2, <2>3, <2>4
  <1>2. KeysUnique' /\ RowsAgree'
    BY DEF TablesInv, KeysUnique, RowsAgree, Taken, Exist
  <1> QED BY <1>1, <1>2 DEF TablesInv

(* The task stays, so do the ids that were drawn for it.                    *)
LEMMA DrawnStays ==
  ASSUME TablesInv, NEW h \in Requests, UNCHANGED <<tables, task>>,
         \A g \in Requests \ {h} : pc'[g] = pc[g], Creating(h)' => Creating(h)
  PROVE  IdsDrawnOnce'
  BY DEF TablesInv, IdsDrawnOnce, Creating, Exist, tables

(* A rollback gives up the locks and leaves the tables be.                  *)
LEMMA AbortStep ==
  ASSUME TablesInv, NEW h \in Requests, NEW what \in Answers, Abort(h, what)
  PROVE  TablesInv'
  <1>0. TypeOK /\ HandlerOK(h)
    BY DEF TablesInv
  <1>1. /\ pc' = [pc EXCEPT ![h] = "done"] /\ answer' = [answer EXCEPT ![h] = what]
        /\ locks' = [locks EXCEPT ![h] = {}] /\ UNCHANGED <<tables, task>>
    BY DEF Abort, Answer, Goto
  <1>2. pc'[h] = "done" /\ locks'[h] = {}
    BY <1>0, <1>1 DEF TypeOK
  <1>3. TypeOK'
    <2>1. "done" \in Labels /\ {} \in SUBSET Lock
      BY DEF Labels
    <2> QED BY <1>0, <1>1, <2>1 DEF TypeOK, tables
  <1>4. LocksAgree'
    <2>1. locks \in [Requests -> SUBSET Lock] /\ LocksAgree
      BY DEF TablesInv, TypeOK
    <2> QED BY <1>1, <2>1, LocksEnd
  <1>5. HandlerOK(h)'
    <2>1. Flow(h)'
      BY <1>0, <1>1, <1>2 DEF HandlerOK, Flow
    <2>2. LocksMean(h)'
      BY <1>2 DEF LocksMean, Writes, Touches
    <2>3. Tested(h)'
      BY <1>2 DEF Tested, WritesVideo
    <2>4. Knows(h)'
      BY <1>0, <1>1 DEF HandlerOK, Knows, tables
    <2> QED BY <2>1, <2>2, <2>3, <2>4 DEF HandlerOK
  <1>6. IdsDrawnOnce'
    BY <1>1, <1>2, <1>0, DrawnStays DEF Creating, TypeOK
  <1> QED
    BY <1>0, <1>1, <1>3, <1>4, <1>5, <1>6, OneHandler DEF tables, TypeOK
---------------------------------------------------------------------------
(* A request that has loaded what it needs has no lock yet.                 *)
LEMMA SetStep ==
  ASSUME TablesInv, NEW h \in Requests, pc[h] = "idle",
         NEW kind \in Kinds, NEW e \in Exports \cup {None}, NEW c \in Campaigns, NEW v \in Ids,
         NEW t \in Times \cup {None}, NEW label \in Labels, Set(h, kind, e, c, v, t, label),
         drawn \subseteq drawn', drawn' \subseteq Exports,
         IF kind = "drop" THEN e = None ELSE e \in drawn',
         kind \in Inserters => v \in Videos /\ t \in Times,
         kind \notin {"create", "drop"} => exports[e] # NoRow /\ exports[e].campaign = c,
         kind = "create" => e \notin drawn,
         \/ label = "lock_row" /\ kind \in {"attach", "ingest"}
         \/ label = "refresh" /\ kind = "attach"
         \/ label = "snapshot_key" /\ kind \in Inserters
         \/ label = "video_key" /\ kind = "create" /\ v # NoVideo
         \/ label = "check_campaign" /\ kind = "create" /\ v = NoVideo
         \/ label = "lock_campaign" /\ kind = "drop"
  PROVE  TablesInv'
  <1> USE DEF Inserters, Kinds
  <1>0. TypeOK /\ HandlerOK(h) /\ \A g \in Requests : Flow(g) /\ Knows(g)
    BY DEF TablesInv, HandlerOK
  <1> DEFINE new == [kind |-> kind, export |-> e, campaign |-> c, video |-> v, time |-> t]
  <1>1. /\ pc' = [pc EXCEPT ![h] = label] /\ task' = [task EXCEPT ![h] = new]
        /\ UNCHANGED <<campaigns, exports, snapshots, locks, answer>>
    BY DEF Set, Goto
  <1>2. pc'[h] = label /\ task'[h] = new /\ locks'[h] = {}
    BY <1>0, <1>1 DEF TypeOK, HandlerOK, LocksMean
  <1>3. new.kind = kind /\ new.export = e /\ new.campaign = c /\ new.video = v /\ new.time = t
    OBVIOUS
  <1>4. TypeOK'
    <2>1. new \in Task
      BY DEF Task
    <2> HIDE DEF new
    <2> QED BY <1>0, <1>1, <2>1 DEF TypeOK
  <1>5. LocksAgree'
    BY <1>1 DEF TablesInv, LocksAgree
  <1> HIDE DEF new
  <1>6. HandlerOK(h)'
    <2>1. Flow(h)'
      <3>1. e \in Exports \/ kind = "drop"
        BY <1>0 DEF TypeOK
      <3> QED BY <1>2, <1>3, <3>1 DEF Flow
    <2>2. LocksMean(h)'
      BY <1>2 DEF LocksMean, Writes, Touches
    <2>3. Tested(h)'
      <3>1. ~WritesVideo(h)'
        BY <1>2, <1>3 DEF WritesVideo, Writes
      <3> QED BY <1>2, <1>3, <3>1 DEF Tested
    <2>4. Knows(h)'
      BY <1>1, <1>2, <1>3 DEF Knows
    <2> QED BY <2>1, <2>2, <2>3, <2>4 DEF HandlerOK
  <1>7. IdsDrawnOnce'
    <2>1. Exist' \subseteq drawn'
      BY <1>1 DEF TablesInv, IdsDrawnOnce, Exist
    <2>2. ASSUME NEW g \in Requests, Creating(g)'
          PROVE  /\ exports'[task'[g].export] = NoRow
                 /\ \A k \in Requests \ {g} : task'[k].export # task'[g].export
      <3>1. CASE g # h
        <4>1. /\ Creating(g) /\ exports[task[g].export] = NoRow /\ task[g].export \in drawn
              /\ \A k \in Requests \ {g} : task[k].export # task[g].export
          <5>1. task'[g] = task[g] /\ pc'[g] = pc[g]
            BY <1>0, <1>1, <3>1 DEF TypeOK
          <5>2. Creating(g)
            BY <2>2, <5>1 DEF Creating
          <5> QED BY <1>0, <5>2 DEF TablesInv, IdsDrawnOnce, Creating, Knows
        <4>2. e # task[g].export
          BY <1>0, <4>1, ConstantsAssumption DEF TypeOK
        <4> QED BY <1>0, <1>1, <1>2, <1>3, <3>1, <4>1, <4>2 DEF TypeOK
      <3>2. CASE g = h
        <4>1. kind = "create" /\ e \in Exports /\ e \notin drawn
          BY <1>2, <1>3, <2>2, <3>2, <1>0 DEF Creating, TypeOK
        <4>2. exports[e] = NoRow
          BY <4>1 DEF TablesInv, IdsDrawnOnce, Exist
        <4>3. ASSUME NEW k \in Requests \ {h} PROVE task[k].export # e
          <5>1. task[k].kind \in {"none", "drop"} => task[k].export = None
            BY <1>0 DEF Flow
          <5>2. task[k].kind \notin {"none", "drop"} => task[k].export \in drawn
            <6>1. task[k].kind \in Kinds \cup {"none"}
              BY <1>0 DEF TypeOK, Task
            <6> QED BY <1>0, <6>1 DEF Knows
          <5> QED BY <4>1, <5>1, <5>2, ConstantsAssumption
        <4> QED BY <1>0, <1>1, <1>2, <1>3, <3>2, <4>2, <4>3 DEF TypeOK
      <3> QED BY <3>1, <3>2
    <2> QED BY <2>1, <2>2 DEF IdsDrawnOnce
  <1> QED
    BY <1>0, <1>1, <1>4, <1>5, <1>6, <1>7, OneHandler DEF TypeOK

(* A request that is refused before it writes.                              *)
LEMMA RefuseStep ==
  ASSUME TablesInv, NEW h \in Requests, pc[h] = "idle", NEW what \in Answers, Refuse(h, what)
  PROVE  TablesInv'
  <1>1. locks[h] = {} /\ locks \in [Requests -> SUBSET Lock]
    BY DEF TablesInv, HandlerOK, LocksMean, TypeOK
  <1>2. Abort(h, what)
    BY <1>1 DEF Refuse, Abort
  <1> QED BY <1>2, AbortStep

LEMMA ArriveStep == ASSUME TablesInv, NEW h \in Requests, Arrive(h) PROVE TablesInv'
  <1> USE DEF Inserters, Kinds
  <1>0. TypeOK /\ pc[h] = "idle" /\ Exist \subseteq drawn
    BY DEF TablesInv, IdsDrawnOnce, Arrive
  <1>1. /\ {"lock_row", "refresh", "snapshot_key", "video_key", "check_campaign", "lock_campaign"}
              \subseteq Labels
        /\ {"not_found", "bad_request"} \subseteq Answers
        /\ NoVideo \in Ids
    BY DEF Labels, Answers, Ids
  <1>2. \A e \in Exports : exports[e] # NoRow =>
          e \in drawn /\ exports[e].campaign \in Campaigns /\ exports[e].video \in Ids
    BY <1>0 DEF TypeOK, Exist, Export
  <1>3. drawn \subseteq Exports
    BY <1>0 DEF TypeOK
  <1>4. ASSUME NEW c \in Campaigns, DeleteCampaign(h, c) PROVE TablesInv'
    <2>1. CASE Refuse(h, "not_found")
      BY <1>0, <1>1, <2>1, RefuseStep
    <2>2. CASE Set(h, "drop", None, c, NoVideo, None, "lock_campaign") /\ UNCHANGED drawn
      BY <1>0, <1>1, <1>3, <2>2, SetStep
    <2> QED BY <1>4, <2>1, <2>2 DEF DeleteCampaign
  <1>5. ASSUME NEW c \in Campaigns, NEW v \in Ids, CreateExport(h, c, v) PROVE TablesInv'
    <2> DEFINE label == IF v = NoVideo THEN "check_campaign" ELSE "video_key"
    <2>1. PICK e \in Exports \ drawn :
            drawn' = drawn \cup {e} /\ Set(h, "create", e, c, v, None, label)
      BY <1>5 DEF CreateExport
    <2>2. label \in Labels /\ (v = NoVideo => label = "check_campaign")
          /\ (v # NoVideo => label = "video_key")
      BY <1>1
    <2> HIDE DEF label
    <2> QED BY <1>0, <1>1, <1>3, <2>1, <2>2, SetStep
  <1>6. ASSUME NEW e \in Exports, NEW v \in Ids, UpdateVideo(h, e, v) PROVE TablesInv'
    <2>1. CASE Refuse(h, "not_found")
      BY <1>0, <1>1, <2>1, RefuseStep
    <2> DEFINE label == IF v = exports[e].video THEN "refresh" ELSE "lock_row"
    <2>2. CASE /\ exports[e] # NoRow /\ UNCHANGED drawn
               /\ Set(h, "attach", e, exports[e].campaign, v, None, label)
      <3>1. label \in {"refresh", "lock_row"}
        OBVIOUS
      <3> HIDE DEF label
      <3> QED BY <1>0, <1>1, <1>2, <1>3, <2>2, <3>1, SetStep
    <2> QED BY <1>6, <2>1, <2>2 DEF UpdateVideo
  <1>7. ASSUME NEW e \in Exports, NEW c \in Campaigns \cup {None}, NEW v \in Videos,
               NEW t \in Times, CreateSnapshot(h, e, c, v, t)
        PROVE  TablesInv'
    <2>1. CASE Refuse(h, "not_found") \/ Refuse(h, "bad_request")
      BY <1>0, <1>1, <2>1, RefuseStep
    <2>2. CASE /\ exports[e] # NoRow /\ exports[e].campaign = c /\ UNCHANGED drawn
               /\ Set(h, "snapshot", e, c, v, t, "snapshot_key")
      <3>1. c \in Campaigns /\ v \in Ids
        BY <1>2, <2>2 DEF Ids
      <3> QED BY <1>0, <1>1, <1>2, <1>3, <2>2, <3>1, SetStep
    <2> QED BY <1>7, <2>1, <2>2 DEF CreateSnapshot
  <1>8. ASSUME NEW e \in Exports, NEW given \in Videos \cup {Blank}, NEW t \in Times \cup {None},
               Ingest(h, e, given, t)
        PROVE  TablesInv'
    <2>1. CASE Refuse(h, "not_found") \/ Refuse(h, "bad_request")
      BY <1>0, <1>1, <2>1, RefuseStep
    <2> DEFINE v == IF given = Blank THEN exports[e].video ELSE given
               label == IF exports[e].video = NoVideo THEN "lock_row" ELSE "snapshot_key"
    <2>2. CASE /\ exports[e] # NoRow /\ ~BadPayload(given, t, exports[e].video) /\ UNCHANGED drawn
               /\ Set(h, "ingest", e, exports[e].campaign, v, t, label)
      <3>1. v \in Videos /\ v \in Ids /\ t \in Times
        BY <1>2, <2>2 DEF BadPayload, Ids
      <3>2. label \in {"lock_row", "snapshot_key"}
        OBVIOUS
      <3> HIDE DEF v, label
      <3> QED BY <1>0, <1>1, <1>2, <1>3, <2>2, <3>1, <3>2, SetStep
    <2> QED BY <1>8, <2>1, <2>2 DEF Ingest
  <1> QED BY <1>4, <1>5, <1>6, <1>7, <1>8 DEF Arrive
---------------------------------------------------------------------------
(* What a transaction has after it got the locks L besides its own.         *)
LEMMA MoreLocks ==
  ASSUME NEW h \in Requests, NEW L, locks'[h] = locks[h] \cup L
  PROVE  /\ \A x : Touches(h, x)' <=> Touches(h, x) \/ \E n \in L : n.on = x
         /\ \A e : Writes(h, e)' <=>
              Writes(h, e) \/ \E n \in L : n.on = <<"export", e>> /\ n.mode # "share"
         /\ \A x, m : Has(h, x, m)' <=> Has(h, x, m) \/ [on |-> x, mode |-> m] \in L
  BY DEF Touches, Writes, Has

(* A statement that got its locks: what is left to show is what they mean.  *)
LEMMA GetStep ==
  ASSUME TablesInv, NEW h \in Requests, NEW label \in Labels, NEW L \in SUBSET Lock,
         pc' = [pc EXCEPT ![h] = label], locks' = [locks EXCEPT ![h] = @ \cup L],
         UNCHANGED <<tables, task, answer>>,
         \A n \in L : \A g \in Requests \ {h} : \A l \in locks[g] :
            l.on = n.on => ~Conflict(l.mode, n.mode),
         Flow(h)', LocksMean(h)', Tested(h)', Creating(h)' => Creating(h)
  PROVE  TablesInv'
  <1>0. TypeOK /\ LocksAgree /\ Knows(h) /\ locks \in [Requests -> SUBSET Lock]
    BY DEF TablesInv, HandlerOK, TypeOK
  <1>1. LocksAgree'
    <2> DEFINE M == locks[h] \cup L
    <2>1. locks' = [locks EXCEPT ![h] = M]
      OBVIOUS
    <2>2. \A n \in M : n \in locks[h] \/ \A g \in Requests \ {h} : \A l \in locks[g] :
                             l.on = n.on => ~Conflict(l.mode, n.mode)
      OBVIOUS
    <2> HIDE DEF M
    <2> QED BY <1>0, <2>1, <2>2, LocksGrow
  <1>2. TypeOK'
    BY <1>0 DEF TypeOK, tables
  <1>3. Knows(h)'
    BY <1>0 DEF Knows, tables
  <1>4. IdsDrawnOnce'
    <2>1. \A g \in Requests \ {h} : pc'[g] = pc[g]
      BY <1>0 DEF TypeOK
    <2> QED BY <2>1, DrawnStays
  <1>5. HandlerOK(h)'
    BY <1>3 DEF HandlerOK
  <1> QED
    BY <1>0, <1>1, <1>2, <1>4, <1>5, OneHandler DEF TypeOK, tables

(* The same for a statement that gets the one lock it wants.                *)
LEMMA OneMoreLock ==
  ASSUME NEW h \in Requests, NEW on, NEW mode,
         locks'[h] = locks[h] \cup {[on |-> on, mode |-> mode]}
  PROVE  /\ \A x : Touches(h, x)' <=> Touches(h, x) \/ x = on
         /\ \A e : Writes(h, e)' <=> Writes(h, e) \/ (on = <<"export", e>> /\ mode # "share")
         /\ \A x, m : Has(h, x, m)' <=> Has(h, x, m) \/ (x = on /\ m = mode)
  BY DEF Touches, Writes, Has

LEMMA GetOneStep ==
  ASSUME TablesInv, NEW h \in Requests, NEW label \in Labels, NEW want \in Lock,
         pc' = [pc EXCEPT ![h] = label], locks' = [locks EXCEPT ![h] = @ \cup {want}],
         UNCHANGED <<tables, task, answer>>, Free(h, want),
         Flow(h)', LocksMean(h)', Tested(h)', Creating(h)' => Creating(h)
  PROVE  TablesInv'
  <1>1. \A n \in {want} : \A g \in Requests \ {h} : \A l \in locks[g] :
          l.on = n.on => ~Conflict(l.mode, n.mode)
    BY FreeAgrees
  <1>2. {want} \in SUBSET Lock
    OBVIOUS
  <1> DEFINE L == {want}
  <1>3. /\ locks' = [locks EXCEPT ![h] = @ \cup L] /\ L \in SUBSET Lock
        /\ \A n \in L : \A g \in Requests \ {h} : \A l \in locks[g] :
             l.on = n.on => ~Conflict(l.mode, n.mode)
    BY <1>1, <1>2
  <1> HIDE DEF L
  <1> QED BY <1>3, GetStep

LEMMA LockCampaignStep == ASSUME TablesInv, NEW h \in Requests, LockCampaign(h) PROVE TablesInv'
  <1> DEFINE c == task[h].campaign
             want == [on |-> <<"campaign", c>>, mode |-> "update"]
  <1>0. TypeOK /\ HandlerOK(h) /\ pc[h] = "lock_campaign" /\ task[h].kind = "drop"
    BY DEF TablesInv, LockCampaign, HandlerOK, Flow
  <1>1. CASE Abort(h, "ok")
    BY <1>1, AbortStep DEF Answers
  <1>2. CASE /\ c \in campaigns /\ Get(h, {}) /\ Goto(h, "cascade")
             /\ UNCHANGED <<tables, task, answer>>
    <2>1. Wants(h) = {want} /\ Free(h, want)
      BY <1>0, WantsAre DEF LockCampaign
    <2>2. pc' = [pc EXCEPT ![h] = "cascade"] /\ locks' = [locks EXCEPT ![h] = @ \cup {want}]
      BY <1>2, <2>1 DEF Get, Goto
    <2>3. pc'[h] = "cascade" /\ task' = task /\ locks'[h] = locks[h] \cup {want}
      BY <1>0, <1>2, <2>2 DEF TypeOK
    <2>4. /\ \A e : Writes(h, e)' <=> Writes(h, e)
          /\ \A x : Touches(h, x)' <=> Touches(h, x) \/ x = <<"campaign", c>>
          /\ \A x, m : Has(h, x, m) => Has(h, x, m)'
          /\ Has(h, <<"campaign", c>>, "update")'
      BY <2>3, OneMoreLock
    <2>5. Flow(h)'
      BY <1>0, <2>3 DEF HandlerOK, Flow
    <2>6. LocksMean(h)'
      BY <1>0, <1>2, <2>3, <2>4 DEF HandlerOK, LocksMean, tables, Exist
    <2>7. Tested(h)'
      BY <1>0, <1>2, <2>3, <2>4 DEF Tested, WritesVideo, Inserters
    <2>8. want \in Lock /\ "cascade" \in Labels /\ ~Creating(h)'
      BY <1>0, <2>3, LockTypes DEF Modes, Labels, Creating, HandlerOK, Flow
    <2> HIDE DEF want
    <2> QED BY <1>2, <2>1, <2>2, <2>5, <2>6, <2>7, <2>8, GetOneStep
  <1> QED BY <1>1, <1>2 DEF LockCampaign

LEMMA CheckCampaignStep == ASSUME TablesInv, NEW h \in Requests, CheckCampaign(h) PROVE TablesInv'
  <1> DEFINE c == task[h].campaign
             on == <<"campaign", c>>
             want == [on |-> on, mode |-> "share"]
  <1>0. TypeOK /\ HandlerOK(h) /\ pc[h] = "check_campaign"
        /\ task[h].kind \in {"create", "snapshot", "ingest"}
    BY DEF TablesInv, CheckCampaign, HandlerOK, Flow
  <1>1. CASE Abort(h, "conflict")
    BY <1>1, AbortStep DEF Answers
  <1>2. CASE /\ c \in campaigns /\ Get(h, {}) /\ Goto(h, "commit")
             /\ UNCHANGED <<tables, task, answer>>
    <2>1. Wants(h) = {want} /\ Free(h, want)
      BY <1>0, WantsAre DEF CheckCampaign
    <2>2. pc' = [pc EXCEPT ![h] = "commit"] /\ locks' = [locks EXCEPT ![h] = @ \cup {want}]
      BY <1>2, <2>1 DEF Get, Goto
    <2>3. pc'[h] = "commit" /\ task' = task /\ locks'[h] = locks[h] \cup {want}
      BY <1>0, <1>2, <2>2 DEF TypeOK
    <2>4. /\ \A d : Writes(h, d)' <=> Writes(h, d)
          /\ \A x : Touches(h, x)' <=> Touches(h, x) \/ x = on
          /\ \A x, m : Has(h, x, m) => Has(h, x, m)'
      <3> HIDE DEF on
      <3>1. /\ \A x : Touches(h, x)' <=> Touches(h, x) \/ x = on
            /\ \A d : Writes(h, d)' <=> Writes(h, d) \/ (on = <<"export", d>> /\ "share" # "share")
            /\ \A x, m : Has(h, x, m)' <=> Has(h, x, m) \/ (x = on /\ m = "share")
        BY <2>3, OneMoreLock
      <3> QED BY <3>1
    <2>5. Flow(h)'
      BY <1>0, <2>3 DEF HandlerOK, Flow
    <2>6. LocksMean(h)'
      BY <1>0, <1>2, <2>3, <2>4 DEF HandlerOK, LocksMean, tables, Exist
    <2>7. Tested(h)'
      <3>1. WritesVideo(h)' => WritesVideo(h)
        BY <1>0, <2>3, <2>4 DEF WritesVideo
      <3> QED BY <1>0, <1>2, <2>3, <2>4, <3>1 DEF HandlerOK, Tested, Inserters, tables, Exist
    <2>8. want \in Lock /\ "commit" \in Labels /\ (Creating(h)' => Creating(h))
      BY <1>0, <2>3, LockTypes DEF Modes, Labels, Creating, HandlerOK, Flow
    <2> HIDE DEF want
    <2> QED BY <1>2, <2>1, <2>2, <2>5, <2>6, <2>7, <2>8, GetOneStep
  <1> QED BY <1>1, <1>2 DEF CheckCampaign
LEMMA CheckExportStep == ASSUME TablesInv, NEW h \in Requests, CheckExport(h) PROVE TablesInv'
  <1> DEFINE e == task[h].export
             on == <<"export", e>>
             want == [on |-> on, mode |-> "share"]
  <1>0. TypeOK /\ HandlerOK(h) /\ pc[h] = "check_export" /\ task[h].kind \in Inserters
    BY DEF TablesInv, CheckExport, HandlerOK, Flow
  <1>1. CASE Abort(h, "conflict")
    BY <1>1, AbortStep DEF Answers
  <1>2. CASE /\ e \in Exist /\ Get(h, {}) /\ Goto(h, "check_campaign")
             /\ UNCHANGED <<tables, task, answer>>
    <2>1. Wants(h) = {want} /\ Free(h, want)
      BY <1>0, WantsAre DEF CheckExport
    <2>2. pc' = [pc EXCEPT ![h] = "check_campaign"] /\ locks' = [locks EXCEPT ![h] = @ \cup {want}]
      BY <1>2, <2>1 DEF Get, Goto
    <2>3. pc'[h] = "check_campaign" /\ task' = task /\ locks'[h] = locks[h] \cup {want}
      BY <1>0, <1>2, <2>2 DEF TypeOK
    <2>4. /\ \A d : Writes(h, d)' <=> Writes(h, d)
          /\ \A x : Touches(h, x)' <=> Touches(h, x) \/ x = on
          /\ \A x, m : Has(h, x, m) => Has(h, x, m)'
      <3> HIDE DEF on
      <3>1. /\ \A x : Touches(h, x)' <=> Touches(h, x) \/ x = on
            /\ \A d : Writes(h, d)' <=> Writes(h, d) \/ (on = <<"export", d>> /\ "share" # "share")
            /\ \A x, m : Has(h, x, m)' <=> Has(h, x, m) \/ (x = on /\ m = "share")
        BY <2>3, OneMoreLock
      <3> QED BY <3>1
    <2>5. Flow(h)'
      BY <1>0, <2>3 DEF HandlerOK, Flow, Inserters
    <2>6. LocksMean(h)'
      BY <1>0, <1>2, <2>3, <2>4 DEF HandlerOK, LocksMean, tables, Exist
    <2>7. Tested(h)'
      <3>1. WritesVideo(h)' => WritesVideo(h)
        BY <1>0, <2>3, <2>4 DEF WritesVideo, Inserters
      <3> QED BY <1>0, <1>2, <2>3, <2>4, <3>1 DEF HandlerOK, Tested, Inserters, tables, Exist
    <2>8. want \in Lock /\ "check_campaign" \in Labels /\ (Creating(h)' => Creating(h))
      BY <1>0, <2>3, LockTypes DEF Modes, Labels, Creating, HandlerOK, Flow, Inserters
    <2> HIDE DEF want
    <2> QED BY <1>2, <2>1, <2>2, <2>5, <2>6, <2>7, <2>8, GetOneStep
  <1> QED BY <1>1, <1>2 DEF CheckExport

(* The key of a snapshot is free and locked, or the INSERT fails.           *)
LEMMA TakeSnapshotStep == ASSUME TablesInv, NEW h \in Requests, TakeSnapshot(h) PROVE TablesInv'
  <1> DEFINE e == task[h].export
             t == task[h].time
             on == <<"snapshot", e, t>>
             want == [on |-> on, mode |-> "update"]
             there == \E s \in snapshots : s.export = e /\ s.time = t
  <1>0. TypeOK /\ HandlerOK(h) /\ pc[h] = "snapshot_key" /\ task[h].kind \in Inserters
    BY DEF TablesInv, TakeSnapshot, HandlerOK, Flow
  <1>1. CASE Abort(h, "conflict")
    BY <1>1, AbortStep DEF Answers
  <1>2. CASE ~there /\ Get(h, {}) /\ Goto(h, "check_export") /\ UNCHANGED <<tables, task, answer>>
    <2>1. Wants(h) = {want} /\ Free(h, want)
      BY <1>0, WantsAre DEF TakeSnapshot
    <2>2. pc' = [pc EXCEPT ![h] = "check_export"] /\ locks' = [locks EXCEPT ![h] = @ \cup {want}]
      BY <1>2, <2>1 DEF Get, Goto
    <2>3. pc'[h] = "check_export" /\ task' = task /\ locks'[h] = locks[h] \cup {want}
      BY <1>0, <1>2, <2>2 DEF TypeOK
    <2>4. /\ \A d : Writes(h, d)' <=> Writes(h, d)
          /\ \A x : Touches(h, x)' <=> Touches(h, x) \/ x = on
          /\ \A x, m : Has(h, x, m) => Has(h, x, m)'
          /\ [on |-> on, mode |-> "update"] \in locks'[h]
      <3>1. \A d : on # <<"export", d>>
        OBVIOUS
      <3> HIDE DEF on
      <3> QED BY <2>3, <3>1, OneMoreLock
    <2>5. Flow(h)'
      BY <1>0, <2>3 DEF HandlerOK, Flow
    <2>6. LocksMean(h)'
      <3>1. \A v : on # <<"video", v>>
        OBVIOUS
      <3>2. \A s \in snapshots : on # <<"snapshot", s.export, s.time>>
        BY <1>2
      <3> HIDE DEF on
      <3> QED BY <1>0, <1>2, <2>3, <2>4, <3>1, <3>2 DEF HandlerOK, LocksMean, tables, Exist
    <2>7. Tested(h)'
      <3>1. WritesVideo(h)' => WritesVideo(h)
        BY <1>0, <2>3, <2>4 DEF WritesVideo
      <3> QED BY <1>0, <1>2, <2>3, <2>4, <3>1 DEF HandlerOK, Tested, Inserters, tables, Exist, Has
    <2>8. want \in Lock /\ "check_export" \in Labels /\ ~Creating(h)'
      BY <1>0, <2>3, LockTypes DEF Modes, Labels, Creating, HandlerOK, Flow, Inserters
    <2> HIDE DEF want
    <2> QED BY <1>2, <2>1, <2>2, <2>5, <2>6, <2>7, <2>8, GetOneStep
  <1> QED BY <1>1, <1>2 DEF TakeSnapshot

(* The same for the id of a video.                                          *)
LEMMA TakeVideoStep == ASSUME TablesInv, NEW h \in Requests, TakeVideo(h) PROVE TablesInv'
  <1> DEFINE e == task[h].export
             v == task[h].video
             on == <<"video", v>>
             want == [on |-> on, mode |-> "update"]
             label == AfterVideoKey(h)
  <1>0. TypeOK /\ HandlerOK(h) /\ pc[h] = "video_key" /\ v # NoVideo
        /\ task[h].kind \in {"create", "attach", "ingest"}
    BY DEF TablesInv, TakeVideo, HandlerOK, Flow
  <1>1. CASE Abort(h, "conflict")
    BY <1>1, AbortStep DEF Answers
  <1>2. CASE ~Taken(v, e) /\ Get(h, {}) /\ Goto(h, label) /\ UNCHANGED <<tables, task, answer>>
    <2>1. Wants(h) = {want} /\ Free(h, want)
      BY <1>0, WantsAre DEF TakeVideo
    <2>a. /\ task[h].kind = "create" => label = "check_campaign"
          /\ task[h].kind = "attach" => label = "commit"
          /\ task[h].kind = "ingest" => label = "snapshot_key"
      BY DEF AfterVideoKey
    <2> HIDE DEF label
    <2>2. pc' = [pc EXCEPT ![h] = label] /\ locks' = [locks EXCEPT ![h] = @ \cup {want}]
      BY <1>2, <2>1 DEF Get, Goto
    <2>3. pc'[h] = label /\ task' = task /\ locks'[h] = locks[h] \cup {want}
      BY <1>0, <1>2, <2>2 DEF TypeOK
    <2>4. /\ \A d : Writes(h, d)' <=> Writes(h, d)
          /\ \A x : Touches(h, x)' <=> Touches(h, x) \/ x = on
          /\ \A x, m : Has(h, x, m) => Has(h, x, m)'
          /\ [on |-> on, mode |-> "update"] \in locks'[h]
      <3>1. \A d : on # <<"export", d>>
        OBVIOUS
      <3> HIDE DEF on
      <3> QED BY <2>3, <3>1, OneMoreLock
    <2>5. Flow(h)'
      BY <1>0, <2>a, <2>3 DEF HandlerOK, Flow, Inserters
    <2>6. LocksMean(h)'
      <3>1. \A s \in snapshots : on # <<"snapshot", s.export, s.time>>
        OBVIOUS
      <3>2. \A d \in Exist : on = <<"video", exports[d].video>> => Writes(h, d)
        <4>1. \A d \in Exist : on = <<"video", exports[d].video>> => d = e
          BY <1>2 DEF Taken
        <4>2. e \in Exist => task[h].kind # "create"
          BY <1>0 DEF TablesInv, IdsDrawnOnce, Creating, Exist
        <4>3. task[h].kind # "create" => Writes(h, e)
          BY <1>0 DEF HandlerOK, Tested
        <4> QED BY <4>1, <4>2, <4>3
      <3>3. pc'[h] \notin {"idle", "refresh", "done"}
        BY <1>0, <2>a, <2>3
      <3> HIDE DEF on
      <3> QED BY <1>0, <1>2, <2>3, <2>4, <3>1, <3>2, <3>3 DEF HandlerOK, LocksMean, tables, Exist
    <2>7. Tested(h)'
      BY <1>0, <1>2, <2>a, <2>3, <2>4 DEF Tested, Inserters, HandlerOK, Has
    <2>8. want \in Lock /\ label \in Labels /\ (Creating(h)' => Creating(h))
      <3>1. v \in Ids
        BY <1>0 DEF TypeOK, Task
      <3> QED BY <1>0, <2>a, <2>3, <3>1, LockTypes DEF Modes, Labels, Creating
    <2> HIDE DEF want
    <2> QED BY <1>2, <2>1, <2>2, <2>5, <2>6, <2>7, <2>8, GetOneStep
  <1> QED BY <1>1, <1>2 DEF TakeVideo
---------------------------------------------------------------------------
(* Who can lock a row against other writers finds its index entries free.   *)
LEMMA OldEntriesFree ==
  ASSUME TablesInv, NEW h \in Requests, NEW e \in Exports, exports[e] # NoRow,
         NEW m, m # "share", Free(h, [on |-> <<"export", e>>, mode |-> m])
  PROVE  /\ OldVideo(e) \in SUBSET Lock /\ OldSnapshots(e) \in SUBSET Lock
         /\ \A n \in OldVideo(e) \cup OldSnapshots(e) : \A g \in Requests \ {h} :
              \A l \in locks[g] : l.on # n.on
  <1>0. TypeOK /\ e \in Exist /\ exports[e] \in Export
    BY DEF TablesInv, TypeOK, Exist
  <1>1. ASSUME NEW g \in Requests \ {h} PROVE ~Writes(g, e)
    <2> DEFINE want == [on |-> <<"export", e>>, mode |-> m]
    <2>1. want.on = <<"export", e>> /\ want.mode = m
      OBVIOUS
    <2>2. ~Held(g, want)
      BY DEF Free
    <2> HIDE DEF want
    <2> QED BY <2>1, <2>2 DEF Held, Conflict, Writes
  <1>2. ASSUME NEW n \in OldVideo(e), NEW g \in Requests \ {h}, NEW l \in locks[g]
        PROVE  l.on # n.on
    <2>1. exports[e].video # NoVideo /\ n.on = <<"video", exports[e].video>>
      BY DEF OldVideo
    <2>2. ~Touches(g, <<"video", exports[e].video>>)
      BY <1>0, <1>1, <2>1 DEF TablesInv, HandlerOK, LocksMean
    <2> QED BY <2>1, <2>2 DEF Touches
  <1>3. ASSUME NEW n \in OldSnapshots(e), NEW g \in Requests \ {h}, NEW l \in locks[g]
        PROVE  l.on # n.on
    <2>1. PICK s \in snapshots : s.export = e /\ n.on = <<"snapshot", e, s.time>>
      BY DEF OldSnapshots
    <2>2. ~Touches(g, <<"snapshot", e, s.time>>)
      BY <1>1, <2>1 DEF TablesInv, HandlerOK, LocksMean
    <2> QED BY <2>1, <2>2 DEF Touches
  <1>4. OldVideo(e) \in SUBSET Lock
    <2>1. exports[e].video \in Ids /\ "update" \in Modes
      BY <1>0 DEF Export, Modes
    <2> QED BY <2>1, LockTypes DEF OldVideo
  <1>5. OldSnapshots(e) \in SUBSET Lock
    <2>1. "update" \in Modes /\ \A s \in snapshots : s.time \in Times
      BY <1>0 DEF TypeOK, Snapshot, Modes
    <2> QED BY <2>1, LockTypes DEF OldSnapshots
  <1> QED BY <1>2, <1>3, <1>4, <1>5

(* The UPDATE of an export has its row, or finds it gone.                   *)
LEMMA LockRowStep == ASSUME TablesInv, NEW h \in Requests, LockRow(h) PROVE TablesInv'
  <1> DEFINE e == task[h].export
             v == task[h].video
             m == RowMode(h)
             want == [on |-> <<"export", e>>, mode |-> m]
             L == {want} \cup OldVideo(e)
             label == IF v \notin {NoVideo, exports[e].video} THEN "video_key"
                      ELSE IF task[h].kind = "attach" THEN "commit" ELSE "snapshot_key"
  <1>0. /\ TypeOK /\ KeysUnique /\ HandlerOK(h) /\ pc[h] = "lock_row"
        /\ task[h].kind \in {"attach", "ingest"} /\ e \in Exports
    BY DEF TablesInv, LockRow, HandlerOK, Flow
  <1>1. CASE Abort(h, "error")
    BY <1>1, AbortStep DEF Answers
  <1>2. CASE /\ exports[e] # NoRow /\ Get(h, OldVideo(e)) /\ Goto(h, label)
             /\ UNCHANGED <<tables, task, answer>>
    <2>1. Wants(h) = {want} /\ Free(h, want) /\ m \in {"nokey", "update"}
      BY <1>0, WantsAre DEF LockRow, RowMode
    <2>2. /\ label \in {"video_key", "commit", "snapshot_key"}
          /\ label = "video_key" => v # NoVideo
          /\ label # "video_key" => v \in {NoVideo, exports[e].video}
          /\ label = "commit" => task[h].kind = "attach"
          /\ label = "snapshot_key" => task[h].kind = "ingest"
      BY <1>0
    <2> HIDE DEF label
    <2>3. /\ pc' = [pc EXCEPT ![h] = label] /\ locks' = [locks EXCEPT ![h] = @ \cup L]
          /\ pc'[h] = label /\ task' = task /\ exports' = exports /\ snapshots' = snapshots
          /\ locks'[h] = locks[h] \cup L
      BY <1>0, <1>2, <2>1 DEF Get, Goto, TypeOK, tables
    <2>4. /\ L \in SUBSET Lock
          /\ \A n \in L : \A g \in Requests \ {h} : \A l \in locks[g] :
               l.on = n.on => ~Conflict(l.mode, n.mode)
      <3>1. want \in Lock
        BY <1>0, <2>1, LockTypes DEF Modes
      <3>2. /\ OldVideo(e) \in SUBSET Lock
            /\ \A n \in OldVideo(e) : \A g \in Requests \ {h} : \A l \in locks[g] : l.on # n.on
        BY <1>0, <1>2, <2>1, OldEntriesFree
      <3>3. \A g \in Requests \ {h} : \A l \in locks[g] :
              l.on = want.on => ~Conflict(l.mode, want.mode)
        BY <2>1, FreeAgrees
      <3> HIDE DEF want
      <3> QED BY <3>1, <3>2, <3>3
    <2>5. \A n \in OldVideo(e) :
            exports[e].video # NoVideo /\ n.on = <<"video", exports[e].video>>
      BY DEF OldVideo
    <2>6. /\ \A x : Touches(h, x)' <=> Touches(h, x) \/ \E n \in L : n.on = x
          /\ \A d : Writes(h, d)' <=>
               Writes(h, d) \/ \E n \in L : n.on = <<"export", d>> /\ n.mode # "share"
          /\ \A x, k : Has(h, x, k)' <=> Has(h, x, k) \/ [on |-> x, mode |-> k] \in L
      <3> HIDE DEF L
      <3> QED BY <2>3, MoreLocks
    <2>7. \A n \in L : n.on = <<"export", e>> \/ n.on = <<"video", exports[e].video>>
      BY <2>5
    <2>8. Writes(h, e)' /\ \A d : Writes(h, d)' => Writes(h, d) \/ d = e
      <3>1. want \in L /\ want.on = <<"export", e>> /\ want.mode # "share"
        BY <2>1
      <3>2. \A d : <<"video", exports[e].video>> # <<"export", d>>
        OBVIOUS
      <3>3. \A d : <<"export", e>> = <<"export", d>> => d = e
        OBVIOUS
      <3>4. \A d : Writes(h, d)' => Writes(h, d) \/ d = e
        <4> HIDE DEF L, want
        <4> QED BY <2>6, <2>7, <3>2, <3>3
      <3>5. e' = e
        BY <2>3
      <3>6. Writes(h, e)'
        <4> HIDE DEF L, want, e
        <4> QED BY <2>6, <3>1, <3>5
      <3> QED BY <3>4, <3>6
    <2>9. \A x : Touches(h, x)' =>
             Touches(h, x) \/ x = <<"export", e>> \/ x = <<"video", exports[e].video>>
      <3> HIDE DEF L
      <3> QED BY <2>6, <2>7
    <2>10. Flow(h)'
      BY <1>0, <2>2, <2>3 DEF HandlerOK, Flow, Inserters
    <2>11. LocksMean(h)'
      <3>1. pc'[h] \notin {"idle", "refresh", "done"}
        BY <2>2, <2>3
      <3>2. ASSUME NEW d \in Exports, Writes(h, d)'
            PROVE  exports[d] # NoRow /\ d = e
        BY <1>0, <1>2, <2>8, <3>2 DEF HandlerOK, LocksMean
      <3>3. ASSUME NEW d \in Exist, exports[d].video # NoVideo,
                   Touches(h, <<"video", exports[d].video>>)'
            PROVE  Writes(h, d)'
        <4> DEFINE on == <<"video", exports[d].video>>
        <4>1. on # <<"export", e>>
          OBVIOUS
        <4>2. Touches(h, on) \/ on = <<"video", exports[e].video>>
          BY <2>3, <2>9, <3>3, <4>1
        <4>3. Touches(h, on) => Writes(h, d)
          BY <1>0, <3>3 DEF HandlerOK, LocksMean
        <4>4. on = <<"video", exports[e].video>> => d = e
          BY <1>0, <1>2, <3>3 DEF KeysUnique, Taken, Exist
        <4>5. d = e => Writes(h, d)'
          BY <2>3, <2>8
        <4>6. Writes(h, d) => Writes(h, d)'
          BY <2>6
        <4> QED BY <4>2, <4>3, <4>4, <4>5, <4>6
      <3>4. ASSUME NEW s \in snapshots, Touches(h, <<"snapshot", s.export, s.time>>)'
            PROVE  FALSE
        <4> DEFINE on == <<"snapshot", s.export, s.time>>
        <4>1. on # <<"export", e>> /\ on # <<"video", exports[e].video>>
          OBVIOUS
        <4>2. Touches(h, on)
          BY <2>9, <3>4, <4>1
        <4> QED BY <1>0, <4>2 DEF HandlerOK, LocksMean
      <3> QED BY <1>0, <2>3, <3>1, <3>2, <3>3, <3>4 DEF LocksMean, Exist
    <2>12. Tested(h)'
      <3>1. WritesVideo(h)' => exports'[e].video = task'[h].video
        BY <2>2, <2>3 DEF WritesVideo
      <3> QED BY <1>0, <2>2, <2>3, <2>8, <3>1 DEF Tested, Inserters
    <2>13. label \in Labels /\ ~Creating(h)'
      BY <1>0, <2>2, <2>3 DEF Labels, Creating
    <2> HIDE DEF L
    <2> QED BY <1>2, <2>3, <2>4, <2>10, <2>11, <2>12, <2>13, GetStep
  <1> QED BY <1>1, <1>2 DEF LockRow
(* A cascade has the locks of an export of its campaign, or of all of them. *)
LEMMA CascadeStep == ASSUME TablesInv, NEW h \in Requests, Cascade(h) PROVE TablesInv'
  <1> DEFINE c == task[h].campaign
  <1>0. /\ TypeOK /\ HandlerOK(h) /\ pc[h] = "cascade" /\ task[h].kind = "drop"
        /\ UNCHANGED <<tables, task, answer>>
    BY DEF TablesInv, Cascade, HandlerOK, Flow
  <1>1. CASE Wants(h) = {} /\ Goto(h, "commit") /\ UNCHANGED locks
    <2>1. ASSUME NEW d \in Mine(c), ~Writes(h, d) PROVE FALSE
      <3>1. [on |-> <<"export", d>>, mode |-> "update"] \in Wants(h)
        BY <1>0, <2>1, WantsAre
      <3> QED BY <1>1, <3>1
    <2>2. pc' = [pc EXCEPT ![h] = "commit"] /\ pc'[h] = "commit" /\ task' = task
      BY <1>0, <1>1 DEF Goto, TypeOK
    <2>3. \A x, m : Has(h, x, m)' <=> Has(h, x, m)
      BY <1>1 DEF Has
    <2>4. \A x : Touches(h, x)' <=> Touches(h, x)
      BY <1>1 DEF Touches
    <2>5. \A d : Writes(h, d)' <=> Writes(h, d)
      BY <1>1 DEF Writes
    <2>6. Flow(h)' /\ Knows(h)' /\ ~Creating(h)'
      BY <1>0, <2>2 DEF HandlerOK, Flow, Knows, tables, Creating
    <2>7. LocksMean(h)'
      BY <1>0, <2>2, <2>3, <2>4, <2>5 DEF HandlerOK, LocksMean, tables, Exist
    <2>8. Tested(h)'
      BY <1>0, <2>1, <2>2, <2>3, <2>5
      DEF HandlerOK, Tested, WritesVideo, Inserters, tables, Mine, Exist
    <2>9. TypeOK' /\ LocksAgree'
      BY <1>0, <1>1, <2>2 DEF TablesInv, TypeOK, tables, Labels, LocksAgree
    <2>10. IdsDrawnOnce'
      BY <1>0, <2>2, <2>6, DrawnStays DEF TypeOK
    <2> QED BY <1>0, <1>1, <2>2, <2>6, <2>7, <2>8, <2>9, <2>10, OneHandler
            DEF HandlerOK, TypeOK, tables
  <1>2. ASSUME NEW e \in Exports, [on |-> <<"export", e>>, mode |-> "update"] \in Wants(h),
               Free(h, [on |-> <<"export", e>>, mode |-> "update"]), UNCHANGED pc,
               locks' = [locks EXCEPT ![h] = @ \cup {[on |-> <<"export", e>>, mode |-> "update"]}
                                               \cup OldVideo(e) \cup OldSnapshots(e)]
        PROVE  TablesInv'
    <2> DEFINE want == [on |-> <<"export", e>>, mode |-> "update"]
               Old == OldVideo(e) \cup OldSnapshots(e)
               L == {want} \cup Old
    <2>1. e \in Mine(c) /\ exports[e] # NoRow
      <3>1. PICK d \in Mine(c) : want = [on |-> <<"export", d>>, mode |-> "update"]
        BY <1>0, <1>2, WantsAre
      <3>2. d = e
        BY <3>1
      <3> QED BY <3>1, <3>2 DEF Mine, Exist
    <2>2. /\ Old \in SUBSET Lock
          /\ \A n \in Old : \A g \in Requests \ {h} : \A l \in locks[g] : l.on # n.on
      BY <1>2, <2>1, OldEntriesFree
    <2>3. /\ L \in SUBSET Lock
          /\ \A n \in L : \A g \in Requests \ {h} : \A l \in locks[g] :
               l.on = n.on => ~Conflict(l.mode, n.mode)
      <3>1. want \in Lock
        BY LockTypes DEF Modes
      <3>2. \A g \in Requests \ {h} : \A l \in locks[g] :
              l.on = want.on => ~Conflict(l.mode, want.mode)
        BY <1>2, FreeAgrees
      <3> HIDE DEF want, Old
      <3> QED BY <2>2, <3>1, <3>2
    <2>4. /\ pc' = [pc EXCEPT ![h] = "cascade"] /\ pc'[h] = "cascade" /\ task' = task
          /\ exports' = exports /\ snapshots' = snapshots
          /\ locks' = [locks EXCEPT ![h] = @ \cup L] /\ locks'[h] = locks[h] \cup L
      BY <1>0, <1>2 DEF TypeOK, tables
    <2>5. \A n \in Old :
            \/ n.on = <<"video", exports[e].video>>
            \/ \E s \in snapshots : s.export = e /\ n.on = <<"snapshot", e, s.time>>
      BY DEF OldVideo, OldSnapshots
    <2> HIDE DEF Old
    <2>6. /\ \A x : Touches(h, x)' <=> Touches(h, x) \/ \E n \in L : n.on = x
          /\ \A d : Writes(h, d)' <=>
               Writes(h, d) \/ \E n \in L : n.on = <<"export", d>> /\ n.mode # "share"
          /\ \A x, k : Has(h, x, k)' <=> Has(h, x, k) \/ [on |-> x, mode |-> k] \in L
      <3> HIDE DEF L
      <3> QED BY <2>4, MoreLocks
    <2>7. want \in L /\ want.on = <<"export", e>> /\ want.mode = "update"
      OBVIOUS
    <2>8. \A n \in L : \/ n.on = <<"export", e>>
                      \/ n.on = <<"video", exports[e].video>>
                      \/ \E s \in snapshots : s.export = e /\ n.on = <<"snapshot", e, s.time>>
      BY <2>5
    <2>9. Writes(h, e)' /\ Has(h, <<"export", e>>, "update")'
      <3> HIDE DEF L
      <3> QED BY <2>6, <2>7
    <2> HIDE DEF L, want
    <2>10. \A d : Writes(h, d)' => Writes(h, d) \/ d = e
      <3>1. /\ \A d : <<"video", exports[e].video>> # <<"export", d>>
            /\ \A d, t : <<"snapshot", e, t>> # <<"export", d>>
            /\ \A d : <<"export", e>> = <<"export", d>> => d = e
        OBVIOUS
      <3> QED BY <2>6, <2>8, <3>1
    <2>11. Flow(h)'
      BY <1>0, <2>4 DEF HandlerOK, Flow
    <2>12. LocksMean(h)'
      <3>1. ASSUME NEW d \in Exports, Writes(h, d)'
            PROVE  exports[d] # NoRow /\ Has(h, <<"export", d>>, "update")'
        <4>1. CASE d = e
          BY <2>1, <2>9, <4>1
        <4>2. CASE Writes(h, d)
          BY <1>0, <2>6, <4>2 DEF HandlerOK, LocksMean
        <4> QED BY <2>10, <3>1, <4>1, <4>2
      <3>2. ASSUME NEW d \in Exist, exports[d].video # NoVideo,
                   Touches(h, <<"video", exports[d].video>>)'
            PROVE  Writes(h, d)'
        <4> DEFINE on == <<"video", exports[d].video>>
        <4>1. on # <<"export", e>> /\ \A t : on # <<"snapshot", e, t>>
          OBVIOUS
        <4>2. Touches(h, on) \/ \E n \in L : n.on = on
          BY <2>4, <2>6, <3>2
        <4>3. Touches(h, on) \/ on = <<"video", exports[e].video>>
          <5> HIDE DEF on
          <5> QED BY <2>8, <4>1, <4>2
        <4>4. Touches(h, on) => Writes(h, d)
          BY <1>0, <3>2 DEF HandlerOK, LocksMean
        <4>5. on = <<"video", exports[e].video>> => d = e
          <5>1. KeysUnique /\ e \in Exist
            BY <2>1 DEF TablesInv, Mine
          <5> QED BY <3>2, <5>1 DEF KeysUnique, Taken
        <4>6. (d = e \/ Writes(h, d)) => Writes(h, d)'
          BY <2>6, <2>9
        <4> QED BY <4>3, <4>4, <4>5, <4>6
      <3>3. ASSUME NEW s \in snapshots, Touches(h, <<"snapshot", s.export, s.time>>)'
            PROVE  Writes(h, s.export)'
        <4> DEFINE on == <<"snapshot", s.export, s.time>>
        <4>1. on # <<"export", e>> /\ on # <<"video", exports[e].video>>
              /\ \A t : on = <<"snapshot", e, t>> => s.export = e
          OBVIOUS
        <4>2. Touches(h, on) \/ \E n \in L : n.on = on
          BY <2>4, <2>6, <3>3
        <4>3. Touches(h, on) \/ s.export = e
          <5> HIDE DEF on
          <5> QED BY <2>8, <4>1, <4>2
        <4>4. Touches(h, on) => Writes(h, s.export)
          BY <1>0 DEF HandlerOK, LocksMean
        <4>5. Writes(h, s.export) => Writes(h, s.export)'
          BY <2>6
        <4>6. s.export = e => Writes(h, s.export)'
          BY <2>9
        <4> QED BY <4>3, <4>4, <4>5, <4>6
      <3> QED BY <1>0, <2>4, <3>1, <3>2, <3>3 DEF LocksMean, Exist
    <2>13. Tested(h)'
      BY <1>0, <2>4, <2>6 DEF HandlerOK, Tested, WritesVideo, Inserters
    <2>14. "cascade" \in Labels /\ ~Creating(h)'
      BY <1>0, <2>4 DEF Labels, Creating
    <2> QED BY <1>0, <2>3, <2>4, <2>11, <2>12, <2>13, <2>14, GetStep
  <1> QED BY <1>1, <1>2 DEF Cascade
---------------------------------------------------------------------------
(* A lock of another transaction keeps a thing from being locked.           *)
LEMMA Excludes ==
  ASSUME LocksAgree, NEW g \in Requests, NEW h \in Requests, g # h
  PROVE  /\ \A x : Has(h, x, "update") => ~Touches(g, x)
         /\ \A e : Writes(h, e) => ~Writes(g, e)
  <1>1. \A l \in locks[g], m \in locks[h] : l.on = m.on => ~Conflict(l.mode, m.mode)
    BY DEF LocksAgree
  <1>2. ASSUME NEW x, Has(h, x, "update"), Touches(g, x) PROVE FALSE
    <2>1. PICK l \in locks[g] : l.on = x
      BY <1>2 DEF Touches
    <2> DEFINE m == [on |-> x, mode |-> "update"]
    <2>2. m \in locks[h] /\ m.on = x /\ m.mode = "update"
      BY <1>2 DEF Has
    <2> HIDE DEF m
    <2>3. ~Conflict(l.mode, "update")
      BY <1>1, <2>1, <2>2
    <2> QED BY <2>3 DEF Conflict
  <1>3. ASSUME NEW e, Writes(h, e), Writes(g, e) PROVE FALSE
    <2>1. PICK l \in locks[g] : l.on = <<"export", e>> /\ l.mode # "share"
      BY <1>3 DEF Writes
    <2>2. PICK m \in locks[h] : m.on = <<"export", e>> /\ m.mode # "share"
      BY <1>3 DEF Writes
    <2>3. ~Conflict(l.mode, m.mode)
      BY <1>1, <2>1, <2>2
    <2> QED BY <2>1, <2>2, <2>3 DEF Conflict
  <1> QED BY <1>2, <1>3

(* What a commit makes of a row.                                            *)
Created(h, e) ==
  /\ task[h].kind = "create" /\ e = task[h].export /\ exports[e] = NoRow
  /\ exports'[e] = [campaign |-> task[h].campaign, video |-> task[h].video]
Attached(h, e) ==
  /\ task[h].kind \in {"attach", "ingest"} /\ e = task[h].export /\ Writes(h, e)
  /\ exports[e] # NoRow /\ exports[e] \in Export
  /\ exports'[e].campaign = exports[e].campaign /\ exports'[e].video = task[h].video
  /\ exports'[e] \in Export
Dropped(h, e) == task[h].kind = "drop" /\ e \in Mine(task[h].campaign) /\ exports'[e] = NoRow
Inserted(h) ==
  [export |-> task[h].export, campaign |-> task[h].campaign,
   video |-> task[h].video, time |-> task[h].time]

LEMMA CommitWrites ==
  ASSUME TablesInv, NEW h \in Requests, Commit(h)
  PROVE  /\ \A e \in Exports :
              \/ exports'[e] = exports[e] /\ (task[h].kind = "drop" => e \notin Mine(task[h].campaign))
              \/ Created(h, e) \/ Attached(h, e) \/ Dropped(h, e)
         /\ exports' \in [Exports -> Export \cup {NoRow}]
         /\ \A s \in snapshots' :
              s \in snapshots \/ (task[h].kind \in Inserters /\ s = Inserted(h))
         /\ task[h].kind \in Inserters => Inserted(h) \in snapshots'
         /\ task[h].kind = "drop" =>
              \A s \in snapshots' : s.campaign # task[h].campaign /\ s.export \notin Mine(task[h].campaign)
         /\ campaigns' = IF task[h].kind = "drop" THEN campaigns \ {task[h].campaign} ELSE campaigns
  <1> DEFINE k == task[h].kind
             e == task[h].export
             c == task[h].campaign
             v == task[h].video
  <1>0. /\ TypeOK /\ HandlerOK(h) /\ pc[h] = "commit"
        /\ exports' = NewExports(h) /\ snapshots' = NewSnapshots(h)
        /\ campaigns' = IF k = "drop" THEN campaigns \ {c} ELSE campaigns
    BY DEF TablesInv, Commit
  <1>1. k \in {"create", "attach", "snapshot", "ingest", "drop"} /\ v \in Ids
    BY <1>0 DEF TypeOK, Task, Kinds, HandlerOK, Flow
  <1>2. k # "drop" => e \in Exports
    BY <1>0, <1>1 DEF HandlerOK, Flow
  <1>3. c \in Campaigns
    BY <1>0, <1>1 DEF HandlerOK, Flow
  <1>4. exports \in [Exports -> Export \cup {NoRow}]
    BY <1>0 DEF TypeOK
  <1> DEFINE Became(d) ==
        \/ exports'[d] = exports[d] /\ (k = "drop" => d \notin Mine(c))
        \/ Created(h, d) \/ Attached(h, d) \/ Dropped(h, d)
  <1>5. (\A d \in Exports : Became(d)) /\ exports' \in [Exports -> Export \cup {NoRow}]
    <2>1. CASE k = "create"
      <3> DEFINE new == [campaign |-> c, video |-> v]
      <3>1. exports' = [exports EXCEPT ![e] = new]
        BY <1>0, <2>1 DEF NewExports
      <3>2. exports[e] = NoRow
        BY <1>0, <2>1 DEF TablesInv, IdsDrawnOnce, Creating
      <3>3. new \in Export
        BY <1>1, <1>3 DEF Export
      <3>4. \A d \in Exports : d = e \/ exports'[d] = exports[d]
        BY <1>4, <3>1
      <3>5. exports'[e] = new
        BY <1>2, <1>4, <2>1, <3>1
      <3>6. exports' \in [Exports -> Export \cup {NoRow}]
        <4> HIDE DEF new
        <4> QED BY <1>4, <3>1, <3>3
      <3> QED BY <2>1, <3>2, <3>4, <3>5, <3>6 DEF Created
    <2>2. CASE k \in {"attach", "ingest"} /\ Writes(h, e)
      <3>1. exports' = [exports EXCEPT ![e].video = v]
        BY <1>0, <2>2 DEF NewExports
      <3>2. exports[e] # NoRow /\ exports[e] \in Export
        BY <1>0, <1>2, <1>4, <2>2 DEF HandlerOK, LocksMean
      <3> DEFINE new == [exports[e] EXCEPT !.video = v]
      <3>3. /\ new \in Export /\ new.campaign = exports[e].campaign /\ new.video = v
        BY <1>1, <3>2 DEF Export
      <3>4. \A d \in Exports : d = e \/ exports'[d] = exports[d]
        BY <1>4, <3>1
      <3>5. exports'[e] = new
        BY <1>2, <1>4, <2>2, <3>1
      <3>6. exports' = [exports EXCEPT ![e] = new]
        BY <3>1
      <3> HIDE DEF new
      <3>7. exports' \in [Exports -> Export \cup {NoRow}]
        BY <1>4, <3>3, <3>6
      <3> QED BY <1>2, <2>2, <3>2, <3>3, <3>4, <3>5, <3>7 DEF Attached
    <2>3. CASE k = "snapshot" \/ (k \in {"attach", "ingest"} /\ ~Writes(h, e))
      <3>1. exports' = exports
        BY <1>0, <2>3 DEF NewExports
      <3> QED BY <1>4, <2>3, <3>1
    <2>4. CASE k = "drop"
      <3>1. exports' = [d \in Exports |-> IF d \in Mine(c) THEN NoRow ELSE exports[d]]
        BY <1>0, <2>4 DEF NewExports
      <3> QED BY <1>4, <2>4, <3>1 DEF Dropped
    <2> QED BY <1>1, <2>1, <2>2, <2>3, <2>4
  <1>6. k \in Inserters => snapshots' = snapshots \cup {Inserted(h)}
    BY <1>0 DEF NewSnapshots, Inserters, Inserted
  <1>7. k = "drop" => snapshots' = {s \in snapshots : s.campaign # c /\ s.export \notin Mine(c)}
    BY <1>0 DEF NewSnapshots
  <1>8. k \in {"create", "attach"} => snapshots' = snapshots
    BY <1>0 DEF NewSnapshots
  <1> QED BY <1>0, <1>1, <1>5, <1>6, <1>7, <1>8 DEF Inserters

(* The video a commit gives an export is nobody else's.                     *)
LEMMA VideoReserved ==
  ASSUME TablesInv, NEW h \in Requests, Commit(h), NEW e \in Exports,
         Created(h, e) \/ Attached(h, e), task[h].video # NoVideo
  PROVE  /\ \A d \in Exist \ {e} : exports[d].video # task[h].video
         /\ Has(h, <<"video", task[h].video>>, "update")
              \/ (Attached(h, e) /\ exports[e].video = task[h].video)
  <1>0. KeysUnique /\ LocksMean(h) /\ Tested(h) /\ pc[h] = "commit" /\ e = task[h].export
    BY DEF TablesInv, HandlerOK, Commit, Created, Attached
  <1>1. WritesVideo(h)
    BY <1>0 DEF WritesVideo, Created, Attached
  <1>2. Created(h, e) => ~Writes(h, e)
    BY <1>0 DEF Created, LocksMean
  <1>3. Has(h, <<"video", task[h].video>>, "update")
          \/ (Attached(h, e) /\ exports[e].video = task[h].video)
    BY <1>0, <1>1, <1>2 DEF Tested
  <1>4. CASE Has(h, <<"video", task[h].video>>, "update")
    <2> SUFFICES ASSUME NEW d \in Exist \ {e}, exports[d].video = task[h].video PROVE FALSE
      BY <1>3
    <2>1. Touches(h, <<"video", exports[d].video>>)
      BY <1>4 DEF Has, Touches
    <2>2. d \in Exports /\ Writes(h, d)
      BY <1>0, <2>1 DEF LocksMean, Exist
    <2> QED BY <1>0, <2>2 DEF LocksMean, Created, Attached
  <1>5. CASE Attached(h, e) /\ exports[e].video = task[h].video
    BY <1>0, <1>3, <1>5 DEF KeysUnique, Taken, Exist, Attached
  <1> QED BY <1>3, <1>4, <1>5
(* What another transaction has locked, or knows, a commit leaves as it is. *)
LEMMA CommitSpares ==
  ASSUME TablesInv, NEW h \in Requests, Commit(h), NEW g \in Requests, g # h
  PROVE  /\ \A e \in Exports : Writes(g, e) => exports'[e] = exports[e] /\ exports[e] # NoRow
         /\ \A e \in Exist : Touches(g, <<"export", e>>) => exports'[e] # NoRow
         /\ \A c \in campaigns : Touches(g, <<"campaign", c>>) => c \in campaigns'
         /\ \A e \in Exports :
              /\ exports'[e] # NoRow /\ exports'[e].video # NoVideo
              /\ Touches(g, <<"video", exports'[e].video>>)
              => exports[e] # NoRow /\ exports[e].video = exports'[e].video
         /\ \A s \in snapshots' :
              Touches(g, <<"snapshot", s.export, s.time>>) => s \in snapshots
         /\ \A e \in Exports : Has(g, <<"campaign", task[g].campaign>>, "update") /\
              exports'[e] # NoRow /\ exports'[e].campaign = task[g].campaign
              => exports[e] # NoRow /\ exports[e].campaign = task[g].campaign
         /\ Knows(g)'
  <1>0. /\ LocksAgree /\ pc[h] = "commit" /\ HandlerOK(h) /\ HandlerOK(g) /\ IdsDrawnOnce
        /\ task' = task /\ drawn' = drawn
    BY DEF TablesInv, Commit
  <1>1. /\ \A x : Has(h, x, "update") => ~Touches(g, x)
        /\ \A x : Has(g, x, "update") => ~Touches(h, x)
        /\ \A e : Writes(h, e) => ~Writes(g, e)
    BY <1>0, Excludes
  <1>2. \A e \in Exports : exports'[e] = exports[e] \/ Created(h, e) \/ Attached(h, e) \/ Dropped(h, e)
    BY CommitWrites
  <1>3. ASSUME NEW e \in Exports, Dropped(h, e)
        PROVE  exports[e] # NoRow /\ Writes(h, e) /\ Has(h, <<"export", e>>, "update")
    <2>1. e \in Mine(task[h].campaign) /\ task[h].kind = "drop"
      BY <1>3 DEF Dropped
    <2>2. Writes(h, e)
      BY <1>0, <2>1 DEF HandlerOK, Tested
    <2> QED BY <1>0, <2>1, <2>2 DEF HandlerOK, LocksMean
  <1>4. ASSUME NEW e \in Exports, Writes(g, e) PROVE exports'[e] = exports[e] /\ exports[e] # NoRow
    <2>1. exports[e] # NoRow
      BY <1>0, <1>4 DEF HandlerOK, LocksMean
    <2>2. ~Writes(h, e)
      BY <1>1, <1>4
    <2> QED BY <1>2, <1>3, <2>1, <2>2 DEF Created, Attached
  <1>5. ASSUME NEW e \in Exist, Touches(g, <<"export", e>>) PROVE exports'[e] # NoRow
    <2>1. e \in Exports /\ exports[e] # NoRow
      BY DEF Exist
    <2>2. ~Dropped(h, e)
      BY <1>1, <1>3, <1>5, <2>1
    <2>3. Attached(h, e) => exports'[e] # NoRow
      BY ConstantsAssumption DEF Attached, Export
    <2> QED BY <1>2, <2>1, <2>2, <2>3 DEF Created
  <1>6. ASSUME NEW c \in campaigns, Touches(g, <<"campaign", c>>) PROVE c \in campaigns'
    <2>1. task[h].kind = "drop" => Has(h, <<"campaign", task[h].campaign>>, "update")
      BY <1>0 DEF HandlerOK, Tested
    <2>2. task[h].kind = "drop" => c # task[h].campaign
      BY <1>1, <1>6, <2>1
    <2> QED BY <2>2, CommitWrites
  <1>7. ASSUME NEW e \in Exports, exports'[e] # NoRow, exports'[e].video # NoVideo,
               Touches(g, <<"video", exports'[e].video>>)
        PROVE  exports[e] # NoRow /\ exports[e].video = exports'[e].video
    <2>1. CASE Created(h, e) \/ Attached(h, e)
      <3>1. exports'[e].video = task[h].video
        BY <2>1 DEF Created, Attached
      <3>2. ~Has(h, <<"video", task[h].video>>, "update")
        BY <1>1, <1>7, <3>1
      <3>3. Attached(h, e) /\ exports[e].video = task[h].video
        BY <1>7, <2>1, <3>1, <3>2, VideoReserved
      <3> QED BY <3>1, <3>3 DEF Attached
    <2> QED BY <1>2, <1>7, <2>1 DEF Dropped
  <1>8. ASSUME NEW s \in snapshots', Touches(g, <<"snapshot", s.export, s.time>>)
        PROVE  s \in snapshots
    <2>1. CASE task[h].kind \in Inserters /\ s = Inserted(h)
      <3>1. s.export = task[h].export /\ s.time = task[h].time
        BY <2>1 DEF Inserted
      <3>2. Has(h, <<"snapshot", task[h].export, task[h].time>>, "update")
        BY <1>0, <2>1 DEF HandlerOK, Tested
      <3> QED BY <1>1, <1>8, <3>1, <3>2
    <2> QED BY <2>1, CommitWrites
  <1>9. ASSUME NEW e \in Exports, Has(g, <<"campaign", task[g].campaign>>, "update"),
               exports'[e] # NoRow, exports'[e].campaign = task[g].campaign
        PROVE  exports[e] # NoRow /\ exports[e].campaign = task[g].campaign
    <2>1. ~Created(h, e)
      <3> SUFFICES ASSUME Created(h, e) PROVE FALSE
        OBVIOUS
      <3>1. task[h].campaign = task[g].campaign /\ task[h].kind = "create"
        BY <1>9 DEF Created
      <3>2. Touches(h, <<"campaign", task[h].campaign>>)
        BY <1>0, <3>1 DEF HandlerOK, Tested
      <3> QED BY <1>1, <1>9, <3>1, <3>2
    <2> QED BY <1>2, <1>9, <2>1 DEF Attached, Dropped
  <1>10. Knows(g)'
    <2> DEFINE e == task[g].export
    <2>1. Knows(g) /\ Flow(g)
      BY <1>0 DEF HandlerOK
    <2>2. ASSUME task[g].kind \in {"attach", "snapshot", "ingest"}, exports'[e] # NoRow
          PROVE  exports'[e].campaign = task[g].campaign
      <3>1. e \in Exports
        BY <2>1, <2>2 DEF Flow
      <3>2. ~Created(h, e)
        <4> SUFFICES ASSUME Created(h, e) PROVE FALSE
          OBVIOUS
        <4>1. Creating(h) /\ e = task[h].export
          BY <1>0 DEF Creating, Created
        <4> QED BY <1>0, <4>1 DEF IdsDrawnOnce
      <3> QED BY <1>2, <2>1, <2>2, <3>1, <3>2 DEF Attached, Dropped, Knows
    <2> QED BY <1>0, <2>1, <2>2 DEF Knows
  <1> HIDE DEF Exist
  <1> QED BY <1>4, <1>5, <1>6, <1>7, <1>8, <1>9, <1>10
LEMMA CommitOther ==
  ASSUME TablesInv, NEW h \in Requests, Commit(h), NEW g \in Requests, g # h
  PROVE  HandlerOK(g)'
  <1>0. HandlerOK(g) /\ TypeOK
    BY DEF TablesInv
  <1>1. pc'[g] = pc[g] /\ task' = task /\ locks'[g] = locks[g]
    BY <1>0 DEF Commit, Answer, Goto, TypeOK
  <1>2. /\ \A x : Touches(g, x)' <=> Touches(g, x)
        /\ \A e : Writes(g, e)' <=> Writes(g, e)
        /\ \A x, m : Has(g, x, m)' <=> Has(g, x, m)
    BY <1>1, SameLocks
  <1>3. /\ \A e \in Exports : Writes(g, e) => exports'[e] = exports[e] /\ exports[e] # NoRow
        /\ \A e \in Exist : Touches(g, <<"export", e>>) => exports'[e] # NoRow
        /\ \A c \in campaigns : Touches(g, <<"campaign", c>>) => c \in campaigns'
        /\ \A e \in Exports :
             /\ exports'[e] # NoRow /\ exports'[e].video # NoVideo
             /\ Touches(g, <<"video", exports'[e].video>>)
             => exports[e] # NoRow /\ exports[e].video = exports'[e].video
        /\ \A s \in snapshots' :
             Touches(g, <<"snapshot", s.export, s.time>>) => s \in snapshots
        /\ \A e \in Exports : Has(g, <<"campaign", task[g].campaign>>, "update") /\
             exports'[e] # NoRow /\ exports'[e].campaign = task[g].campaign
             => exports[e] # NoRow /\ exports[e].campaign = task[g].campaign
        /\ Knows(g)'
    BY CommitSpares
  <1>4. Flow(g)'
    BY <1>0, <1>1 DEF HandlerOK, Flow
  <1>5. LocksMean(g)'
    <2>0. LocksMean(g)
      BY <1>0 DEF HandlerOK
    <2>1. pc'[g] \in {"idle", "refresh", "done"} => locks'[g] = {}
      BY <1>1, <2>0 DEF LocksMean
    <2>2. ASSUME NEW e \in Exports, Writes(g, e)'
          PROVE  /\ exports'[e] # NoRow
                 /\ \/ task'[g].kind = "drop" /\ Has(g, <<"export", e>>, "update")'
                    \/ task'[g].kind \in {"attach", "ingest"} /\ e = task'[g].export
      BY <1>1, <1>2, <1>3, <2>0, <2>2 DEF LocksMean
    <2>3. ASSUME NEW e \in Exports, exports'[e] # NoRow, exports'[e].video # NoVideo,
                 \E l \in locks'[g] : l.on = <<"video", exports'[e].video>>
          PROVE  Writes(g, e)'
      <3>1. Touches(g, <<"video", exports'[e].video>>)
        BY <1>1, <2>3 DEF Touches
      <3>2. exports[e] # NoRow /\ exports[e].video = exports'[e].video
        BY <1>3, <2>3, <3>1
      <3>3. Writes(g, e)
        BY <2>0, <2>3, <3>1, <3>2 DEF LocksMean, Exist
      <3> QED BY <1>2, <3>3
    <2>4. ASSUME NEW s \in snapshots', Touches(g, <<"snapshot", s.export, s.time>>)'
          PROVE  task'[g].kind = "drop" /\ Writes(g, s.export)'
      <3>1. Touches(g, <<"snapshot", s.export, s.time>>)
        BY <1>2, <2>4
      <3> QED BY <1>1, <1>2, <1>3, <2>0, <3>1 DEF LocksMean
    <2>5. \A x : Touches(g, x)' <=> \E l \in locks'[g] : l.on = x
      BY DEF Touches
    <2> QED BY <2>1, <2>2, <2>3, <2>4, <2>5 DEF LocksMean, Exist
  <1>6. Tested(g)'
    <2> DEFINE e == task[g].export
               c == task[g].campaign
    <2>0. Tested(g) /\ Flow(g)
      BY <1>0 DEF HandlerOK
    <2>a. task[g].kind \in {"create", "attach", "snapshot", "ingest"} => e \in Exports
      BY <2>0 DEF Flow
    <2>1. WritesVideo(g)' => \/ Has(g, <<"video", task[g].video>>, "update")'
                             \/ Writes(g, e)' /\ exports'[e].video = task[g].video
      <3>1. WritesVideo(g)' => WritesVideo(g) /\ e \in Exports
        BY <1>1, <1>2, <2>a DEF WritesVideo
      <3> QED BY <1>1, <1>2, <1>3, <2>0, <3>1 DEF Tested
    <2>2. task[g].kind \in {"attach", "ingest"} /\ pc[g] = "video_key" => Writes(g, e)'
      BY <1>1, <1>2, <2>0 DEF Tested
    <2>3. task[g].kind \in Inserters /\ pc[g] \in {"check_export", "check_campaign", "commit"} =>
            Has(g, <<"snapshot", e, task[g].time>>, "update")'
      BY <1>1, <1>2, <2>0 DEF Tested
    <2>4. task[g].kind \in Inserters /\ pc[g] \in {"check_campaign", "commit"} =>
            e \in Exports /\ exports'[e] # NoRow /\ Touches(g, <<"export", e>>)'
      BY <1>1, <1>2, <1>3, <2>0, <2>a DEF Tested, Inserters
    <2>5. task[g].kind \in {"create", "snapshot", "ingest"} /\ pc[g] = "commit" =>
            c \in campaigns' /\ Touches(g, <<"campaign", c>>)'
      BY <1>1, <1>2, <1>3, <2>0 DEF Tested
    <2>6. task[g].kind = "drop" /\ pc[g] \in {"cascade", "commit"} =>
            Has(g, <<"campaign", c>>, "update")'
      BY <1>1, <1>2, <2>0 DEF Tested
    <2>7. ASSUME task[g].kind = "drop", pc[g] = "commit", NEW d \in Exports,
                 exports'[d] # NoRow, exports'[d].campaign = c
          PROVE  Writes(g, d)'
      <3>1. Has(g, <<"campaign", c>>, "update")
        BY <2>0, <2>7 DEF Tested
      <3>2. d \in Mine(c)
        BY <1>3, <2>7, <3>1 DEF Mine, Exist
      <3> QED BY <1>2, <2>0, <2>7, <3>2 DEF Tested
    <2> QED BY <1>1, <2>1, <2>2, <2>3, <2>4, <2>5, <2>6, <2>7 DEF Tested, Mine, Exist
  <1> QED BY <1>3, <1>4, <1>5, <1>6 DEF HandlerOK

LEMMA CommitSelf ==
  ASSUME TablesInv, NEW h \in Requests, Commit(h)
  PROVE  HandlerOK(h)' /\ pc'[h] \in {"refresh", "done"}
  <1>0. HandlerOK(h) /\ TypeOK /\ task' = task /\ drawn' = drawn
    BY DEF TablesInv, Commit
  <1>1. pc'[h] \in {"refresh", "done"} /\ locks'[h] = {}
    BY <1>0 DEF Commit, Answer, Goto, TypeOK
  <1>2. Flow(h)'
    BY <1>0, <1>1 DEF HandlerOK, Flow
  <1>3. LocksMean(h)'
    BY <1>1 DEF LocksMean, Writes, Touches
  <1>4. Tested(h)'
    BY <1>1 DEF Tested, WritesVideo
  <1>5. Knows(h)'
    <2> DEFINE e == task[h].export
    <2>1. Knows(h) /\ Flow(h)
      BY <1>0 DEF HandlerOK
    <2>2. ASSUME task[h].kind \in {"attach", "snapshot", "ingest"}, exports'[e] # NoRow
          PROVE  exports'[e].campaign = task[h].campaign
      <3>1. e \in Exports
        BY <2>1, <2>2 DEF Flow
      <3>2. exports'[e] = exports[e] \/ Attached(h, e)
        BY <2>2, <3>1, CommitWrites DEF Created, Dropped
      <3> QED BY <2>1, <2>2, <3>2 DEF Knows, Attached
    <2> QED BY <1>0, <2>1, <2>2 DEF Knows
  <1> QED BY <1>1, <1>2, <1>3, <1>4, <1>5 DEF HandlerOK
LEMMA CommitKeys ==
  ASSUME TablesInv, NEW h \in Requests, Commit(h)
  PROVE  KeysUnique'
  <1>0. KeysUnique /\ Tested(h) /\ LocksMean(h) /\ pc[h] = "commit"
    BY DEF TablesInv, HandlerOK, Commit
  <1>1. ASSUME NEW e \in Exports, exports'[e] # NoRow
        PROVE  \/ exports'[e] = exports[e]
               \/ /\ Created(h, e) \/ Attached(h, e)
                  /\ e = task[h].export /\ exports'[e].video = task[h].video
    BY <1>1, CommitWrites DEF Created, Attached, Dropped
  <1>2. ASSUME NEW e \in Exports, NEW d \in Exports, d # e, exports'[e] # NoRow, exports'[d] # NoRow,
               exports'[e].video # NoVideo, exports'[d].video = exports'[e].video
        PROVE  FALSE
    <2>1. CASE exports'[e] = exports[e] /\ exports'[d] = exports[d]
      BY <1>0, <1>2, <2>1 DEF KeysUnique, Taken, Exist
    <2>2. CASE exports'[e] # exports[e]
      <3>1. exports'[d] = exports[d] /\ d \in Exist \ {e}
        BY <1>1, <1>2, <2>2 DEF Exist
      <3>2. /\ Created(h, e) \/ Attached(h, e)
            /\ exports'[e].video = task[h].video /\ task[h].video # NoVideo
        BY <1>1, <1>2, <2>2
      <3>3. \A x \in Exist \ {e} : exports[x].video # task[h].video
        BY <3>2, VideoReserved
      <3> QED BY <1>2, <3>1, <3>2, <3>3
    <2>3. CASE exports'[d] # exports[d]
      <3>1. exports'[e] = exports[e] /\ e \in Exist \ {d}
        BY <1>1, <1>2, <2>3 DEF Exist
      <3>2. /\ Created(h, d) \/ Attached(h, d)
            /\ exports'[d].video = task[h].video /\ task[h].video # NoVideo
        BY <1>1, <1>2, <2>3
      <3>3. \A x \in Exist \ {d} : exports[x].video # task[h].video
        BY <3>2, VideoReserved
      <3> QED BY <1>2, <3>1, <3>2, <3>3
    <2> QED BY <2>1, <2>2, <2>3
  <1>3. ASSUME NEW s \in snapshots, task[h].kind \in Inserters,
               s.export = task[h].export, s.time = task[h].time
        PROVE  FALSE
    <2>1. Has(h, <<"snapshot", s.export, s.time>>, "update")
      BY <1>0, <1>3 DEF Tested
    <2>2. Touches(h, <<"snapshot", s.export, s.time>>)
      BY <2>1 DEF Has, Touches
    <2> QED BY <1>0, <1>3, <2>2 DEF LocksMean, Inserters
  <1>4. ASSUME NEW s \in snapshots', NEW r \in snapshots', s.export = r.export, s.time = r.time
        PROVE  s = r
    <2>1. Inserted(h).export = task[h].export /\ Inserted(h).time = task[h].time
      BY DEF Inserted
    <2>2. /\ s \in snapshots \/ (task[h].kind \in Inserters /\ s = Inserted(h))
          /\ r \in snapshots \/ (task[h].kind \in Inserters /\ r = Inserted(h))
      BY CommitWrites
    <2> QED BY <1>0, <1>3, <1>4, <2>1, <2>2 DEF KeysUnique
  <1> QED BY <1>2, <1>4 DEF KeysUnique, Taken, Exist

LEMMA CommitRows ==
  ASSUME TablesInv, NEW h \in Requests, Commit(h)
  PROVE  RowsAgree'
  <1>0. RowsAgree /\ Tested(h) /\ Knows(h) /\ pc[h] = "commit"
    BY DEF TablesInv, HandlerOK, Commit
  <1>1. \A e \in Exports :
          \/ exports'[e] = exports[e] /\ (task[h].kind = "drop" => e \notin Mine(task[h].campaign))
          \/ Created(h, e) \/ Attached(h, e) \/ Dropped(h, e)
    BY CommitWrites
  <1>2. campaigns' = IF task[h].kind = "drop" THEN campaigns \ {task[h].campaign} ELSE campaigns
    BY CommitWrites
  <1>3. ASSUME NEW e \in Exports, exports'[e] # NoRow PROVE exports'[e].campaign \in campaigns'
    <2>1. CASE exports'[e] = exports[e] /\ (task[h].kind = "drop" => e \notin Mine(task[h].campaign))
      BY <1>0, <1>2, <1>3, <2>1 DEF RowsAgree, Mine, Exist
    <2>2. CASE Created(h, e)
      <3>1. task[h].kind = "create" /\ exports'[e].campaign = task[h].campaign
        BY <2>2 DEF Created
      <3> QED BY <1>0, <1>2, <3>1 DEF Tested
    <2>3. CASE Attached(h, e)
      BY <1>0, <1>2, <2>3 DEF RowsAgree, Exist, Attached
    <2> QED BY <1>1, <1>3, <2>1, <2>2, <2>3 DEF Dropped
  <1>4. ASSUME NEW s \in snapshots'
        PROVE  /\ s.export \in Exports /\ exports'[s.export] # NoRow
               /\ exports'[s.export].campaign = s.campaign
    <2>1. /\ s.export \in Exports /\ exports[s.export] # NoRow
          /\ exports[s.export].campaign = s.campaign
      <3>1. CASE s \in snapshots
        BY <1>0, <3>1 DEF RowsAgree, Exist
      <3>2. CASE task[h].kind \in Inserters /\ s = Inserted(h)
        <4>1. s.export = task[h].export /\ s.campaign = task[h].campaign
          BY <3>2 DEF Inserted
        <4> QED BY <1>0, <3>2, <4>1 DEF Tested, Knows, Exist, Inserters
      <3> QED BY <3>1, <3>2, CommitWrites
    <2>2. ~Created(h, s.export) /\ ~Dropped(h, s.export)
      BY <2>1, CommitWrites DEF Created, Dropped
    <2>3. CASE exports'[s.export] = exports[s.export]
      BY <2>1, <2>3
    <2>4. CASE Attached(h, s.export)
      BY <2>1, <2>4, ConstantsAssumption DEF Attached, Export
    <2> QED BY <1>1, <2>1, <2>2, <2>3, <2>4
  <1> QED BY <1>3, <1>4 DEF RowsAgree, Exist

LEMMA CommitIds ==
  ASSUME TablesInv, NEW h \in Requests, Commit(h)
  PROVE  IdsDrawnOnce'
  <1>0. /\ IdsDrawnOnce /\ Knows(h) /\ TypeOK /\ task' = task /\ drawn' = drawn
        /\ \A g \in Requests \ {h} : pc'[g] = pc[g]
    BY DEF TablesInv, HandlerOK, Commit, Answer, Goto, TypeOK
  <1>1. \A e \in Exports :
          exports'[e] = exports[e] \/ Created(h, e) \/ Attached(h, e) \/ Dropped(h, e)
    BY CommitWrites
  <1>2. pc'[h] \in {"refresh", "done"}
    BY CommitSelf
  <1>3. ASSUME NEW e \in Exports, exports'[e] # NoRow PROVE e \in drawn'
    BY <1>0, <1>1, <1>3 DEF IdsDrawnOnce, Exist, Created, Attached, Dropped, Knows
  <1>4. ASSUME NEW g \in Requests, Creating(g)'
        PROVE  /\ exports'[task'[g].export] = NoRow
               /\ \A k \in Requests \ {g} : task'[k].export # task'[g].export
    <2>1. g # h /\ Creating(g)
      BY <1>0, <1>2, <1>4 DEF Creating
    <2>2. /\ exports[task[g].export] = NoRow
          /\ \A k \in Requests \ {g} : task[k].export # task[g].export
      BY <1>0, <2>1 DEF IdsDrawnOnce
    <2>3. task[g].export \in Exports
      BY <2>1 DEF TablesInv, HandlerOK, Flow, Creating
    <2>4. ~Created(h, task[g].export) /\ ~Attached(h, task[g].export)
      BY <2>1, <2>2 DEF Created, Attached
    <2> QED BY <1>0, <1>1, <2>2, <2>3, <2>4 DEF Dropped
  <1> QED BY <1>3, <1>4 DEF IdsDrawnOnce, Exist

LEMMA CommitStep == ASSUME TablesInv, NEW h \in Requests, Commit(h) PROVE TablesInv'
  <1>0. TypeOK /\ LocksAgree /\ Flow(h) /\ locks' = [locks EXCEPT ![h] = {}]
    BY DEF TablesInv, HandlerOK, Commit
  <1>1. TypeOK'
    <2>1. UNCHANGED <<drawn, task>> /\ campaigns' \subseteq Campaigns
      BY <1>0 DEF Commit, TypeOK
    <2>2. pc' \in [Requests -> Labels] /\ answer' \in [Requests -> Answers]
      BY <1>0 DEF Commit, Answer, Goto, TypeOK, Labels, Answers
    <2>3. locks' \in [Requests -> SUBSET Lock]
      BY <1>0 DEF TypeOK
    <2>4. snapshots' \subseteq Snapshot /\ \A s \in snapshots' : s.video \in Videos
      <3>1. task[h].kind \in Inserters => Inserted(h) \in Snapshot /\ Inserted(h).video \in Videos
        BY <1>0 DEF Flow, Inserters, Inserted, Snapshot, Ids
      <3>2. \A s \in snapshots' :
              s \in snapshots \/ (task[h].kind \in Inserters /\ s = Inserted(h))
        BY CommitWrites
      <3> QED BY <1>0, <3>1, <3>2 DEF TypeOK
    <2>5. exports' \in [Exports -> Export \cup {NoRow}]
      BY CommitWrites
    <2> QED BY <1>0, <2>1, <2>2, <2>3, <2>4, <2>5 DEF TypeOK
  <1>2. LocksAgree'
    BY <1>0, LocksEnd DEF TypeOK
  <1>3. \A g \in Requests : HandlerOK(g)'
    BY CommitSelf, CommitOther
  <1>4. IdsDrawnOnce' /\ KeysUnique' /\ RowsAgree'
    BY CommitIds, CommitKeys, CommitRows
  <1> QED BY <1>1, <1>2, <1>3, <1>4 DEF TablesInv
---------------------------------------------------------------------------
LEMMA TablesStart == Init => TablesInv
  <1> SUFFICES ASSUME Init PROVE TablesInv
    OBVIOUS
  <1>1. TypeOK
    <2>1. NoTask \in Task /\ "idle" \in Labels /\ "none" \in Answers
      BY DEF NoTask, Task, Ids, Labels, Answers
    <2>2. drawn \subseteq Exports
      BY DEF Init, Exist
    <2>3. pc \in [Requests -> Labels] /\ task \in [Requests -> Task]
          /\ locks \in [Requests -> SUBSET Lock] /\ answer \in [Requests -> Answers]
      BY <2>1 DEF Init
    <2> QED BY <2>2, <2>3 DEF Init, TypeOK
  <1>2. ASSUME NEW h \in Requests PROVE HandlerOK(h) /\ ~Creating(h) /\ locks[h] = {}
    <2>1. pc[h] = "idle" /\ locks[h] = {} /\ task[h].kind = "none" /\ task[h].export = None
      BY DEF Init, NoTask
    <2>2. Flow(h) /\ Knows(h)
      BY <2>1 DEF Flow, Knows, Inserters
    <2>3. LocksMean(h)
      BY <2>1 DEF LocksMean, Writes, Touches
    <2>4. Tested(h)
      BY <2>1 DEF Tested, WritesVideo, Inserters
    <2> QED BY <2>1, <2>2, <2>3, <2>4 DEF HandlerOK, Creating
  <1>3. LocksAgree /\ IdsDrawnOnce
    BY <1>2 DEF LocksAgree, IdsDrawnOnce, Init
  <1>4. KeysUnique
    BY DEF Init, KeysUnique
  <1>5. RowsAgree
    BY DEF Init, RowsAgree, Exist, Export
  <1> QED BY <1>1, <1>2, <1>3, <1>4, <1>5 DEF TablesInv

LEMMA TablesStep == TablesInv /\ [Next]_vars => TablesInv'
  <1> SUFFICES ASSUME TablesInv, [Next]_vars PROVE TablesInv'
    OBVIOUS
  <1>0. "ok" \in Answers /\ "error" \in Answers
    BY DEF Answers
  <1>1. ASSUME NEW h \in Requests, Statement(h) PROVE TablesInv'
    <2>1. CASE Refresh(h)
      BY <1>0, <2>1, AbortStep DEF Refresh
    <2> QED BY <1>1, <2>1, LockRowStep, TakeVideoStep, TakeSnapshotStep, CheckExportStep,
               CheckCampaignStep, LockCampaignStep, CascadeStep, CommitStep DEF Statement
  <1>2. ASSUME NEW h \in Requests, Deadlock(h) \/ Fail(h) PROVE TablesInv'
    BY <1>0, <1>2, AbortStep DEF Deadlock, Fail
  <1>3. CASE UNCHANGED vars
    <2>1. UNCHANGED <<tables, task>> /\ pc' = pc /\ locks' = locks /\ answer' = answer
      BY <1>3 DEF vars, tables
    <2>2. \A h \in Requests : HandlerOK(h)'
      <3> SUFFICES ASSUME NEW h \in Requests PROVE HandlerOK(h)'
        OBVIOUS
      <3>1. HandlerOK(h)
        BY DEF TablesInv
      <3>2. (\A c : Mine(c)' = Mine(c)) /\ Exist' = Exist /\ (WritesVideo(h)' <=> WritesVideo(h))
        BY <2>1, SameLocks DEF Mine, Exist, tables, WritesVideo
      <3>3. Flow(h)' /\ Knows(h)'
        BY <2>1, <3>1 DEF HandlerOK, Flow, Knows, tables
      <3>4. LocksMean(h)'
        BY <2>1, <3>1, <3>2, SameLocks DEF HandlerOK, LocksMean, tables
      <3>5. Tested(h)'
        BY <2>1, <3>1, <3>2, SameLocks DEF HandlerOK, Tested, tables
      <3> QED BY <3>3, <3>4, <3>5 DEF HandlerOK
    <2>3. TypeOK' /\ LocksAgree' /\ IdsDrawnOnce'
      BY <2>1 DEF TablesInv, TypeOK, LocksAgree, IdsDrawnOnce, Creating, Exist, tables
    <2>4. KeysUnique' /\ RowsAgree'
      BY <2>1 DEF TablesInv, KeysUnique, RowsAgree, Taken, Exist, tables
    <2> QED BY <2>2, <2>3, <2>4 DEF TablesInv
  <1> QED BY <1>1, <1>2, <1>3, ArriveStep DEF Next

LEMMA TablesInvariant == Spec => []TablesInv
  BY TablesStart, TablesStep, PTL DEF Spec

(* At every moment the tables are typed and hold the keys the models       *)
(* declare: no video id is on two exports, and no two snapshots of an      *)
(* export have one time, whatever requests race, fail or are deadlocked.   *)
THEOREM LedgerInvAlways == Spec => []LedgerInv
  <1>1. TablesInv => LedgerInv
    BY DEF TablesInv, LedgerInv
  <1> QED BY <1>1, TablesInvariant, PTL

(* Every export is of a campaign that exists, and every snapshot of an     *)
(* export of the campaign it names, although the handlers read first,      *)
(* write later and campaigns are deleted in between.                       *)
THEOREM RowsAgreeAlways == Spec => []RowsAgree
  <1>1. TablesInv => RowsAgree
    BY DEF TablesInv
  <1> QED BY <1>1, TablesInvariant, PTL

(* A step that moves an ingest and changes its export is the commit that   *)
(* records its snapshot.                                                   *)
LEMMA AttachStep ==
  ASSUME TablesInv, [Next]_vars, NEW h \in Requests, NEW e \in Exports,
         task[h].kind = "ingest", task[h].export = e, pc'[h] # pc[h], exports'[e] # exports[e]
  PROVE  [export |-> e, campaign |-> exports[e].campaign, video |-> exports'[e].video,
          time |-> task[h].time] \in snapshots' \ snapshots
  <1>1. PICK g \in Requests : Commit(g)
    BY DEF Next, Arrive, DeleteCampaign, CreateExport, UpdateVideo, CreateSnapshot, Ingest,
           Refuse, Set, Abort, Statement, LockRow, TakeVideo, TakeSnapshot, CheckExport,
           CheckCampaign, LockCampaign, Cascade, Refresh, Deadlock, Fail, tables, vars
  <1>2. g = h
    BY <1>1 DEF Commit, Answer, Goto, TablesInv, TypeOK
  <1>3. Commit(h) /\ Knows(h) /\ LocksMean(h) /\ Tested(h) /\ pc[h] = "commit"
    BY <1>1, <1>2 DEF Commit, TablesInv, HandlerOK
  <1>4. Attached(h, e)
    BY <1>3, CommitWrites DEF Created, Dropped
  <1>5. exports'[e].video = task[h].video /\ exports[e].campaign = task[h].campaign
    BY <1>3, <1>4 DEF Attached, Knows
  <1>6. Inserted(h) \in snapshots'
    BY <1>3, CommitWrites DEF Inserters
  <1>7. Inserted(h) \notin snapshots
    <2>1. Has(h, <<"snapshot", e, task[h].time>>, "update")
      BY <1>3 DEF Tested, Inserters
    <2>2. Touches(h, <<"snapshot", e, task[h].time>>)
      BY <2>1 DEF Has, Touches
    <2>3. Inserted(h).export = e /\ Inserted(h).time = task[h].time
      BY DEF Inserted
    <2> QED BY <1>3, <2>2, <2>3 DEF LocksMean
  <1> QED BY <1>5, <1>6, <1>7 DEF Inserted

(* An ingest attaches its video id only together with its snapshot: one    *)
(* that is refused, fails or is a deadlock's victim leaves the export be.  *)
THEOREM AttachedTogetherAlways == Spec => AttachedTogether
  <1>1. TablesInv /\ [Next]_vars =>
          [\A h \in Requests, e \in Exports :
             /\ task[h].kind = "ingest" /\ task[h].export = e /\ pc'[h] # pc[h]
             /\ exports'[e] # exports[e]
             => [export |-> e, campaign |-> exports[e].campaign, video |-> exports'[e].video,
                 time |-> task[h].time] \in snapshots' \ snapshots]_vars
    BY AttachStep
  <1> QED BY <1>1, TablesInvariant, PTL DEF Spec, AttachedTogether
===============================================================================
