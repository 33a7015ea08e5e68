---------------------------- MODULE RenderLaunchProofs ----------------------------
(* The gate alone, for any number of requests, approvals and keys and any     *)
(* bounds on the clock and the restarts; and the gate with the queue and the  *)
(* workers: every step of the composition is a step of the gate and, but for  *)
(* a restart, of the queue, so what is shown of the gate and what             *)
(* RenderQueueProofs shows holds of the composition; and the work in memory   *)
(* is always a committed claim that was granted.                              *)
EXTENDS RenderLaunch, FiniteSetTheorems, TLAPS

---------------------------------------------------------------------------
(* The gate. *)

(* The job id of a started request is one of Jobs and names its approval.  *)
LEMMA JobIdType ==
  ASSUME NEW h \in Requests, req[h] \in Request
  PROVE  /\ Target(h) \in Approvals
         /\ JobId(h) \in Jobs
         /\ JobId(h)[1] = Target(h)
  <1>1. req[h].approval \in Approvals /\ req[h].key \in Keys \cup {NoKey}
    BY DEF Request
  <1> QED
    BY <1>1 DEF Target, JobId, Jobs

(* Approve and reject store the statuses approved and rejected.            *)
LEMMA VerdictType ==
  ASSUME NEW h \in Requests
  PROVE  Verdict(h) \in {"approved", "rejected"}
  BY DEF Verdict

(* The rows an UPDATE can leave.                                           *)
LEMMA RowUpdate ==
  ASSUME NEW r \in Row
  PROVE  /\ \A status \in Statuses : [r EXCEPT !.status = status] \in Row
         /\ \A j \in Jobs : [r EXCEPT !.job = j] \in Row
  BY DEF Row

(* The events a launch writes are events.                                  *)
LEMMA EventTypesOK ==
  /\ \A status \in Statuses : ResolvedEvent(status) \in Event
  /\ \A code \in Answers : ErrorEvent(code) \in Event
  /\ \A j \in Jobs : LaunchEvents(j) \in Seq(Event)
  <1>1. \A status \in Statuses : ResolvedEvent(status) \in Event
    BY DEF ResolvedEvent, Event, EventTypes
  <1>2. \A code \in Answers : ErrorEvent(code) \in Event
    BY DEF ErrorEvent, Event, EventTypes
  <1>3. ASSUME NEW j \in Jobs PROVE LaunchEvents(j) \in Seq(Event)
    <2>1. /\ [type |-> "tool.started", value |-> j] \in Event
          /\ [type |-> "tool.result", value |-> j] \in Event
          /\ [type |-> "done", value |-> j] \in Event
      BY DEF Event, EventTypes
    <2> QED BY <2>1 DEF LaunchEvents
  <1> QED BY <1>1, <1>2, <1>3

(* Writing a row version and events, or only an error event, keeps types.  *)
LEMMA WriteType ==
  ASSUME TypeOK, NEW h \in Requests, NEW r \in Row, NEW evs \in Seq(Event),
         NEW code \in Answers, Write(h, r, evs, code)
  PROVE  /\ lock' \in [Approvals -> Requests \cup {Nobody}]
         /\ draft' \in [Requests -> Row]
         /\ outbox' \in [Requests -> Seq(Event)]
         /\ answer' \in [Requests -> Answers]
         /\ pc' \in [Requests -> Labels]
         /\ \A g \in Requests : g # h => pc'[g] = pc[g]
  BY DEF TypeOK, Write, Goto, Labels

LEMMA ReportType ==
  ASSUME TypeOK, NEW h \in Requests, NEW code \in Answers, Report(h, code)
  PROVE  /\ outbox' \in [Requests -> Seq(Event)]
         /\ answer' \in [Requests -> Answers]
         /\ pc' \in [Requests -> Labels]
         /\ \A g \in Requests : g # h => pc'[g] = pc[g]
  <1>1. <<ErrorEvent(code)>> \in Seq(Event)
    BY EventTypesOK
  <1> QED
    BY <1>1 DEF TypeOK, Report, Goto, Labels

(* Types are inductive: every action keeps each variable in its set.       *)
LEMMA TypeStep == TypeOK /\ [Next]_vars => TypeOK'
  <1> SUFFICES ASSUME TypeOK, [Next]_vars PROVE TypeOK'
    OBVIOUS
  <1> USE DEF TypeOK, Labels, Goto
  <1>1. ASSUME NEW a \in Approvals, RequestApproval(a) PROVE TypeOK'
    <2>1. PICK ttl \in TTLs : row' = [row EXCEPT ![a] =
            [status |-> "pending", job |-> NoJob, expires |-> clock + ttl]]
      BY <1>1 DEF RequestApproval
    <2>2. clock + ttl \in Nat
      BY ConstantsAssumption
    <2>3. row' \in [Approvals -> Row]
      BY <2>1, <2>2 DEF Row, Statuses
    <2>4. [type |-> "approval.required", value |-> "pending"] \in Event
      BY DEF Event, EventTypes, Statuses
    <2>5. events' \in [Approvals -> Seq(Event)]
      BY <1>1, <2>4 DEF RequestApproval
    <2> QED BY <1>1, <2>3, <2>5 DEF RequestApproval
  <1>2. ASSUME NEW h \in Requests, LoadDecision(h) PROVE TypeOK'
    <2>1. PICK r \in Request :
            /\ req' = [req EXCEPT ![h] = r]
            /\ seen' = [seen EXCEPT ![h] = row[r.approval]]
            /\ \/ Refuse(h, "not_found")
               \/ Refuse(h, "already_resolved")
               \/ Goto(h, "check") /\ UNCHANGED answer
      BY <1>2 DEF LoadDecision
    <2>2. r.approval \in Approvals
      BY DEF Request
    <2>3. seen' \in [Requests -> Row]
      BY <2>1, <2>2
    <2>4. req' \in [Requests -> Request \cup {NoRequest}] /\ req'[h] \in Request
      BY <2>1
    <2>5. /\ pc' \in [Requests -> Labels]
          /\ answer' \in [Requests -> Answers]
          /\ \A g \in Requests : g # h => pc'[g] = pc[g]
      BY <2>1 DEF Refuse, Answers
    <2>6. \A g \in Requests : pc'[g] = "idle" \/ req'[g] \in Request
      BY <2>1, <2>4, <2>5
    <2> QED BY <1>2, <2>3, <2>4, <2>5, <2>6 DEF LoadDecision
  <1>3. ASSUME NEW h \in Requests, LoadLaunch(h) PROVE TypeOK'
    <2>1. PICK r \in Request :
            /\ req' = [req EXCEPT ![h] = r]
            /\ seen' = [seen EXCEPT ![h] = row[r.approval]]
            /\ \/ Refuse(h, "not_found") /\ UNCHANGED outbox
               \/ Report(h, "approval_mismatch")
               \/ Report(h, "approval_required")
               \/ Goto(h, "check") /\ UNCHANGED <<outbox, answer>>
      BY <1>3 DEF LoadLaunch
    <2>2. r.approval \in Approvals
      BY DEF Request
    <2>3. seen' \in [Requests -> Row]
      BY <2>1, <2>2
    <2>4. req' \in [Requests -> Request \cup {NoRequest}] /\ req'[h] \in Request
      BY <2>1
    <2>5. {"not_found", "approval_mismatch", "approval_required"} \subseteq Answers
      BY DEF Answers
    <2>6. /\ pc' \in [Requests -> Labels]
          /\ answer' \in [Requests -> Answers]
          /\ outbox' \in [Requests -> Seq(Event)]
          /\ \A g \in Requests : g # h => pc'[g] = pc[g]
      BY <2>1, <2>5, ReportType DEF Refuse
    <2>7. \A g \in Requests : pc'[g] = "idle" \/ req'[g] \in Request
      BY <2>1, <2>4, <2>6
    <2> QED BY <1>3, <2>3, <2>4, <2>6, <2>7 DEF LoadLaunch
  <1>4. ASSUME NEW h \in Requests, CheckExpiry(h) PROVE TypeOK'
    BY <1>4 DEF CheckExpiry, dbVars, queueVars, txnVars
  <1>5. ASSUME NEW h \in Requests, StampNow(h) PROVE TypeOK'
    BY <1>5, ConstantsAssumption DEF StampNow, dbVars, queueVars, txnVars
  <1>6. ASSUME NEW h \in Requests, DecideUpdate(h) PROVE TypeOK'
    <2> DEFINE r == [row[Target(h)] EXCEPT !.status = Verdict(h)]
               evs == <<ResolvedEvent(Verdict(h))>>
    <2>1. req[h] \in Request
      BY <1>6 DEF DecideUpdate
    <2>2. r \in Row
      <3>1. row[Target(h)] \in Row /\ Verdict(h) \in Statuses
        BY <2>1, JobIdType, VerdictType DEF Statuses
      <3> QED BY <3>1, RowUpdate
    <2>3. evs \in Seq(Event)
      <3>1. ResolvedEvent(Verdict(h)) \in Event
        BY EventTypesOK, VerdictType DEF Statuses
      <3> QED BY <3>1
    <2>4. CASE Write(h, r, evs, "decided")
      <3>1. "decided" \in Answers BY DEF Answers
      <3> HIDE DEF r, evs
      <3> QED BY <1>6, <2>1, <2>2, <2>3, <2>4, <3>1, WriteType DEF DecideUpdate, queueVars
    <2>5. CASE Goto(h, "refresh") /\ UNCHANGED <<lock, txnVars, answer>>
      BY <1>6, <2>1, <2>5 DEF DecideUpdate, queueVars, txnVars
    <2> QED BY <1>6, <2>4, <2>5 DEF DecideUpdate
  <1>7. ASSUME NEW h \in Requests, ClaimUpdate(h) PROVE TypeOK'
    <2> DEFINE r == [row[Target(h)] EXCEPT !.job = JobId(h)]
               evs == LaunchEvents(JobId(h))
    <2>1. req[h] \in Request
      BY <1>7 DEF ClaimUpdate
    <2>2. r \in Row
      <3>1. row[Target(h)] \in Row /\ JobId(h) \in Jobs
        BY <2>1, JobIdType
      <3> QED BY <3>1, RowUpdate
    <2>3. evs \in Seq(Event)
      BY <2>1, EventTypesOK, JobIdType
    <2>4. CASE Write(h, r, evs, "created")
      <3>1. "created" \in Answers BY DEF Answers
      <3> HIDE DEF r, evs
      <3> QED BY <1>7, <2>1, <2>2, <2>3, <2>4, <3>1, WriteType DEF ClaimUpdate, queueVars
    <2>5. CASE Goto(h, "refresh") /\ UNCHANGED <<lock, txnVars, answer>>
      BY <1>7, <2>1, <2>5 DEF ClaimUpdate, queueVars, txnVars
    <2> QED BY <1>7, <2>4, <2>5 DEF ClaimUpdate
  <1>8. ASSUME NEW h \in Requests, RefreshDecision(h) PROVE TypeOK'
    BY <1>8, JobIdType DEF RefreshDecision, Refuse, Answers, dbVars, queueVars, txnVars
  <1>9. ASSUME NEW h \in Requests, RefreshLaunch(h) PROVE TypeOK'
    <2>1. req[h] \in Request /\ Target(h) \in Approvals
      BY <1>9, JobIdType DEF RefreshLaunch
    <2>2. seen' \in [Requests -> Row]
      BY <1>9, <2>1 DEF RefreshLaunch
    <2>3. /\ pc' \in [Requests -> Labels]
          /\ answer' \in [Requests -> Answers]
          /\ outbox' \in [Requests -> Seq(Event)]
          /\ \A g \in Requests : g # h => pc'[g] = pc[g]
      <3>1. \/ Goto(h, "lookup") /\ UNCHANGED <<outbox, answer>>
            \/ Report(h, "approval_consumed")
            \/ Goto(h, "recheck") /\ UNCHANGED <<outbox, answer>>
        BY <1>9 DEF RefreshLaunch
      <3>2. "approval_consumed" \in Answers BY DEF Answers
      <3> QED BY <3>1, <3>2, ReportType
    <2> QED BY <1>9, <2>1, <2>2, <2>3 DEF RefreshLaunch, dbVars, queueVars
  <1>10. ASSUME NEW h \in Requests, Recheck(h) PROVE TypeOK'
    <2>1. /\ pc' \in [Requests -> Labels]
          /\ answer' \in [Requests -> Answers]
          /\ outbox' \in [Requests -> Seq(Event)]
          /\ \A g \in Requests : g # h => pc'[g] = pc[g]
      <3>1. \/ Goto(h, "expire") /\ UNCHANGED <<outbox, answer>>
            \/ Report(h, "approval_required")
        BY <1>10 DEF Recheck
      <3>2. "approval_required" \in Answers BY DEF Answers
      <3> QED BY <3>1, <3>2, ReportType
    <2> QED BY <1>10, <2>1 DEF Recheck, dbVars, queueVars
  <1>11. ASSUME NEW h \in Requests, Expire(h) PROVE TypeOK'
    <2> DEFINE r == [row[Target(h)] EXCEPT !.status = "expired"]
               evs == IF IsLaunch(h)
                        THEN <<ResolvedEvent("expired"), ErrorEvent("approval_expired")>>
                        ELSE <<ResolvedEvent("expired")>>
    <2>1. req[h] \in Request
      BY <1>11 DEF Expire
    <2>2. r \in Row
      <3>1. row[Target(h)] \in Row /\ "expired" \in Statuses
        BY <2>1, JobIdType DEF Statuses
      <3> QED BY <3>1, RowUpdate
    <2>3. evs \in Seq(Event) /\ "approval_expired" \in Answers
      BY EventTypesOK DEF Statuses, Answers
    <2>4. Write(h, r, evs, "approval_expired")
      BY <1>11 DEF Expire
    <2> HIDE DEF r, evs
    <2> QED BY <1>11, <2>1, <2>2, <2>3, <2>4, WriteType DEF Expire, queueVars
  <1>12. ASSUME NEW h \in Requests, Commit(h) PROVE TypeOK'
    BY <1>12, JobIdType DEF Commit, queueVars, NoRow, Row, Statuses
  <1>13. ASSUME NEW h \in Requests, Abort(h) PROVE TypeOK'
    BY <1>13 DEF Abort, queueVars, NoRow, Row, Statuses
  <1>14. ASSUME NEW h \in Requests, Enqueue(h) PROVE TypeOK'
    BY <1>14, JobIdType DEF Enqueue, Push, dbVars, txnVars
  <1>15. ASSUME NEW h \in Requests, Lookup(h) PROVE TypeOK'
    BY <1>15 DEF Lookup, Refuse, Answers, dbVars, queueVars, txnVars
  <1>16. ASSUME NEW h \in Requests, Restore(h) PROVE TypeOK'
    BY <1>16, JobIdType DEF Restore, Push, Refuse, Answers, dbVars, txnVars
  <1>17. CASE NextJob
    BY <1>17 DEF NextJob, dbVars, txnVars
  <1>18. CASE Tick
    BY <1>18, ConstantsAssumption DEF Tick, dbVars, queueVars, txnVars
  <1>19. CASE Restart
    BY <1>19, ConstantsAssumption DEF Restart, NoRow, Row, Statuses
  <1>20. CASE UNCHANGED vars
    BY <1>20 DEF vars
  <1> QED
    BY <1>1, <1>2, <1>3, <1>4, <1>5, <1>6, <1>7, <1>8, <1>9, <1>10, <1>11, <1>12, <1>13,
       <1>14, <1>15, <1>16, <1>17, <1>18, <1>19, <1>20 DEF Next, Serve

THEOREM TypeCorrect == Spec => []TypeOK
  <1>1. Init => TypeOK
    BY ConstantsAssumption
       DEF Init, TypeOK, Row, NoRow, Statuses, Answers, Labels, Event
  <1> QED
    BY <1>1, TypeStep, PTL DEF Spec

---------------------------------------------------------------------------
(* The job id a request computes is never the NULL of the column.          *)
LEMMA JobIdNotNull ==
  ASSUME NEW h \in Requests, req[h] \in Request
  PROVE  JobId(h) # NoJob
  BY JobIdType, ConstantsAssumption

(* A row lock is held by a started request, on the row it names.           *)
LEMMA LockOwner ==
  ASSUME GateInv, NEW a \in Approvals, NEW h \in Requests, lock[a] = h
  PROVE  /\ pc[h] = "commit" /\ Target(h) = a
         /\ req[h] \in Request
         /\ JobId(h) \in Jobs /\ JobId(h) # NoJob
  <1>1. pc[h] = "commit" /\ Target(h) = a
    BY DEF GateInv, LockHeld
  <1>2. req[h] \in Request
    BY <1>1 DEF GateInv, TypeOK
  <1> QED
    BY <1>1, <1>2, JobIdType, JobIdNotNull

(* Jobs in the queue name their approvals, and are not NULL.               *)
LEMMA QueueJobs ==
  ASSUME GateInv
  PROVE  \A j \in jobs \cup {queue[i] : i \in DOMAIN queue} :
           j \in Jobs /\ j # NoJob /\ j[1] \in Approvals /\ row[j[1]].job = j
  <1>1. queue \in Seq(Jobs) /\ jobs \subseteq Jobs
    BY DEF GateInv, TypeOK
  <1>2. \A i \in DOMAIN queue : queue[i] \in Jobs
    BY <1>1
  <1>3. \A j \in Jobs : j # NoJob /\ j[1] \in Approvals
    BY ConstantsAssumption DEF Jobs
  <1>4. jobs \cup {queue[i] : i \in DOMAIN queue} \subseteq Jobs
    BY <1>1, <1>2
  <1> QED
    BY <1>3, <1>4 DEF GateInv, QueueServesClaims

(* A step after which every row lock is one that was held before, by a     *)
(* request the step has left alone, keeps what is known about open writes. *)
LEMMA LocksKept ==
  ASSUME GateInv, UNCHANGED req,
         \A a \in Approvals, g \in Requests : lock'[a] = g =>
           /\ lock[a] = g /\ row'[a] = row[a] /\ pc'[g] = pc[g]
           /\ draft'[g] = draft[g] /\ answer'[g] = answer[g]
  PROVE  LockHeld' /\ DraftFollowsRow'
  <1>1. LockHeld'
    BY DEF GateInv, LockHeld, Target
  <1>2. DraftFollowsRow'
    BY DEF GateInv, DraftFollowsRow, Verdict, JobId, Target
  <1> QED BY <1>1, <1>2

(* A step that changes neither rows nor handlers nor locks, and leaves the *)
(* queue with claimed jobs only.                                           *)
LEMMA FrameStep ==
  ASSUME GateInv, TypeOK', UNCHANGED <<row, lock, draft, req, pc, answer>>, QueueServesClaims'
  PROVE  GateInv'
  <1>1. LockHeld' /\ DraftFollowsRow'
    BY LocksKept
  <1>2. NothingBeforeInsert'
    BY DEF GateInv, NothingBeforeInsert
  <1>3. HandlersInProgress'
    BY DEF GateInv, HandlersInProgress, InProgress, Target
  <1>4. QueuersHaveClaimed'
    BY DEF GateInv, QueuersHaveClaimed, HasClaimed, Launched, Answered, JobId, Target
  <1> QED
    BY <1>1, <1>2, <1>3, <1>4 DEF GateInv

(* What any step does to a committed row: a job stays, a status moves only *)
(* as StatusMoves allows, so a row that exists goes on existing.           *)
LEMMA RowStep ==
  ASSUME GateInv, [Next]_vars, NEW a \in Approvals
  PROVE  /\ row[a].job # NoJob => row'[a].job = row[a].job
         /\ row'[a].status # row[a].status => <<row[a].status, row'[a].status>> \in StatusMoves
         /\ row[a].status # "absent" => row'[a].status # "absent"
  <1> DEFINE Kept == row'[a] = row[a]
  <1> USE DEF StatusMoves
  <1>1. CASE Kept
    BY <1>1
  <1>2. ASSUME NEW b \in Approvals, RequestApproval(b), ~Kept
        PROVE  row[a].status = "absent" /\ row[a].job = NoJob /\ row'[a].status = "pending"
    <2>1. a = b
      BY <1>2 DEF RequestApproval, GateInv, TypeOK
    <2>2. row[a].status = "absent"
      BY <1>2, <2>1 DEF RequestApproval
    <2>3. row[a].job = NoJob
      BY <2>2 DEF GateInv, NothingBeforeInsert, NoRow
    <2>4. row'[a].status = "pending"
      BY <1>2, <2>1 DEF RequestApproval, GateInv, TypeOK
    <2> QED BY <2>2, <2>3, <2>4
  <1>3. ASSUME NEW h \in Requests, Commit(h), ~Kept
        PROVE  lock[a] = h /\ row'[a] = draft[h]
    <2>1. lock[Target(h)] = h /\ row' = [row EXCEPT ![Target(h)] = draft[h]]
      BY <1>3 DEF Commit
    <2>2. Target(h) = a
      BY <1>3, <2>1 DEF GateInv, TypeOK
    <2> QED BY <2>1, <2>2 DEF GateInv, TypeOK
  <1>4. ASSUME NEW h \in Requests, lock[a] = h, row'[a] = draft[h]
        PROVE  /\ row[a].job # NoJob => row'[a].job = row[a].job
               /\ row'[a].status # row[a].status =>
                    <<row[a].status, row'[a].status>> \in StatusMoves
               /\ row[a].status # "absent" => row'[a].status # "absent"
    <2>1. row[a] \in Row
      BY DEF GateInv, TypeOK
    <2>2. Verdict(h) \in {"approved", "rejected"}
      BY VerdictType
    <2>3. CASE row[a].status = "pending" /\ draft[h] = [row[a] EXCEPT !.status = Verdict(h)]
      <3>1. draft[h].status = Verdict(h) /\ draft[h].job = row[a].job
        BY <2>1, <2>3 DEF Row
      <3> QED BY <1>4, <2>2, <2>3, <3>1
    <2>4. CASE row[a].job = NoJob /\ draft[h] = [row[a] EXCEPT !.job = JobId(h)]
      <3>1. draft[h].status = row[a].status
        BY <2>1, <2>4 DEF Row
      <3> QED BY <1>4, <2>4, <3>1
    <2>5. CASE row[a].status # "absent" /\ draft[h] = [row[a] EXCEPT !.status = "expired"]
      <3>1. draft[h].status = "expired" /\ draft[h].job = row[a].job
        BY <2>1, <2>5 DEF Row
      <3>2. row[a].status \in {"pending", "approved", "rejected", "expired"}
        BY <2>1, <2>5 DEF Row, Statuses
      <3> QED BY <1>4, <2>5, <3>1, <3>2
    <2> QED BY <1>4, <2>3, <2>4, <2>5 DEF GateInv, DraftFollowsRow
  <1>5. Kept \/ (\E b \in Approvals : RequestApproval(b)) \/ (\E h \in Requests : Commit(h))
    BY DEF Next, Serve, vars, dbVars, LoadDecision, LoadLaunch, CheckExpiry, StampNow,
           DecideUpdate, ClaimUpdate, RefreshDecision, RefreshLaunch, Recheck, Expire, Abort,
           Enqueue, Lookup, Restore, NextJob, Tick, Restart
  <1> QED
    BY <1>1, <1>2, <1>3, <1>4, <1>5

(* A step that only moves one handler which has no open write: it disturbs *)
(* nobody else, so only that handler's own conjuncts are to be shown.      *)
LEMMA LocalStep ==
  ASSUME GateInv, TypeOK', NEW h \in Requests, pc[h] # "commit",
         UNCHANGED <<row, lock, draft, queue, jobs>>,
         \A g \in Requests \ {h} : pc'[g] = pc[g] /\ req'[g] = req[g] /\ answer'[g] = answer[g],
         InProgress(h)', HasClaimed(h)'
  PROVE  GateInv'
  <1>1. \A a \in Approvals : lock[a] # h
    BY DEF GateInv, LockHeld
  <1>2. LockHeld'
    BY <1>1 DEF GateInv, LockHeld, Target, TypeOK
  <1>3. ASSUME NEW a \in Approvals, NEW g \in Requests, lock'[a] = g
        PROVE  /\ lock[a] = g /\ g # h
               /\ req'[g] = req[g] /\ answer'[g] = answer[g] /\ draft'[g] = draft[g]
               /\ row'[a] = row[a]
    BY <1>1, <1>3
  <1>4. DraftFollowsRow'
    BY <1>3 DEF GateInv, DraftFollowsRow, Verdict, JobId, Target
  <1>5. ASSUME NEW g \in Requests PROVE InProgress(g)' /\ HasClaimed(g)'
    <2>1. CASE g = h
      BY <2>1
    <2>2. CASE g # h
      <3>1. InProgress(g) /\ HasClaimed(g)
        BY DEF GateInv, HandlersInProgress, QueuersHaveClaimed
      <3> QED BY <2>2, <3>1 DEF InProgress, HasClaimed, Launched, Answered, JobId, Target
    <2> QED BY <2>1, <2>2
  <1> QED
    BY <1>2, <1>4, <1>5
       DEF GateInv, NothingBeforeInsert, HandlersInProgress, QueuersHaveClaimed, QueueServesClaims

(* A step that opens a write: its draft has one of the three shapes.       *)
LEMMA WriteStep ==
  ASSUME GateInv, TypeOK', NEW h \in Requests, NEW r \in Row, NEW evs, NEW code,
         pc[h] \in {"update", "expire"},
         Write(h, r, evs, code), UNCHANGED <<row, req, queue, jobs>>,
         LET a == Target(h)
         IN \/ /\ code = "decided" /\ row[a].status = "pending"
               /\ r = [row[a] EXCEPT !.status = Verdict(h)]
            \/ /\ code = "created" /\ row[a].status = "approved" /\ row[a].job = NoJob
               /\ r = [row[a] EXCEPT !.job = JobId(h)]
            \/ /\ code = "approval_expired" /\ row[a].status # "absent"
               /\ r = [row[a] EXCEPT !.status = "expired"]
  PROVE  GateInv'
  <1> DEFINE a == Target(h)
  <1>1. a \in Approvals
    BY JobIdType DEF GateInv, TypeOK
  <1>2. /\ pc' = [pc EXCEPT ![h] = "commit"] /\ answer' = [answer EXCEPT ![h] = code]
        /\ lock[a] = Nobody /\ lock' = [lock EXCEPT ![a] = h]
        /\ draft' = [draft EXCEPT ![h] = r]
    BY DEF Write, Goto
  <1>3. ASSUME NEW b \in Approvals, NEW g \in Requests, lock'[b] = g
        PROVE  \/ b = a /\ g = h
               \/ b # a /\ g # h /\ lock[b] = g
    <2>1. lock[b] # h
      BY DEF GateInv, LockHeld
    <2> QED BY <1>1, <1>2, <1>3, <2>1 DEF GateInv, TypeOK
  <1>4. /\ pc'[h] = "commit" /\ answer'[h] = code /\ draft'[h] = r
        /\ \A g \in Requests : g # h =>
             pc'[g] = pc[g] /\ answer'[g] = answer[g] /\ draft'[g] = draft[g]
    BY <1>2 DEF GateInv, TypeOK
  <1>5. \A g \in Requests : /\ Target(g)' = Target(g)
                            /\ Verdict(g)' = Verdict(g) /\ JobId(g)' = JobId(g)
    BY DEF Target, Verdict, JobId
  <1>6. LockHeld'
    BY <1>3, <1>4, <1>5 DEF GateInv, LockHeld
  <1>7. DraftFollowsRow'
    <2> SUFFICES ASSUME NEW b \in Approvals, NEW g \in Requests, lock'[b] = g
                 PROVE  \/ /\ answer'[g] = "decided"
                           /\ row[b].status = "pending"
                           /\ draft'[g] = [row[b] EXCEPT !.status = Verdict(g)]
                        \/ /\ answer'[g] = "created"
                           /\ row[b].status = "approved" /\ row[b].job = NoJob
                           /\ draft'[g] = [row[b] EXCEPT !.job = JobId(g)]
                        \/ /\ answer'[g] = "approval_expired"
                           /\ row[b].status # "absent"
                           /\ draft'[g] = [row[b] EXCEPT !.status = "expired"]
      BY <1>5 DEF DraftFollowsRow
    <2>1. CASE b = a /\ g = h
      BY <1>4, <2>1
    <2>2. CASE b # a /\ g # h /\ lock[b] = g
      BY <1>4, <2>2 DEF GateInv, DraftFollowsRow
    <2> QED BY <1>3, <2>1, <2>2
  <1>8. ASSUME NEW g \in Requests PROVE InProgress(g)' /\ HasClaimed(g)'
    <2>1. CASE g = h
      <3>1. lock'[Target(h)] = h
        BY <1>1, <1>2 DEF GateInv, TypeOK
      <3> QED BY <1>4, <1>5, <2>1, <3>1 DEF InProgress, HasClaimed, Launched, Answered
    <2>2. CASE g # h
      <3>1. InProgress(g) /\ HasClaimed(g)
        BY DEF GateInv, HandlersInProgress, QueuersHaveClaimed
      <3>2. pc[g] = "commit" /\ answer[g] = "created" => lock'[Target(g)] = g
        <4>1. SUFFICES ASSUME pc[g] = "commit", answer[g] = "created", lock[Target(g)] = g
                       PROVE  lock'[Target(g)] = g
          BY <3>1 DEF InProgress
        <4>2. Target(g) \in Approvals
          BY <4>1, JobIdType DEF GateInv, TypeOK
        <4>3. Target(g) # a
          BY <1>2, <4>1, ConstantsAssumption
        <4> QED BY <1>2, <4>1, <4>2, <4>3 DEF GateInv, TypeOK
      <3> QED BY <1>4, <1>5, <2>2, <3>1, <3>2 DEF InProgress, HasClaimed, Launched, Answered
    <2> QED BY <2>1, <2>2
  <1> QED
    BY <1>6, <1>7, <1>8
       DEF GateInv, NothingBeforeInsert, HandlersInProgress, QueuersHaveClaimed, QueueServesClaims

(* A handler that has not written, in the middle of a decision or a launch,*)
(* holds a started request on a typed row.                                 *)
LEMMA Started ==
  ASSUME GateInv, NEW h \in Requests, pc[h] # "idle"
  PROVE  /\ req[h] \in Request
         /\ Target(h) \in Approvals
         /\ row[Target(h)] \in Row
         /\ JobId(h) \in Jobs /\ JobId(h) # NoJob /\ JobId(h)[1] = Target(h)
         /\ Verdict(h) \in Statuses
  BY JobIdType, JobIdNotNull, VerdictType DEF GateInv, TypeOK, Statuses

(* Every step keeps the inductive invariant.                               *)
LEMMA GateStep == GateInv /\ [Next]_vars => GateInv'
  <1> SUFFICES ASSUME GateInv, [Next]_vars PROVE GateInv'
    OBVIOUS
  <1>0. TypeOK'
    BY TypeStep DEF GateInv
  <1>1. ASSUME NEW a \in Approvals, RequestApproval(a) PROVE GateInv'
    <2>1. /\ row[a].status = "absent" /\ row'[a].status = "pending"
          /\ \A b \in Approvals : b # a => row'[b] = row[b]
          /\ UNCHANGED <<lock, queue, jobs, pc, req, draft, answer>>
      BY <1>1 DEF RequestApproval, GateInv, TypeOK
    <2>2. \A h \in Requests : lock[a] # h
      BY <2>1 DEF GateInv, DraftFollowsRow
    <2>3. NothingBeforeInsert'
      BY <2>1 DEF GateInv, NothingBeforeInsert
    <2>4. LockHeld' /\ DraftFollowsRow'
      BY <2>1, <2>2, LocksKept
    <2>6. \A h \in Requests : (InProgress(h) /\ HasClaimed(h))'
      <3> SUFFICES ASSUME NEW h \in Requests PROVE (InProgress(h) /\ HasClaimed(h))'
        OBVIOUS
      <3>1. CASE pc[h] = "idle"
        BY <2>1, <3>1 DEF GateInv, HandlersInProgress, InProgress, HasClaimed, Launched, Answered
      <3>2. CASE pc[h] # "idle"
        <4>1. row[a].job = NoJob
          BY <2>1 DEF GateInv, NothingBeforeInsert, NoRow
        <4>2. InProgress(h) /\ HasClaimed(h)
          BY DEF GateInv, HandlersInProgress, QueuersHaveClaimed
        <4> QED
          BY <2>1, <3>2, <4>1, <4>2, Started
             DEF InProgress, HasClaimed, Launched, Answered, JobId, Target
      <3> QED BY <3>1, <3>2
    <2>7. QueueServesClaims'
      <3>1. row[a].job = NoJob
        BY <2>1 DEF GateInv, NothingBeforeInsert, NoRow
      <3> SUFFICES ASSUME NEW j \in jobs \cup {queue[i] : i \in DOMAIN queue}
                   PROVE  row'[j[1]].job = j
        BY <2>1 DEF QueueServesClaims
      <3>2. j # NoJob /\ j[1] \in Approvals /\ row[j[1]].job = j
        BY QueueJobs
      <3> QED BY <2>1, <3>1, <3>2
    <2> QED
      BY <1>0, <2>3, <2>4, <2>6, <2>7 DEF GateInv, HandlersInProgress, QueuersHaveClaimed
  <1>2. ASSUME NEW h \in Requests, LoadDecision(h) PROVE GateInv'
    <2>1. /\ pc[h] = "idle" /\ answer[h] = "none"
          /\ UNCHANGED <<row, lock, draft, queue, jobs>>
      BY <1>2 DEF LoadDecision, GateInv, HandlersInProgress, InProgress
    <2>2. \A g \in Requests \ {h} : pc'[g] = pc[g] /\ req'[g] = req[g] /\ answer'[g] = answer[g]
      BY <1>2 DEF LoadDecision, Refuse, Goto, GateInv, TypeOK
    <2>3. \/ pc'[h] = "done" /\ answer'[h] \in {"not_found", "already_resolved"}
          \/ pc'[h] = "check" /\ answer'[h] = "none" /\ row[Target(h)'].status = "pending"
      BY <1>2, <2>1 DEF LoadDecision, Refuse, Goto, GateInv, TypeOK, Target
    <2>4. InProgress(h)' /\ HasClaimed(h)'
      BY <2>1, <2>3 DEF InProgress, HasClaimed, Launched, Answered
    <2> QED BY <1>0, <2>1, <2>2, <2>4, LocalStep
  <1>3. ASSUME NEW h \in Requests, LoadLaunch(h) PROVE GateInv'
    <2>1. /\ pc[h] = "idle" /\ answer[h] = "none"
          /\ UNCHANGED <<row, lock, draft, queue, jobs>>
      BY <1>3 DEF LoadLaunch, GateInv, HandlersInProgress, InProgress
    <2>2. \A g \in Requests \ {h} : pc'[g] = pc[g] /\ req'[g] = req[g] /\ answer'[g] = answer[g]
      BY <1>3 DEF LoadLaunch, Refuse, Report, Goto, GateInv, TypeOK
    <2>3. \/ pc'[h] = "done" /\ answer'[h] = "not_found"
          \/ pc'[h] = "commit" /\ answer'[h] \in {"approval_mismatch", "approval_required"}
          \/ pc'[h] = "check" /\ answer'[h] = "none" /\ row[Target(h)'].status = "approved"
      BY <1>3, <2>1 DEF LoadLaunch, Refuse, Report, Goto, GateInv, TypeOK, Target
    <2>4. InProgress(h)' /\ HasClaimed(h)'
      BY <2>1, <2>3 DEF InProgress, HasClaimed, Launched, Answered
    <2> QED BY <1>0, <2>1, <2>2, <2>4, LocalStep
  <1>4. ASSUME NEW h \in Requests, CheckExpiry(h) \/ StampNow(h) \/ Recheck(h) PROVE GateInv'
    <2>1. /\ pc[h] \in {"check", "stamp", "recheck"} /\ answer[h] = "none"
          /\ row[Target(h)].status # "absent"
          /\ UNCHANGED <<row, lock, draft, queue, jobs, req>>
      BY <1>4 DEF CheckExpiry, StampNow, Recheck, dbVars, queueVars, txnVars,
                  GateInv, HandlersInProgress, InProgress
    <2>2. \A g \in Requests \ {h} : pc'[g] = pc[g] /\ req'[g] = req[g] /\ answer'[g] = answer[g]
      BY <1>4, <2>1 DEF CheckExpiry, StampNow, Recheck, Report, Goto, GateInv, TypeOK
    <2>3. \/ pc'[h] \in {"expire", "stamp", "update"} /\ answer'[h] = "none"
          \/ pc'[h] = "commit" /\ answer'[h] = "approval_required"
      BY <1>4, <2>1 DEF CheckExpiry, StampNow, Recheck, Report, Goto, GateInv, TypeOK
    <2>4. InProgress(h)' /\ HasClaimed(h)'
      BY <2>1, <2>3 DEF InProgress, HasClaimed, Launched, Answered, Target
    <2> QED BY <1>0, <2>1, <2>2, <2>4, LocalStep
  <1>5. ASSUME NEW h \in Requests, RefreshDecision(h) \/ RefreshLaunch(h) \/ Lookup(h)
        PROVE  GateInv'
    <2>1. /\ pc[h] \in {"refresh", "lookup"} /\ answer[h] = "none"
          /\ pc[h] = "refresh" => row[Target(h)].status # "absent"
          /\ pc[h] = "lookup" => row[Target(h)].job = JobId(h)
          /\ UNCHANGED <<row, lock, draft, queue, jobs, req>>
      BY <1>5 DEF RefreshDecision, RefreshLaunch, Lookup, dbVars, queueVars, txnVars,
                  GateInv, HandlersInProgress, InProgress, QueuersHaveClaimed, HasClaimed
    <2>2. \A g \in Requests \ {h} : pc'[g] = pc[g] /\ req'[g] = req[g] /\ answer'[g] = answer[g]
      BY <1>5, <2>1 DEF RefreshDecision, RefreshLaunch, Lookup, Refuse, Report, Goto, GateInv, TypeOK
    <2>3. \/ pc'[h] = "done" /\ answer'[h] = "already_resolved"
          \/ /\ pc[h] = "refresh" /\ pc'[h] \in {"expire", "recheck"} /\ answer'[h] = "none"
          \/ pc'[h] = "commit" /\ answer'[h] = "approval_consumed"
          \/ pc'[h] = "lookup" /\ answer'[h] = "none" /\ row[Target(h)].job = JobId(h)
          \/ pc[h] = "lookup" /\ pc'[h] = "restore" /\ answer'[h] = "none"
          \/ pc[h] = "lookup" /\ pc'[h] = "done" /\ answer'[h] = "replayed"
      BY <1>5, <2>1 DEF RefreshDecision, RefreshLaunch, Lookup, IsReplay, Refuse, Report, Goto,
                        GateInv, TypeOK
    <2>4. InProgress(h)' /\ HasClaimed(h)'
      BY <2>1, <2>3 DEF InProgress, HasClaimed, Launched, Answered, Target, JobId
    <2> QED BY <1>0, <2>1, <2>2, <2>4, LocalStep
  <1>6. ASSUME NEW h \in Requests, DecideUpdate(h) \/ ClaimUpdate(h), pc'[h] = "refresh"
        PROVE  GateInv'
    <2>1. /\ pc[h] = "update" /\ answer[h] = "none"
          /\ row[Target(h)].status # "absent"
          /\ UNCHANGED <<row, queue, jobs, req>>
      BY <1>6 DEF DecideUpdate, ClaimUpdate, queueVars, GateInv, HandlersInProgress, InProgress
    <2>2. Goto(h, "refresh") /\ UNCHANGED <<lock, draft, answer>>
      BY <1>6, <2>1 DEF DecideUpdate, ClaimUpdate, Write, Goto, txnVars, GateInv, TypeOK
    <2>3. InProgress(h)' /\ HasClaimed(h)'
      BY <2>1, <2>2, <1>6 DEF InProgress, HasClaimed, Launched, Answered, Target
    <2> QED BY <1>0, <2>1, <2>2, <2>3, LocalStep DEF Goto, GateInv, TypeOK
  <1>7. ASSUME NEW h \in Requests, DecideUpdate(h), pc'[h] # "refresh" PROVE GateInv'
    <2> DEFINE r == [row[Target(h)] EXCEPT !.status = Verdict(h)]
    <2>1. /\ pc[h] = "update" /\ DecideMatches(h)
          /\ Write(h, r, <<ResolvedEvent(Verdict(h))>>, "decided")
          /\ UNCHANGED <<row, queue, jobs, req>>
      BY <1>7 DEF DecideUpdate, queueVars, Goto, GateInv, TypeOK
    <2>2. r \in Row
      BY <2>1, Started, RowUpdate
    <2>3. row[Target(h)].status = "pending"
      BY <2>1 DEF DecideMatches
    <2> QED BY <1>0, <2>1, <2>2, <2>3, WriteStep
  <1>8. ASSUME NEW h \in Requests, ClaimUpdate(h), pc'[h] # "refresh" PROVE GateInv'
    <2> DEFINE r == [row[Target(h)] EXCEPT !.job = JobId(h)]
    <2>1. /\ pc[h] = "update" /\ ClaimMatches(h)
          /\ Write(h, r, LaunchEvents(JobId(h)), "created")
          /\ UNCHANGED <<row, queue, jobs, req>>
      BY <1>8 DEF ClaimUpdate, queueVars, Goto, GateInv, TypeOK
    <2>2. r \in Row
      BY <2>1, Started, RowUpdate
    <2>3. row[Target(h)].status = "approved" /\ row[Target(h)].job = NoJob
      BY <2>1 DEF ClaimMatches
    <2> QED BY <1>0, <2>1, <2>2, <2>3, WriteStep
  <1>9. ASSUME NEW h \in Requests, Expire(h) PROVE GateInv'
    <2> DEFINE r == [row[Target(h)] EXCEPT !.status = "expired"]
    <2>1. /\ pc[h] = "expire" /\ row[Target(h)].status # "absent"
          /\ UNCHANGED <<row, queue, jobs, req>>
      BY <1>9 DEF Expire, queueVars, GateInv, HandlersInProgress, InProgress
    <2>2. r \in Row
      <3>1. "expired" \in Statuses BY DEF Statuses
      <3> QED BY <2>1, <3>1, Started, RowUpdate
    <2>3. PICK evs : Write(h, r, evs, "approval_expired")
      BY <1>9 DEF Expire
    <2> QED BY <1>0, <2>1, <2>2, <2>3, WriteStep
  <1>10. ASSUME NEW h \in Requests, Commit(h) PROVE GateInv'
    <2> DEFINE a == Target(h)
    <2>1. /\ pc[h] = "commit" /\ a \in Approvals
          /\ UNCHANGED <<queue, jobs, req, answer>>
      BY <1>10, Started DEF Commit, queueVars
    <2>2. /\ pc'[h] = IF answer[h] = "created" THEN "enqueue" ELSE "done"
          /\ \A g \in Requests : g # h => pc'[g] = pc[g] /\ draft'[g] = draft[g]
          /\ \A b \in Approvals : b # a => row'[b] = row[b] /\ lock'[b] = lock[b]
          /\ lock'[a] # h
          /\ lock[a] # h => row'[a] = row[a] /\ lock'[a] = lock[a]
          /\ lock[a] = h => row'[a] = draft[h] /\ lock'[a] = Nobody
      BY <1>10, <2>1, ConstantsAssumption DEF Commit, Goto, GateInv, TypeOK
    <2>3. \A b \in Approvals :
            /\ row[b].job # NoJob => row'[b].job = row[b].job
            /\ row[b].status # "absent" => row'[b].status # "absent"
      BY RowStep
    <2>4. ASSUME NEW b \in Approvals, NEW g \in Requests, lock'[b] = g
          PROVE  g # h /\ lock[b] = g /\ row'[b] = row[b]
      <3>1. b # a => lock[b] # h
        BY DEF GateInv, LockHeld
      <3> QED BY <2>1, <2>2, <2>4, <3>1, ConstantsAssumption
    <2>5. LockHeld' /\ DraftFollowsRow'
      BY <2>1, <2>2, <2>4, LocksKept
    <2>7. NothingBeforeInsert'
      <3> SUFFICES ASSUME NEW b \in Approvals, row'[b].status = "absent"
                   PROVE  row'[b] = NoRow
        BY DEF NothingBeforeInsert
      <3>1. row[b].status = "absent"
        BY <2>3
      <3>2. lock[b] # h
        BY <3>1 DEF GateInv, DraftFollowsRow
      <3> QED BY <2>1, <2>2, <3>1, <3>2 DEF GateInv, NothingBeforeInsert
    <2>8. ASSUME NEW g \in Requests, g # h PROVE InProgress(g)' /\ HasClaimed(g)'
      <3>1. InProgress(g) /\ HasClaimed(g)
        BY DEF GateInv, HandlersInProgress, QueuersHaveClaimed
      <3>2. CASE pc[g] = "idle"
        BY <2>1, <2>2, <2>8, <3>1, <3>2 DEF InProgress, HasClaimed, Launched, Answered
      <3>3. CASE pc[g] # "idle"
        <4>1. Target(g) \in Approvals /\ JobId(g) # NoJob
          BY <3>3, Started
        <4>2. lock[Target(g)] = g => lock'[Target(g)] = g
          BY <2>1, <2>2, <2>8, <4>1
        <4> QED
          BY <2>1, <2>2, <2>3, <2>8, <3>1, <4>1, <4>2
             DEF InProgress, HasClaimed, Launched, Answered, JobId, Target
      <3> QED BY <3>2, <3>3
    <2>9. InProgress(h)' /\ HasClaimed(h)'
      <3>1. answer[h] # "replayed"
        BY <2>1 DEF GateInv, HandlersInProgress, InProgress
      <3>2. CASE answer[h] = "created"
        <4>1. lock[a] = h
          BY <2>1, <3>2 DEF GateInv, HandlersInProgress, InProgress
        <4>2. draft[h] = [row[a] EXCEPT !.job = JobId(h)] /\ row[a] \in Row
          BY <2>1, <3>2, <4>1 DEF GateInv, DraftFollowsRow, TypeOK
        <4>3. row'[a].job = JobId(h)
          BY <2>1, <2>2, <4>1, <4>2 DEF Row
        <4> QED
          BY <2>1, <2>2, <3>2, <4>3 DEF InProgress, HasClaimed, Launched, Answered, JobId, Target
      <3>3. CASE answer[h] # "created"
        BY <2>1, <2>2, <3>1, <3>3 DEF InProgress, HasClaimed, Launched, Answered
      <3> QED BY <3>2, <3>3
    <2>10. QueueServesClaims'
      <3> SUFFICES ASSUME NEW j \in jobs \cup {queue[i] : i \in DOMAIN queue}
                   PROVE  row'[j[1]].job = j
        BY <2>1 DEF QueueServesClaims
      <3>1. j # NoJob /\ j[1] \in Approvals /\ row[j[1]].job = j
        BY QueueJobs
      <3> QED BY <2>3, <3>1
    <2> QED
      BY <1>0, <2>5, <2>7, <2>8, <2>9, <2>10
         DEF GateInv, HandlersInProgress, QueuersHaveClaimed
  <1>11. ASSUME NEW h \in Requests, Abort(h) PROVE GateInv'
    <2>1. /\ pc'[h] = "dead"
          /\ \A g \in Requests : g # h => pc'[g] = pc[g] /\ draft'[g] = draft[g]
          /\ UNCHANGED <<row, queue, jobs, req, answer>>
          /\ \A a \in Approvals : lock'[a] = IF lock[a] = h THEN Nobody ELSE lock[a]
      BY <1>11 DEF Abort, queueVars, Goto, GateInv, TypeOK
    <2>2. \A a \in Approvals, g \in Requests : lock'[a] = g => lock[a] = g /\ g # h
      BY <2>1, ConstantsAssumption
    <2>3. LockHeld' /\ DraftFollowsRow'
      BY <2>1, <2>2, LocksKept
    <2>4. ASSUME NEW g \in Requests PROVE InProgress(g)' /\ HasClaimed(g)'
      <3>1. InProgress(g) /\ HasClaimed(g)
        BY DEF GateInv, HandlersInProgress, QueuersHaveClaimed
      <3>2. g # h /\ pc[g] # "idle" /\ lock[Target(g)] = g => lock'[Target(g)] = g
        BY <2>1, Started
      <3> QED BY <2>1, <3>1, <3>2 DEF InProgress, HasClaimed, Launched, Answered, JobId, Target
    <2> QED
      BY <1>0, <2>1, <2>3, <2>4 DEF GateInv, NothingBeforeInsert, HandlersInProgress,
         QueuersHaveClaimed, QueueServesClaims
  <1>12. ASSUME NEW h \in Requests, Enqueue(h) \/ Restore(h) PROVE GateInv'
    <2>1. /\ pc[h] \in {"enqueue", "restore"} /\ pc'[h] = "done"
          /\ \A g \in Requests : g # h => pc'[g] = pc[g] /\ answer'[g] = answer[g]
          /\ UNCHANGED <<row, lock, draft, req>>
          /\ jobs' = jobs \cup {JobId(h)} /\ queue' = Append(queue, JobId(h))
      BY <1>12 DEF Enqueue, Restore, Push, Refuse, dbVars, txnVars, Goto, GateInv, TypeOK
    <2>2. row[Target(h)].job = JobId(h) /\ JobId(h)[1] = Target(h) /\ JobId(h) \in Jobs
      BY <2>1, Started DEF GateInv, QueuersHaveClaimed, HasClaimed
    <2>3. \A a \in Approvals : lock[a] # h
      BY <2>1 DEF GateInv, LockHeld
    <2>4. LockHeld' /\ DraftFollowsRow'
      BY <2>1, <2>3, LocksKept
    <2>6. ASSUME NEW g \in Requests PROVE InProgress(g)' /\ HasClaimed(g)'
      <3>1. InProgress(g) /\ HasClaimed(g)
        BY DEF GateInv, HandlersInProgress, QueuersHaveClaimed
      <3> QED BY <2>1, <2>2, <3>1 DEF InProgress, HasClaimed, Launched, Answered, JobId, Target
    <2>7. QueueServesClaims'
      <3>1. queue \in Seq(Jobs)
        BY DEF GateInv, TypeOK
      <3>2. {queue'[i] : i \in DOMAIN queue'} \subseteq
              {queue[i] : i \in DOMAIN queue} \cup {JobId(h)}
        BY <2>1, <2>2, <3>1
      <3> QED BY <2>1, <2>2, <3>2 DEF GateInv, QueueServesClaims
    <2> QED
      BY <1>0, <2>1, <2>4, <2>6, <2>7 DEF GateInv, NothingBeforeInsert,
         HandlersInProgress, QueuersHaveClaimed
  <1>13. CASE NextJob
    <2>1. UNCHANGED <<row, lock, draft, req, pc, answer, jobs>> /\ queue # <<>>
          /\ queue' = Tail(queue)
      BY <1>13 DEF NextJob, dbVars, txnVars
    <2>2. queue \in Seq(Jobs)
      BY DEF GateInv, TypeOK
    <2>3. {queue'[i] : i \in DOMAIN queue'} \subseteq {queue[i] : i \in DOMAIN queue}
      BY <2>1, <2>2
    <2>4. QueueServesClaims'
      BY <2>1, <2>3 DEF GateInv, QueueServesClaims
    <2> QED
      BY <1>0, <2>1, <2>4, FrameStep
  <1>14. CASE Tick \/ UNCHANGED vars
    <2>1. UNCHANGED <<row, lock, draft, req, pc, answer, jobs, queue>>
      BY <1>14 DEF Tick, vars, dbVars, queueVars, txnVars
    <2>2. QueueServesClaims'
      BY <2>1 DEF GateInv, QueueServesClaims
    <2> QED
      BY <1>0, <2>1, <2>2, FrameStep
  <1>15. CASE Restart
    <2>1. /\ UNCHANGED <<row, req, answer>>
          /\ \A g \in Requests : pc'[g] = IF pc[g] \in {"idle", "done"} THEN pc[g] ELSE "dead"
          /\ \A a \in Approvals : lock'[a] = Nobody
          /\ jobs' = {} /\ queue' = <<>>
      BY <1>15 DEF Restart
    <2>2. LockHeld' /\ DraftFollowsRow'
      BY <2>1, ConstantsAssumption DEF LockHeld, DraftFollowsRow
    <2>3. ASSUME NEW g \in Requests PROVE InProgress(g)' /\ HasClaimed(g)'
      <3>1. InProgress(g) /\ HasClaimed(g)
        BY DEF GateInv, HandlersInProgress, QueuersHaveClaimed
      <3> QED BY <2>1, <3>1 DEF InProgress, HasClaimed, Launched, Answered, JobId, Target
    <2>4. QueueServesClaims'
      BY <2>1 DEF QueueServesClaims
    <2> QED
      BY <1>0, <2>1, <2>2, <2>3, <2>4 DEF GateInv, NothingBeforeInsert, HandlersInProgress,
         QueuersHaveClaimed
  <1> QED
    BY <1>1, <1>2, <1>3, <1>4, <1>5, <1>6, <1>7, <1>8, <1>9, <1>10, <1>11, <1>12, <1>13,
       <1>14, <1>15 DEF Next, Serve

(* The inductive invariant holds throughout.                               *)
THEOREM GateInvariant == Spec => []GateInv
  <1>1. Init => GateInv
    <2> SUFFICES ASSUME Init PROVE GateInv
      OBVIOUS
    <2>1. TypeOK
      BY ConstantsAssumption
         DEF Init, TypeOK, Row, NoRow, Statuses, Answers, Labels, Event
    <2>2. LockHeld /\ DraftFollowsRow
      BY ConstantsAssumption DEF Init, LockHeld, DraftFollowsRow
    <2>3. HandlersInProgress /\ QueuersHaveClaimed
      BY DEF Init, HandlersInProgress, InProgress, QueuersHaveClaimed, HasClaimed, Launched,
             Answered
    <2>4. NothingBeforeInsert /\ QueueServesClaims
      BY DEF Init, NothingBeforeInsert, QueueServesClaims
    <2> QED BY <2>1, <2>2, <2>3, <2>4 DEF GateInv
  <1> QED
    BY <1>1, GateStep, PTL DEF Spec

(* The queue and _jobs hold committed claims only.                         *)
THEOREM QueueServesClaimsAlways == Spec => []QueueServesClaims
  <1>1. GateInv => QueueServesClaims
    BY DEF GateInv
  <1> QED
    BY <1>1, GateInvariant, PTL

(* All clients that launched one approval were given its one job.          *)
THEOREM LaunchesAgreeAlways == Spec => []LaunchesAgree
  <1>1. GateInv => LaunchesAgree
    BY DEF GateInv, QueuersHaveClaimed, HasClaimed, LaunchesAgree
  <1> QED
    BY <1>1, GateInvariant, PTL

(* A decision that is about to commit holds the row; one that was answered  *)
(* has left its mark on it.                                                 *)
DecisionMarked ==
  \A h \in Requests :
    answer[h] = "decided" =>
      /\ pc[h] = "commit" => lock[Target(h)] = h
      /\ pc[h] = "done" => row[Target(h)].status \notin {"absent", "pending"}

(* A request's step leaves the other requests and their locks alone.        *)
LEMMA OthersStay ==
  ASSUME GateInv, NEW h \in Requests,
         LoadDecision(h) \/ LoadLaunch(h) \/ Serve(h) \/ Abort(h),
         NEW g \in Requests, g # h
  PROVE  /\ pc'[g] = pc[g] /\ answer'[g] = answer[g] /\ req'[g] = req[g]
         /\ \A b \in Approvals : lock[b] = g => lock'[b] = g
  <1> USE ConstantsAssumption DEF GateInv, TypeOK, Goto, Refuse, Report, Write
  <1>1. CASE LoadDecision(h)
    BY <1>1 DEF LoadDecision
  <1>2. CASE LoadLaunch(h)
    BY <1>2 DEF LoadLaunch
  <1>3. CASE CheckExpiry(h) \/ StampNow(h) \/ Recheck(h) \/ Enqueue(h) \/ Lookup(h) \/ Restore(h)
    BY <1>3 DEF CheckExpiry, StampNow, Recheck, Enqueue, Lookup, Restore, dbVars
  <1>4. CASE DecideUpdate(h) \/ ClaimUpdate(h) \/ Expire(h)
    BY <1>4 DEF DecideUpdate, ClaimUpdate, Expire
  <1>5. CASE RefreshDecision(h) \/ RefreshLaunch(h)
    BY <1>5 DEF RefreshDecision, RefreshLaunch, dbVars
  <1>6. CASE Commit(h) \/ Abort(h)
    BY <1>6 DEF Commit, Abort
  <1> QED BY <1>1, <1>2, <1>3, <1>4, <1>5, <1>6 DEF Serve

(* How a request comes to commit a decision, and to have it answered.       *)
LEMMA DecisionStep ==
  ASSUME GateInv, DecisionMarked, NEW h \in Requests,
         LoadDecision(h) \/ LoadLaunch(h) \/ Serve(h) \/ Abort(h),
         answer'[h] = "decided"
  PROVE  /\ pc'[h] = "commit" => lock'[Target(h)'] = h
         /\ pc'[h] = "done" => Commit(h) /\ answer[h] = "decided" /\ lock[Target(h)] = h
  <1>1. /\ InProgress(h)
        /\ pc \in [Requests -> Labels] /\ answer \in [Requests -> Answers]
        /\ lock \in [Approvals -> Requests \cup {Nobody}]
    BY DEF GateInv, HandlersInProgress, TypeOK
  <1>2. pc[h] = "done" => FALSE
    BY DEF LoadDecision, LoadLaunch, Serve, Abort, CheckExpiry, StampNow, DecideUpdate, ClaimUpdate,
           RefreshDecision, RefreshLaunch, Recheck, Expire, Commit, Enqueue, Lookup, Restore
  <1> USE <1>1 DEF InProgress, Goto, Refuse, Report, Write
  <1>3. CASE LoadDecision(h) \/ LoadLaunch(h)
    BY <1>3 DEF LoadDecision, LoadLaunch
  <1>4. CASE CheckExpiry(h) \/ StampNow(h) \/ Recheck(h) \/ Enqueue(h) \/ Lookup(h) \/ Restore(h)
    BY <1>4 DEF CheckExpiry, StampNow, Recheck, Enqueue, Lookup, Restore
  <1>5. CASE DecideUpdate(h)
    <2>1. Target(h)' = Target(h) /\ Target(h) \in Approvals
      BY <1>5, Started DEF DecideUpdate, Target
    <2> QED BY <1>5, <2>1 DEF DecideUpdate
  <1>6. CASE ClaimUpdate(h) \/ Expire(h)
    BY <1>6 DEF ClaimUpdate, Expire
  <1>7. CASE RefreshDecision(h) \/ RefreshLaunch(h)
    BY <1>7 DEF RefreshDecision, RefreshLaunch
  <1>8. CASE Commit(h)
    BY <1>8 DEF Commit, DecisionMarked
  <1>9. CASE Abort(h)
    BY <1>9 DEF Abort
  <1> QED BY <1>3, <1>4, <1>5, <1>6, <1>7, <1>8, <1>9 DEF Serve

(* A status that is decided never becomes absent or pending again.          *)
LEMMA DecidedStays ==
  ASSUME GateInv, [Next]_vars, NEW a \in Approvals, row[a].status \notin {"absent", "pending"}
  PROVE  row'[a].status \notin {"absent", "pending"}
  BY RowStep DEF StatusMoves

(* The commit of a decision finds its row pending, and decides it.          *)
LEMMA DecisionCommits ==
  ASSUME GateInv, NEW h \in Requests, Commit(h), answer[h] = "decided", lock[Target(h)] = h
  PROVE  /\ row[Target(h)].status = "pending"
         /\ row'[Target(h)].status \notin {"absent", "pending"}
  <1>1. Target(h) \in Approvals /\ row \in [Approvals -> Row]
    BY Started DEF Commit, GateInv, TypeOK
  <1>2. /\ row[Target(h)].status = "pending"
        /\ draft[h] = [row[Target(h)] EXCEPT !.status = Verdict(h)]
    BY <1>1 DEF GateInv, DraftFollowsRow
  <1>3. row'[Target(h)] = draft[h]
    BY <1>1 DEF Commit
  <1>4. draft[h].status = Verdict(h)
    BY <1>1, <1>2 DEF Row
  <1> QED BY <1>2, <1>3, <1>4, VerdictType

LEMMA DecidedOnceStep ==
  GateInv /\ DecisionMarked /\ DecidedOnce /\ [Next]_vars => DecisionMarked' /\ DecidedOnce'
  <1> SUFFICES ASSUME GateInv, DecisionMarked, DecidedOnce, [Next]_vars
               PROVE  DecisionMarked' /\ DecidedOnce'
    OBVIOUS
  <1>1. ASSUME NEW h \in Requests, LoadDecision(h) \/ LoadLaunch(h) \/ Serve(h) \/ Abort(h)
        PROVE  DecisionMarked' /\ DecidedOnce'
    <2>1. ASSUME NEW g \in Requests, g # h
          PROVE  /\ pc'[g] = pc[g] /\ answer'[g] = answer[g] /\ Target(g)' = Target(g)
                 /\ \A b \in Approvals : lock[b] = g => lock'[b] = g
      BY <1>1, <2>1, OthersStay DEF Target
    <2>2. answer'[h] = "decided" =>
            /\ pc'[h] = "commit" => lock'[Target(h)'] = h
            /\ pc'[h] = "done" =>
                 /\ pc[h] = "commit" /\ Target(h)' = Target(h)
                 /\ row[Target(h)].status = "pending"
                 /\ row'[Target(h)].status \notin {"absent", "pending"}
      BY <1>1, DecisionStep, DecisionCommits DEF Commit, Target
    <2>3. ASSUME NEW g \in Requests, g # h, answer[g] = "decided", pc[g] \in {"commit", "done"}
          PROVE  /\ Target(g) \in Approvals
                 /\ pc[g] = "commit" => lock'[Target(g)] = g
                 /\ pc[g] = "done" => /\ row[Target(g)].status \notin {"absent", "pending"}
                                     /\ row'[Target(g)].status \notin {"absent", "pending"}
      BY <2>1, <2>3, Started, DecidedStays DEF DecisionMarked
    <2>4. DecisionMarked'
      BY <2>1, <2>2, <2>3 DEF DecisionMarked
    <2>5. ASSUME NEW g \in Requests, g # h, HasDecided(g)', HasDecided(h)', Target(g)' = Target(h)'
          PROVE  FALSE
      BY <2>1, <2>2, <2>3, <2>5 DEF HasDecided, Answered
    <2>6. ASSUME NEW f \in Requests \ {h}, NEW g \in Requests \ {h},
                 HasDecided(f)', HasDecided(g)', Target(f)' = Target(g)'
          PROVE  f = g
      BY <2>1, <2>6 DEF HasDecided, Answered, DecidedOnce
    <2>7. DecidedOnce'
      BY <2>5, <2>6 DEF DecidedOnce
    <2> QED BY <2>4, <2>7
  <1>2. ASSUME NEW a \in Approvals, RequestApproval(a) PROVE DecisionMarked' /\ DecidedOnce'
    <2>1. UNCHANGED <<pc, answer, req, lock>>
      BY <1>2 DEF RequestApproval
    <2>2. ASSUME NEW g \in Requests, pc[g] = "done", row[Target(g)].status \notin {"absent", "pending"}
          PROVE  row'[Target(g)].status \notin {"absent", "pending"}
      BY <2>2, Started, DecidedStays
    <2> QED BY <2>1, <2>2 DEF DecisionMarked, DecidedOnce, HasDecided, Answered, Target
  <1>3. CASE NextJob \/ Tick \/ UNCHANGED vars
    BY <1>3 DEF NextJob, Tick, vars, dbVars, DecisionMarked, DecidedOnce, HasDecided, Answered, Target
  <1>4. CASE Restart
    <2>1. \A g \in Requests : pc'[g] # "commit" /\ (pc'[g] = "done" => pc[g] = "done")
      BY <1>4 DEF Restart, GateInv, TypeOK, Labels
    <2>2. UNCHANGED <<answer, req, row>>
      BY <1>4 DEF Restart
    <2> QED BY <2>1, <2>2 DEF DecisionMarked, DecidedOnce, HasDecided, Answered, Target
  <1> QED BY <1>1, <1>2, <1>3, <1>4 DEF Next

(* No two clients both decided an approval, and the clients that launched   *)
(* it were given one job.                                                   *)
THEOREM ClientsAgreeAlways == Spec => []ClientsAgree
  <1>1. Init => DecisionMarked /\ DecidedOnce
    BY DEF Init, DecisionMarked, DecidedOnce, HasDecided, Answered
  <1>2. DecidedOnce /\ LaunchesAgree => ClientsAgree
    BY DEF ClientsAgree
  <1> QED
    BY <1>1, <1>2, DecidedOnceStep, GateInvariant, LaunchesAgreeAlways, PTL DEF Spec

(* A render_job_id is written once.                                        *)
THEOREM ClaimIsFinalAlways == Spec => ClaimIsFinal
  <1>1. GateInv /\ [Next]_vars =>
          [\A a \in Approvals : row[a].job # NoJob => row'[a].job = row[a].job]_vars
    BY RowStep
  <1> QED
    BY <1>1, GateInvariant, PTL DEF Spec, ClaimIsFinal

(* A rejected or expired approval is never revived.                        *)
THEOREM NoRevivalAlways == Spec => NoRevival
  <1>1. GateInv /\ [Next]_vars =>
          [\A a \in Approvals : row'[a].status # row[a].status =>
             <<row[a].status, row'[a].status>> \in StatusMoves]_vars
    BY RowStep
  <1> QED
    BY <1>1, GateInvariant, PTL DEF Spec, NoRevival

---------------------------------------------------------------------------
(* The results of launches that a list of events reports.                  *)
Results(evs) == {evs[i].value : i \in {k \in DOMAIN evs : evs[k].type = "tool.result"}}

(* A transaction about to commit has inserted the events its answer stands  *)
(* for: the decision, the launch of its own job, or no result at all.       *)
OutboxTellsAnswer ==
  \A h \in Requests :
    pc[h] = "commit" =>
      /\ answer[h] = "decided" => outbox[h] = <<ResolvedEvent(Verdict(h))>>
      /\ answer[h] = "created" => outbox[h] = LaunchEvents(JobId(h))
      /\ answer[h] # "created" => Results(outbox[h]) = {}

LEMMA ResultsOfConcat ==
  ASSUME NEW s \in Seq(Event), NEW t \in Seq(Event)
  PROVE  Results(s \o t) = Results(s) \cup Results(t)
  <1>1. /\ s \o t \in Seq(Event) /\ Len(s \o t) = Len(s) + Len(t)
        /\ Len(s) \in Nat /\ Len(t) \in Nat
        /\ \A i \in 1..Len(s) : (s \o t)[i] = s[i]
        /\ \A i \in 1..Len(t) : (s \o t)[Len(s) + i] = t[i]
        /\ DOMAIN s = 1..Len(s) /\ DOMAIN t = 1..Len(t) /\ DOMAIN (s \o t) = 1..(Len(s) + Len(t))
    OBVIOUS
  <1>2. ASSUME NEW v, v \in Results(s \o t) PROVE v \in Results(s) \cup Results(t)
    <2>1. PICK i \in 1..(Len(s) + Len(t)) : (s \o t)[i].type = "tool.result" /\ v = (s \o t)[i].value
      BY <1>1, <1>2 DEF Results
    <2>2. CASE i \in 1..Len(s)
      BY <1>1, <2>1, <2>2 DEF Results
    <2>3. CASE i \notin 1..Len(s)
      <3>1. i - Len(s) \in 1..Len(t) /\ Len(s) + (i - Len(s)) = i
        BY <1>1, <2>3
      <3> QED BY <1>1, <2>1, <3>1 DEF Results
    <2> QED BY <2>2, <2>3
  <1>3. ASSUME NEW v \in Results(s) PROVE v \in Results(s \o t)
    <2>1. PICK i \in 1..Len(s) : s[i].type = "tool.result" /\ v = s[i].value
      BY <1>1, <1>3 DEF Results
    <2>2. i \in 1..(Len(s) + Len(t)) /\ (s \o t)[i] = s[i]
      BY <1>1
    <2> QED BY <1>1, <2>1, <2>2 DEF Results
  <1>4. ASSUME NEW v \in Results(t) PROVE v \in Results(s \o t)
    <2>1. PICK i \in 1..Len(t) : t[i].type = "tool.result" /\ v = t[i].value
      BY <1>1, <1>4 DEF Results
    <2>2. Len(s) + i \in 1..(Len(s) + Len(t)) /\ (s \o t)[Len(s) + i] = t[i]
      BY <1>1
    <2> QED BY <1>1, <2>1, <2>2 DEF Results
  <1> QED BY <1>2, <1>3, <1>4

(* The events of each answer: only a created launch reports a result.      *)
LEMMA ResultsWritten ==
  /\ \A e \in Event : e.type # "tool.result" => Results(<<e>>) = {}
  /\ \A d, e \in Event : d.type # "tool.result" /\ e.type # "tool.result" => Results(<<d, e>>) = {}
  /\ \A j \in Jobs : Results(LaunchEvents(j)) = {j}
  /\ Results(<<>>) = {}
  BY DEF Results, LaunchEvents

LEMMA NoResults ==
  /\ \A status \in Statuses : Results(<<ResolvedEvent(status)>>) = {}
  /\ \A code \in Answers : Results(<<ErrorEvent(code)>>) = {}
  /\ \A status \in Statuses, code \in Answers :
       Results(<<ResolvedEvent(status), ErrorEvent(code)>>) = {}
  BY ResultsWritten, EventTypesOK DEF ResolvedEvent, ErrorEvent


(* Handlers that have loaded an approval and not settled what to do with it. *)
Deciding == {"check", "stamp", "update", "refresh", "recheck", "expire"}

(* What a handler knows of the time of its approval: its copy has the row's *)
(* expires_at; a launch goes on only with an approved row, which can only   *)
(* expire; an UPDATE that matched nothing leaves the one reason that        *)
(* refresh does not handle, the clock; only an approval whose time is over  *)
(* is expired.                                                              *)
TimeFits(h) ==
  LET r == row[Target(h)]
  IN /\ pc[h] \in Deciding => seen[h].expires = r.expires
     /\ pc[h] \in Deciding /\ IsLaunch(h) => r.status \in {"approved", "expired"}
     /\ pc[h] = "update" => now[h] <= clock
     /\ pc[h] = "refresh" /\ IsLaunch(h) => r.job # NoJob \/ IsExpired(clock, r)
     /\ pc[h] = "refresh" /\ ~IsLaunch(h) => r.status # "pending" \/ IsExpired(clock, r)
     /\ pc[h] \in {"recheck", "expire"} => IsExpired(clock, r)
     /\ pc[h] = "commit" /\ answer[h] = "approval_expired" =>
          r.status # "absent" /\ IsExpired(clock, r)
HandlersFitTime == \A h \in Requests : TimeFits(h)

(* No approval is expired before its time. *)
ExpiredInTime == \A a \in Approvals : row[a].status = "expired" => IsExpired(clock, row[a])


(* A step of a request that neither commits nor is about to leaves rows and *)
(* events alone; only LoadLaunch, the UPDATEs, the refresh of a lost claim, *)
(* the second look at the clock and Expire come to a commit.                *)
LEMMA OutboxStep ==
  ASSUME GateInv, OutboxTellsAnswer, NEW h \in Requests,
         LoadDecision(h) \/ LoadLaunch(h) \/ Serve(h) \/ Abort(h), pc'[h] = "commit"
  PROVE  /\ answer'[h] = "decided" => outbox'[h] = <<ResolvedEvent(Verdict(h)')>>
         /\ answer'[h] = "created" => outbox'[h] = LaunchEvents(JobId(h)')
         /\ answer'[h] # "created" => Results(outbox'[h]) = {}
         /\ UNCHANGED <<row, events>>
  <1>1. /\ pc \in [Requests -> Labels] /\ answer \in [Requests -> Answers]
        /\ outbox \in [Requests -> Seq(Event)]
    BY DEF GateInv, TypeOK
  <1> USE DEF Goto, Refuse
  <1>2. ASSUME NEW code \in Answers \ {"created", "decided"}, Report(h, code)
        PROVE  answer'[h] \notin {"created", "decided"} /\ Results(outbox'[h]) = {}
    BY <1>1, <1>2, NoResults DEF Report
  <1>3. ASSUME NEW r, NEW evs, NEW code, Write(h, r, evs, code)
        PROVE  answer'[h] = code /\ outbox'[h] = evs
    BY <1>1, <1>3 DEF Write
  <1>4. {"approval_mismatch", "approval_required", "approval_consumed"} \subseteq Answers
    BY DEF Answers
  <1>5. CASE LoadDecision(h)
    BY <1>1, <1>5 DEF LoadDecision
  <1>6. CASE LoadLaunch(h)
    <2>1. Report(h, "approval_mismatch") \/ Report(h, "approval_required")
      BY <1>1, <1>6 DEF LoadLaunch
    <2> QED BY <1>2, <1>4, <1>6, <2>1 DEF LoadLaunch
  <1>7. CASE \/ CheckExpiry(h) \/ StampNow(h) \/ Lookup(h) \/ Enqueue(h)
             \/ Restore(h) \/ Commit(h) \/ Abort(h) \/ RefreshDecision(h)
    BY <1>1, <1>7 DEF CheckExpiry, StampNow, Lookup, Enqueue, Restore, Commit, Abort,
       RefreshDecision
  <1>8. CASE DecideUpdate(h)
    <2>1. PICK r : Write(h, r, <<ResolvedEvent(Verdict(h))>>, "decided")
      BY <1>1, <1>8 DEF DecideUpdate
    <2>2. Verdict(h) \in Statuses /\ Verdict(h)' = Verdict(h)
      BY <1>8, VerdictType DEF Statuses, Verdict, DecideUpdate
    <2> QED BY <1>3, <1>8, <2>1, <2>2, NoResults DEF DecideUpdate
  <1>9. CASE ClaimUpdate(h)
    <2>1. PICK r : Write(h, r, LaunchEvents(JobId(h)), "created")
      BY <1>1, <1>9 DEF ClaimUpdate
    <2>2. JobId(h)' = JobId(h)
      BY <1>9 DEF ClaimUpdate, JobId, Target
    <2> QED BY <1>3, <1>9, <2>1, <2>2 DEF ClaimUpdate
  <1>10. CASE RefreshLaunch(h)
    <2>1. Report(h, "approval_consumed")
      BY <1>1, <1>10 DEF RefreshLaunch
    <2> QED BY <1>2, <1>4, <1>10, <2>1 DEF RefreshLaunch, dbVars
  <1>11. CASE Recheck(h)
    <2>1. Report(h, "approval_required")
      BY <1>1, <1>11 DEF Recheck
    <2> QED BY <1>2, <1>4, <1>11, <2>1 DEF Recheck, dbVars
  <1>12. CASE Expire(h)
    <2>1. PICK r, evs : /\ Write(h, r, evs, "approval_expired")
                        /\ \/ evs = <<ResolvedEvent("expired"), ErrorEvent("approval_expired")>>
                           \/ evs = <<ResolvedEvent("expired")>>
      BY <1>12 DEF Expire
    <2>2. "expired" \in Statuses /\ "approval_expired" \in Answers
      BY DEF Statuses, Answers
    <2> QED BY <1>3, <1>12, <2>1, <2>2, NoResults DEF Expire
  <1> QED
    BY <1>5, <1>6, <1>7, <1>8, <1>9, <1>10, <1>11, <1>12 DEF Serve

(* A commit claims the approval and records the result, or does neither.    *)
LEMMA AuditCommit ==
  ASSUME GateInv, OutboxTellsAnswer, LaunchAudited, NEW h \in Requests, Commit(h)
  PROVE  LaunchAudited'
  <1> DEFINE a == Target(h)
  <1>1. /\ a \in Approvals /\ pc[h] = "commit" /\ row \in [Approvals -> Row]
        /\ JobId(h) \in Jobs /\ NoJob \notin Jobs
        /\ events \in [Approvals -> Seq(Event)] /\ outbox \in [Requests -> Seq(Event)]
    BY Started, ConstantsAssumption DEF Commit, GateInv, TypeOK
  <1>2. \A b \in Approvals, j \in Jobs : Recorded(b, "tool.result", j) <=> j \in Results(events[b])
    BY DEF Recorded, Results
  <1>3. \A b \in Approvals, j \in Jobs : Recorded(b, "tool.result", j)' <=> j \in Results(events'[b])
    BY DEF Recorded, Results
  <1>4. Results(events'[a]) =
          Results(events[a]) \cup (IF answer[h] = "created" THEN {JobId(h)} ELSE {})
    <2>1. events'[a] = events[a] \o outbox[h]
      BY <1>1 DEF Commit
    <2>2. Results(outbox[h]) = IF answer[h] = "created" THEN {JobId(h)} ELSE {}
      BY <1>1, ResultsWritten DEF OutboxTellsAnswer
    <2> QED BY <1>1, <2>1, <2>2, ResultsOfConcat
  <1>5. ASSUME NEW b \in Approvals, b # a
        PROVE  row'[b] = row[b] /\ events'[b] = events[b]
    BY <1>1, <1>5 DEF Commit
  <1>6. CASE answer[h] = "created"
    <2>1. lock[a] = h
      BY <1>1, <1>6 DEF GateInv, HandlersInProgress, InProgress
    <2>2. row[a].job = NoJob /\ draft[h] = [row[a] EXCEPT !.job = JobId(h)]
      BY <1>1, <1>6, <2>1 DEF GateInv, DraftFollowsRow
    <2>3. row'[a].job = JobId(h)
      <3>1. row'[a] = draft[h] BY <1>1, <2>1 DEF Commit
      <3> QED BY <1>1, <2>2, <3>1 DEF Row
    <2>4. \A j \in Jobs : j \notin Results(events[a])
      BY <1>1, <1>2, <2>2 DEF LaunchAudited
    <2>5. ASSUME NEW b \in Approvals, NEW j \in Jobs
          PROVE  (row'[b].job = j) <=> Recorded(b, "tool.result", j)'
      BY <1>2, <1>3, <1>4, <1>5, <1>6, <2>3, <2>4 DEF LaunchAudited
    <2> QED BY <2>5 DEF LaunchAudited
  <1>7. CASE answer[h] # "created"
    <2>1. row'[a].job = row[a].job
      <3>1. CASE lock[a] = h
        <4>1. row'[a] = draft[h]
          BY <1>1, <3>1 DEF Commit
        <4>2. PICK status : draft[h] = [row[a] EXCEPT !.status = status]
          BY <1>1, <1>7, <3>1 DEF GateInv, DraftFollowsRow
        <4> QED BY <1>1, <4>1, <4>2 DEF Row
      <3>2. CASE lock[a] # h
        BY <3>2 DEF Commit
      <3> QED BY <3>1, <3>2
    <2>2. ASSUME NEW b \in Approvals, NEW j \in Jobs
          PROVE  (row'[b].job = j) <=> Recorded(b, "tool.result", j)'
      BY <1>2, <1>3, <1>4, <1>5, <1>7, <2>1 DEF LaunchAudited
    <2> QED BY <2>2 DEF LaunchAudited
  <1> QED BY <1>6, <1>7

(* What the other requests have in their transactions stays there.          *)
LEMMA OutboxesStay ==
  ASSUME GateInv, NEW h \in Requests,
         LoadDecision(h) \/ LoadLaunch(h) \/ Serve(h) \/ Abort(h),
         NEW g \in Requests, g # h
  PROVE  outbox'[g] = outbox[g]
  BY DEF LoadDecision, LoadLaunch, Serve, Abort, CheckExpiry, StampNow, DecideUpdate, ClaimUpdate,
         RefreshDecision, RefreshLaunch, Recheck, Expire, Commit, Enqueue, Lookup, Restore,
         Write, Report, txnVars, GateInv, TypeOK

LEMMA AuditStep ==
  GateInv /\ OutboxTellsAnswer /\ LaunchAudited /\ [Next]_vars =>
    OutboxTellsAnswer' /\ LaunchAudited'
  <1> SUFFICES ASSUME GateInv, OutboxTellsAnswer, LaunchAudited, [Next]_vars
               PROVE  OutboxTellsAnswer' /\ LaunchAudited'
    OBVIOUS
  <1>1. ASSUME NEW h \in Requests, LoadDecision(h) \/ LoadLaunch(h) \/ Serve(h) \/ Abort(h)
        PROVE  OutboxTellsAnswer' /\ LaunchAudited'
    <2>1. ASSUME NEW g \in Requests, g # h
          PROVE  /\ pc'[g] = pc[g] /\ answer'[g] = answer[g] /\ outbox'[g] = outbox[g]
                 /\ JobId(g)' = JobId(g) /\ Verdict(g)' = Verdict(g)
      BY <1>1, <2>1, OthersStay, OutboxesStay DEF JobId, Target, Verdict
    <2>2. OutboxTellsAnswer'
      BY <1>1, <2>1, OutboxStep DEF OutboxTellsAnswer
    <2>3. CASE Commit(h)
      BY <2>2, <2>3, AuditCommit
    <2>4. CASE ~Commit(h)
      <3>1. UNCHANGED <<row, events>>
        BY <1>1, <2>4 DEF LoadDecision, LoadLaunch, Serve, Abort, CheckExpiry, StampNow,
           DecideUpdate, ClaimUpdate, RefreshDecision, RefreshLaunch, Recheck, Expire, Enqueue,
           Lookup, Restore, dbVars
      <3> QED BY <2>2, <3>1 DEF LaunchAudited, Recorded
    <2> QED BY <2>3, <2>4
  <1>2. ASSUME NEW a \in Approvals, RequestApproval(a) PROVE OutboxTellsAnswer' /\ LaunchAudited'
    <2>1. UNCHANGED <<pc, answer, req, outbox>>
      BY <1>2 DEF RequestApproval
    <2>2. OutboxTellsAnswer'
      BY <2>1 DEF OutboxTellsAnswer, JobId, Target, Verdict
    <2>3. row[a].job = NoJob
      BY <1>2 DEF RequestApproval, GateInv, NothingBeforeInsert, NoRow
    <2>4. row'[a].job = NoJob
      BY <1>2 DEF RequestApproval, GateInv, TypeOK
    <2> DEFINE e == [type |-> "approval.required", value |-> "pending"]
    <2>5. Results(events'[a]) = Results(events[a])
      <3>1. e \in Event
        BY DEF Event, EventTypes, Statuses
      <3>2. events'[a] = events[a] \o <<e>> /\ events[a] \in Seq(Event)
        BY <1>2, <3>1 DEF RequestApproval, GateInv, TypeOK
      <3>3. Results(<<e>>) = {}
        BY <3>1, ResultsWritten
      <3>4. <<e>> \in Seq(Event)
        BY <3>1
      <3> HIDE DEF e
      <3>5. Results(events[a] \o <<e>>) = Results(events[a]) \cup Results(<<e>>)
        BY <3>2, <3>4, ResultsOfConcat
      <3> QED BY <3>2, <3>3, <3>5
    <2>6. \A b \in Approvals : b # a => row'[b] = row[b] /\ events'[b] = events[b]
      BY <1>2 DEF RequestApproval, GateInv, TypeOK
    <2>7. ASSUME NEW b \in Approvals, NEW j \in Jobs
          PROVE  (row'[b].job = j) <=> Recorded(b, "tool.result", j)'
      <3>1. Recorded(b, "tool.result", j) <=> j \in Results(events[b])
        BY DEF Recorded, Results
      <3>2. Recorded(b, "tool.result", j)' <=> j \in Results(events'[b])
        BY DEF Recorded, Results
      <3> QED BY <2>3, <2>4, <2>5, <2>6, <3>1, <3>2 DEF LaunchAudited
    <2> QED BY <2>2, <2>7 DEF LaunchAudited
  <1>3. CASE NextJob \/ Tick \/ UNCHANGED vars
    <2>1. UNCHANGED <<row, events, pc, req, answer, outbox>>
      BY <1>3 DEF NextJob, Tick, vars, dbVars, txnVars
    <2> QED BY <2>1 DEF OutboxTellsAnswer, LaunchAudited, Recorded, JobId, Target, Verdict
  <1>4. CASE Restart
    BY <1>4 DEF Restart, OutboxTellsAnswer, LaunchAudited, Recorded
  <1> QED BY <1>1, <1>2, <1>3, <1>4 DEF Next

(* Every open transaction holds the events of its answer.                   *)
LEMMA AuditInvariant == Spec => [](OutboxTellsAnswer /\ LaunchAudited)
  <1>1. Init => OutboxTellsAnswer /\ LaunchAudited
    BY ConstantsAssumption DEF Init, OutboxTellsAnswer, LaunchAudited, Recorded, NoRow
  <1> QED
    BY <1>1, AuditStep, GateInvariant, PTL DEF Spec

(* The audit trail and the claim are committed together: an approval is     *)
(* used for a job exactly when its events report that job's launch.         *)
THEOREM LaunchAuditedAlways == Spec => []LaunchAudited
  BY AuditInvariant, PTL

---------------------------------------------------------------------------
(* The clock does not run backwards.                                        *)
LEMMA ClockStep ==
  ASSUME GateInv, [Next]_vars
  PROVE  clock \in Nat /\ clock' \in Nat /\ clock' >= clock
  <1>1. clock \in Nat /\ clock' \in Nat
    BY TypeStep, ConstantsAssumption DEF GateInv, TypeOK
  <1>2. clock' = clock \/ clock' = clock + 1
    BY DEF Next, Serve, vars, dbVars, LoadDecision, LoadLaunch, CheckExpiry, StampNow,
           DecideUpdate, ClaimUpdate, RefreshDecision, RefreshLaunch, Recheck, Expire, Commit,
           Abort, Enqueue, Lookup, Restore, NextJob, Tick, Restart, RequestApproval
  <1> QED BY <1>1, <1>2

(* An instant that is past stays past.                                      *)
LEMMA PastStaysPast ==
  ASSUME GateInv, [Next]_vars, NEW r \in Row, IsExpired(clock, r)
  PROVE  IsExpired(clock', r)
  BY ClockStep DEF IsExpired, Row

(* expires_at is set by the INSERT and by nothing else; a row becomes       *)
(* expired only by the commit of a request that answers approval_expired.   *)
LEMMA RowTime ==
  ASSUME GateInv, [Next]_vars, NEW a \in Approvals
  PROVE  /\ row[a].status # "absent" => row'[a].expires = row[a].expires
         /\ row'[a].status = "expired" =>
              \/ row[a].status = "expired"
              \/ /\ row[a].status # "absent"
                 /\ \E h \in Requests : /\ lock[a] = h /\ pc[h] = "commit" /\ Target(h) = a
                                        /\ answer[h] = "approval_expired"
  <1>1. CASE row'[a] = row[a]
    BY <1>1 DEF GateInv, NothingBeforeInsert, NoRow
  <1>2. ASSUME NEW b \in Approvals, RequestApproval(b), row'[a] # row[a]
        PROVE  row[a].status = "absent" /\ row'[a].status = "pending"
    BY <1>2 DEF RequestApproval, GateInv, TypeOK
  <1>3. ASSUME NEW h \in Requests, Commit(h), row'[a] # row[a]
        PROVE  lock[a] = h /\ row'[a] = draft[h] /\ pc[h] = "commit" /\ Target(h) = a
    <2>1. lock[Target(h)] = h /\ row' = [row EXCEPT ![Target(h)] = draft[h]]
      BY <1>3 DEF Commit
    <2>2. Target(h) = a
      BY <1>3, <2>1 DEF GateInv, TypeOK
    <2> QED BY <1>3, <2>1, <2>2 DEF Commit, GateInv, TypeOK
  <1>4. ASSUME NEW h \in Requests, lock[a] = h
        PROVE  /\ draft[h].expires = row[a].expires /\ row[a].status # "absent"
               /\ draft[h].status = "expired" =>
                    row[a].status = "expired" \/ answer[h] = "approval_expired"
    <2>1. row[a] \in Row /\ Verdict(h) \in {"approved", "rejected"}
      BY VerdictType DEF GateInv, TypeOK
    <2>2. CASE /\ row[a].status = "pending"
               /\ draft[h] = [row[a] EXCEPT !.status = Verdict(h)]
      <3>1. draft[h].status = Verdict(h) /\ draft[h].expires = row[a].expires
        BY <2>1, <2>2 DEF Row
      <3> QED BY <2>1, <2>2, <3>1
    <2>3. CASE /\ row[a].status = "approved"
               /\ draft[h] = [row[a] EXCEPT !.job = JobId(h)]
      <3>1. draft[h].status = "approved" /\ draft[h].expires = row[a].expires
        BY <2>1, <2>3 DEF Row
      <3> QED BY <2>3, <3>1
    <2>4. CASE /\ answer[h] = "approval_expired" /\ row[a].status # "absent"
               /\ draft[h] = [row[a] EXCEPT !.status = "expired"]
      BY <2>1, <2>4 DEF Row
    <2> QED BY <1>4, <2>2, <2>3, <2>4 DEF GateInv, DraftFollowsRow
  <1>5. \/ row'[a] = row[a]
        \/ \E b \in Approvals : RequestApproval(b)
        \/ \E h \in Requests : Commit(h)
    BY DEF Next, Serve, vars, dbVars, LoadDecision, LoadLaunch, CheckExpiry, StampNow,
           DecideUpdate, ClaimUpdate, RefreshDecision, RefreshLaunch, Recheck, Expire, Abort,
           Enqueue, Lookup, Restore, NextJob, Tick, Restart
  <1> QED
    BY <1>1, <1>2, <1>3, <1>4, <1>5

(* The committed row under a handler moves only so far: it exists, keeps    *)
(* its time, and what was past or settled stays so.                         *)
LEMMA RowUnder ==
  ASSUME GateInv, [Next]_vars, NEW h \in Requests, pc[h] # "idle",
         row[Target(h)].status # "absent"
  PROVE  LET r == row[Target(h)]
             s == row'[Target(h)]
         IN /\ s.status # "absent" /\ s.expires = r.expires
            /\ r.status \in {"approved", "expired"} => s.status \in {"approved", "expired"}
            /\ r.status # "pending" => s.status # "pending"
            /\ r.job # NoJob => s.job # NoJob
            /\ IsExpired(clock, r) => IsExpired(clock', s)
            /\ \A c \in Row : c.expires = r.expires /\ IsExpired(clock, r) => IsExpired(clock, c)
  <1> DEFINE r == row[Target(h)]
             s == row'[Target(h)]
  <1>1. Target(h) \in Approvals /\ r \in Row
    BY Started
  <1>2. s.status # "absent" /\ s.expires = r.expires /\ (r.job # NoJob => s.job # NoJob)
    BY <1>1, RowStep, RowTime
  <1>3. /\ r.status \in {"approved", "expired"} => s.status \in {"approved", "expired"}
        /\ r.status # "pending" => s.status # "pending"
    BY <1>1, RowStep DEF StatusMoves
  <1>4. IsExpired(clock, r) => IsExpired(clock', r)
    BY <1>1, PastStaysPast
  <1> QED BY <1>1, <1>2, <1>3, <1>4 DEF IsExpired

(* A handler the step leaves alone keeps what it knows of the time.         *)
LEMMA TimeKept ==
  ASSUME GateInv, HandlersFitTime, [Next]_vars, NEW g \in Requests,
         pc'[g] = pc[g], answer'[g] = answer[g], req'[g] = req[g],
         seen'[g] = seen[g], now'[g] = now[g]
  PROVE  TimeFits(g)'
  <1>1. Target(g)' = Target(g) /\ IsLaunch(g)' = IsLaunch(g) /\ TimeFits(g)
    BY DEF Target, IsLaunch, HandlersFitTime
  <1>2. CASE pc[g] \in Deciding \/ (pc[g] = "commit" /\ answer[g] = "approval_expired")
    <2>1. pc[g] # "idle" /\ row[Target(g)].status # "absent"
      BY <1>1, <1>2 DEF Deciding, TimeFits, GateInv, HandlersInProgress, InProgress
    <2>2. now[g] <= clock => now[g] <= clock'
      BY ClockStep DEF GateInv, TypeOK
    <2> QED BY <1>1, <2>1, <2>2, RowUnder DEF TimeFits
  <1>3. CASE pc[g] \notin Deciding /\ ~(pc[g] = "commit" /\ answer[g] = "approval_expired")
    BY <1>3 DEF TimeFits, Deciding
  <1> QED BY <1>2, <1>3

(* A request's step leaves what the others have read alone.                 *)
LEMMA ReadingsStay ==
  ASSUME GateInv, NEW h \in Requests,
         LoadDecision(h) \/ LoadLaunch(h) \/ Serve(h) \/ Abort(h),
         NEW g \in Requests, g # h
  PROVE  seen'[g] = seen[g] /\ now'[g] = now[g]
  BY DEF LoadDecision, LoadLaunch, Serve, Abort, CheckExpiry, StampNow, DecideUpdate, ClaimUpdate,
         RefreshDecision, RefreshLaunch, Recheck, Expire, Commit, Enqueue, Lookup, Restore,
         GateInv, TypeOK

(* What a handler's own step leaves it knowing of the time.                 *)
LEMMA TimeStep ==
  ASSUME GateInv, HandlersFitTime, ExpiredInTime, NEW h \in Requests,
         LoadDecision(h) \/ LoadLaunch(h) \/ Serve(h) \/ Abort(h)
  PROVE  TimeFits(h)'
  <1> DEFINE a == Target(h)
             Resolved == /\ pc'[h] \notin Deciding
                         /\ ~(pc'[h] = "commit" /\ answer'[h] = "approval_expired")
  <1>1. /\ pc \in [Requests -> Labels] /\ answer \in [Requests -> Answers]
        /\ seen \in [Requests -> Row] /\ now \in [Requests -> Nat]
        /\ row \in [Approvals -> Row] /\ clock \in Nat
        /\ req \in [Requests -> Request \cup {NoRequest}]
        /\ InProgress(h) /\ TimeFits(h)
    BY ConstantsAssumption DEF GateInv, TypeOK, HandlersInProgress, HandlersFitTime
  <1>2. pc[h] # "idle" => a \in Approvals /\ row[a] \in Row
    BY Started
  <1>3. Resolved => TimeFits(h)'
    BY DEF TimeFits, Deciding
  <1> USE <1>1 DEF Goto, Refuse
  <1>4. CASE LoadDecision(h)
    <2>1. \/ pc'[h] = "done"
          \/ pc'[h] = "check" /\ req'[h].kind # "launch" /\ seen'[h] = row[Target(h)'] /\ row' = row
      BY <1>4 DEF LoadDecision, Decisions, Target
    <2> QED BY <1>3, <2>1 DEF TimeFits, Deciding, IsLaunch
  <1>5. CASE LoadLaunch(h)
    <2>1. \/ pc'[h] = "done"
          \/ pc'[h] = "commit" /\ answer'[h] # "approval_expired"
          \/ /\ pc'[h] = "check" /\ seen'[h] = row[Target(h)'] /\ row' = row
             /\ row[Target(h)'].status = "approved"
      BY <1>5 DEF LoadLaunch, Report, Target
    <2> QED BY <1>3, <2>1 DEF TimeFits, Deciding
  <1>6. ASSUME CheckExpiry(h) \/ StampNow(h) \/ DecideUpdate(h) \/ ClaimUpdate(h) \/ RefreshDecision(h)
               \/ RefreshLaunch(h) \/ Recheck(h) \/ Expire(h) \/ Lookup(h)
        PROVE  /\ Target(h)' = a /\ IsLaunch(h)' = IsLaunch(h) /\ row' = row /\ clock' = clock
               /\ a \in Approvals /\ row[a] \in Row
               /\ pc[h] # "lookup" => pc[h] \in Deciding
    BY <1>2, <1>6 DEF CheckExpiry, StampNow, DecideUpdate, ClaimUpdate, RefreshDecision,
       RefreshLaunch, Recheck, Expire, Lookup, dbVars, Target, IsLaunch, Deciding
  <1>7. CASE CheckExpiry(h)
    <2>1. /\ pc[h] = "check"
          /\ pc'[h] = IF IsExpired(clock, seen[h]) THEN "expire" ELSE "stamp"
          /\ seen' = seen
      BY <1>7 DEF CheckExpiry
    <2> QED BY <1>6, <1>7, <2>1 DEF TimeFits, Deciding, IsExpired
  <1>8. CASE StampNow(h)
    <2>1. pc[h] = "stamp" /\ pc'[h] = "update" /\ now'[h] = clock /\ seen' = seen
      BY <1>8 DEF StampNow
    <2> QED BY <1>6, <1>8, <2>1 DEF TimeFits, Deciding
  <1>9. CASE DecideUpdate(h)
    <2>1. \/ pc'[h] = "commit" /\ answer'[h] = "decided"
          \/ /\ pc'[h] = "refresh" /\ seen' = seen /\ ~IsLaunch(h) /\ pc[h] = "update"
             /\ row[a].status # "pending" \/ row[a].expires <= now[h]
      BY <1>6, <1>9 DEF DecideUpdate, Write, DecideMatches, Row
    <2>2. CASE pc'[h] = "refresh"
      <3>1. row[a].expires \in Nat /\ now[h] \in Nat /\ now[h] <= clock
        BY <1>6, <1>9, <2>1, <2>2 DEF Row, TimeFits
      <3>2. row[a].status # "pending" \/ IsExpired(clock, row[a])
        BY <2>1, <2>2, <3>1 DEF IsExpired
      <3> QED BY <1>6, <1>9, <2>1, <2>2, <3>2 DEF TimeFits, Deciding
    <2> QED BY <1>3, <2>1, <2>2 DEF Deciding
  <1>10. CASE ClaimUpdate(h)
    <2>1. \/ pc'[h] = "commit" /\ answer'[h] = "created"
          \/ /\ pc'[h] = "refresh" /\ seen' = seen /\ IsLaunch(h) /\ pc[h] = "update"
             /\ \/ row[a].status # "approved" \/ row[a].job # NoJob
                \/ row[a].expires <= now[h]
      <3>1. row[a].expires \in Nat /\ now[h] \in Nat
        BY <1>6, <1>10 DEF Row
      <3>2. \/ pc'[h] = "commit" /\ answer'[h] = "created"
            \/ /\ pc'[h] = "refresh" /\ seen' = seen /\ IsLaunch(h) /\ pc[h] = "update"
               /\ ~ClaimMatches(h)
        BY <1>10 DEF ClaimUpdate, Write
      <3> QED BY <3>1, <3>2 DEF ClaimMatches
    <2>2. CASE pc'[h] = "refresh"
      <3>1. row[a].status # "approved" => IsExpired(clock, row[a])
        BY <1>6, <1>10, <2>1, <2>2 DEF TimeFits, Deciding, ExpiredInTime
      <3>2. row[a].expires \in Nat /\ now[h] \in Nat /\ now[h] <= clock
        BY <1>6, <1>10, <2>1, <2>2 DEF Row, TimeFits
      <3>3. row[a].job # NoJob \/ IsExpired(clock, row[a])
        BY <2>1, <2>2, <3>1, <3>2 DEF IsExpired
      <3> QED BY <1>6, <1>10, <2>1, <2>2, <3>3 DEF TimeFits, Deciding
    <2> QED BY <1>3, <2>1, <2>2 DEF Deciding
  <1>11. CASE RefreshDecision(h)
    <2>1. /\ pc[h] = "refresh" /\ ~IsLaunch(h) /\ seen'[h] = row[a]
          /\ \/ pc'[h] = "done"
             \/ pc'[h] = "expire" /\ row[a].status = "pending"
      BY <1>11 DEF RefreshDecision
    <2> QED BY <1>3, <1>6, <1>11, <2>1 DEF TimeFits, Deciding
  <1>12. CASE RefreshLaunch(h)
    <2>1. /\ pc[h] = "refresh" /\ IsLaunch(h) /\ seen'[h] = row[a]
          /\ \/ pc'[h] = "lookup"
             \/ pc'[h] = "commit" /\ answer'[h] = "approval_consumed"
             \/ pc'[h] = "recheck" /\ row[a].job = NoJob
      BY <1>12 DEF RefreshLaunch, Report
    <2> QED BY <1>3, <1>6, <1>12, <2>1 DEF TimeFits, Deciding
  <1>13. CASE Recheck(h)
    <2>1. /\ pc[h] = "recheck" /\ seen' = seen
          /\ \/ pc'[h] = "expire"
             \/ pc'[h] = "commit" /\ answer'[h] = "approval_required"
      BY <1>13 DEF Recheck, Report
    <2> QED BY <1>3, <1>6, <1>13, <2>1 DEF TimeFits, Deciding
  <1>14. CASE Expire(h)
    <2>1. pc[h] = "expire" /\ pc'[h] = "commit"
      BY <1>14 DEF Expire, Write
    <2> QED BY <1>6, <1>14, <2>1 DEF TimeFits, Deciding, InProgress
  <1>15. CASE Lookup(h) \/ Enqueue(h) \/ Restore(h) \/ Commit(h) \/ Abort(h)
    <2>1. pc'[h] \in {"done", "restore", "enqueue", "dead"}
      BY <1>15 DEF Lookup, Enqueue, Restore, Commit, Abort
    <2> QED BY <1>3, <2>1 DEF Deciding
  <1> QED
    BY <1>4, <1>5, <1>7, <1>8, <1>9, <1>10, <1>11, <1>12, <1>13, <1>14, <1>15 DEF Serve

(* No step expires an approval before its time.                             *)
LEMMA ExpiredInTimeStep ==
  GateInv /\ HandlersFitTime /\ ExpiredInTime /\ [Next]_vars => ExpiredInTime'
  <1> SUFFICES ASSUME GateInv, HandlersFitTime, ExpiredInTime, [Next]_vars,
                      NEW a \in Approvals, row'[a].status = "expired"
               PROVE  IsExpired(clock', row'[a])
    BY DEF ExpiredInTime
  <1>1. row[a] \in Row /\ row'[a].expires = row[a].expires /\ IsExpired(clock, row[a])
    <2>1. row[a] \in Row
      BY DEF GateInv, TypeOK
    <2>2. CASE row[a].status = "expired"
      BY <2>1, <2>2, RowTime DEF ExpiredInTime
    <2>3. ASSUME NEW h \in Requests, pc[h] = "commit", Target(h) = a,
                 answer[h] = "approval_expired", row[a].status # "absent"
          PROVE  row'[a].expires = row[a].expires /\ IsExpired(clock, row[a])
      BY <2>3, RowTime DEF HandlersFitTime, TimeFits
    <2> QED BY <2>1, <2>2, <2>3, RowTime
  <1>2. IsExpired(clock', row[a])
    BY <1>1, PastStaysPast
  <1> QED BY <1>1, <1>2 DEF IsExpired

LEMMA HandlersFitTimeStep ==
  GateInv /\ HandlersFitTime /\ ExpiredInTime /\ [Next]_vars => HandlersFitTime'
  <1> SUFFICES ASSUME GateInv, HandlersFitTime, ExpiredInTime, [Next]_vars, NEW g \in Requests
               PROVE  TimeFits(g)'
    BY DEF HandlersFitTime
  <1>1. ASSUME NEW h \in Requests, LoadDecision(h) \/ LoadLaunch(h) \/ Serve(h) \/ Abort(h)
        PROVE  TimeFits(g)'
    <2>1. CASE g = h
      BY <1>1, <2>1, TimeStep
    <2>2. CASE g # h
      BY <1>1, <2>2, OthersStay, ReadingsStay, TimeKept
    <2> QED BY <2>1, <2>2
  <1>2. CASE (\E a \in Approvals : RequestApproval(a)) \/ NextJob \/ Tick \/ UNCHANGED vars
    <2>1. UNCHANGED <<pc, answer, req, seen, now>>
      BY <1>2 DEF RequestApproval, NextJob, Tick, vars
    <2> QED BY <2>1, TimeKept
  <1>3. CASE Restart
    <2>1. pc'[g] \in {"idle", "done", "dead"}
      BY <1>3 DEF Restart
    <2> QED BY <2>1 DEF TimeFits, Deciding
  <1> QED BY <1>1, <1>2, <1>3 DEF Next

(* A launch that lost its claim to no other launch lost it to the clock.    *)
THEOREM LostClaimIsExpiredAlways == Spec => []LostClaimIsExpired
  <1>1. Init => HandlersFitTime /\ ExpiredInTime
    BY DEF Init, HandlersFitTime, TimeFits, Deciding, ExpiredInTime, NoRow
  <1>2. HandlersFitTime => LostClaimIsExpired
    BY DEF HandlersFitTime, TimeFits, Deciding, LostClaimIsExpired, IsExpired
  <1> QED
    BY <1>1, <1>2, HandlersFitTimeStep, ExpiredInTimeStep, GateInvariant, PTL DEF Spec

---------------------------------------------------------------------------
(* Refinement: every step of the gate is a step of its contract, or none.  *)

(* What clients were told changes only when a launch is answered.          *)
LEMMA ToldSame ==
  ASSUME \A g \in Requests : Launched(g)' <=> Launched(g),
         \A g \in Requests : Launched(g) => JobId(g)' = JobId(g)
  PROVE  Told' = Told
  BY DEF Told

LEMMA ToldMore ==
  ASSUME NEW h \in Requests,
         \A g \in Requests : Launched(g)' <=> Launched(g) \/ g = h,
         \A g \in Requests : Launched(g) \/ g = h => JobId(g)' = JobId(g)
  PROVE  Told' = Told \cup {JobId(h)}
  BY DEF Told

(* A step that answers no launch and leaves rows and jobs alone stutters.  *)
LEMMA ContractStutter ==
  ASSUME UNCHANGED <<row, jobs>>,
         \A g \in Requests : Launched(g)' <=> Launched(g),
         \A g \in Requests : Launched(g) => JobId(g)' = JobId(g)
  PROVE  UNCHANGED Contract!vars
  <1>1. Told' = Told
    BY ToldSame
  <1> QED BY <1>1 DEF Contract!vars, RowStatus, RowJob

(* Answering a launch delivers the approval's job to queue and client.     *)
LEMMA ContractDeliver ==
  ASSUME GateInv, NEW h \in Requests, pc[h] \in {"enqueue", "lookup", "restore"},
         UNCHANGED <<row, req>>,
         pc' = [pc EXCEPT ![h] = "done"],
         answer'[h] \in {"created", "replayed"},
         \A g \in Requests : g # h => answer'[g] = answer[g],
         jobs' = jobs \cup {JobId(h)}
  PROVE  Contract!Next
  <1> DEFINE a == Target(h)
  <1>1. /\ a \in Approvals /\ JobId(h) # NoJob
        /\ row[a].job = JobId(h)
    BY Started DEF GateInv, QueuersHaveClaimed, HasClaimed
  <1>2. \A g \in Requests : Launched(g)' <=> Launched(g) \/ g = h
    BY DEF Launched, Answered, GateInv, TypeOK
  <1>3. \A g \in Requests : JobId(g)' = JobId(g)
    BY DEF JobId, Target
  <1>4. Told' = Told \cup {RowJob[a]}
    BY <1>1, <1>2, <1>3, ToldMore DEF RowJob
  <1>5. RowJob[a] # NoJob /\ jobs' = jobs \cup {RowJob[a]}
    BY <1>1 DEF RowJob
  <1>6. UNCHANGED <<RowStatus, RowJob>>
    BY DEF RowStatus, RowJob
  <1>7. Contract!Deliver(a)
    BY <1>4, <1>5, <1>6 DEF Contract!Deliver
  <1> QED BY <1>1, <1>7 DEF Contract!Next

(* A committed write is a decision, a launch or a lapse of its approval.   *)
LEMMA ContractCommit ==
  ASSUME GateInv, NEW h \in Requests, NEW a \in Approvals, lock[a] = h,
         row' = [row EXCEPT ![a] = draft[h]], UNCHANGED jobs, Told' = Told
  PROVE  [Contract!Next]_(Contract!vars)
  <1>1. /\ row[a] \in Row /\ draft[h] \in Row
        /\ Verdict(h) \in {"approved", "rejected"} /\ JobId(h) \in Jobs
    BY VerdictType, LockOwner DEF GateInv, TypeOK
  <1>2. /\ RowStatus' = [RowStatus EXCEPT ![a] = draft[h].status]
        /\ RowJob' = [RowJob EXCEPT ![a] = draft[h].job]
    BY DEF RowStatus, RowJob, GateInv, TypeOK
  <1>3. CASE row[a].status = "pending" /\ draft[h] = [row[a] EXCEPT !.status = Verdict(h)]
    <2>1. draft[h].status = Verdict(h) /\ draft[h].job = row[a].job
      BY <1>1, <1>3 DEF Row
    <2>2. RowJob' = RowJob
      BY <1>2, <2>1 DEF RowJob
    <2>3. RowStatus[a] = "pending"
      BY <1>3 DEF RowStatus
    <2>4. Contract!Decide(a)
      BY <1>1, <1>2, <2>1, <2>2, <2>3 DEF Contract!Decide, Contract!Become
    <2> QED BY <2>4 DEF Contract!Next
  <1>4. CASE /\ row[a].status = "approved" /\ row[a].job = NoJob
             /\ draft[h] = [row[a] EXCEPT !.job = JobId(h)]
    <2>1. draft[h].status = row[a].status /\ draft[h].job = JobId(h)
      BY <1>1, <1>4 DEF Row
    <2>2. RowStatus' = RowStatus
      BY <1>2, <2>1 DEF RowStatus
    <2>3. RowStatus[a] = "approved" /\ RowJob[a] = NoJob
      BY <1>4 DEF RowStatus, RowJob
    <2>4. Contract!Launch(a)
      BY <1>1, <1>2, <2>1, <2>2, <2>3 DEF Contract!Launch
    <2> QED BY <2>4 DEF Contract!Next
  <1>5. CASE row[a].status # "absent" /\ draft[h] = [row[a] EXCEPT !.status = "expired"]
    <2>1. draft[h].status = "expired" /\ draft[h].job = row[a].job
      BY <1>1, <1>5 DEF Row
    <2>2. RowJob' = RowJob
      BY <1>2, <2>1 DEF RowJob
    <2>3. RowStatus[a] # "absent"
      BY <1>5 DEF RowStatus
    <2>4. Contract!Lapse(a)
      BY <1>2, <2>1, <2>2, <2>3 DEF Contract!Lapse, Contract!Become
    <2> QED BY <2>4 DEF Contract!Next
  <1> QED
    BY <1>3, <1>4, <1>5 DEF GateInv, DraftFollowsRow

LEMMA ContractStep == GateInv /\ [Next]_vars => [Contract!Next]_(Contract!vars)
  <1> SUFFICES ASSUME GateInv, [Next]_vars PROVE [Contract!Next]_(Contract!vars)
    OBVIOUS
  <1>1. ASSUME NEW a \in Approvals, RequestApproval(a)
        PROVE  [Contract!Next]_(Contract!vars)
    <2>1. PICK n \in Nat : row' = [row EXCEPT ![a] =
            [status |-> "pending", job |-> NoJob, expires |-> n]]
      <3>1. PICK ttl \in TTLs : row' = [row EXCEPT ![a] =
              [status |-> "pending", job |-> NoJob, expires |-> clock + ttl]]
        BY <1>1 DEF RequestApproval
      <3>2. clock + ttl \in Nat
        BY <3>1, ConstantsAssumption DEF GateInv, TypeOK
      <3> QED BY <3>1, <3>2
    <2>2. row[a].status = "absent" /\ row[a].job = NoJob
          /\ UNCHANGED <<jobs, pc, req, answer>>
      BY <1>1 DEF RequestApproval, GateInv, NothingBeforeInsert, NoRow
    <2>3. Told' = Told
      BY <2>2 DEF Told, JobId, Target, Launched, Answered
    <2>4. RowStatus' = [RowStatus EXCEPT ![a] = "pending"] /\ RowJob' = RowJob
      BY <2>1, <2>2 DEF RowStatus, RowJob, GateInv, TypeOK
    <2>5. RowStatus[a] = "absent"
      BY <2>2 DEF RowStatus
    <2>6. Contract!Ask(a)
      BY <2>2, <2>3, <2>4, <2>5 DEF Contract!Ask, Contract!Become
    <2> QED BY <2>6 DEF Contract!Next
  <1>2. ASSUME NEW h \in Requests, LoadDecision(h) \/ LoadLaunch(h)
        PROVE  [Contract!Next]_(Contract!vars)
    <2>1. /\ UNCHANGED <<row, jobs>>
          /\ pc[h] = "idle"
          /\ \A g \in Requests : g # h =>
               pc'[g] = pc[g] /\ req'[g] = req[g] /\ answer'[g] = answer[g]
          /\ pc'[h] = "done" => answer'[h] \in {"not_found", "already_resolved"}
      BY <1>2 DEF LoadDecision, LoadLaunch, Refuse, Report, Goto, GateInv, TypeOK
    <2>2. \A g \in Requests : Launched(g)' <=> Launched(g)
      BY <2>1 DEF Launched, Answered
    <2>3. \A g \in Requests : Launched(g) => JobId(g)' = JobId(g)
      BY <2>1 DEF Launched, Answered, JobId, Target
    <2> QED BY <2>1, <2>2, <2>3, ContractStutter
  <1>3. ASSUME NEW h \in Requests,
               \/ CheckExpiry(h) \/ StampNow(h) \/ DecideUpdate(h) \/ ClaimUpdate(h)
               \/ RefreshDecision(h) \/ RefreshLaunch(h) \/ Recheck(h) \/ Expire(h)
        PROVE  [Contract!Next]_(Contract!vars)
    <2>1. /\ UNCHANGED <<row, jobs, req>>
          /\ pc[h] # "done"
          /\ \A g \in Requests : g # h => pc'[g] = pc[g] /\ answer'[g] = answer[g]
          /\ pc'[h] = "done" => answer'[h] = "already_resolved"
      BY <1>3 DEF CheckExpiry, StampNow, DecideUpdate, ClaimUpdate, RefreshDecision,
         RefreshLaunch, Recheck, Expire, Write, Refuse, Report, Goto, dbVars, queueVars, txnVars,
         GateInv, TypeOK
    <2>2. \A g \in Requests : Launched(g)' <=> Launched(g)
      BY <2>1 DEF Launched, Answered
    <2>3. \A g \in Requests : JobId(g)' = JobId(g)
      BY <2>1 DEF JobId, Target
    <2> QED BY <2>1, <2>2, <2>3, ContractStutter
  <1>4. ASSUME NEW h \in Requests, Commit(h) PROVE [Contract!Next]_(Contract!vars)
    <2>1. /\ UNCHANGED <<jobs, req, answer>>
          /\ pc[h] = "commit" /\ answer[h] # "replayed"
          /\ \A g \in Requests : g # h => pc'[g] = pc[g]
          /\ pc'[h] = IF answer[h] = "created" THEN "enqueue" ELSE "done"
      BY <1>4 DEF Commit, queueVars, Goto, GateInv, TypeOK, HandlersInProgress, InProgress
    <2>2. \A g \in Requests : Launched(g)' <=> Launched(g)
      BY <2>1 DEF Launched, Answered
    <2>3. \A g \in Requests : JobId(g)' = JobId(g)
      BY <2>1 DEF JobId, Target
    <2>4. CASE lock[Target(h)] = h
      <3>1. Target(h) \in Approvals /\ row' = [row EXCEPT ![Target(h)] = draft[h]]
        BY <1>4, <2>1, <2>4, Started DEF Commit
      <3> QED BY <2>1, <2>2, <2>3, <2>4, <3>1, ToldSame, ContractCommit
    <2>5. CASE lock[Target(h)] # h
      <3>1. row' = row
        BY <1>4, <2>5 DEF Commit
      <3> QED BY <2>1, <2>2, <2>3, <3>1, ContractStutter
    <2> QED BY <2>4, <2>5
  <1>5. ASSUME NEW h \in Requests, Abort(h) PROVE [Contract!Next]_(Contract!vars)
    <2>1. /\ UNCHANGED <<row, jobs, req, answer>>
          /\ pc[h] = "commit" /\ pc'[h] = "dead"
          /\ \A g \in Requests : g # h => pc'[g] = pc[g]
      BY <1>5 DEF Abort, queueVars, Goto, GateInv, TypeOK
    <2>2. \A g \in Requests : (Launched(g)' <=> Launched(g)) /\ JobId(g)' = JobId(g)
      BY <2>1 DEF Launched, Answered, JobId, Target
    <2> QED BY <2>1, <2>2, ContractStutter
  <1>6. ASSUME NEW h \in Requests, Enqueue(h) \/ Restore(h)
        PROVE  [Contract!Next]_(Contract!vars)
    <2>1. /\ UNCHANGED <<row, req>>
          /\ pc[h] \in {"enqueue", "restore"} /\ pc' = [pc EXCEPT ![h] = "done"]
          /\ \A g \in Requests : g # h => answer'[g] = answer[g]
          /\ jobs' = jobs \cup {JobId(h)}
      BY <1>6 DEF Enqueue, Restore, Push, Refuse, Goto, dbVars, GateInv, TypeOK
    <2>2. answer'[h] \in {"created", "replayed"}
      BY <1>6 DEF Enqueue, Restore, Push, Refuse, Goto, GateInv, TypeOK,
         HandlersInProgress, InProgress
    <2> QED BY <2>1, <2>2, ContractDeliver
  <1>7. ASSUME NEW h \in Requests, Lookup(h) PROVE [Contract!Next]_(Contract!vars)
    <2>1. UNCHANGED <<row, req, jobs>> /\ pc[h] = "lookup"
      BY <1>7 DEF Lookup, dbVars, queueVars
    <2>2. CASE JobId(h) \in jobs
      <3>1. /\ pc' = [pc EXCEPT ![h] = "done"] /\ answer'[h] = "replayed"
            /\ \A g \in Requests : g # h => answer'[g] = answer[g]
            /\ jobs' = jobs \cup {JobId(h)}
        BY <1>7, <2>1, <2>2 DEF Lookup, Refuse, Goto, GateInv, TypeOK
      <3> QED BY <2>1, <3>1, ContractDeliver
    <2>3. CASE JobId(h) \notin jobs
      <3>1. /\ pc'[h] = "restore" /\ UNCHANGED answer
            /\ \A g \in Requests : g # h => pc'[g] = pc[g]
        BY <1>7, <2>1, <2>3 DEF Lookup, Goto, GateInv, TypeOK
      <3>2. \A g \in Requests : (Launched(g)' <=> Launched(g)) /\ JobId(g)' = JobId(g)
        BY <2>1, <3>1 DEF Launched, Answered, JobId, Target
      <3> QED BY <2>1, <3>2, ContractStutter
    <2> QED BY <2>2, <2>3
  <1>8. CASE NextJob \/ Tick \/ UNCHANGED vars
    <2>1. UNCHANGED <<row, jobs, req, pc, answer>>
      BY <1>8 DEF NextJob, Tick, vars, dbVars, queueVars, txnVars
    <2>2. \A g \in Requests : (Launched(g)' <=> Launched(g)) /\ JobId(g)' = JobId(g)
      BY <2>1 DEF Launched, Answered, JobId, Target
    <2> QED BY <2>1, <2>2, ContractStutter
  <1>9. CASE Restart
    <2>1. /\ UNCHANGED <<row, req, answer>> /\ jobs' = {}
          /\ \A g \in Requests : pc'[g] = IF pc[g] \in {"idle", "done"} THEN pc[g] ELSE "dead"
      BY <1>9 DEF Restart
    <2>2. \A g \in Requests : (Launched(g)' <=> Launched(g)) /\ JobId(g)' = JobId(g)
      BY <2>1 DEF Launched, Answered, JobId, Target
    <2>3. Told' = Told /\ UNCHANGED <<RowStatus, RowJob>>
      BY <2>1, <2>2, ToldSame DEF RowStatus, RowJob
    <2>4. Contract!Forget
      BY <2>1, <2>3 DEF Contract!Forget
    <2> QED BY <2>4 DEF Contract!Next
  <1> QED
    BY <1>1, <1>2, <1>3, <1>4, <1>5, <1>6, <1>7, <1>8, <1>9 DEF Next, Serve

(* The approval gate implements its contract.                              *)
THEOREM GateKeepsContract == Spec => KeepsContract
  <1>1. Init => Contract!Init
    BY DEF Init, Contract!Init, RowStatus, RowJob, Told, Launched, Answered, NoRow
  <1> QED
    BY <1>1, ContractStep, GateInvariant, PTL DEF Spec, KeepsContract, Contract!Spec

---------------------------------------------------------------------------
(* The composition. *)

(* Each action of the composition is an action of the gate, or a worker's. *)
LEMMA LaunchStepIsGateStep == [LaunchNext]_launchVars => [Next]_vars
  <1> SUFFICES ASSUME [LaunchNext]_launchVars PROVE [Next]_vars
    OBVIOUS
  <1>1. ASSUME NEW h \in Requests, Hand(h) PROVE Next
    BY <1>1 DEF Hand, Next, Serve
  <1>2. ASSUME NEW h \in Requests, HandlerStep(h) PROVE Next
    BY <1>2 DEF HandlerStep, Next, Serve
  <1>3. ASSUME NEW w \in Workers, Take(w) PROVE Next
    BY <1>3 DEF Take, Next
  <1>4. ASSUME NEW w \in Workers, Labour(w) PROVE UNCHANGED vars
    BY <1>4 DEF Labour
  <1>5. CASE World
    BY <1>5 DEF World, Next
  <1>6. CASE Crash
    BY <1>6 DEF Crash, Next
  <1>7. CASE UNCHANGED launchVars
    BY <1>7 DEF launchVars
  <1> QED
    BY <1>1, <1>2, <1>3, <1>4, <1>5, <1>6, <1>7 DEF LaunchNext

(* The composition implements the gate. *)
THEOREM LaunchIsGate == LaunchSpec => Spec
  BY LaunchStepIsGateStep, PTL DEF LaunchSpec, LaunchInit, Spec

(* The gate's inductive invariant holds of the composition. *)
THEOREM GateInvAlways == LaunchSpec => []GateInv
  BY LaunchIsGate, GateInvariant, PTL

(* So does its contract, with the workers in the world. *)
THEOREM LaunchKeepsContract == LaunchSpec => KeepsContract
  BY LaunchIsGate, GateKeepsContract, PTL

---------------------------------------------------------------------------
(* The workers' part of the state, as far as the invariant needs it: the    *)
(* objects carry ids of jobs, and ids and workers refer to objects.          *)
HeapOK ==
  /\ heap \in Seq(Render!Job)
  /\ entry \in [Jobs -> 0..Len(heap)]
  /\ held \in [Workers -> 0..Len(heap)]

LaunchInv == HeapOK /\ WorkIsCommitted

(* Changing an object that is there, or one that is not, keeps the others.  *)
LEMMA ObjectUpdate ==
  ASSUME heap \in Seq(Render!Job), NEW k, NEW r,
         k \in DOMAIN heap => r \in Render!Job /\ r.id = heap[k].id,
         heap' = [heap EXCEPT ![k] = r]
  PROVE  /\ heap' \in Seq(Render!Job)
         /\ Len(heap') = Len(heap)
         /\ \A i \in DOMAIN heap : heap'[i].id = heap[i].id
  <1>1. heap \in [1..Len(heap) -> Render!Job] /\ Len(heap) \in Nat
    OBVIOUS
  <1>2. heap' \in [1..Len(heap) -> Render!Job]
    BY <1>1
  <1>3. heap' \in Seq(Render!Job) /\ Len(heap') = Len(heap)
    BY <1>1, <1>2
  <1> QED BY <1>1, <1>3

(* A job with another status, another step or marked steps is a job.        *)
LEMMA JobUpdates ==
  ASSUME NEW o \in Render!Job, NEW s \in Render!Statuses, NEW k
  PROVE  /\ [o EXCEPT !.status = s] \in Render!Job
         /\ [o EXCEPT !.status = s].id = o.id
         /\ [o EXCEPT !.steps[k] = s] \in Render!Job
         /\ [o EXCEPT !.steps[k] = s].id = o.id
         /\ [o EXCEPT !.steps = Render!Marked(@)] \in Render!Job
         /\ [o EXCEPT !.steps = Render!Marked(@)].id = o.id
  <1>1. /\ o.id \in Jobs /\ o.steps \in [Render!StepIds -> Render!Statuses]
        /\ o = [id |-> o.id, status |-> o.status, steps |-> o.steps]
    BY DEF Render!Job
  <1>2. [o.steps EXCEPT ![k] = s] \in [Render!StepIds -> Render!Statuses]
    BY <1>1
  <1>3. Render!Marked(o.steps) \in [Render!StepIds -> Render!Statuses]
    BY <1>1 DEF Render!Marked, Render!Statuses
  <1>4. [o EXCEPT !.status = s] \in Render!Job /\ [o EXCEPT !.status = s].id = o.id
    BY DEF Render!Job
  <1>5. [o EXCEPT !.steps[k] = s] \in Render!Job /\ [o EXCEPT !.steps[k] = s].id = o.id
    BY <1>2 DEF Render!Job
  <1>6. /\ [o EXCEPT !.steps = Render!Marked(@)] \in Render!Job
        /\ [o EXCEPT !.steps = Render!Marked(@)].id = o.id
    BY <1>3 DEF Render!Job
  <1> QED BY <1>4, <1>5, <1>6

(* A worker's own steps change objects but neither their number nor ids.    *)
LEMMA WorkKeepsIds ==
  ASSUME HeapOK, NEW w \in Workers, Render!Work(w)
  PROVE  /\ HeapOK'
         /\ Len(heap') = Len(heap)
         /\ \A i \in DOMAIN heap : heap'[i].id = heap[i].id
  <1> DEFINE Kept == /\ heap' \in Seq(Render!Job)
                     /\ Len(heap') = Len(heap)
                     /\ \A i \in DOMAIN heap : heap'[i].id = heap[i].id
  <1>0. /\ heap \in Seq(Render!Job) /\ held \in [Workers -> 0..Len(heap)]
        /\ entry \in [Jobs -> 0..Len(heap)]
    BY DEF HeapOK
  <1>1. UNCHANGED heap => Kept
    BY <1>0
  <1> DEFINE own == heap[held[w]]
  <1>a. held[w] \in DOMAIN heap => own \in Render!Job
    BY <1>0
  <1>2. ASSUME NEW s \in Render!Statuses, Render!SetStatus(w, s) PROVE Kept
    <2> DEFINE new == [own EXCEPT !.status = s]
    <2>1. held[w] \in DOMAIN heap => new \in Render!Job /\ new.id = own.id
      BY <1>a, JobUpdates
    <2>2. heap' = [heap EXCEPT ![held[w]] = new]
      BY <1>2 DEF Render!SetStatus
    <2> HIDE DEF new
    <2> QED BY <1>0, <2>1, <2>2, ObjectUpdate
  <1>3. ASSUME NEW s \in Render!Statuses, NEW k,
               heap' = [heap EXCEPT ![held[w]].steps[k] = s] PROVE Kept
    <2> DEFINE new == [own EXCEPT !.steps[k] = s]
    <2>1. held[w] \in DOMAIN heap => new \in Render!Job /\ new.id = own.id
      BY <1>a, JobUpdates
    <2>2. heap' = [heap EXCEPT ![held[w]] = new]
      BY <1>3
    <2> HIDE DEF new
    <2> QED BY <1>0, <2>1, <2>2, ObjectUpdate
  <1>4. ASSUME Render!Mark(w) PROVE Kept
    <2> DEFINE new == [own EXCEPT !.steps = Render!Marked(@)]
    <2>1. held[w] \in DOMAIN heap => new \in Render!Job /\ new.id = own.id
      <3>1. "failed" \in Render!Statuses
        BY DEF Render!Statuses
      <3> QED BY <1>a, <3>1, JobUpdates
    <2>2. heap' = [heap EXCEPT ![held[w]] = new]
      BY <1>4 DEF Render!Mark
    <2> HIDE DEF new
    <2> QED BY <1>0, <2>1, <2>2, ObjectUpdate
  <1>5. Kept
    <2>1. CASE Render!TestStart(w) \/ Render!TestFinish(w) \/ Render!TestFail(w)
      BY <1>1, <2>1 DEF Render!TestStart, Render!TestFinish, Render!TestFail, Render!Test
    <2>2. CASE Render!Start(w)
      BY <1>2, <2>2 DEF Render!Start, Render!Statuses
    <2>3. CASE Render!BeginStep(w)
      BY <1>3, <2>3 DEF Render!BeginStep, Render!Statuses
    <2>4. CASE Render!EndStep(w)
      BY <1>3, <2>4 DEF Render!EndStep, Render!Statuses
    <2>5. CASE Render!Finish(w)
      BY <1>2, <2>5 DEF Render!Finish, Render!Statuses
    <2>6. CASE Render!Fail(w)
      BY <1>2, <2>6 DEF Render!Fail, Render!Statuses
    <2>7. CASE Render!Mark(w)
      BY <1>4, <2>7
    <2> QED BY <2>1, <2>2, <2>3, <2>4, <2>5, <2>6, <2>7 DEF Render!Work
  <1>6. (held' = held \/ held' = [held EXCEPT ![w] = 0]) /\ entry' = entry
    BY DEF Render!Work, Render!TestStart, Render!TestFinish, Render!TestFail, Render!Test,
           Render!LetGo, Render!Start, Render!BeginStep, Render!EndStep, Render!Finish, Render!Fail,
           Render!Mark
  <1> QED BY <1>0, <1>5, <1>6 DEF HeapOK

(* A committed claim stays the job of its approval, whatever step is taken. *)
LEMMA CommittedStays ==
  ASSUME GateInv, [Next]_vars, NEW j \in Jobs, row[j[1]].job = j
  PROVE  row'[j[1]].job = j
  <1>1. j[1] \in Approvals /\ j # NoJob
    BY ConstantsAssumption DEF Jobs
  <1> QED BY <1>1, RowStep

(* A handler hands over the committed job of its approval.                  *)
LEMMA HandedIsCommitted ==
  ASSUME GateInv, NEW h \in Requests, Hand(h)
  PROVE  JobId(h) \in Jobs /\ row[JobId(h)[1]].job = JobId(h)
  <1>1. pc[h] \in {"enqueue", "restore"}
    BY DEF Hand, Enqueue, Restore
  <1>2. JobId(h) \in Jobs /\ JobId(h)[1] = Target(h)
    BY <1>1, Started
  <1> QED BY <1>1, <1>2 DEF GateInv, QueuersHaveClaimed, HasClaimed

LEMMA LaunchInvStep == LaunchInv /\ GateInv /\ [LaunchNext]_launchVars => LaunchInv'
  <1> SUFFICES ASSUME LaunchInv, GateInv, [LaunchNext]_launchVars PROVE LaunchInv'
    OBVIOUS
  <1>0. /\ heap \in Seq(Render!Job) /\ held \in [Workers -> 0..Len(heap)]
        /\ entry \in [Jobs -> 0..Len(heap)]
        /\ \A i \in DOMAIN heap : heap[i].id \in Jobs /\ row[heap[i].id[1]].job = heap[i].id
        /\ \A i \in DOMAIN heap : row'[heap[i].id[1]].job = heap[i].id
    <2>1. /\ heap \in Seq(Render!Job) /\ held \in [Workers -> 0..Len(heap)]
          /\ entry \in [Jobs -> 0..Len(heap)]
      BY DEF LaunchInv, HeapOK
    <2>2. \A i \in DOMAIN heap : heap[i].id \in Jobs /\ row[heap[i].id[1]].job = heap[i].id
      <3>1. \A i \in DOMAIN heap : heap[i] \in Render!Job
        BY <2>1
      <3> QED BY <3>1 DEF LaunchInv, WorkIsCommitted, Render!Job
    <2>3. \A i \in DOMAIN heap : row'[heap[i].id[1]].job = heap[i].id
      BY <2>2, CommittedStays, LaunchStepIsGateStep
    <2> QED BY <2>1, <2>2, <2>3
  <1>1. ASSUME UNCHANGED workVars PROVE LaunchInv'
    BY <1>0, <1>1 DEF workVars, LaunchInv, HeapOK, WorkIsCommitted
  <1>2. ASSUME NEW h \in Requests, Hand(h) PROVE LaunchInv'
    <2> DEFINE new == [id |-> JobId(h), status |-> "queued",
                       steps |-> [k \in Render!StepIds |-> "queued"]]
    <2>1. JobId(h) \in Jobs /\ row[JobId(h)[1]].job = JobId(h)
      BY <1>2, HandedIsCommitted
    <2>2. new \in Render!Job
      BY <2>1 DEF Render!Job, Render!Statuses
    <2>3. heap' = Append(heap, new) /\ UNCHANGED <<held, row>>
      BY <1>2 DEF Hand, Enqueue, Restore, Render!Enqueue, dbVars
    <2>4. new.id = JobId(h)
      OBVIOUS
    <2> HIDE DEF new
    <2>5. /\ heap' \in Seq(Render!Job) /\ Len(heap') = Len(heap) + 1
          /\ heap'[Len(heap) + 1] = new
          /\ \A i \in DOMAIN heap : heap'[i] = heap[i]
      BY <1>0, <2>2, <2>3
    <2>6. \A i \in DOMAIN heap' : i \in DOMAIN heap \/ i = Len(heap) + 1
      BY <1>0, <2>5
    <2>7. \A i \in DOMAIN heap' : row'[heap'[i].id[1]].job = heap'[i].id
      BY <1>0, <2>1, <2>3, <2>4, <2>5, <2>6
    <2>8. held' \in [Workers -> 0..Len(heap')]
      BY <1>0, <2>3, <2>5
    <2>9. entry' = [entry EXCEPT ![JobId(h)] = Len(heap) + 1]
      BY <1>2 DEF Hand, Render!Enqueue
    <2>10. entry' \in [Jobs -> 0..Len(heap')]
      <3>1. Len(heap) \in Nat /\ Len(heap') = Len(heap) + 1
        BY <1>0, <2>5
      <3>2. /\ Len(heap) + 1 \in 0..Len(heap') /\ 0..Len(heap) \subseteq 0..Len(heap')
            /\ entry \in [Jobs -> 0..Len(heap')]
        BY <1>0, <3>1
      <3> QED BY <2>9, <3>2
    <2> QED BY <2>5, <2>7, <2>8, <2>10 DEF LaunchInv, HeapOK, WorkIsCommitted
  <1>3. ASSUME NEW w \in Workers, Take(w) PROVE LaunchInv'
    <2>1. queue \in Seq(Jobs) /\ queue # <<>>
      BY <1>3 DEF Take, NextJob, GateInv, TypeOK
    <2>2. entry[Head(queue)] \in 0..Len(heap)
      BY <1>0, <2>1
    <2>3. held' = [held EXCEPT ![w] = entry[Head(queue)]] /\ UNCHANGED <<heap, entry, row>>
      BY <1>3 DEF Take, NextJob, Render!NextJob, dbVars
    <2> QED BY <1>0, <2>2, <2>3 DEF LaunchInv, HeapOK, WorkIsCommitted
  <1>4. ASSUME NEW w \in Workers, Labour(w) PROVE LaunchInv'
    <2>1. UNCHANGED row
      BY <1>4 DEF Labour, vars
    <2>2. /\ HeapOK' /\ Len(heap') = Len(heap)
          /\ \A i \in DOMAIN heap : heap'[i].id = heap[i].id
      BY <1>4, WorkKeepsIds DEF Labour, LaunchInv
    <2>3. DOMAIN heap' = DOMAIN heap
      BY <1>0, <2>2 DEF HeapOK
    <2> QED BY <1>0, <2>1, <2>2, <2>3 DEF LaunchInv, HeapOK, WorkIsCommitted
  <1>5. CASE Crash
    <2>1. /\ heap' = <<>> /\ held' = [w \in Workers |-> 0]
          /\ entry' = [j \in Jobs |-> 0]
      BY <1>5 DEF Crash
    <2>2. heap' \in Seq(Render!Job) /\ Len(heap') = 0 /\ DOMAIN heap' = {}
      BY <2>1
    <2> QED BY <2>1, <2>2 DEF LaunchInv, HeapOK, WorkIsCommitted
  <1> QED
    BY <1>1, <1>2, <1>3, <1>4, <1>5 DEF LaunchNext, HandlerStep, World, launchVars

(* Objects, entries and workers stay as they should.                        *)
LEMMA LaunchInvariant == LaunchSpec => []LaunchInv
  <1>1. LaunchInit => LaunchInv
    BY DEF LaunchInit, Render!Init, LaunchInv, HeapOK, WorkIsCommitted
  <1> QED
    BY <1>1, LaunchInvStep, GateInvAlways, PTL DEF LaunchSpec

(* Whatever a worker holds, or the process has made, is the committed job   *)
(* of an approval.                                                          *)
THEOREM WorkIsCommittedAlways == LaunchSpec => []WorkIsCommitted
  <1>1. LaunchInv => WorkIsCommitted
    BY DEF LaunchInv
  <1> QED
    BY <1>1, LaunchInvariant, PTL

---------------------------------------------------------------------------
(* What an approval's events say of its row, at every commit: that it was   *)
(* granted while it stands approved, and that it was used after that for    *)
(* the job it names.                                                        *)
Granted(a) == \E i \in DOMAIN events[a] : events[a][i] = ResolvedEvent("approved")
GrantRecorded ==
  /\ \A a \in Approvals : row[a].status = "approved" => Granted(a)
  /\ \A j \in Jobs : row[j[1]].job = j => GrantedThenUsed(j)

(* The events of an approval stay where they are when more are appended.    *)
LEMMA EventsStay ==
  ASSUME NEW s \in Seq(Event), NEW t \in Seq(Event)
  PROVE  /\ s \o t \in Seq(Event)
         /\ \A i \in DOMAIN s : i \in DOMAIN (s \o t) /\ (s \o t)[i] = s[i]
         /\ \A k \in DOMAIN t :
              /\ Len(s) + k \in DOMAIN (s \o t)
              /\ (s \o t)[Len(s) + k] = t[k]
              /\ \A i \in DOMAIN s : i < Len(s) + k
  OBVIOUS

(* An approval's events only grow, by what a transaction has inserted.      *)
LEMMA EventsGrow ==
  ASSUME GateInv, [Next]_vars, NEW a \in Approvals
  PROVE  /\ events[a] \in Seq(Event)
         /\ \E evs \in Seq(Event) : events'[a] = events[a] \o evs
  <1>1. events \in [Approvals -> Seq(Event)] /\ outbox \in [Requests -> Seq(Event)]
    BY DEF GateInv, TypeOK
  <1>2. events[a] \in Seq(Event) /\ <<>> \in Seq(Event)
    BY <1>1
  <1>3. events'[a] = events[a] => events'[a] = events[a] \o <<>>
    BY <1>2
  <1>4. ASSUME NEW b \in Approvals, RequestApproval(b)
        PROVE  \E evs \in Seq(Event) : events'[a] = events[a] \o evs
    <2> DEFINE e == [type |-> "approval.required", value |-> "pending"]
    <2>1. e \in Event
      BY DEF Event, EventTypes, Statuses
    <2>2. events' = [events EXCEPT ![b] = Append(@, e)]
      BY <1>4 DEF RequestApproval
    <2> HIDE DEF e
    <2>3. <<e>> \in Seq(Event) /\ Append(events[a], e) = events[a] \o <<e>>
      BY <1>2, <2>1
    <2> QED BY <1>1, <1>2, <1>3, <2>2, <2>3
  <1>5. ASSUME NEW h \in Requests, Commit(h)
        PROVE  \E evs \in Seq(Event) : events'[a] = events[a] \o evs
    <2>1. events' = [events EXCEPT ![Target(h)] = @ \o outbox[h]]
      BY <1>5 DEF Commit
    <2> QED BY <1>1, <1>2, <1>3, <2>1
  <1>6. \/ events' = events
        \/ \E b \in Approvals : RequestApproval(b)
        \/ \E h \in Requests : Commit(h)
    BY DEF Next, Serve, vars, dbVars, LoadDecision, LoadLaunch, CheckExpiry, StampNow,
           DecideUpdate, ClaimUpdate, RefreshDecision, RefreshLaunch, Recheck, Expire, Abort,
           Enqueue, Lookup, Restore, NextJob, Tick, Restart
  <1> QED BY <1>2, <1>3, <1>4, <1>5, <1>6

(* So what they have said is said for ever.                                 *)
LEMMA SaidStaysSaid ==
  ASSUME GateInv, [Next]_vars, NEW a \in Approvals
  PROVE  /\ Granted(a) => Granted(a)'
         /\ \A j \in Jobs : j[1] = a /\ GrantedThenUsed(j) => GrantedThenUsed(j)'
  <1>1. PICK evs \in Seq(Event) : events'[a] = events[a] \o evs
    BY EventsGrow
  <1>2. \A i \in DOMAIN events[a] : i \in DOMAIN events'[a] /\ events'[a][i] = events[a][i]
    BY <1>1, EventsGrow, EventsStay
  <1> QED BY <1>2 DEF Granted, GrantedThenUsed

(* A row takes a job, or becomes approved, only when the request that holds *)
(* its lock commits.                                                        *)
LEMMA WroteRow ==
  ASSUME GateInv, [Next]_vars, NEW a \in Approvals
  PROVE  \/ row'[a] = row[a]
         \/ row'[a].status = "pending" /\ row'[a].job = NoJob
         \/ \E h \in Requests : Commit(h) /\ lock[a] = h
  <1>0. row \in [Approvals -> Row]
    BY DEF GateInv, TypeOK
  <1>1. ASSUME NEW b \in Approvals, RequestApproval(b)
        PROVE  row'[a] = row[a] \/ (row'[a].status = "pending" /\ row'[a].job = NoJob)
    BY <1>0, <1>1 DEF RequestApproval
  <1>2. ASSUME NEW h \in Requests, Commit(h)
        PROVE  row'[a] = row[a] \/ lock[a] = h
    <2>1. CASE lock[Target(h)] = h /\ Target(h) # a
      BY <1>0, <1>2, <2>1 DEF Commit
    <2>2. CASE lock[Target(h)] # h
      BY <1>2, <2>2 DEF Commit
    <2> QED BY <2>1, <2>2
  <1>3. \/ row' = row
        \/ \E b \in Approvals : RequestApproval(b)
        \/ \E h \in Requests : Commit(h)
    BY DEF Next, Serve, vars, dbVars, LoadDecision, LoadLaunch, CheckExpiry, StampNow,
           DecideUpdate, ClaimUpdate, RefreshDecision, RefreshLaunch, Recheck, Expire, Abort,
           Enqueue, Lookup, Restore, NextJob, Tick, Restart
  <1> QED BY <1>1, <1>2, <1>3

LEMMA GrantStep ==
  GateInv /\ OutboxTellsAnswer /\ GrantRecorded /\ [Next]_vars => GrantRecorded'
  <1> SUFFICES ASSUME GateInv, OutboxTellsAnswer, GrantRecorded, [Next]_vars
               PROVE  GrantRecorded'
    OBVIOUS
  <1>0. row \in [Approvals -> Row]
    BY DEF GateInv, TypeOK
  <1>1. ASSUME NEW a \in Approvals, row'[a].status = "approved"
        PROVE  Granted(a)'
    <2>1. CASE row[a].status = "approved"
      BY <2>1, SaidStaysSaid DEF GrantRecorded
    <2>2. CASE row[a].status # "approved"
      <3>1. PICK h \in Requests : Commit(h) /\ lock[a] = h
        BY <1>0, <1>1, <2>2, WroteRow
      <3>2. Target(h) = a /\ pc[h] = "commit"
        BY <3>1 DEF GateInv, LockHeld
      <3>3. row'[a] = draft[h]
        BY <1>0, <3>1, <3>2 DEF Commit
      <3>4. answer[h] = "decided" /\ Verdict(h) = "approved"
        <4>1. \A s : [row[a] EXCEPT !.status = s].status = s
          BY <1>0 DEF Row
        <4>2. \A j : [row[a] EXCEPT !.job = j].status = row[a].status
          BY <1>0 DEF Row
        <4>3. \/ answer[h] = "decided" /\ draft[h] = [row[a] EXCEPT !.status = Verdict(h)]
              \/ /\ answer[h] = "created" /\ row[a].status = "approved" /\ row[a].job = NoJob
                 /\ draft[h] = [row[a] EXCEPT !.job = JobId(h)]
              \/ draft[h] = [row[a] EXCEPT !.status = "expired"]
          BY <3>1 DEF GateInv, DraftFollowsRow
        <4> QED BY <1>1, <2>2, <3>3, <4>1, <4>2, <4>3
      <3>5. outbox[h] = <<ResolvedEvent("approved")>>
        BY <3>2, <3>4 DEF OutboxTellsAnswer
      <3>6. events'[a] = events[a] \o outbox[h] /\ events[a] \in Seq(Event)
            /\ outbox[h] \in Seq(Event)
        BY <3>1, <3>2 DEF Commit, GateInv, TypeOK
      <3>7. 1 \in DOMAIN outbox[h] /\ outbox[h][1] = ResolvedEvent("approved")
        BY <3>5
      <3>8. /\ Len(events[a]) + 1 \in DOMAIN events'[a]
            /\ events'[a][Len(events[a]) + 1] = ResolvedEvent("approved")
        <4> DEFINE s == events[a]
                   t == outbox[h]
        <4>1. s \in Seq(Event) /\ t \in Seq(Event) /\ events'[a] = s \o t
          BY <3>6
        <4>2. Len(s) + 1 \in DOMAIN (s \o t) /\ (s \o t)[Len(s) + 1] = t[1]
          <5> HIDE DEF s, t
          <5>1. 1 \in DOMAIN t
            BY <3>7 DEF t
          <5> QED BY <4>1, <5>1, EventsStay
        <4> QED BY <3>7, <4>1, <4>2
      <3> QED BY <3>8 DEF Granted, ResolvedEvent
    <2> QED BY <2>1, <2>2
  <1>2. ASSUME NEW j \in Jobs, row'[j[1]].job = j
        PROVE  GrantedThenUsed(j)'
    <2> DEFINE a == j[1]
    <2>0. a \in Approvals /\ j # NoJob
      BY ConstantsAssumption DEF Jobs
    <2>1. CASE row[a].job = j
      BY <2>0, <2>1, SaidStaysSaid DEF GrantRecorded
    <2>2. CASE row[a].job # j
      <3>1. PICK h \in Requests : Commit(h) /\ lock[a] = h
        BY <1>0, <1>2, <2>0, <2>2, WroteRow
      <3>2. Target(h) = a /\ pc[h] = "commit"
        BY <3>1, <2>0 DEF GateInv, LockHeld
      <3>3. row'[a] = draft[h]
        BY <1>0, <2>0, <3>1, <3>2 DEF Commit
      <3>4. answer[h] = "created" /\ JobId(h) = j /\ row[a].status = "approved"
        <4>1. \A s : [row[a] EXCEPT !.status = s].job = row[a].job
          BY <1>0, <2>0 DEF Row
        <4>2. \A i : [row[a] EXCEPT !.job = i].job = i
          BY <1>0, <2>0 DEF Row
        <4>3. \/ answer[h] = "decided" /\ draft[h] = [row[a] EXCEPT !.status = Verdict(h)]
              \/ /\ answer[h] = "created" /\ row[a].status = "approved" /\ row[a].job = NoJob
                 /\ draft[h] = [row[a] EXCEPT !.job = JobId(h)]
              \/ draft[h] = [row[a] EXCEPT !.status = "expired"]
          BY <2>0, <3>1 DEF GateInv, DraftFollowsRow
        <4> HIDE DEF a
        <4> QED BY <1>2, <2>0, <2>2, <3>3, <4>1, <4>2, <4>3 DEF a
      <3>5. outbox[h] = LaunchEvents(j)
        BY <3>2, <3>4 DEF OutboxTellsAnswer
      <3>6. events'[a] = events[a] \o outbox[h] /\ events[a] \in Seq(Event)
            /\ outbox[h] \in Seq(Event)
        BY <2>0, <3>1, <3>2 DEF Commit, GateInv, TypeOK
      <3>7. 2 \in DOMAIN outbox[h] /\ outbox[h][2] = [type |-> "tool.result", value |-> j]
        BY <3>5 DEF LaunchEvents
      <3>8. PICK i \in DOMAIN events[a] : events[a][i] = ResolvedEvent("approved")
        BY <2>0, <3>4 DEF GrantRecorded, Granted
      <3> HIDE DEF a
      <3>9. /\ i \in DOMAIN events'[a] /\ Len(events[a]) + 2 \in DOMAIN events'[a]
            /\ i < Len(events[a]) + 2
            /\ events'[a][i] = ResolvedEvent("approved")
            /\ events'[a][Len(events[a]) + 2] = [type |-> "tool.result", value |-> j]
        <4> DEFINE s == events[a]
                   t == outbox[h]
        <4>1. s \in Seq(Event) /\ t \in Seq(Event) /\ events'[a] = s \o t
          BY <3>6
        <4>2. /\ i \in DOMAIN (s \o t) /\ (s \o t)[i] = s[i]
              /\ Len(s) + 2 \in DOMAIN (s \o t) /\ (s \o t)[Len(s) + 2] = t[2]
              /\ i < Len(s) + 2
          <5> HIDE DEF s, t
          <5>1. i \in DOMAIN s /\ 2 \in DOMAIN t
            BY <3>7, <3>8 DEF s, t
          <5> QED BY <4>1, <5>1, EventsStay
        <4> QED BY <3>7, <3>8, <4>1, <4>2
      <3> QED BY <3>9 DEF GrantedThenUsed, a
    <2> QED BY <2>1, <2>2
  <1> QED BY <1>1, <1>2 DEF GrantRecorded

(* A granted and used approval's events say so in that order.               *)
LEMMA GrantInvariant == Spec => []GrantRecorded
  <1>1. Init => GrantRecorded
    BY ConstantsAssumption DEF Init, GrantRecorded, Granted, NoRow, Jobs
  <1> QED
    BY <1>1, GrantStep, GateInvariant, AuditInvariant, PTL DEF Spec

(* No work without approval: whatever is in memory or in a worker's hands   *)
(* is a committed job, and its approval's events say that a person granted  *)
(* it before they say that it was used.                                     *)
THEOREM WorkIsGrantedAlways == LaunchSpec => []WorkIsGranted
  <1>1. LaunchInv /\ GrantRecorded => WorkIsGranted
    <2> SUFFICES ASSUME LaunchInv, GrantRecorded, NEW i \in DOMAIN heap
                 PROVE  GrantedThenUsed(heap[i].id)
      BY DEF LaunchInv, WorkIsGranted
    <2>1. heap[i] \in Render!Job
      BY DEF LaunchInv, HeapOK
    <2>2. heap[i].id \in Jobs /\ row[heap[i].id[1]].job = heap[i].id
      BY <2>1 DEF Render!Job, LaunchInv, WorkIsCommitted
    <2> QED BY <2>2 DEF GrantRecorded
  <1> QED
    BY <1>1, LaunchInvariant, LaunchIsGate, GrantInvariant, PTL

---------------------------------------------------------------------------
(* The queue's own invariant holds under the gate, with one object for each *)
(* request: every step of the composition is a step of the queue or ends it. *)
Line == INSTANCE RenderQueueProofs WITH
  MaxObjects <- Cardinality(Requests), fifo <- queue, pc <- at

LEMMA LineAssumption == NSteps \in Nat /\ Cardinality(Requests) \in Nat
  BY LaunchAssumption, FS_CardinalityType

LEMMA LaunchStepIsLineStep ==
  GateInv /\ [LaunchNext]_launchVars => [Line!Next]_(Line!vars) \/ Line!Init'
  <1> SUFFICES ASSUME GateInv, [LaunchNext]_launchVars
               PROVE  [Line!Next]_(Line!vars) \/ Line!Init'
    OBVIOUS
  <1>1. ASSUME NEW h \in Requests, Hand(h) PROVE Line!Next
    <2>1. JobId(h) \in Jobs
      BY <1>1, HandedIsCommitted
    <2>2. Line!Enqueue(JobId(h))
      BY <1>1 DEF Hand, Render!Enqueue, Line!Enqueue, Render!StepIds, Line!StepIds
    <2> QED BY <2>1, <2>2 DEF Line!Next
  <1>2. ASSUME UNCHANGED <<queue, workVars>> PROVE UNCHANGED Line!vars
    BY <1>2 DEF workVars, Line!vars
  <1>3. ASSUME NEW h \in Requests, HandlerStep(h) PROVE UNCHANGED <<queue, workVars>>
    BY <1>3 DEF HandlerStep, LoadDecision, LoadLaunch, CheckExpiry, StampNow, DecideUpdate,
         ClaimUpdate, RefreshDecision, RefreshLaunch, Recheck, Expire, Commit, Abort, Lookup,
         queueVars
  <1>4. ASSUME World PROVE UNCHANGED <<queue, workVars>>
    BY <1>4 DEF World, Tick, RequestApproval, queueVars
  <1>5. ASSUME NEW w \in Workers, Take(w) PROVE Line!Next
    BY <1>5 DEF Take, Line!Next, Render!NextJob, Line!NextJob
  <1>6. ASSUME NEW w \in Workers, Labour(w) PROVE Line!Next
    <2> USE DEF Render!Status, Line!Status, Render!SetStatus, Line!SetStatus,
                Render!LetGo, Line!LetGo
    <2>1. ASSUME NEW s, NEW t, Render!Test(w, s, t) PROVE Line!Test(w, s, t)
      BY <2>1 DEF Render!Test, Line!Test, Render!Allowed, Line!Allowed
    <2>2. CASE Render!TestStart(w) \/ Render!TestFinish(w) \/ Render!TestFail(w)
      BY <2>1, <2>2 DEF Render!TestStart, Render!TestFinish, Render!TestFail,
           Line!TestStart, Line!TestFinish, Line!TestFail, Line!Work, Line!Next
    <2>3. CASE Render!Start(w) \/ Render!BeginStep(w) \/ Render!EndStep(w)
      BY <2>3 DEF Render!Start, Render!BeginStep, Render!EndStep,
           Line!Start, Line!BeginStep, Line!EndStep, Line!Work, Line!Next
    <2>4. CASE Render!Finish(w)
      BY <2>4 DEF Render!Finish, Line!Finish, Line!Work, Line!Next
    <2>5. CASE Render!Fail(w)
      BY <2>5 DEF Render!Fail, Line!Fail, Line!Work, Line!Next
    <2>6. CASE Render!Mark(w)
      <3>1. \A steps : Render!Marked(steps) = Line!Marked(steps)
        BY DEF Render!Marked, Line!Marked, Render!StepIds, Line!StepIds
      <3> QED BY <2>6, <3>1 DEF Render!Mark, Line!Mark, Line!Work, Line!Next
    <2> QED BY <1>6, <2>2, <2>3, <2>4, <2>5, <2>6 DEF Labour, Render!Work
  <1>7. ASSUME Crash PROVE Line!Init'
    BY <1>7 DEF Crash, Restart, Line!Init
  <1> QED
    BY <1>1, <1>2, <1>3, <1>4, <1>5, <1>6, <1>7 DEF LaunchNext, launchVars, vars

(* What RenderQueueProofs shows of the queue holds of the one that the gate *)
(* fills, restarts included.                                                *)
LEMMA LineAlways == LaunchSpec => []Line!LineInv
  <1>1. LaunchInit => Line!Init
    BY DEF LaunchInit, Init, Render!Init, Line!Init
  <1>2. Line!Init => Line!LineInv
    BY LineAssumption, Line!LineInit
  <1>3. Line!LineInv /\ [Line!Next]_(Line!vars) => Line!LineInv'
    BY LineAssumption, Line!LineStep
  <1> QED
    BY <1>1, <1>2, <1>3, LaunchStepIsLineStep, GateInvAlways, PTL DEF LaunchSpec

(* Gate and workers see one queue: a job is known to the gate exactly when  *)
(* it has an object.                                                        *)
JobsKnown == jobs = {j \in Jobs : entry[j] # 0}

LEMMA JobsKnownStep ==
  GateInv /\ LaunchInv /\ JobsKnown /\ [LaunchNext]_launchVars => JobsKnown'
  <1> SUFFICES ASSUME GateInv, LaunchInv, JobsKnown, [LaunchNext]_launchVars PROVE JobsKnown'
    OBVIOUS
  <1>1. ASSUME NEW h \in Requests, Hand(h) PROVE JobsKnown'
    <2>1. JobId(h) \in Jobs
      BY <1>1, HandedIsCommitted
    <2>2. jobs' = jobs \cup {JobId(h)} /\ entry' = [entry EXCEPT ![JobId(h)] = Len(heap) + 1]
      BY <1>1 DEF Hand, Enqueue, Restore, Push, Render!Enqueue
    <2>3. entry \in [Jobs -> 0..Len(heap)] /\ Len(heap) \in Nat
      BY DEF LaunchInv, HeapOK
    <2> QED BY <2>1, <2>2, <2>3 DEF JobsKnown
  <1>2. ASSUME Crash PROVE JobsKnown'
    BY <1>2 DEF Crash, Restart, JobsKnown
  <1>3. ASSUME NEW h \in Requests, HandlerStep(h) PROVE UNCHANGED <<jobs, entry>>
    BY <1>3 DEF HandlerStep, LoadDecision, LoadLaunch, CheckExpiry, StampNow, DecideUpdate,
         ClaimUpdate, RefreshDecision, RefreshLaunch, Recheck, Expire, Commit, Abort, Lookup,
         queueVars, workVars
  <1>4. ASSUME World PROVE UNCHANGED <<jobs, entry>>
    BY <1>4 DEF World, Tick, RequestApproval, queueVars, workVars
  <1>5. ASSUME NEW w \in Workers, Take(w) PROVE UNCHANGED <<jobs, entry>>
    BY <1>5 DEF Take, NextJob, Render!NextJob
  <1>6. ASSUME NEW w \in Workers, Labour(w) PROVE UNCHANGED <<jobs, entry>>
    BY <1>6 DEF Labour, vars, Render!Work, Render!TestStart, Render!TestFinish, Render!TestFail,
         Render!Test, Render!Start, Render!BeginStep, Render!EndStep, Render!Finish, Render!Fail,
         Render!Mark
  <1> QED
    BY <1>1, <1>2, <1>3, <1>4, <1>5, <1>6 DEF LaunchNext, launchVars, vars, workVars, JobsKnown

(* An answered launch has work behind it: the job that a replay finds known *)
(* has an object that is in line, in a worker's hands or ended.             *)
THEOREM AnsweredWorkExistsAlways == LaunchSpec => []AnsweredWorkExists
  <1>1. LaunchInit => JobsKnown
    BY DEF LaunchInit, Init, Render!Init, JobsKnown
  <1>2. JobsKnown /\ Line!LineInv => AnsweredWorkExists
    <2> SUFFICES ASSUME JobsKnown, Line!LineInv, NEW j \in jobs
                 PROVE  \/ Settled(j)
                        \/ \E i \in DOMAIN queue : queue[i] = j
                        \/ \E w \in Workers : held[w] = entry[j]
      BY DEF JobsKnown, AnsweredWorkExists
    <2>1. j \in Jobs /\ entry[j] # 0
      BY DEF JobsKnown
    <2>2. entry[j] \in DOMAIN heap /\ heap[entry[j]] \in Line!Job
      BY <2>1 DEF Line!LineInv, Line!TypeOK
    <2>3. heap[entry[j]].status \in {"queued", "running", "succeeded", "failed", "canceled"}
      BY <2>2 DEF Line!Job, Line!Statuses
    <2>4. CASE heap[entry[j]].status = "queued"
      BY <2>1, <2>4 DEF Line!LineInv, Line!WaitingIsInLine
    <2>5. CASE heap[entry[j]].status = "running"
      BY <2>2, <2>5 DEF Line!LineInv, Line!RunningIsHeld
    <2>6. heap[entry[j]].status # "canceled"
      BY <2>2 DEF Line!LineInv, Line!RunningIsHeld
    <2> QED BY <2>3, <2>4, <2>5, <2>6 DEF Settled
  <1> QED
    BY <1>1, <1>2, JobsKnownStep, GateInvAlways, LaunchInvariant, LineAlways, PTL DEF LaunchSpec

(* The two instances of the queue say the same of a line and its workers.  *)
LEMMA SameQueueInv == Line!QueueInv => Render!QueueInv
  <1> USE DEF Render!StepIds, Line!StepIds, Render!Statuses, Line!Statuses
  <1>1. Line!TypeOK => Render!TypeOK
    BY DEF Line!TypeOK, Render!TypeOK, Line!Job, Render!Job, Line!Labels, Render!Labels
  <1>2. \A i : Render!Single(i) <=> Line!Single(i)
    BY DEF Render!Single, Line!Single
  <1>3. Line!OneWorkerPerJob => Render!OneWorkerPerJob
    BY <1>2 DEF Line!OneWorkerPerJob, Render!OneWorkerPerJob
  <1>4. \A i : Render!Unmarked(i) <=> Line!Unmarked(i)
    BY DEF Render!Unmarked, Line!Unmarked
  <1>5. Line!StepsFitStatus => Render!StepsFitStatus
    BY <1>2, <1>4 DEF Line!StepsFitStatus, Render!StepsFitStatus, Line!Fits, Render!Fits,
       Line!Reached, Render!Reached
  <1>6. Line!WaitingIsInLine => Render!WaitingIsInLine
    BY DEF Line!WaitingIsInLine, Render!WaitingIsInLine
  <1> QED BY <1>1, <1>3, <1>5, <1>6 DEF Line!QueueInv, Render!QueueInv

(* The queue under the gate keeps its jobs in order, restarts included.     *)
THEOREM LineQueueInvAlways == LaunchSpec => []QueueKept
  <1>1. Line!LineInv => Line!QueueInv
    BY DEF Line!LineInv, Line!QueueInv
  <1>2. Line!QueueInv => QueueKept
    BY SameQueueInv DEF QueueKept
  <1> QED
    BY <1>1, <1>2, LineAlways, PTL

---------------------------------------------------------------------------
(* Who goes to the queue, or comes from it: launches only.                  *)
QueueBound(h) ==
  pc[h] \in {"enqueue", "lookup", "restore"} \/ (pc[h] = "commit" /\ answer[h] = "created")
OnlyLaunchesQueue == \A h \in Requests : QueueBound(h) => IsLaunch(h)

LEMMA OnlyLaunchesStep == GateInv /\ OnlyLaunchesQueue /\ [Next]_vars => OnlyLaunchesQueue'
  <1> SUFFICES ASSUME GateInv, OnlyLaunchesQueue, [Next]_vars PROVE OnlyLaunchesQueue'
    OBVIOUS
  <1>0. /\ pc \in [Requests -> Labels] /\ answer \in [Requests -> Answers]
        /\ req \in [Requests -> Request \cup {NoRequest}]
    BY DEF GateInv, TypeOK
  <1>1. ASSUME NEW h \in Requests, LoadDecision(h) \/ LoadLaunch(h) \/ Serve(h) \/ Abort(h)
        PROVE  OnlyLaunchesQueue'
    <2>1. ASSUME NEW g \in Requests, g # h PROVE (QueueBound(g) => IsLaunch(g))'
      BY <1>1, <2>1, OthersStay DEF OnlyLaunchesQueue, QueueBound, IsLaunch
    <2>2. (QueueBound(h) => IsLaunch(h))'
      <3> USE <1>0 DEF QueueBound, Goto, Refuse, Report, Write, IsLaunch
      <3>0. QueueBound(h) => IsLaunch(h)
        BY DEF OnlyLaunchesQueue
      <3>1. CASE LoadDecision(h) \/ LoadLaunch(h)
        BY <3>1 DEF LoadDecision, LoadLaunch
      <3>2. CASE CheckExpiry(h) \/ StampNow(h) \/ Recheck(h)
        BY <3>2 DEF CheckExpiry, StampNow, Recheck
      <3>3. CASE DecideUpdate(h) \/ ClaimUpdate(h) \/ Expire(h)
        BY <3>3 DEF DecideUpdate, ClaimUpdate, Expire
      <3>4. CASE RefreshDecision(h) \/ RefreshLaunch(h)
        BY <3>4 DEF RefreshDecision, RefreshLaunch
      <3>5. CASE Commit(h) \/ Abort(h)
        BY <3>0, <3>5 DEF Commit, Abort
      <3>6. CASE Enqueue(h) \/ Lookup(h) \/ Restore(h)
        BY <3>0, <3>6 DEF Enqueue, Lookup, Restore
      <3> QED BY <1>1, <3>1, <3>2, <3>3, <3>4, <3>5, <3>6 DEF Serve
    <2> QED BY <2>1, <2>2 DEF OnlyLaunchesQueue
  <1>2. CASE Restart
    BY <1>2 DEF Restart, OnlyLaunchesQueue, QueueBound
  <1>3. CASE NextJob \/ Tick \/ UNCHANGED vars \/ \E a \in Approvals : RequestApproval(a)
    BY <1>3 DEF NextJob, Tick, vars, RequestApproval, OnlyLaunchesQueue, QueueBound, IsLaunch
  <1> QED BY <1>1, <1>2, <1>3 DEF Next

(* Only launches get to the queue. *)
LEMMA OnlyLaunchesInvariant == Spec => []OnlyLaunchesQueue
  <1>1. Init => OnlyLaunchesQueue
    BY DEF Init, OnlyLaunchesQueue, QueueBound
  <1> QED
    BY <1>1, OnlyLaunchesStep, GateInvariant, PTL DEF Spec

(* An answered request does nothing more.                                   *)
LEMMA AnsweredStays ==
  ASSUME GateInv, [Next]_vars, NEW g \in Requests, pc[g] = "done"
  PROVE  pc'[g] = "done" /\ req'[g] = req[g]
  <1>1. ASSUME NEW h \in Requests, LoadDecision(h) \/ LoadLaunch(h) \/ Serve(h) \/ Abort(h)
        PROVE  pc'[g] = "done" /\ req'[g] = req[g]
    <2>1. pc[h] # "done"
      BY <1>1 DEF LoadDecision, LoadLaunch, Serve, Abort, CheckExpiry, StampNow, DecideUpdate,
           ClaimUpdate, RefreshDecision, RefreshLaunch, Recheck, Expire, Commit, Enqueue, Lookup,
           Restore
    <2> QED BY <1>1, <2>1, OthersStay
  <1>2. CASE Restart
    BY <1>2 DEF Restart
  <1>3. CASE NextJob \/ Tick \/ UNCHANGED vars \/ \E a \in Approvals : RequestApproval(a)
    BY <1>3 DEF NextJob, Tick, vars, RequestApproval
  <1> QED BY <1>1, <1>2, <1>3 DEF Next

(* Every object has a launch of its own, which has been answered.           *)
MadeBy(f) ==
  /\ \A i, k \in DOMAIN heap : f[i] = f[k] => i = k
  /\ \A i \in DOMAIN heap : pc[f[i]] = "done" /\ IsLaunch(f[i]) /\ JobId(f[i]) = heap[i].id
EachHasLauncher == \E f \in [DOMAIN heap -> Requests] : MadeBy(f)

LEMMA LauncherStep ==
  GateInv /\ OnlyLaunchesQueue /\ LaunchInv /\ EachHasLauncher /\ [LaunchNext]_launchVars
    => EachHasLauncher'
  <1> SUFFICES ASSUME GateInv, OnlyLaunchesQueue, LaunchInv, EachHasLauncher,
                      [LaunchNext]_launchVars
               PROVE  EachHasLauncher'
    OBVIOUS
  <1>1. PICK f \in [DOMAIN heap -> Requests] : MadeBy(f)
    BY DEF EachHasLauncher
  <1>2. \A i \in DOMAIN heap :
          pc'[f[i]] = "done" /\ IsLaunch(f[i])' /\ JobId(f[i])' = JobId(f[i])
    BY <1>1, AnsweredStays, LaunchStepIsGateStep DEF MadeBy, IsLaunch, JobId, Target
  <1>3. heap \in Seq(Render!Job) /\ Len(heap) \in Nat /\ DOMAIN heap = 1..Len(heap)
    BY DEF LaunchInv, HeapOK
  <1>4. ASSUME DOMAIN heap' = DOMAIN heap, \A i \in DOMAIN heap : heap'[i].id = heap[i].id
        PROVE  EachHasLauncher'
    <2>1. f \in [DOMAIN heap' -> Requests]
      BY <1>4
    <2>2. MadeBy(f)'
      BY <1>1, <1>2, <1>4 DEF MadeBy
    <2> QED BY <2>1, <2>2 DEF EachHasLauncher
  <1>5. ASSUME NEW h \in Requests, Hand(h) PROVE EachHasLauncher'
    <2>a. PICK n \in Nat : n = Len(heap) + 1
      BY <1>3
    <2>b. PICK g : g = [i \in 1..n |-> IF i = n THEN h ELSE f[i]]
      OBVIOUS
    <2>1. pc[h] \in {"enqueue", "restore"} /\ pc' = [pc EXCEPT ![h] = "done"] /\ req' = req
      BY <1>5 DEF Hand, Enqueue, Restore, Goto, Refuse
    <2>2. IsLaunch(h)
      BY <2>1 DEF OnlyLaunchesQueue, QueueBound
    <2>3. /\ DOMAIN heap' = 1..n /\ heap'[n].id = JobId(h)
          /\ \A i \in DOMAIN heap : heap'[i] = heap[i]
      BY <1>3, <1>5, <2>a DEF Hand, Render!Enqueue
    <2>4. pc'[h] = "done" /\ IsLaunch(h)' /\ JobId(h)' = JobId(h)
      BY <2>1, <2>2 DEF GateInv, TypeOK, IsLaunch, JobId, Target
    <2>5. \A i \in DOMAIN heap : f[i] # h
      BY <1>1, <2>1 DEF MadeBy
    <2>6. g \in [DOMAIN heap' -> Requests]
      BY <1>1, <1>3, <2>3, <2>a, <2>b
    <2>7. MadeBy(g)'
      <3>1. g[n] = h /\ \A i \in DOMAIN heap : g[i] = f[i] /\ i # n
        BY <1>3, <2>a, <2>b
      <3>2. \A i \in 1..n : i = n \/ i \in DOMAIN heap
        BY <1>3, <2>a
      <3>3. \A i, k \in 1..n : g[i] = g[k] => i = k
        BY <1>1, <2>5, <3>1, <3>2 DEF MadeBy
      <3>4. ASSUME NEW i \in 1..n
            PROVE  pc'[g[i]] = "done" /\ IsLaunch(g[i])' /\ JobId(g[i])' = heap'[i].id
        <4>1. CASE i = n
          BY <2>3, <2>4, <3>1, <4>1
        <4>2. CASE i \in DOMAIN heap
          BY <1>1, <1>2, <2>3, <3>1, <4>2 DEF MadeBy
        <4> QED BY <3>2, <4>1, <4>2
      <3> QED BY <2>3, <3>3, <3>4 DEF MadeBy
    <2> QED BY <2>6, <2>7 DEF EachHasLauncher
  <1>6. ASSUME NEW w \in Workers, Labour(w) PROVE EachHasLauncher'
    <2>1. HeapOK' /\ Len(heap') = Len(heap) /\ \A i \in DOMAIN heap : heap'[i].id = heap[i].id
      BY <1>6, WorkKeepsIds DEF Labour, LaunchInv
    <2>2. DOMAIN heap' = DOMAIN heap
      BY <1>3, <2>1 DEF HeapOK
    <2> QED BY <1>4, <2>1, <2>2
  <1>7. ASSUME Crash PROVE EachHasLauncher'
    <2>1. heap' = <<>> /\ DOMAIN heap' = {}
      BY <1>7 DEF Crash
    <2>2. [i \in {} |-> i] \in [DOMAIN heap' -> Requests] /\ MadeBy([i \in {} |-> i])'
      BY <2>1 DEF MadeBy
    <2> QED BY <2>2 DEF EachHasLauncher
  <1>8. ASSUME heap' = heap PROVE EachHasLauncher'
    BY <1>4, <1>8
  <1> QED
    BY <1>5, <1>6, <1>7, <1>8
    DEF LaunchNext, HandlerStep, World, Take, Render!NextJob, launchVars, workVars

LEMMA LauncherInvariant == LaunchSpec => [](EachHasLauncher /\ OnlyLaunchesQueue)
  <1>1. LaunchInit => EachHasLauncher
    <2> SUFFICES ASSUME LaunchInit PROVE EachHasLauncher
      OBVIOUS
    <2>1. heap = <<>> /\ DOMAIN heap = {}
      BY DEF LaunchInit, Render!Init
    <2>2. [i \in {} |-> i] \in [DOMAIN heap -> Requests] /\ MadeBy([i \in {} |-> i])
      BY <2>1 DEF MadeBy
    <2> QED BY <2>2 DEF EachHasLauncher
  <1> QED
    BY <1>1, LauncherStep, GateInvAlways, LaunchInvariant, LaunchIsGate, OnlyLaunchesInvariant,
       PTL DEF LaunchSpec

LEMMA Pair ==
  ASSUME NEW x, NEW y, x # y
  PROVE  Cardinality({x} \cup {y}) = 2
  <1>1. IsFiniteSet({x}) /\ Cardinality({x}) = 1
    BY FS_Singleton
  <1>2. Cardinality({x} \cup {y}) = IF y \in {x} THEN Cardinality({x}) ELSE Cardinality({x}) + 1
    BY <1>1, FS_AddElement, Zenon
  <1> QED BY <1>1, <1>2

(* An approval pays for one job: all objects made for it have one id, and   *)
(* there is a second one only when two requests shared an idempotency key.  *)
THEOREM OneJobPerApprovalAlways == LaunchSpec => []OneJobPerApproval
  <1>1. GateInv /\ LaunchInv /\ EachHasLauncher => OneJobPerApproval
    <2> SUFFICES ASSUME GateInv, LaunchInv, EachHasLauncher,
                        NEW i \in DOMAIN heap, NEW k \in DOMAIN heap,
                        heap[i].id[1] = heap[k].id[1], i # k
                 PROVE  /\ heap[i].id = heap[k].id
                        /\ Cardinality(Launchers(heap[i].id)) > 1
      BY DEF OneJobPerApproval
    <2>1. heap[i].id = heap[k].id
      BY DEF LaunchInv, WorkIsCommitted
    <2>2. PICK f \in [DOMAIN heap -> Requests] : MadeBy(f)
      BY DEF EachHasLauncher
    <2> DEFINE L == Launchers(heap[i].id)
    <2>3. f[i] \in L /\ f[k] \in L /\ f[i] # f[k]
      <3>1. \A j \in DOMAIN heap : req[f[j]] \in Request
        BY <2>2 DEF MadeBy, GateInv, TypeOK
      <3> QED BY <2>1, <2>2, <3>1, ConstantsAssumption DEF MadeBy, Launchers
    <2>4. IsFiniteSet(L) /\ Cardinality(L) \in Nat
      <3>1. L \in SUBSET Requests
        BY DEF Launchers
      <3>2. IsFiniteSet(L)
        BY <3>1, LaunchAssumption, FS_Subset
      <3> QED BY <3>2, FS_CardinalityType
    <2>6. Cardinality({f[i]} \cup {f[k]}) = 2
      BY <2>3, Pair
    <2>7. Cardinality({f[i]} \cup {f[k]}) <= Cardinality(L)
      <3>1. {f[i]} \cup {f[k]} \in SUBSET L
        BY <2>3
      <3> HIDE DEF L
      <3> QED BY <2>4, <3>1, FS_Subset
    <2> QED BY <2>1, <2>4, <2>6, <2>7
  <1> QED
    BY <1>1, GateInvAlways, LaunchInvariant, LauncherInvariant, PTL

(* The bound on objects never keeps a launch from the queue: whoever is on  *)
(* his way there finds room, so the composition leaves out no launch of the *)
(* gate.                                                                    *)
RoomForLaunches ==
  \A h \in Requests : pc[h] \in {"enqueue", "restore"} => Len(heap) < Cardinality(Requests)

THEOREM BoundNeverBites == LaunchSpec => []RoomForLaunches
  <1>1. LaunchInv /\ EachHasLauncher => RoomForLaunches
    <2> SUFFICES ASSUME LaunchInv, EachHasLauncher, NEW h \in Requests,
                        pc[h] \in {"enqueue", "restore"}
                 PROVE  Len(heap) < Cardinality(Requests)
      BY DEF RoomForLaunches
    <2>1. PICK f \in [DOMAIN heap -> Requests] : MadeBy(f)
      BY DEF EachHasLauncher
    <2>2. Len(heap) \in Nat /\ DOMAIN heap = 1..Len(heap)
      BY DEF LaunchInv, HeapOK
    <2> DEFINE Others == Requests \ {h}
    <2>3. f \in Injection(1..Len(heap), Others)
      BY <2>1, <2>2 DEF MadeBy, Injection, IsInjective
    <2>4. /\ IsFiniteSet(Others) /\ Cardinality(Requests) \in Nat
          /\ Cardinality(Others) = Cardinality(Requests) - 1
      BY LaunchAssumption, FS_RemoveElement, FS_CardinalityType
    <2>5. Cardinality(1..Len(heap)) = Len(heap)
      <3>1. Cardinality(1..Len(heap)) = IF 1 > Len(heap) THEN 0 ELSE Len(heap) - 1 + 1
        BY <2>2, FS_Interval
      <3> QED BY <2>2, <3>1
    <2>6. Cardinality(1..Len(heap)) <= Cardinality(Others)
      <3> HIDE DEF Others
      <3> QED BY <2>3, <2>4, FS_Injection
    <2> QED BY <2>2, <2>4, <2>5, <2>6
  <1> QED
    BY <1>1, LaunchInvariant, LauncherInvariant, PTL

===============================================================================
