------------------------------ MODULE ApprovalGate ------------------------------
(***************************************************************************)
(* The approval gate of the Factory Agent: the handlers of                 *)
(* backend/app/api/v1/agent_sessions.py that request, approve, reject and  *)
(* use an approval, over the agent_approvals and agent_events tables and   *)
(* the in-memory render queue.                                             *)
(*                                                                         *)
(* A request is served by one thread with a database session of its own.   *)
(* Its steps are the statements at which another thread can intervene: a   *)
(* SELECT, an UPDATE, a COMMIT, a reading of the wall clock, a call on the *)
(* queue. The database is PostgreSQL at READ COMMITTED: a SELECT sees the  *)
(* last committed row; an UPDATE passes by a row whose committed version   *)
(* does not satisfy its WHERE clause, and otherwise waits for the row lock *)
(* and keeps it until COMMIT.                                              *)
(***************************************************************************)
EXTENDS Naturals, Sequences, FiniteSets

CONSTANTS
  Requests,     \* HTTP requests (each runs once, on a thread of its own)
  Approvals,    \* primary keys of agent_approvals
  Keys,         \* idempotency keys the clients use
  NoKey,        \* a launch without an idempotency key
  NoJob,        \* render_job_id IS NULL
  NoRequest,    \* what a thread holds before its request arrives
  Nobody,       \* the row lock is free
  TTLs,         \* values of expires_in_seconds, in clock ticks
  MaxClock,     \* bound: ticks of the wall clock
  MaxRestarts   \* bound: restarts of the API process

(* uuid5 of the session, approval, episode and key, or a fresh uuid4: two  *)
(* launches of one approval share a job id exactly when they share a key.  *)
Jobs == Approvals \X (Keys \cup Requests)

Statuses == {"absent", "pending", "approved", "rejected", "expired"}

(* The columns of agent_approvals that a guard or a property reads; the    *)
(* status "absent" stands for a row that was never inserted.               *)
Row == [status: Statuses, job: Jobs \cup {NoJob}, expires: Nat]
NoRow == [status |-> "absent", job |-> NoJob, expires |-> 0]

(* A request: approve, reject or launch, with what the payload names. Only *)
(* a launch has a key, and an episode that may differ from the approval's. *)
Decisions == {"approve", "reject"}
Request ==
  [kind: Decisions, approval: Approvals, key: {NoKey}, sameEpisode: {TRUE}]
    \cup
  [kind: {"launch"}, approval: Approvals, key: Keys \cup {NoKey}, sameEpisode: BOOLEAN]

Answers ==
  {"none", "decided", "created", "replayed", "not_found", "already_resolved",
   "approval_mismatch", "approval_required", "approval_expired", "approval_consumed"}

EventTypes ==
  {"approval.required", "approval.resolved", "error", "tool.started", "tool.result", "done"}
Event == [type: EventTypes, value: Statuses \cup Answers \cup Jobs]

ASSUME ConstantsAssumption ==
  /\ Keys \cap Requests = {}
  /\ NoKey \notin Keys \cup Requests
  /\ NoJob \notin Jobs
  /\ NoRequest \notin Request
  /\ Nobody \notin Requests
  /\ TTLs \subseteq Nat
  /\ MaxClock \in Nat
  /\ MaxRestarts \in Nat

VARIABLES
  clock,     \* datetime.now(timezone.utc), taken to be monotone
  restarts,  \* restarts of the API process so far
  row,       \* agent_approvals, committed
  events,    \* agent_events about an approval, committed, in order
  lock,      \* the request whose transaction holds the row lock
  queue,     \* InMemoryRenderQueue._queue
  jobs,      \* keys of InMemoryRenderQueue._jobs
  pc,        \* where each request is
  req,       \* what it asks
  seen,      \* its ORM copy of the approval
  now,       \* the time it bound into its conditional UPDATE
  draft,     \* the row version its open transaction has written
  outbox,    \* the agent_events rows its open transaction has inserted
  answer     \* the response it will give; given when pc is "done"

dbVars == <<row, events, lock>>
queueVars == <<queue, jobs>>
txnVars == <<draft, outbox>>
vars == <<clock, restarts, row, events, lock, queue, jobs,
          pc, req, seen, now, draft, outbox, answer>>

Labels == {"idle", "check", "stamp", "update", "refresh", "recheck", "expire",
           "commit", "enqueue", "lookup", "restore", "done", "dead"}

Target(h) == req[h].approval
IsLaunch(h) == req[h].kind = "launch"
JobId(h) == <<Target(h), IF req[h].key = NoKey THEN h ELSE req[h].key>>

(* Mutant: the boundary instant still counts as valid. *)
IsExpiredLate(t, r) == t > r.expires

(* AgentApprovalRepository.is_expired *)
IsExpired(t, r) == t >= r.expires

Verdict(h) == IF req[h].kind = "approve" THEN "approved" ELSE "rejected"

ResolvedEvent(status) == [type |-> "approval.resolved", value |-> status]
ErrorEvent(code) == [type |-> "error", value |-> code]
LaunchEvents(j) ==
  <<[type |-> "tool.started", value |-> j],
    [type |-> "tool.result", value |-> j],
    [type |-> "done", value |-> j]>>

---------------------------------------------------------------------------
Init ==
  /\ clock = 0
  /\ restarts = 0
  /\ row = [a \in Approvals |-> NoRow]
  /\ events = [a \in Approvals |-> <<>>]
  /\ lock = [a \in Approvals |-> Nobody]
  /\ queue = <<>>
  /\ jobs = {}
  /\ pc = [h \in Requests |-> "idle"]
  /\ req = [h \in Requests |-> NoRequest]
  /\ seen = [h \in Requests |-> NoRow]
  /\ now = [h \in Requests |-> 0]
  /\ draft = [h \in Requests |-> NoRow]
  /\ outbox = [h \in Requests |-> <<>>]
  /\ answer = [h \in Requests |-> "none"]

Goto(h, label) == pc' = [pc EXCEPT ![h] = label]

(* An HTTPException raised with nothing written: the session rolls back.   *)
Refuse(h, code) ==
  /\ Goto(h, "done")
  /\ answer' = [answer EXCEPT ![h] = code]

(* The transaction writes version r of its row, which it locks, and the    *)
(* events evs; it has only to commit.                                      *)
Write(h, r, evs, code) ==
  /\ lock[Target(h)] = Nobody
  /\ lock' = [lock EXCEPT ![Target(h)] = h]
  /\ draft' = [draft EXCEPT ![h] = r]
  /\ outbox' = [outbox EXCEPT ![h] = evs]
  /\ answer' = [answer EXCEPT ![h] = code]
  /\ Goto(h, "commit")

(* _emit_error then commit: only an event is inserted, no row is locked.   *)
Report(h, code) ==
  /\ outbox' = [outbox EXCEPT ![h] = <<ErrorEvent(code)>>]
  /\ answer' = [answer EXCEPT ![h] = code]
  /\ Goto(h, "commit")

---------------------------------------------------------------------------
(* request_create_render_job_approval: its INSERTs are invisible to others *)
(* until its only COMMIT, so the whole handler is one step.                *)
RequestApproval(a) ==
  /\ row[a].status = "absent"
  /\ \E ttl \in TTLs :
       row' = [row EXCEPT ![a] = [status |-> "pending", job |-> NoJob, expires |-> clock + ttl]]
  /\ events' = [events EXCEPT
       ![a] = Append(@, [type |-> "approval.required", value |-> "pending"])]
  /\ UNCHANGED <<clock, restarts, lock, queue, jobs, pc, req, seen, now, draft, outbox, answer>>

(* A decision request arrives; get_for_session and the test of the status. *)
LoadDecision(h) ==
  /\ pc[h] = "idle"
  /\ \E r \in Request :
       /\ r.kind \in Decisions
       /\ req' = [req EXCEPT ![h] = r]
       /\ seen' = [seen EXCEPT ![h] = row[r.approval]]
       /\ LET status == row[r.approval].status
          IN \/ status = "absent" /\ Refuse(h, "not_found")
             \/ status \notin {"absent", "pending"} /\ Refuse(h, "already_resolved")
             \/ status = "pending" /\ Goto(h, "check") /\ UNCHANGED answer
  /\ UNCHANGED <<clock, restarts, row, events, lock, queue, jobs, now, draft, outbox>>

(* A launch request arrives; get_for_session, then the episode, then the   *)
(* status is tested, on one reading of the row.                            *)
LoadLaunch(h) ==
  /\ pc[h] = "idle"
  /\ \E r \in Request :
       /\ r.kind = "launch"
       /\ req' = [req EXCEPT ![h] = r]
       /\ seen' = [seen EXCEPT ![h] = row[r.approval]]
       /\ LET status == row[r.approval].status
          IN \/ status = "absent" /\ Refuse(h, "not_found") /\ UNCHANGED outbox
             \/ status # "absent" /\ ~r.sameEpisode /\ Report(h, "approval_mismatch")
             \/ status \notin {"absent", "approved"} /\ r.sameEpisode
                  /\ Report(h, "approval_required")
             \/ status = "approved" /\ r.sameEpisode /\ Goto(h, "check")
                  /\ UNCHANGED <<outbox, answer>>
  /\ UNCHANGED <<clock, restarts, row, events, lock, queue, jobs, now, draft>>

(* is_expired on the loaded copy, before the conditional UPDATE.           *)
CheckExpiry(h) ==
  /\ pc[h] = "check"
  /\ Goto(h, IF IsExpired(clock, seen[h]) THEN "expire" ELSE "stamp")
  /\ UNCHANGED <<clock, restarts, dbVars, queueVars, req, seen, now, txnVars, answer>>

(* decide and claim_render_job read the clock, and only then send the      *)
(* UPDATE, which may wait for the row lock with that reading bound to it.  *)
StampNow(h) ==
  /\ pc[h] = "stamp"
  /\ now' = [now EXCEPT ![h] = clock]
  /\ Goto(h, "update")
  /\ UNCHANGED <<clock, restarts, dbVars, queueVars, req, seen, txnVars, answer>>

(* Mutant: the WHERE clause loses its test of the status. *)
DecideMatchesAnyStatus(h) == row[Target(h)].expires > now[h]

(* decide: UPDATE ... WHERE status = 'pending' AND expires_at > now.       *)
DecideMatches(h) ==
  LET r == row[Target(h)] IN r.status = "pending" /\ r.expires > now[h]

DecideUpdate(h) ==
  /\ pc[h] = "update" /\ ~IsLaunch(h)
  /\ \/ /\ DecideMatches(h)
        /\ Write(h, [row[Target(h)] EXCEPT !.status = Verdict(h)],
                 <<ResolvedEvent(Verdict(h))>>, "decided")
     \/ /\ ~DecideMatches(h)
        /\ Goto(h, "refresh")
        /\ UNCHANGED <<lock, txnVars, answer>>
  /\ UNCHANGED <<clock, restarts, row, events, queueVars, req, seen, now>>

(* Mutant: the WHERE clause loses render_job_id IS NULL. *)
ClaimMatchesUsed(h) ==
  LET r == row[Target(h)] IN r.status = "approved" /\ r.expires > now[h]

(* claim_render_job: UPDATE ... WHERE status = 'approved' AND              *)
(* render_job_id IS NULL AND expires_at > now; then the launch's events.   *)
ClaimMatches(h) ==
  LET r == row[Target(h)]
  IN r.status = "approved" /\ r.job = NoJob /\ r.expires > now[h]

ClaimUpdate(h) ==
  /\ pc[h] = "update" /\ IsLaunch(h)
  /\ \/ /\ ClaimMatches(h)
        /\ Write(h, [row[Target(h)] EXCEPT !.job = JobId(h)],
                 LaunchEvents(JobId(h)), "created")
     \/ /\ ~ClaimMatches(h)
        /\ Goto(h, "refresh")
        /\ UNCHANGED <<lock, txnVars, answer>>
  /\ UNCHANGED <<clock, restarts, row, events, queueVars, req, seen, now>>

(* A decision's UPDATE matched no row: refresh, and expire it if pending.  *)
RefreshDecision(h) ==
  /\ pc[h] = "refresh" /\ ~IsLaunch(h)
  /\ LET r == row[Target(h)]
     IN /\ seen' = [seen EXCEPT ![h] = r]
        /\ \/ r.status # "pending" /\ Refuse(h, "already_resolved")
           \/ r.status = "pending" /\ Goto(h, "expire") /\ UNCHANGED answer
  /\ UNCHANGED <<clock, restarts, dbVars, queueVars, req, now, txnVars>>

(* Mutant: any launch with a key passes for a replay. *)
IsReplayAnyKey(h, r) == req[h].key # NoKey

IsReplay(h, r) == req[h].key # NoKey /\ r.job = JobId(h)

(* A claim matched no row: refresh, then a replay, a conflict or, if there *)
(* is no job yet, another look at the clock.                               *)
RefreshLaunch(h) ==
  /\ pc[h] = "refresh" /\ IsLaunch(h)
  /\ LET r == row[Target(h)]
     IN /\ seen' = [seen EXCEPT ![h] = r]
        /\ \/ r.job # NoJob /\ IsReplay(h, r) /\ Goto(h, "lookup") /\ UNCHANGED <<outbox, answer>>
           \/ r.job # NoJob /\ ~IsReplay(h, r) /\ Report(h, "approval_consumed")
           \/ r.job = NoJob /\ Goto(h, "recheck") /\ UNCHANGED <<outbox, answer>>
  /\ UNCHANGED <<clock, restarts, dbVars, queueVars, req, now, draft>>

(* The second is_expired of a launch. Its ELSE branch is in the code.      *)
Recheck(h) ==
  /\ pc[h] = "recheck"
  /\ IF IsExpired(clock, seen[h])
       THEN Goto(h, "expire") /\ UNCHANGED <<outbox, answer>>
       ELSE Report(h, "approval_required")
  /\ UNCHANGED <<clock, restarts, dbVars, queueVars, req, seen, now, draft>>

(* expire: an ORM flush, UPDATE ... SET status = 'expired' WHERE id = pk.  *)
(* No other condition: whatever the row has become, it is overwritten.     *)
Expire(h) ==
  /\ pc[h] = "expire"
  /\ Write(h, [row[Target(h)] EXCEPT !.status = "expired"],
           IF IsLaunch(h) THEN <<ResolvedEvent("expired"), ErrorEvent("approval_expired")>>
                          ELSE <<ResolvedEvent("expired")>>,
           "approval_expired")
  /\ UNCHANGED <<clock, restarts, row, events, queueVars, req, seen, now>>

(* COMMIT: the transaction's row version and events become visible, its    *)
(* lock is released. A launch goes on to the queue, the rest answer.       *)
Commit(h) ==
  /\ pc[h] = "commit"
  /\ LET a == Target(h)
     IN /\ row' = IF lock[a] = h THEN [row EXCEPT ![a] = draft[h]] ELSE row
        /\ lock' = IF lock[a] = h THEN [lock EXCEPT ![a] = Nobody] ELSE lock
        /\ events' = [events EXCEPT ![a] = @ \o outbox[h]]
  /\ draft' = [draft EXCEPT ![h] = NoRow]
  /\ outbox' = [outbox EXCEPT ![h] = <<>>]
  /\ Goto(h, IF answer[h] = "created" THEN "enqueue" ELSE "done")
  /\ UNCHANGED <<clock, restarts, queueVars, req, seen, now, answer>>

(* Mutant: the error is swallowed and the launch goes on to the queue. *)
AbortSwallowed(h) ==
  /\ pc[h] = "commit"
  /\ lock' = [a \in Approvals |-> IF lock[a] = h THEN Nobody ELSE lock[a]]
  /\ draft' = [draft EXCEPT ![h] = NoRow]
  /\ outbox' = [outbox EXCEPT ![h] = <<>>]
  /\ Goto(h, IF answer[h] = "created" THEN "enqueue" ELSE "done")
  /\ UNCHANGED <<clock, restarts, row, events, queueVars, req, seen, now, answer>>

(* Mutant: the events were inserted by a transaction of their own. *)
AbortKeepsEvents(h) ==
  /\ pc[h] = "commit"
  /\ lock' = [a \in Approvals |-> IF lock[a] = h THEN Nobody ELSE lock[a]]
  /\ events' = [events EXCEPT ![Target(h)] = @ \o outbox[h]]
  /\ draft' = [draft EXCEPT ![h] = NoRow]
  /\ outbox' = [outbox EXCEPT ![h] = <<>>]
  /\ Goto(h, "dead")
  /\ UNCHANGED <<clock, restarts, row, queueVars, req, seen, now, answer>>

(* Mutant: the session is not closed, so its lock is never released. *)
AbortLeaksLock(h) ==
  /\ pc[h] = "commit"
  /\ Goto(h, "dead")
  /\ UNCHANGED <<clock, restarts, dbVars, queueVars, req, seen, now, txnVars, answer>>

(* An INSERT or the COMMIT raises: get_db_session closes the session, which *)
(* rolls the transaction back, and the client gets a server error.         *)
Abort(h) ==
  /\ pc[h] = "commit"
  /\ lock' = [a \in Approvals |-> IF lock[a] = h THEN Nobody ELSE lock[a]]
  /\ draft' = [draft EXCEPT ![h] = NoRow]
  /\ outbox' = [outbox EXCEPT ![h] = <<>>]
  /\ Goto(h, "dead")
  /\ UNCHANGED <<clock, restarts, row, events, queueVars, req, seen, now, answer>>

(* InMemoryRenderQueue.enqueue: one critical section of the queue's lock.  *)
Push(j) ==
  /\ jobs' = jobs \cup {j}
  /\ queue' = Append(queue, j)

(* The claimed job reaches the queue only after the commit.                *)
Enqueue(h) ==
  /\ pc[h] = "enqueue"
  /\ Push(JobId(h))
  /\ Goto(h, "done")
  /\ UNCHANGED <<clock, restarts, dbVars, req, seen, now, txnVars, answer>>

(* A replay looks its job up, and restores it in a later critical section. *)
Lookup(h) ==
  /\ pc[h] = "lookup"
  /\ IF JobId(h) \in jobs THEN Refuse(h, "replayed")
                          ELSE Goto(h, "restore") /\ UNCHANGED answer
  /\ UNCHANGED <<clock, restarts, dbVars, queueVars, req, seen, now, txnVars>>

Restore(h) ==
  /\ pc[h] = "restore"
  /\ Push(JobId(h))
  /\ Refuse(h, "replayed")
  /\ UNCHANGED <<clock, restarts, dbVars, req, seen, now, txnVars>>

---------------------------------------------------------------------------
(* InMemoryRenderQueue.next_job: the id leaves the deque, the job stays in *)
(* _jobs.                                                                  *)
NextJob ==
  /\ queue # <<>>
  /\ queue' = Tail(queue)
  /\ UNCHANGED <<clock, restarts, dbVars, jobs, pc, req, seen, now, txnVars, answer>>

Tick ==
  /\ clock < MaxClock
  /\ clock' = clock + 1
  /\ UNCHANGED <<restarts, dbVars, queueVars, pc, req, seen, now, txnVars, answer>>

(* The API process stops and starts again: open transactions roll back,    *)
(* requests in flight get no answer, the queue is a new, empty object.     *)
Restart ==
  /\ restarts < MaxRestarts
  /\ restarts' = restarts + 1
  /\ pc' = [h \in Requests |-> IF pc[h] \in {"idle", "done"} THEN pc[h] ELSE "dead"]
  /\ lock' = [a \in Approvals |-> Nobody]
  /\ draft' = [h \in Requests |-> NoRow]
  /\ outbox' = [h \in Requests |-> <<>>]
  /\ queue' = <<>>
  /\ jobs' = {}
  /\ UNCHANGED <<clock, row, events, req, seen, now, answer>>

Serve(h) ==
  \/ CheckExpiry(h) \/ StampNow(h)
  \/ DecideUpdate(h) \/ ClaimUpdate(h)
  \/ RefreshDecision(h) \/ RefreshLaunch(h)
  \/ Recheck(h) \/ Expire(h) \/ Commit(h)
  \/ Enqueue(h) \/ Lookup(h) \/ Restore(h)

Next ==
  \/ \E a \in Approvals : RequestApproval(a)
  \/ \E h \in Requests : LoadDecision(h) \/ LoadLaunch(h) \/ Serve(h) \/ Abort(h)
  \/ NextJob
  \/ Tick
  \/ Restart

Spec == Init /\ [][Next]_vars

(* The threadpool runs every handler it has started, and PostgreSQL grants *)
(* a row lock to its waiters in order, so a started request takes its next *)
(* step. Clients, the clock, workers and restarts owe nothing.             *)
FairSpec == Spec /\ \A h \in Requests : WF_vars(Serve(h))

---------------------------------------------------------------------------
(* The state space: every variable holds what the code can put there.      *)
TypeOK ==
  /\ clock \in 0..MaxClock
  /\ restarts \in 0..MaxRestarts
  /\ row \in [Approvals -> Row]
  /\ events \in [Approvals -> Seq(Event)]
  /\ lock \in [Approvals -> Requests \cup {Nobody}]
  /\ queue \in Seq(Jobs)
  /\ jobs \subseteq Jobs
  /\ pc \in [Requests -> Labels]
  /\ req \in [Requests -> Request \cup {NoRequest}]
  /\ \A h \in Requests : pc[h] = "idle" \/ req[h] \in Request
  /\ seen \in [Requests -> Row]
  /\ now \in [Requests -> Nat]
  /\ draft \in [Requests -> Row]
  /\ outbox \in [Requests -> Seq(Event)]
  /\ answer \in [Requests -> Answers]

Answered(h) == pc[h] = "done"
Launched(h) == Answered(h) /\ answer[h] \in {"created", "replayed"}
Recorded(a, type, value) ==
  \E i \in DOMAIN events[a] : events[a][i].type = type /\ events[a][i].value = value

(* Whatever the render queue holds was launched with an approval: its job  *)
(* is the committed render_job_id of the approval it names. The enqueue of *)
(* line 408 comes after the commit of line 407 for this.                   *)
QueueServesClaims ==
  \A j \in jobs \cup {queue[i] : i \in DOMAIN queue} : row[j[1]].job = j

(* Every client that was told its launch succeeded was told the one job of *)
(* its approval, whatever raced with it and however often it was replayed. *)
LaunchesAgree ==
  \A h \in Requests : Launched(h) => row[Target(h)].job = JobId(h)

(* Two clients never both learn that they decided one approval.            *)
HasDecided(h) == Answered(h) /\ answer[h] = "decided"
DecidedOnce ==
  \A g, h \in Requests :
    HasDecided(g) /\ HasDecided(h) /\ Target(g) = Target(h) => g = h

(* What clients were told of one approval agrees: one decision, one job.   *)
ClientsAgree == DecidedOnce /\ LaunchesAgree

(* The audit trail and the claim commit together: an approval is used for  *)
(* a job exactly when its events say so, and they name no other job.       *)
LaunchAudited ==
  \A a \in Approvals, j \in Jobs : (row[a].job = j) <=> Recorded(a, "tool.result", j)

(* A launch that lost its claim and finds no job is looking at an approval *)
(* whose time is over, so the approval_required answer at the end of       *)
(* create_render_job is dead code while the clock does not run backwards.  *)
LostClaimIsExpired ==
  \A h \in Requests : pc[h] = "recheck" => IsExpired(clock, seen[h])

(* The render_job_id of an approval is written once and never changes.     *)
ClaimIsFinal ==
  [][\A a \in Approvals : row[a].job # NoJob => row'[a].job = row[a].job]_vars

(* An approval is decided from pending only, and nothing leaves expired:   *)
(* a late decision never revives a rejected or an expired approval.        *)
StatusMoves ==
  {<<"absent", "pending">>, <<"pending", "approved">>, <<"pending", "rejected">>,
   <<"pending", "expired">>, <<"approved", "expired">>, <<"rejected", "expired">>}
NoRevival ==
  [][\A a \in Approvals :
       row'[a].status # row[a].status => <<row[a].status, row'[a].status>> \in StatusMoves]_vars

(* Every request that was started is answered, or ends with the process or *)
(* with an error: no handler waits for a row lock for ever.                *)
EveryRequestAnswered ==
  \A h \in Requests : pc[h] # "idle" ~> pc[h] \in {"done", "dead"}

(* The gate keeps the promise of ApprovalContract: what it knows of each   *)
(* approval, of the queue and of the clients moves only as that module     *)
(* allows.                                                                 *)
RowStatus == [a \in Approvals |-> row[a].status]
RowJob == [a \in Approvals |-> row[a].job]
Told == {JobId(h) : h \in {g \in Requests : Launched(g)}}
Contract == INSTANCE ApprovalContract WITH
  status <- RowStatus, job <- RowJob, handed <- jobs, told <- Told
KeepsContract == Contract!Spec

---------------------------------------------------------------------------
(* Why the properties hold: how a handler's private state relates to the   *)
(* committed row at each of its steps.                                     *)

(* A row lock is held by a request for that row with its writes to commit. *)
LockHeld ==
  \A a \in Approvals, h \in Requests :
    lock[a] = h => pc[h] = "commit" /\ Target(h) = a

(* What an open transaction has written is the committed row, which its    *)
(* lock has kept as it was, changed in the one way its answer stands for.  *)
DraftFollowsRow ==
  \A a \in Approvals, h \in Requests :
    lock[a] = h =>
      \/ /\ answer[h] = "decided"
         /\ row[a].status = "pending"
         /\ draft[h] = [row[a] EXCEPT !.status = Verdict(h)]
      \/ /\ answer[h] = "created"
         /\ row[a].status = "approved" /\ row[a].job = NoJob
         /\ draft[h] = [row[a] EXCEPT !.job = JobId(h)]
      \/ /\ answer[h] = "approval_expired"
         /\ row[a].status # "absent"
         /\ draft[h] = [row[a] EXCEPT !.status = "expired"]

(* A handler past its first SELECT works on a row that exists; one that    *)
(* has not settled its answer has none; a claim commits under the lock.    *)
InProgress(h) ==
  /\ pc[h] \in {"check", "stamp", "update", "refresh", "recheck", "expire"} =>
       row[Target(h)].status # "absent"
  /\ pc[h] \notin {"commit", "enqueue", "done", "dead"} => answer[h] = "none"
  /\ pc[h] = "commit" /\ answer[h] = "created" => lock[Target(h)] = h
  /\ pc[h] = "commit" => answer[h] # "replayed"
  /\ pc[h] = "enqueue" => answer[h] = "created"
HandlersInProgress == \A h \in Requests : InProgress(h)

(* A handler on its way to the queue, or back from it, has its job in the  *)
(* committed row.                                                          *)
HasClaimed(h) ==
  pc[h] \in {"enqueue", "lookup", "restore"} \/ Launched(h) => row[Target(h)].job = JobId(h)
QueuersHaveClaimed == \A h \in Requests : HasClaimed(h)

(* A row that was never inserted holds nothing. *)
NothingBeforeInsert ==
  \A a \in Approvals : row[a].status = "absent" => row[a] = NoRow

(* The inductive invariant: types, row locks and drafts, handlers between  *)
(* their steps, and the queue that only ever held committed claims.        *)
GateInv ==
  /\ TypeOK
  /\ NothingBeforeInsert
  /\ LockHeld
  /\ DraftFollowsRow
  /\ HandlersInProgress
  /\ QueuersHaveClaimed
  /\ QueueServesClaims

---------------------------------------------------------------------------
(* What the repository's documents say, and the code does not keep.        *)

(* docs/agent-operational-hardening.md:48: the launch is atomic and a      *)
(* replay only restores a missing entry, so no job is queued twice.        *)
QueuedOnce ==
  \A i, k \in DOMAIN queue : queue[i] = queue[k] => i = k

===============================================================================
