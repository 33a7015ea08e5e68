------------------------------ MODULE RenderLaunch ------------------------------
(***************************************************************************)
(* From an approval to finished work: the gate of ApprovalGate and the     *)
(* queue and workers of RenderQueue over one InMemoryRenderQueue, the      *)
(* module-level render_queue of backend/app/workers/queue.py. A call of    *)
(* enqueue or next_job is one step of both; the workers' threads and the   *)
(* RenderJob objects live and die with the process.                        *)
(***************************************************************************)
EXTENDS ApprovalGate

CONSTANTS
  NSteps,   \* steps of a job
  Workers   \* threads that serve the queue

ASSUME LaunchAssumption ==
  /\ NSteps \in Nat
  /\ IsFiniteSet(Requests)

VARIABLES
  heap,   \* the RenderJob objects of this process
  entry,  \* _jobs: the object of each id
  at,     \* where each worker is
  held,   \* the object it works on
  step    \* the step it has reached

(* A request enqueues at most once, so the bound on objects never bites.   *)
Render == INSTANCE RenderQueue WITH
  MaxObjects <- Cardinality(Requests), fifo <- queue, pc <- at

workVars == <<heap, entry, at, held, step>>
launchVars == <<vars, workVars>>

LaunchInit == Init /\ Render!Init

(* The two calls of enqueue: after the claim's commit, and on a replay.    *)
Hand(h) == (Enqueue(h) \/ Restore(h)) /\ Render!Enqueue(JobId(h))

Take(w) == NextJob /\ Render!NextJob(w)

Labour(w) == Render!Work(w) /\ UNCHANGED vars

(* The steps of a handler that do not touch the queue, or only read it.    *)
HandlerStep(h) ==
  /\ \/ LoadDecision(h) \/ LoadLaunch(h) \/ CheckExpiry(h) \/ StampNow(h)
     \/ DecideUpdate(h) \/ ClaimUpdate(h) \/ RefreshDecision(h) \/ RefreshLaunch(h)
     \/ Recheck(h) \/ Expire(h) \/ Commit(h) \/ Abort(h) \/ Lookup(h)
  /\ UNCHANGED workVars

World == (Tick \/ \E a \in Approvals : RequestApproval(a)) /\ UNCHANGED workVars

(* The process restarts: a new queue, no objects, no worker holds a job.   *)
Crash ==
  /\ Restart
  /\ heap' = <<>>
  /\ entry' = [j \in Jobs |-> 0]
  /\ at' = [w \in Workers |-> "idle"]
  /\ held' = [w \in Workers |-> 0]
  /\ step' = [w \in Workers |-> 0]

LaunchNext ==
  \/ \E h \in Requests : Hand(h) \/ HandlerStep(h)
  \/ \E w \in Workers : Take(w) \/ Labour(w)
  \/ World
  \/ Crash

LaunchSpec == LaunchInit /\ [][LaunchNext]_launchVars

---------------------------------------------------------------------------
(* No work without approval, end to end: what is in memory or in a worker's *)
(* hands is the committed job of its approval, and that approval's events   *)
(* say that a person granted it before they say that it was used. A launch  *)
(* passes through a commit, two looks at the queue and a worker to get here.*)
GrantedThenUsed(j) ==
  LET log == events[j[1]]
  IN \E i, k \in DOMAIN log :
       /\ i < k
       /\ log[i] = ResolvedEvent("approved")
       /\ log[k] = [type |-> "tool.result", value |-> j]
WorkIsCommitted ==
  /\ \A i \in DOMAIN heap : row[heap[i].id[1]].job = heap[i].id
  /\ \A w \in Workers : held[w] \in 0..Len(heap)
WorkIsGranted ==
  WorkIsCommitted /\ \A i \in DOMAIN heap : GrantedThenUsed(heap[i].id)

(* An approval pays for one job: all objects made for it have one id, and   *)
(* there is a second one only when two requests shared an idempotency key.  *)
Launchers(j) == {h \in Requests : req[h] # NoRequest /\ IsLaunch(h) /\ JobId(h) = j}
OneJobPerApproval ==
  \A i, k \in DOMAIN heap :
    heap[i].id[1] = heap[k].id[1] /\ i # k =>
      heap[i].id = heap[k].id /\ Cardinality(Launchers(heap[i].id)) > 1

(* Gate and workers see one queue: what a replay finds known has an object  *)
(* that is waiting in line, in a worker's hands or ended, so no launch is   *)
(* answered as replayed for a job that nobody will run.                     *)
Settled(j) == heap[entry[j]].status \in {"succeeded", "failed"}
AnsweredWorkExists ==
  /\ jobs = {j \in Jobs : entry[j] # 0}
  /\ \A j \in jobs :
       \/ Settled(j)
       \/ \E i \in DOMAIN queue : queue[i] = j
       \/ \E w \in Workers : held[w] = entry[j]

(* The queue that the gate fills, twice with one id at times and lost with  *)
(* the process, is kept in order: a job that was enqueued once has one      *)
(* worker and steps that fit its status, and a job that waits is in line or *)
(* in a worker's hands, whichever of its objects another one replaced.      *)
QueueKept == Render!QueueInv

===============================================================================
