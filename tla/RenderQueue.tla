------------------------------- MODULE RenderQueue -------------------------------
(***************************************************************************)
(* The in-memory render queue (backend/app/workers/queue.py) and what a    *)
(* worker does with a job it takes from it (workers/tasks/                 *)
(* render_pipeline.py over domain/services/render_state_machine.py).       *)
(*                                                                         *)
(* The queue's lock makes enqueue and next_job atomic. The RenderJob they  *)
(* hand out is one shared, mutable object without a lock: a transition     *)
(* reads job.status, tests it, and assigns it in later steps. Enqueueing   *)
(* an id again makes a new object that replaces the old one in _jobs.      *)
(***************************************************************************)
EXTENDS Naturals, Sequences

CONSTANTS
  Jobs,        \* job ids
  NSteps,      \* steps of a job, a natural (seven in DEFAULT_RENDER_STEPS)
  Workers,     \* threads that serve the queue
  MaxObjects   \* bound: calls of enqueue; an id may come again, as after a replay

Statuses == {"queued", "running", "succeeded", "failed", "canceled"}
StepIds == 1..NSteps
Job == [id: Jobs, status: Statuses, steps: [StepIds -> Statuses]]

VARIABLES
  heap,   \* the RenderJob objects made so far; an object is its position
  entry,  \* _jobs: the object of each id, 0 if there is none
  fifo,   \* _queue: ids
  pc,     \* where each worker is
  held,   \* the object it works on, 0 if none
  step    \* the step it has reached

vars == <<heap, entry, fifo, pc, held, step>>

Labels == {"idle", "popped", "starting", "stepping", "in_step", "closing", "finishing", "failing", "marking"}

Init ==
  /\ heap = <<>>
  /\ entry = [j \in Jobs |-> 0]
  /\ fifo = <<>>
  /\ pc = [w \in Workers |-> "idle"]
  /\ held = [w \in Workers |-> 0]
  /\ step = [w \in Workers |-> 0]

(* Mutant: the table's row of "queued" lacks "running". *)
AllowedNotStarted(s, t) ==
  \/ s = "queued" /\ t \in {"canceled", "failed"}
  \/ s = "running" /\ t \in {"succeeded", "failed", "canceled"}
  \/ s = "failed" /\ t \in {"queued", "canceled"}

(* ALLOWED_TRANSITIONS; nothing leaves "succeeded" or "canceled".          *)
Allowed(s, t) ==
  \/ s = "queued" /\ t \in {"running", "canceled", "failed"}
  \/ s = "running" /\ t \in {"succeeded", "failed", "canceled"}
  \/ s = "failed" /\ t \in {"queued", "canceled"}

---------------------------------------------------------------------------
(* enqueue: a new object, its entry and its place in line, under the lock. *)
Enqueue(j) ==
  /\ Len(heap) < MaxObjects
  /\ heap' = Append(heap,
       [id |-> j, status |-> "queued", steps |-> [k \in StepIds |-> "queued"]])
  /\ entry' = [entry EXCEPT ![j] = Len(heap) + 1]
  /\ fifo' = Append(fifo, j)
  /\ UNCHANGED <<pc, held, step>>

(* next_job: the oldest id leaves the line; its entry's object is taken.   *)
NextJob(w) ==
  /\ pc[w] = "idle" /\ fifo # <<>>
  /\ held' = [held EXCEPT ![w] = entry[Head(fifo)]]
  /\ fifo' = Tail(fifo)
  /\ pc' = [pc EXCEPT ![w] = "popped"]
  /\ UNCHANGED <<heap, entry, step>>

Status(w) == heap[held[w]].status
SetStatus(w, s) == heap' = [heap EXCEPT ![held[w]].status = s]

(* The worker lets go of its job: its call returned or raised.             *)
LetGo(w) ==
  /\ pc' = [pc EXCEPT ![w] = "idle"]
  /\ held' = [held EXCEPT ![w] = 0]
  /\ step' = [step EXCEPT ![w] = 0]

(* transition_status: it reads the status and raises, or the assignment    *)
(* is next.                                                                *)
Test(w, target, next) ==
  /\ \/ /\ Allowed(Status(w), target)
        /\ pc' = [pc EXCEPT ![w] = next]
        /\ UNCHANGED <<held, step>>
     \/ ~Allowed(Status(w), target) /\ LetGo(w)
  /\ UNCHANGED <<heap, entry, fifo>>

(* run_dry_render_pipeline, line 11.                                       *)
TestStart(w) == pc[w] = "popped" /\ Test(w, "running", "starting")

Start(w) ==
  /\ pc[w] = "starting"
  /\ SetStatus(w, "running")
  /\ step' = [step EXCEPT ![w] = 1]
  /\ pc' = [pc EXCEPT ![w] = IF NSteps = 0 THEN "closing" ELSE "stepping"]
  /\ UNCHANGED <<entry, fifo, held>>

(* _run_dry_step: the step is running, then it has succeeded.              *)
BeginStep(w) ==
  /\ pc[w] = "stepping"
  /\ heap' = [heap EXCEPT ![held[w]].steps[step[w]] = "running"]
  /\ pc' = [pc EXCEPT ![w] = "in_step"]
  /\ UNCHANGED <<entry, fifo, held, step>>

(* The step has succeeded; after the last one the loop is over.            *)
EndStep(w) ==
  /\ pc[w] = "in_step"
  /\ heap' = [heap EXCEPT ![held[w]].steps[step[w]] = "succeeded"]
  /\ step' = [step EXCEPT ![w] = @ + 1]
  /\ pc' = [pc EXCEPT ![w] = IF step[w] = NSteps THEN "closing" ELSE "stepping"]
  /\ UNCHANGED <<entry, fifo, held>>

(* run_dry_render_pipeline, line 14.                                       *)
TestFinish(w) == pc[w] = "closing" /\ Test(w, "succeeded", "finishing")

Finish(w) ==
  /\ pc[w] = "finishing"
  /\ SetStatus(w, "succeeded")
  /\ LetGo(w)
  /\ UNCHANGED <<entry, fifo>>

(* fail_render_job: a worker gives up before the pipeline or inside it.    *)
TestFail(w) == pc[w] \in {"popped", "stepping", "in_step"} /\ Test(w, "failed", "failing")

(* Mutant: it looks for the first step that has not begun. *)
MarkedQueued(steps) ==
  [k \in StepIds |->
     IF steps[k] = "queued" /\ \A i \in 1..(k - 1) : steps[i] # "queued"
       THEN "failed" ELSE steps[k]]

(* The first step that has not succeeded becomes the failed one.           *)
Marked(steps) ==
  [k \in StepIds |->
     IF steps[k] # "succeeded" /\ \A i \in 1..(k - 1) : steps[i] = "succeeded"
       THEN "failed" ELSE steps[k]]

(* The status is assigned before the step is looked for and marked.        *)
Fail(w) ==
  /\ pc[w] = "failing"
  /\ SetStatus(w, "failed")
  /\ pc' = [pc EXCEPT ![w] = "marking"]
  /\ UNCHANGED <<entry, fifo, held, step>>

Mark(w) ==
  /\ pc[w] = "marking"
  /\ heap' = [heap EXCEPT ![held[w]].steps = Marked(@)]
  /\ LetGo(w)
  /\ UNCHANGED <<entry, fifo>>

Work(w) ==
  \/ TestStart(w) \/ Start(w) \/ BeginStep(w) \/ EndStep(w)
  \/ TestFinish(w) \/ Finish(w) \/ TestFail(w) \/ Fail(w) \/ Mark(w)

Next ==
  \/ \E j \in Jobs : Enqueue(j)
  \/ \E w \in Workers : NextJob(w) \/ Work(w)

Spec == Init /\ [][Next]_vars

---------------------------------------------------------------------------
TypeOK ==
  /\ heap \in Seq(Job)
  /\ entry \in [Jobs -> 0..Len(heap)]
  /\ fifo \in Seq(Jobs)
  /\ pc \in [Workers -> Labels]
  /\ held \in [Workers -> 0..Len(heap)]
  /\ step \in [Workers -> 0..(NSteps + 1)]

(* An object whose id was never enqueued again: nobody else can hold it.    *)
Single(i) == \A k \in DOMAIN heap : heap[k].id = heap[i].id => k = i

(* Two workers work on one job only if its id was enqueued again, as a      *)
(* replayed launch can do (ApprovalGate's QueuedOnce).                    *)
OneWorkerPerJob ==
  \A v, w \in Workers : held[v] = held[w] /\ held[v] # 0 => v = w \/ ~Single(held[v])

(* What its steps say fits its status: a job is finished only with every    *)
(* step done, a failed one names the first step not done as soon as the     *)
(* worker that failed it has marked the step.                               *)
Unmarked(i) == \E w \in Workers : held[w] = i /\ pc[w] = "marking"
Reached(job, n) ==
  /\ \A k \in StepIds : job.steps[k] = "succeeded" <=> k <= n
  /\ \A k \in StepIds : k > n + 1 => job.steps[k] = "queued"
Fits(job, unmarked) ==
  \E n \in 0..NSteps :
    /\ Reached(job, n)
    /\ job.status = "succeeded" => n = NSteps
    /\ job.status = "failed" /\ n < NSteps => job.steps[n + 1] = "failed" \/ unmarked
    /\ job.status = "queued" => n = 0
StepsFitStatus == \A i \in DOMAIN heap : Single(i) => Fits(heap[i], Unmarked(i))

(* A job that waits is in line or in a worker's hands, however often its id *)
(* was enqueued: none is forgotten.                                         *)
WaitingIsInLine ==
  \A j \in Jobs :
    entry[j] # 0 /\ heap[entry[j]].status = "queued" =>
      \/ \E i \in DOMAIN fifo : fifo[i] = j
      \/ \E w \in Workers : held[w] = entry[j]

(* Workers and queue keep the jobs in order: one worker for each job, steps  *)
(* that fit their job's status, and no waiting job out of line.              *)
QueueInv == TypeOK /\ OneWorkerPerJob /\ StepsFitStatus /\ WaitingIsInLine

(* Jobs are handed out in the order in which they were enqueued.            *)
EnqueuedBefore(i) == {heap[k].id : k \in 1..(i - 1)}
OldestFirst ==
  [][\A w \in Workers : held[w] = 0 /\ held'[w] # 0 =>
       \A i \in DOMAIN heap :
         Single(i) /\ heap[i].status = "queued" /\ i < held'[w] =>
           heap[held'[w]].id \in EnqueuedBefore(i) \/ \E v \in Workers : held[v] = i]_vars

===============================================================================
