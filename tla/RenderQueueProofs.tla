---------------------------- MODULE RenderQueueProofs ----------------------------
(***************************************************************************)
(* Proofs about RenderQueue, for any set of job ids and workers, any       *)
(* number of steps and any bound on the objects.                           *)
(***************************************************************************)
EXTENDS RenderQueue, TLAPS

(* How many calls of enqueue have been served by a next_job.               *)
Popped == Len(heap) - Len(fifo)

(* _jobs points to the newest object of an id.                             *)
EntryIsNewest ==
  /\ \A j \in Jobs : entry[j] # 0 => heap[entry[j]].id = j
  /\ \A i \in DOMAIN heap : i <= entry[heap[i].id]

(* The line is the ids of the newest objects, in the order of their calls. *)
FifoIsTail ==
  /\ Len(fifo) <= Len(heap)
  /\ \A p \in DOMAIN fifo : fifo[p] = heap[Popped + p].id

(* A worker holds an object exactly while it is busy, and its step is one  *)
(* of the job's while it is at a step.                                     *)
BusyHoldsJob ==
  \A w \in Workers :
    /\ pc[w] = "idle" <=> held[w] = 0
    /\ pc[w] \in {"stepping", "in_step"} => step[w] \in StepIds

(* A job that is still in line is as enqueue made it, and nobody has it.   *)
Untouched(job) == job.status = "queued" /\ \A k \in StepIds : job.steps[k] = "queued"
InLineIsUntouched ==
  \A i \in DOMAIN heap :
    Single(i) /\ i > Popped => Untouched(heap[i]) /\ \A w \in Workers : held[w] # i

(* What a worker has made of the job that only it can hold.                *)
WorkerFits(w) ==
  held[w] # 0 /\ Single(held[w]) =>
    LET job == heap[held[w]]
    IN /\ pc[w] \in {"popped", "starting"} => Untouched(job)
       /\ pc[w] \in {"stepping", "in_step"} => job.status = "running" /\ Reached(job, step[w] - 1)
       /\ pc[w] \in {"closing", "finishing"} => job.status = "running" /\ Reached(job, NSteps)
       /\ pc[w] = "failing" => job.status \in {"queued", "running"}
       /\ pc[w] = "marking" => job.status = "failed"
WorkersFit == \A w \in Workers : WorkerFits(w)

(* Nothing brings a job back to queued once a worker has started it; a     *)
(* running job is in the hands of a worker that has; nothing is canceled.  *)
Started == {"stepping", "in_step", "closing", "finishing"}
RunningIsHeld ==
  /\ \A w \in Workers : pc[w] \in Started \cup {"marking"} => Status(w) # "queued"
  /\ \A i \in DOMAIN heap :
       /\ heap[i].status # "canceled"
       /\ heap[i].status = "running" =>
            \E w \in Workers : held[w] = i /\ pc[w] \in Started \cup {"failing"}

(* The inductive invariant. *)
LineInv ==
  /\ TypeOK
  /\ EntryIsNewest
  /\ FifoIsTail
  /\ BusyHoldsJob
  /\ InLineIsUntouched
  /\ OneWorkerPerJob
  /\ StepsFitStatus
  /\ WorkersFit
  /\ RunningIsHeld
  /\ WaitingIsInLine

---------------------------------------------------------------------------
(* Replacing an object by a version of it: the other objects, the ids and  *)
(* which ids are single stay as they are.                                  *)
LEMMA ObjectReplaced ==
  ASSUME heap \in Seq(Job), NEW m \in DOMAIN heap, NEW o \in Job, o.id = heap[m].id,
         heap' = [heap EXCEPT ![m] = o]
  PROVE  /\ heap' \in Seq(Job) /\ Len(heap') = Len(heap) /\ DOMAIN heap' = DOMAIN heap
         /\ heap'[m] = o
         /\ \A i \in DOMAIN heap : i # m => heap'[i] = heap[i]
         /\ \A i \in DOMAIN heap : heap'[i].id = heap[i].id
         /\ \A i \in DOMAIN heap : Single(i)' <=> Single(i)
  <1>1. heap \in [1..Len(heap) -> Job] /\ Len(heap) \in Nat /\ DOMAIN heap = 1..Len(heap)
    OBVIOUS
  <1>2. heap' \in [1..Len(heap) -> Job]
    BY <1>1
  <1>3. heap' \in Seq(Job) /\ Len(heap') = Len(heap) /\ DOMAIN heap' = DOMAIN heap
    BY <1>1, <1>2
  <1>4. /\ heap'[m] = o
        /\ \A i \in DOMAIN heap : i # m => heap'[i] = heap[i]
        /\ \A i \in DOMAIN heap : heap'[i].id = heap[i].id
    BY <1>1
  <1> QED BY <1>3, <1>4 DEF Single

(* A job with another status, or with its failed step marked.              *)
LEMMA StatusVersion ==
  ASSUME NEW o \in Job, NEW s \in Statuses, NEW v, v = [o EXCEPT !.status = s]
  PROVE  v \in Job /\ v.id = o.id /\ v.status = s /\ v.steps = o.steps
  BY DEF Job

LEMMA FailedVersion ==
  ASSUME NEW o \in Job, NEW v, v = [o EXCEPT !.steps = Marked(@)]
  PROVE  v \in Job /\ v.id = o.id /\ v.status = o.status /\ v.steps = Marked(o.steps)
  <1>1. o.steps \in [StepIds -> Statuses]
    BY DEF Job
  <1>2. Marked(o.steps) \in [StepIds -> Statuses]
    BY <1>1 DEF Marked, Statuses
  <1> QED BY <1>2 DEF Job, Statuses

(* The newest object of an id is the only one, if there is only one.       *)
LEMMA SingleIsNewest ==
  ASSUME LineInv, NEW i \in DOMAIN heap, Single(i)
  PROVE  heap[i].id \in Jobs /\ entry[heap[i].id] = i
  <1>1. heap[i] \in Job
    BY DEF LineInv, TypeOK
  <1>2. heap[i].id \in Jobs
    BY <1>1 DEF Job
  <1>3. i \in 1..Len(heap) /\ entry[heap[i].id] \in 0..Len(heap) /\ i <= entry[heap[i].id]
    BY <1>2 DEF LineInv, TypeOK, EntryIsNewest
  <1>4. entry[heap[i].id] \in DOMAIN heap /\ heap[entry[heap[i].id]].id = heap[i].id
    BY <1>2, <1>3 DEF LineInv, TypeOK, EntryIsNewest
  <1> QED BY <1>2, <1>4 DEF Single

(* A busy worker holds an object.                                          *)
LEMMA BusyHolds ==
  ASSUME LineInv, NEW w \in Workers, pc[w] # "idle"
  PROVE  /\ held[w] \in DOMAIN heap /\ held[w] # 0
         /\ heap[held[w]] \in Job
         /\ heap[held[w]].steps \in [StepIds -> Statuses]
         /\ heap[held[w]].status \in Statuses
  <1>1. held[w] \in 0..Len(heap) /\ held[w] # 0
    BY DEF LineInv, TypeOK, BusyHoldsJob
  <1>2. held[w] \in DOMAIN heap /\ heap[held[w]] \in Job
    BY <1>1 DEF LineInv, TypeOK
  <1> QED BY <1>1, <1>2 DEF Job

(* A worker turns its object into version o, and goes on at l with step n, *)
(* holding x; what the step itself must see to.                            *)
Turns(w, o, l, n, x) ==
  /\ heap' = [heap EXCEPT ![held[w]] = o] /\ UNCHANGED <<entry, fifo>>
  /\ pc' = [pc EXCEPT ![w] = l]
  /\ step' = [step EXCEPT ![w] = n]
  /\ held' = [held EXCEPT ![w] = x]
TurnFits(w, o, l, n, x) ==
  /\ o \in Job /\ o.id = heap[held[w]].id
  /\ l \in Labels /\ n \in 0..(NSteps + 1) /\ x \in {0, held[w]}
  /\ l = "idle" <=> x = 0
  /\ l \in {"stepping", "in_step"} => n \in StepIds
  /\ o.status # "canceled"
  /\ o.status = "queued" => Status(w) = "queued" /\ x # 0 /\ l \notin Started \cup {"marking"}
  /\ o.status = "running" =>
       \/ l \in Started \cup {"failing"}
       \/ \E v \in Workers : v # w /\ held[v] = held[w] /\ pc[v] \in Started \cup {"failing"}
  /\ Single(held[w]) => Fits(o, l = "marking" /\ x # 0)
  /\ Single(held[w]) /\ l \in {"popped", "starting"} => Untouched(o)
  /\ Single(held[w]) /\ l \in {"stepping", "in_step"} => o.status = "running" /\ Reached(o, n - 1)
  /\ Single(held[w]) /\ l \in {"closing", "finishing"} => o.status = "running" /\ Reached(o, NSteps)
  /\ Single(held[w]) /\ l = "failing" => o.status \in {"queued", "running"}
  /\ Single(held[w]) /\ l = "marking" => o.status = "failed"

(* Such a step keeps the rest.                                             *)
LEMMA WorkKeeps ==
  ASSUME NSteps \in Nat, LineInv, NEW w \in Workers, held[w] \in DOMAIN heap,
         NEW o, NEW l, NEW n, NEW x, Turns(w, o, l, n, x), TurnFits(w, o, l, n, x)
  PROVE  LineInv'
  <1> DEFINE m == held[w]
  <1> USE DEF Turns, TurnFits
  <1>1. /\ heap' \in Seq(Job) /\ Len(heap') = Len(heap) /\ DOMAIN heap' = DOMAIN heap
        /\ heap'[m] = o
        /\ \A i \in DOMAIN heap : i # m => heap'[i] = heap[i]
        /\ \A i \in DOMAIN heap : heap'[i].id = heap[i].id
        /\ \A i \in DOMAIN heap : Single(i)' <=> Single(i)
    BY ObjectReplaced DEF LineInv, TypeOK
  <1>2. /\ m \in 1..Len(heap) /\ m # 0 /\ heap \in Seq(Job)
        /\ entry \in [Jobs -> 0..Len(heap)] /\ held \in [Workers -> 0..Len(heap)]
        /\ pc \in [Workers -> Labels] /\ step \in [Workers -> 0..(NSteps + 1)]
    BY DEF LineInv, TypeOK
  <1>3. /\ pc'[w] = l /\ step'[w] = n /\ held'[w] = x
        /\ \A v \in Workers : v # w => pc'[v] = pc[v] /\ step'[v] = step[v] /\ held'[v] = held[v]
    BY <1>2
  <1>4. TypeOK'
    BY <1>1, <1>2 DEF LineInv, TypeOK
  <1>5. EntryIsNewest'
    BY <1>1, <1>2 DEF LineInv, EntryIsNewest
  <1>6. FifoIsTail' /\ Popped' = Popped
    BY <1>1 DEF LineInv, FifoIsTail, Popped, TypeOK
  <1>7. BusyHoldsJob'
    BY <1>2, <1>3 DEF LineInv, BusyHoldsJob
  <1>8. InLineIsUntouched'
    BY <1>1, <1>2, <1>3, <1>6 DEF LineInv, InLineIsUntouched
  <1>9. OneWorkerPerJob'
    <2> SUFFICES ASSUME NEW u \in Workers, NEW v \in Workers, held'[u] = held'[v], held'[u] # 0, u # v
                 PROVE  \E k \in DOMAIN heap' : heap'[k].id = heap'[held'[u]].id /\ k # held'[u]
      BY DEF OneWorkerPerJob, Single
    <2>1. held[u] = held'[u] /\ held[v] = held'[v]
      BY <1>2, <1>3
    <2>2. held[u] \in DOMAIN heap /\ ~Single(held[u])
      BY <1>2, <2>1 DEF LineInv, OneWorkerPerJob
    <2> QED BY <1>1, <2>1, <2>2 DEF Single
  <1>10. StepsFitStatus'
    <2> SUFFICES ASSUME NEW i \in DOMAIN heap, Single(i) PROVE Fits(heap'[i], Unmarked(i)')
      BY <1>1 DEF StepsFitStatus, Fits, Reached
    <2>1. CASE i = m
      <3>1. \A v \in Workers : held[v] = m /\ held[w] = m => v = w
        BY <1>2, <2>1 DEF LineInv, OneWorkerPerJob
      <3>2. Unmarked(i)' <=> l = "marking" /\ x # 0
        BY <1>2, <1>3, <2>1, <3>1 DEF Unmarked
      <3> QED BY <1>1, <2>1, <3>2 DEF Fits
    <2>2. CASE i # m
      <3>1. Unmarked(i)' <=> Unmarked(i)
        BY <1>1, <1>2, <1>3, <2>2 DEF Unmarked
      <3>2. Fits(heap[i], Unmarked(i))
        BY DEF LineInv, StepsFitStatus
      <3> QED BY <1>1, <2>2, <3>1, <3>2 DEF Fits
    <2> QED BY <2>1, <2>2
  <1>11. WorkersFit'
    <2> SUFFICES ASSUME NEW v \in Workers PROVE WorkerFits(v)'
      BY DEF WorkersFit
    <2>1. CASE v = w
      <3>1. held'[v] # 0 /\ Single(held[v])' => x = m /\ Single(m)
        BY <1>1, <1>3, <2>1 DEF Single
      <3> QED BY <1>1, <1>3, <2>1, <3>1 DEF WorkerFits
    <2>2. CASE v # w
      <3>1. WorkerFits(v) /\ held'[v] = held[v] /\ pc'[v] = pc[v] /\ step'[v] = step[v]
            /\ held[v] \in 0..Len(heap)
        BY <1>2, <1>3, <2>2 DEF LineInv, WorkersFit
      <3>2. held[v] = m => ~Single(m)
        BY <1>2, <2>2 DEF LineInv, OneWorkerPerJob
      <3>3. held[v] # 0 => held[v] \in DOMAIN heap
        BY <1>2, <3>1
      <3> QED BY <1>1, <3>1, <3>2, <3>3 DEF WorkerFits
    <2> QED BY <2>1, <2>2
  <1>12. RunningIsHeld'
    <2>1. ASSUME NEW v \in Workers, pc'[v] \in Started \cup {"marking"} PROVE Status(v)' # "queued"
      <3>1. CASE v = w
        BY <1>1, <1>3, <2>1, <3>1 DEF Status, Started
      <3>2. CASE v # w
        <4>1. Status(v) # "queued" /\ held'[v] = held[v]
          BY <1>3, <2>1, <3>2 DEF LineInv, RunningIsHeld
        <4>2. held[v] \in DOMAIN heap
          BY <1>3, <2>1, <3>2, BusyHolds DEF Started
        <4> QED BY <1>1, <4>1, <4>2 DEF Status
      <3> QED BY <3>1, <3>2
    <2>2. ASSUME NEW i \in DOMAIN heap, heap'[i].status = "running"
          PROVE  \E v \in Workers : held'[v] = i /\ pc'[v] \in Started \cup {"failing"}
      <3>1. CASE i = m
        BY <1>1, <1>2, <1>3, <2>2, <3>1 DEF Started
      <3>2. CASE i # m
        <4>1. PICK v \in Workers : held[v] = i /\ pc[v] \in Started \cup {"failing"}
          BY <1>1, <2>2, <3>2 DEF LineInv, RunningIsHeld
        <4> QED BY <1>3, <3>2, <4>1
      <3> QED BY <3>1, <3>2
    <2>3. \A i \in DOMAIN heap : heap'[i].status # "canceled"
      BY <1>1 DEF LineInv, RunningIsHeld
    <2> QED BY <1>1, <2>1, <2>2, <2>3 DEF RunningIsHeld
  <1>13. WaitingIsInLine'
    <2> SUFFICES ASSUME NEW j \in Jobs, entry[j] # 0, heap'[entry[j]].status = "queued"
                 PROVE  \/ \E i \in DOMAIN fifo : fifo[i] = j
                        \/ \E v \in Workers : held'[v] = entry[j]
      BY DEF WaitingIsInLine
    <2>1. entry[j] \in DOMAIN heap
      BY <1>2
    <2>2. CASE entry[j] = m
      BY <1>1, <1>3, <2>2
    <2>3. CASE entry[j] # m
      BY <1>1, <1>3, <2>1, <2>3 DEF LineInv, WaitingIsInLine
    <2> QED BY <2>2, <2>3
  <1> QED
    BY <1>4, <1>5, <1>6, <1>7, <1>8, <1>9, <1>10, <1>11, <1>12, <1>13 DEF LineInv

(* Fits, for a job that is untouched, goes on, is done or has failed.      *)
LEMMA FitsOf ==
  ASSUME NEW job, NEW n \in 0..NSteps, Reached(job, n),
         job.status = "succeeded" => n = NSteps,
         job.status = "failed" /\ n < NSteps => job.steps[n + 1] = "failed",
         job.status = "queued" => n = 0
  PROVE  \A u : Fits(job, u)
  BY DEF Fits

LEMMA UntouchedFits ==
  ASSUME NSteps \in Nat, NEW job, Untouched(job)
  PROVE  Reached(job, 0) /\ \A u : Fits(job, u)
  <1>1. Reached(job, 0)
    BY DEF Untouched, Reached, StepIds
  <1>2. 0 \in 0..NSteps
    OBVIOUS
  <1> QED BY <1>1, <1>2, FitsOf DEF Untouched

(* Marking the failed step of a job that has done n steps.                 *)
LEMMA MarkedReached ==
  ASSUME NSteps \in Nat, NEW o \in Job, NEW job \in Job, job.steps = Marked(o.steps),
         NEW n \in 0..NSteps, Reached(o, n)
  PROVE  Reached(job, n) /\ (n < NSteps => job.steps[n + 1] = "failed")
  <1>1. \A k \in StepIds : k \in Nat /\ k >= 1
    BY DEF StepIds
  <1>2. ASSUME NEW k \in StepIds PROVE
          job.steps[k] = IF o.steps[k] # "succeeded" /\ \A i \in 1..(k - 1) : o.steps[i] = "succeeded"
                           THEN "failed" ELSE o.steps[k]
    BY DEF Marked
  <1>3. ASSUME NEW k \in StepIds, k <= n PROVE job.steps[k] = "succeeded"
    BY <1>2, <1>3 DEF Reached
  <1>4. ASSUME NEW k \in StepIds, k = n + 1 PROVE job.steps[k] = "failed"
    <2>1. o.steps[k] # "succeeded"
      BY <1>1, <1>4 DEF Reached
    <2>2. \A i \in 1..(k - 1) : i \in StepIds /\ i <= n
      BY <1>1, <1>4 DEF StepIds
    <2>3. \A i \in 1..(k - 1) : o.steps[i] = "succeeded"
      BY <2>2 DEF Reached
    <2> QED BY <1>2, <2>1, <2>3
  <1>5. ASSUME NEW k \in StepIds, k > n + 1 PROVE job.steps[k] = "queued"
    <2>1. n + 1 \in StepIds /\ n + 1 \in 1..(k - 1) /\ ~(n + 1 <= n)
      BY <1>1, <1>5 DEF StepIds
    <2>2. o.steps[n + 1] # "succeeded" /\ o.steps[k] = "queued"
      BY <1>5, <2>1 DEF Reached
    <2> QED BY <1>2, <2>1, <2>2
  <1>6. n < NSteps => n + 1 \in StepIds
    BY DEF StepIds
  <1>7. \A k \in StepIds : k <= n \/ k = n + 1 \/ k > n + 1
    BY <1>1
  <1> QED BY <1>3, <1>4, <1>5, <1>6, <1>7 DEF Reached

(* The steps of a worker, one by one.                                      *)
LEMMA TestStep ==
  ASSUME NSteps \in Nat, LineInv, NEW w \in Workers, NEW target, NEW next, Test(w, target, next),
         \/ pc[w] = "popped" /\ target = "running" /\ next = "starting"
         \/ pc[w] = "closing" /\ target = "succeeded" /\ next = "finishing"
         \/ pc[w] \in {"popped", "stepping", "in_step"} /\ target = "failed" /\ next = "failing"
  PROVE  LineInv'
  <1> DEFINE m == held[w]
             o == heap[held[w]]
  <1>1. m \in DOMAIN heap /\ m # 0 /\ o \in Job /\ o.status \in Statuses
    BY BusyHolds
  <1>2. heap' = [heap EXCEPT ![m] = o] /\ UNCHANGED <<entry, fifo>>
    BY <1>1 DEF Test, LineInv, TypeOK
  <1>3. /\ pc[w] \in Started => o.status # "queued"
        /\ o.status # "canceled"
        /\ o.status = "running" =>
             \E v \in Workers : held[v] = m /\ pc[v] \in Started \cup {"failing"}
        /\ Single(m) => \A u : Fits(o, u)
        /\ WorkerFits(w)
    <2>1. Single(m) => ~Unmarked(m)
      BY <1>1 DEF LineInv, OneWorkerPerJob, Unmarked
    <2>2. Single(m) => \A u : Fits(o, u)
      BY <1>1, <2>1 DEF LineInv, StepsFitStatus, Fits
    <2> QED BY <1>1, <2>2 DEF LineInv, RunningIsHeld, Status, WorkersFit
  <1>4. step[w] \in 0..(NSteps + 1) /\ step = [step EXCEPT ![w] = step[w]]
        /\ held = [held EXCEPT ![w] = m]
    BY DEF LineInv, TypeOK
  <1>5. CASE Allowed(Status(w), target)
    <2>1. pc' = [pc EXCEPT ![w] = next] /\ step' = [step EXCEPT ![w] = step[w]]
          /\ held' = [held EXCEPT ![w] = m]
      BY <1>4, <1>5 DEF Test
    <2>2. o.status \in {"queued", "running"}
      BY <1>3, <1>5 DEF Allowed, Status
    <2>3. /\ next \in Labels /\ next # "idle" /\ next \notin {"popped", "stepping", "in_step", "closing"}
          /\ next = "starting" => pc[w] = "popped"
          /\ next = "finishing" => pc[w] = "closing" /\ o.status # "queued"
      BY <1>3 DEF Labels, Started
    <2>4. o.status = "running" =>
            \/ next \in Started \cup {"failing"}
            \/ \E v \in Workers : v # w /\ held[v] = m /\ pc[v] \in Started \cup {"failing"}
      BY <1>3, <2>3 DEF Started
    <2>5. Single(m) =>
            /\ next = "starting" => Untouched(o)
            /\ next = "finishing" => o.status = "running" /\ Reached(o, NSteps)
      BY <1>1, <1>3, <2>3 DEF WorkerFits
    <2>6. Turns(w, o, next, step[w], m)
      BY <1>2, <2>1 DEF Turns
    <2>7. TurnFits(w, o, next, step[w], m)
      BY <1>1, <1>3, <1>4, <2>2, <2>3, <2>4, <2>5 DEF TurnFits, Started, Status
    <2> QED BY <1>1, <2>6, <2>7, WorkKeeps
  <1>6. CASE ~Allowed(Status(w), target)
    <2>1. pc' = [pc EXCEPT ![w] = "idle"] /\ step' = [step EXCEPT ![w] = 0]
          /\ held' = [held EXCEPT ![w] = 0]
      BY <1>6 DEF Test, LetGo
    <2>2. o.status # "queued" /\ (o.status = "running" => pc[w] = "popped")
      BY <1>3, <1>6 DEF Allowed, Status, Started
    <2>3. o.status = "running" =>
            \E v \in Workers : v # w /\ held[v] = m /\ pc[v] \in Started \cup {"failing"}
      BY <1>3, <2>2 DEF Started
    <2>4. 0 \in 0..(NSteps + 1) /\ "idle" \in Labels
      BY DEF Labels
    <2>5. Turns(w, o, "idle", 0, 0)
      BY <1>2, <2>1 DEF Turns
    <2>6. TurnFits(w, o, "idle", 0, 0)
      BY <1>1, <1>3, <2>2, <2>3, <2>4 DEF TurnFits, Started, Status
    <2> QED BY <1>1, <2>5, <2>6, WorkKeeps
  <1> QED BY <1>5, <1>6

LEMMA StartStep == ASSUME NSteps \in Nat, LineInv, NEW w \in Workers, Start(w) PROVE LineInv'
  <1> DEFINE o == [heap[held[w]] EXCEPT !.status = "running"]
             l == IF NSteps = 0 THEN "closing" ELSE "stepping"
  <1>1. /\ pc[w] = "starting" /\ held[w] \in DOMAIN heap /\ held[w] # 0
        /\ heap[held[w]] \in Job
    BY BusyHolds DEF Start
  <1>2. /\ o \in Job /\ o.id = heap[held[w]].id /\ o.status = "running"
        /\ o.steps = heap[held[w]].steps
    <2>1. "running" \in Statuses BY DEF Statuses
    <2> QED BY <1>1, <2>1, StatusVersion
  <1>3. /\ heap' = [heap EXCEPT ![held[w]] = o]
        /\ held = [held EXCEPT ![w] = held[w]]
        /\ step' = [step EXCEPT ![w] = 1] /\ pc' = [pc EXCEPT ![w] = l]
    BY DEF Start, SetStatus, LineInv, TypeOK
  <1>4. Turns(w, o, l, 1, held[w])
    BY <1>3 DEF Turns, Start
  <1>5. Single(held[w]) => Reached(o, 0) /\ \A u : Fits(o, u)
    <2> SUFFICES ASSUME Single(held[w]) PROVE Reached(o, 0) /\ \A u : Fits(o, u)
      OBVIOUS
    <2>1. Untouched(heap[held[w]])
      BY <1>1 DEF LineInv, WorkersFit, WorkerFits
    <2>2. Reached(o, 0)
      BY <1>2, <2>1, UntouchedFits DEF Reached
    <2>3. 0 \in 0..NSteps
      OBVIOUS
    <2> HIDE DEF o
    <2> QED BY <1>2, <2>2, <2>3, FitsOf
  <1>6. /\ l \in Labels /\ l \in Started /\ l \in {"closing", "stepping"}
        /\ 1 \in 0..(NSteps + 1) /\ (l = "stepping" => 1 \in StepIds)
        /\ l = "closing" => NSteps = 0
    BY DEF Labels, Started, StepIds
  <1>7. TurnFits(w, o, l, 1, held[w])
    <2> HIDE DEF o, l
    <2> QED BY <1>1, <1>2, <1>5, <1>6 DEF TurnFits
  <1> QED BY <1>1, <1>4, <1>7, WorkKeeps

(* The status of a step in hand, and where the worker is afterwards.       *)
LEMMA InStep ==
  ASSUME NSteps \in Nat, LineInv, NEW w \in Workers, pc[w] \in {"stepping", "in_step"}
  PROVE  /\ held[w] \in DOMAIN heap /\ held[w] # 0 /\ heap[held[w]] \in Job
         /\ step[w] \in StepIds /\ step[w] \in Nat /\ NSteps \in Nat
         /\ step[w] - 1 \in 0..NSteps /\ step[w] \in 0..(NSteps + 1)
         /\ heap[held[w]].status # "queued" /\ heap[held[w]].status # "canceled"
         /\ Single(held[w]) => heap[held[w]].status = "running" /\ Reached(heap[held[w]], step[w] - 1)
  <1>1. held[w] \in DOMAIN heap /\ held[w] # 0 /\ heap[held[w]] \in Job
    BY BusyHolds
  <1>2. step[w] \in StepIds
    BY DEF LineInv, BusyHoldsJob
  <1>3. /\ step[w] \in Nat /\ NSteps \in Nat
        /\ step[w] - 1 \in 0..NSteps /\ step[w] \in 0..(NSteps + 1)
    BY <1>2 DEF StepIds
  <1>4. heap[held[w]].status # "queued" /\ heap[held[w]].status # "canceled"
    BY <1>1 DEF LineInv, RunningIsHeld, Started, Status
  <1>5. Single(held[w]) => heap[held[w]].status = "running" /\ Reached(heap[held[w]], step[w] - 1)
    BY <1>1 DEF LineInv, WorkersFit, WorkerFits
  <1> QED BY <1>1, <1>2, <1>3, <1>4, <1>5

LEMMA BeginStepStep == ASSUME NSteps \in Nat, LineInv, NEW w \in Workers, BeginStep(w) PROVE LineInv'
  <1> DEFINE p == heap[held[w]]
             o == [p EXCEPT !.steps[step[w]] = "running"]
  <1>0. pc[w] = "stepping"
    BY DEF BeginStep
  <1>1. /\ held[w] \in DOMAIN heap /\ held[w] # 0 /\ p \in Job
        /\ step[w] \in StepIds /\ step[w] - 1 \in 0..NSteps /\ step[w] \in 0..(NSteps + 1)
        /\ p.status # "queued" /\ p.status # "canceled"
        /\ Single(held[w]) => p.status = "running" /\ Reached(p, step[w] - 1)
    BY <1>0, InStep
  <1>2. /\ o \in Job /\ o.id = p.id /\ o.status = p.status
        /\ o.steps = [p.steps EXCEPT ![step[w]] = "running"]
    <2>1. "running" \in Statuses BY DEF Statuses
    <2>2. [p.steps EXCEPT ![step[w]] = "running"] \in [StepIds -> Statuses]
      BY <1>1, <2>1 DEF Job
    <2> QED BY <1>1, <2>2 DEF Job
  <1>3. Turns(w, o, "in_step", step[w], held[w])
    BY DEF Turns, BeginStep, LineInv, TypeOK
  <1>4. Single(held[w]) => o.status = "running" /\ Reached(o, step[w] - 1) /\ \A u : Fits(o, u)
    <2> SUFFICES ASSUME Single(held[w])
                 PROVE  o.status = "running" /\ Reached(o, step[w] - 1) /\ \A u : Fits(o, u)
      OBVIOUS
    <2>1. p.steps \in [StepIds -> Statuses]
      BY <1>1 DEF Job
    <2>2. \A k \in StepIds : o.steps[k] = IF k = step[w] THEN "running" ELSE p.steps[k]
      BY <1>2, <2>1
    <2>3. \A k \in StepIds : k \in Nat /\ step[w] \in Nat
      BY <1>1 DEF StepIds
    <2>4. Reached(o, step[w] - 1)
      BY <1>1, <2>2, <2>3 DEF Reached
    <2>5. o.status = "running"
      BY <1>1, <1>2
    <2> HIDE DEF o
    <2> QED BY <1>1, <2>4, <2>5, FitsOf
  <1>5. TurnFits(w, o, "in_step", step[w], held[w])
    <2> HIDE DEF o
    <2> QED BY <1>1, <1>2, <1>4 DEF TurnFits, Labels, Started
  <1> QED BY <1>1, <1>3, <1>5, WorkKeeps

LEMMA EndStepStep == ASSUME NSteps \in Nat, LineInv, NEW w \in Workers, EndStep(w) PROVE LineInv'
  <1> DEFINE p == heap[held[w]]
             o == [p EXCEPT !.steps[step[w]] = "succeeded"]
             l == IF step[w] = NSteps THEN "closing" ELSE "stepping"
  <1>0. pc[w] = "in_step"
    BY DEF EndStep
  <1>1. /\ held[w] \in DOMAIN heap /\ held[w] # 0 /\ p \in Job
        /\ step[w] \in StepIds /\ step[w] \in Nat /\ NSteps \in Nat
        /\ p.status # "queued" /\ p.status # "canceled"
        /\ Single(held[w]) => p.status = "running" /\ Reached(p, step[w] - 1)
    BY <1>0, InStep
  <1>2. /\ o \in Job /\ o.id = p.id /\ o.status = p.status
        /\ o.steps = [p.steps EXCEPT ![step[w]] = "succeeded"]
    <2>1. "succeeded" \in Statuses BY DEF Statuses
    <2>2. [p.steps EXCEPT ![step[w]] = "succeeded"] \in [StepIds -> Statuses]
      BY <1>1, <2>1 DEF Job
    <2> QED BY <1>1, <2>2 DEF Job
  <1>3. Turns(w, o, l, step[w] + 1, held[w])
    BY DEF Turns, EndStep, LineInv, TypeOK
  <1>4. Single(held[w]) => o.status = "running" /\ Reached(o, step[w]) /\ \A u : Fits(o, u)
    <2> SUFFICES ASSUME Single(held[w])
                 PROVE  o.status = "running" /\ Reached(o, step[w]) /\ \A u : Fits(o, u)
      OBVIOUS
    <2>1. p.steps \in [StepIds -> Statuses]
      BY <1>1 DEF Job
    <2>2. \A k \in StepIds : o.steps[k] = IF k = step[w] THEN "succeeded" ELSE p.steps[k]
      BY <1>2, <2>1
    <2>3. \A k \in StepIds : k \in Nat
      BY <1>1 DEF StepIds
    <2>4. Reached(o, step[w])
      BY <1>1, <2>2, <2>3 DEF Reached
    <2>5. o.status = "running" /\ step[w] \in 0..NSteps
      BY <1>1, <1>2 DEF StepIds
    <2> HIDE DEF o
    <2> QED BY <2>4, <2>5, FitsOf
  <1>5. /\ l \in Labels /\ l \in Started /\ l \in {"closing", "stepping"}
        /\ step[w] + 1 \in 0..(NSteps + 1) /\ (l = "stepping" => step[w] + 1 \in StepIds)
        /\ l = "closing" => step[w] = NSteps
        /\ (step[w] + 1) - 1 = step[w]
    BY <1>1 DEF Labels, Started, StepIds
  <1>6. TurnFits(w, o, l, step[w] + 1, held[w])
    <2> HIDE DEF o, l
    <2> QED BY <1>1, <1>2, <1>4, <1>5 DEF TurnFits
  <1> QED BY <1>1, <1>3, <1>6, WorkKeeps

LEMMA FinishStep == ASSUME NSteps \in Nat, LineInv, NEW w \in Workers, Finish(w) PROVE LineInv'
  <1> DEFINE p == heap[held[w]]
             o == [p EXCEPT !.status = "succeeded"]
  <1>0. pc[w] = "finishing"
    BY DEF Finish
  <1>1. held[w] \in DOMAIN heap /\ held[w] # 0 /\ p \in Job
    BY <1>0, BusyHolds
  <1>2. o \in Job /\ o.id = p.id /\ o.status = "succeeded" /\ o.steps = p.steps
    <2>1. "succeeded" \in Statuses BY DEF Statuses
    <2> QED BY <1>1, <2>1, StatusVersion
  <1>3. Turns(w, o, "idle", 0, 0)
    BY DEF Turns, Finish, SetStatus, LetGo
  <1>4. Single(held[w]) => \A u : Fits(o, u)
    <2> SUFFICES ASSUME Single(held[w]) PROVE \A u : Fits(o, u)
      OBVIOUS
    <2>1. Reached(p, NSteps)
      BY <1>0, <1>1 DEF LineInv, WorkersFit, WorkerFits
    <2>2. Reached(o, NSteps) /\ NSteps \in 0..NSteps /\ ~(NSteps < NSteps)
      BY <1>2, <2>1 DEF Reached
    <2> HIDE DEF o
    <2> QED BY <1>2, <2>2, FitsOf
  <1>5. 0 \in 0..(NSteps + 1)
    OBVIOUS
  <1>6. TurnFits(w, o, "idle", 0, 0)
    <2> HIDE DEF o
    <2> QED BY <1>1, <1>2, <1>4, <1>5 DEF TurnFits, Labels, Started
  <1> QED BY <1>1, <1>3, <1>6, WorkKeeps

LEMMA FailStep == ASSUME NSteps \in Nat, LineInv, NEW w \in Workers, Fail(w) PROVE LineInv'
  <1> DEFINE p == heap[held[w]]
             o == [p EXCEPT !.status = "failed"]
  <1>0. pc[w] = "failing"
    BY DEF Fail
  <1>1. held[w] \in DOMAIN heap /\ held[w] # 0 /\ p \in Job
    BY <1>0, BusyHolds
  <1>2. o \in Job /\ o.id = p.id /\ o.status = "failed" /\ o.steps = p.steps
    <2>1. "failed" \in Statuses BY DEF Statuses
    <2> QED BY <1>1, <2>1, StatusVersion
  <1>3. Turns(w, o, "marking", step[w], held[w])
    BY DEF Turns, Fail, SetStatus, LineInv, TypeOK
  <1>4. Single(held[w]) => Fits(o, "marking" = "marking" /\ held[w] # 0)
    <2> SUFFICES ASSUME Single(held[w]) PROVE Fits(o, "marking" = "marking" /\ held[w] # 0)
      OBVIOUS
    <2>1. PICK n \in 0..NSteps : Reached(p, n)
      BY <1>1 DEF LineInv, StepsFitStatus, Fits
    <2>2. Reached(o, n)
      BY <1>2, <2>1 DEF Reached
    <2> HIDE DEF o
    <2> QED BY <1>1, <1>2, <2>2 DEF Fits
  <1>5. step[w] \in 0..(NSteps + 1)
    BY DEF LineInv, TypeOK
  <1>6. TurnFits(w, o, "marking", step[w], held[w])
    <2> HIDE DEF o
    <2> QED BY <1>1, <1>2, <1>4, <1>5 DEF TurnFits, Labels, Started
  <1> QED BY <1>1, <1>3, <1>6, WorkKeeps

LEMMA MarkStep == ASSUME NSteps \in Nat, LineInv, NEW w \in Workers, Mark(w) PROVE LineInv'
  <1> DEFINE p == heap[held[w]]
             o == [p EXCEPT !.steps = Marked(@)]
  <1>0. pc[w] = "marking"
    BY DEF Mark
  <1>1. held[w] \in DOMAIN heap /\ held[w] # 0 /\ p \in Job
    BY <1>0, BusyHolds
  <1>2. o \in Job /\ o.id = p.id /\ o.status = p.status /\ o.steps = Marked(p.steps)
    BY <1>1, FailedVersion
  <1>3. Turns(w, o, "idle", 0, 0)
    BY DEF Turns, Mark, LetGo
  <1>4. Single(held[w]) => \A u : Fits(o, u)
    <2> SUFFICES ASSUME Single(held[w]) PROVE \A u : Fits(o, u)
      OBVIOUS
    <2>1. PICK n \in 0..NSteps : Reached(p, n)
      BY <1>1 DEF LineInv, StepsFitStatus, Fits
    <2>2. p.status = "failed"
      BY <1>0, <1>1 DEF LineInv, WorkersFit, WorkerFits
    <2> HIDE DEF o
    <2>3. Reached(o, n) /\ (n < NSteps => o.steps[n + 1] = "failed")
      BY <1>1, <1>2, <2>1, MarkedReached
    <2> QED BY <1>2, <2>2, <2>3, FitsOf
  <1>5. /\ o.status # "queued" /\ o.status # "canceled"
        /\ o.status = "running" =>
             \E v \in Workers : v # w /\ held[v] = held[w] /\ pc[v] \in Started \cup {"failing"}
    BY <1>0, <1>1, <1>2 DEF LineInv, RunningIsHeld, Status, Started
  <1>6. 0 \in 0..(NSteps + 1) /\ "idle" \in Labels
    BY DEF Labels
  <1>7. TurnFits(w, o, "idle", 0, 0)
    <2> HIDE DEF o
    <2> QED BY <1>1, <1>2, <1>4, <1>5, <1>6 DEF TurnFits, Started
  <1> QED BY <1>1, <1>3, <1>7, WorkKeeps

---------------------------------------------------------------------------
(* The queue's own steps.                                                  *)
LEMMA EnqueueStep == ASSUME NSteps \in Nat, LineInv, NEW j \in Jobs, Enqueue(j) PROVE LineInv'
  <1> DEFINE o == [id |-> j, status |-> "queued", steps |-> [k \in StepIds |-> "queued"]]
             N == Len(heap) + 1
  <1>1. /\ heap \in Seq(Job) /\ fifo \in Seq(Jobs) /\ Len(heap) \in Nat /\ Len(fifo) \in Nat
        /\ entry \in [Jobs -> 0..Len(heap)] /\ held \in [Workers -> 0..Len(heap)]
        /\ heap' = Append(heap, o) /\ entry' = [entry EXCEPT ![j] = N]
        /\ fifo' = Append(fifo, j) /\ UNCHANGED <<pc, held, step>>
    BY DEF Enqueue, LineInv, TypeOK
  <1>2. o \in Job /\ o.id = j /\ Untouched(o) /\ o.status = "queued"
    BY DEF Job, Statuses, Untouched
  <1> HIDE DEF o
  <1>3. /\ heap' \in Seq(Job) /\ Len(heap') = N /\ DOMAIN heap = 1..Len(heap) /\ DOMAIN heap' = 1..N
        /\ heap'[N] = o /\ \A i \in DOMAIN heap : heap'[i] = heap[i] /\ i # N
        /\ \A i \in DOMAIN heap' : i \in DOMAIN heap \/ i = N
    BY <1>1, <1>2
  <1>4. /\ fifo' \in Seq(Jobs) /\ Len(fifo') = Len(fifo) + 1 /\ DOMAIN fifo' = 1..(Len(fifo) + 1)
        /\ fifo'[Len(fifo) + 1] = j /\ \A p \in DOMAIN fifo : fifo'[p] = fifo[p]
        /\ DOMAIN fifo = 1..Len(fifo)
    BY <1>1
  <1>5. \A i \in DOMAIN heap : Single(i)' => Single(i)
    BY <1>3 DEF Single
  <1>6. Popped' = Popped
    BY <1>1, <1>3, <1>4 DEF Popped
  <1>7. /\ \A w \in Workers : held[w] # 0 => held[w] \in DOMAIN heap
        /\ 0..Len(heap) \subseteq 0..N
    BY <1>1, <1>3
  <1>8. TypeOK'
    <2>1. N \in 0..N
      BY <1>1
    <2>2. entry' \in [Jobs -> 0..N] /\ held' \in [Workers -> 0..N]
      BY <1>1, <1>7, <2>1
    <2> QED BY <1>1, <1>3, <1>4, <2>2 DEF LineInv, TypeOK
  <1>9. EntryIsNewest'
    <2>1. ASSUME NEW g \in Jobs, entry'[g] # 0 PROVE heap'[entry'[g]].id = g
      <3>1. CASE g = j
        BY <1>1, <1>2, <1>3, <3>1
      <3>2. CASE g # j
        <4>1. entry'[g] = entry[g] /\ entry[g] \in DOMAIN heap
          BY <1>1, <1>3, <2>1, <3>2
        <4> QED BY <1>3, <2>1, <4>1 DEF LineInv, EntryIsNewest
      <3> QED BY <3>1, <3>2
    <2>2. ASSUME NEW i \in DOMAIN heap' PROVE i <= entry'[heap'[i].id]
      <3>1. heap'[i].id \in Jobs
        <4>1. heap'[i] \in Job
          BY <1>3
        <4> QED BY <4>1 DEF Job
      <3>2. CASE i = N
        BY <1>1, <1>2, <1>3, <3>2
      <3>3. CASE i \in DOMAIN heap
        <4>1. i <= entry[heap[i].id] /\ heap'[i].id = heap[i].id /\ i <= N
          BY <1>1, <1>3, <3>3 DEF LineInv, EntryIsNewest
        <4>2. entry'[heap[i].id] = entry[heap[i].id] \/ entry'[heap[i].id] = N
          BY <1>1, <3>1, <4>1
        <4> QED BY <4>1, <4>2
      <3> QED BY <1>3, <3>2, <3>3
    <2> QED BY <2>1, <2>2 DEF EntryIsNewest
  <1>10. FifoIsTail'
    <2>1. /\ Len(fifo) <= Len(heap) /\ Popped = Len(heap) - Len(fifo)
          /\ \A p \in DOMAIN fifo : fifo[p] = heap[Popped + p].id
      BY DEF LineInv, FifoIsTail, Popped
    <2>2. ASSUME NEW p \in DOMAIN fifo' PROVE fifo'[p] = heap'[Popped + p].id
      <3>1. CASE p \in DOMAIN fifo
        <4>1. Popped + p \in DOMAIN heap
          BY <1>1, <1>3, <1>4, <2>1, <3>1
        <4> QED BY <1>3, <1>4, <2>1, <3>1, <4>1
      <3>2. CASE p = Len(fifo) + 1
        <4>1. Popped + p = N
          BY <1>1, <2>1, <3>2
        <4> QED BY <1>2, <1>3, <1>4, <3>2, <4>1
      <3>3. p \in DOMAIN fifo \/ p = Len(fifo) + 1
        BY <1>1, <1>4
      <3> QED BY <3>1, <3>2, <3>3
    <2> QED BY <1>1, <1>3, <1>4, <1>6, <2>1, <2>2 DEF FifoIsTail
  <1>11. BusyHoldsJob'
    BY <1>1 DEF LineInv, BusyHoldsJob
  <1>12. InLineIsUntouched'
    BY <1>1, <1>2, <1>3, <1>5, <1>6, <1>7 DEF LineInv, InLineIsUntouched
  <1>13. OneWorkerPerJob'
    <2> SUFFICES ASSUME NEW u \in Workers, NEW v \in Workers, held[u] = held[v], held[u] # 0, u # v
                 PROVE  ~Single(held[u])'
      BY <1>1 DEF OneWorkerPerJob
    <2>1. held[u] \in DOMAIN heap /\ ~Single(held[u])
      BY <1>7 DEF LineInv, OneWorkerPerJob
    <2> QED BY <1>1, <1>5, <2>1 DEF Single
  <1>14. StepsFitStatus'
    <2> SUFFICES ASSUME NEW i \in DOMAIN heap', Single(i)' PROVE Fits(heap'[i], Unmarked(i)')
      BY DEF StepsFitStatus, Fits, Reached
    <2>1. CASE i = N
      BY <1>2, <1>3, <2>1, UntouchedFits DEF Fits
    <2>2. CASE i \in DOMAIN heap
      <3>1. Fits(heap[i], Unmarked(i)) /\ (Unmarked(i)' <=> Unmarked(i))
        BY <1>1, <1>5, <2>2 DEF LineInv, StepsFitStatus, Unmarked
      <3> QED BY <1>3, <2>2, <3>1 DEF Fits
    <2> QED BY <1>3, <2>1, <2>2
  <1>15. WorkersFit'
    <2> SUFFICES ASSUME NEW v \in Workers PROVE WorkerFits(v)'
      BY DEF WorkersFit
    <2>1. CASE held[v] = 0
      BY <1>1, <2>1 DEF WorkerFits
    <2>2. CASE held[v] # 0
      <3>1. WorkerFits(v) /\ held[v] \in DOMAIN heap
        BY <1>7, <2>2 DEF LineInv, WorkersFit
      <3>2. Single(held[v])' => Single(held[v])
        BY <1>1, <1>3, <3>1 DEF Single
      <3> QED BY <1>1, <1>3, <2>2, <3>1, <3>2 DEF WorkerFits
    <2> QED BY <2>1, <2>2
  <1>16. RunningIsHeld'
    <2>1. ASSUME NEW v \in Workers, pc[v] \in Started \cup {"marking"}
          PROVE  heap'[held[v]].status # "queued"
      <3>1. held[v] \in DOMAIN heap
        BY <2>1, BusyHolds DEF Started
      <3> QED BY <1>3, <2>1, <3>1 DEF LineInv, RunningIsHeld, Status
    <2>2. ASSUME NEW i \in DOMAIN heap'
          PROVE  /\ heap'[i].status # "canceled"
                 /\ heap'[i].status = "running" =>
                      \E v \in Workers : held[v] = i /\ pc[v] \in Started \cup {"failing"}
      <3>1. CASE i = N
        BY <1>2, <1>3, <3>1
      <3>2. CASE i \in DOMAIN heap
        BY <1>3, <3>2 DEF LineInv, RunningIsHeld
      <3> QED BY <1>3, <3>1, <3>2
    <2> QED BY <1>1, <2>1, <2>2 DEF RunningIsHeld, Status
  <1>17. WaitingIsInLine'
    <2> SUFFICES ASSUME NEW g \in Jobs, entry'[g] # 0, heap'[entry'[g]].status = "queued"
                 PROVE  \/ \E i \in DOMAIN fifo' : fifo'[i] = g
                        \/ \E v \in Workers : held'[v] = entry'[g]
      BY DEF WaitingIsInLine
    <2>1. CASE g = j
      <3>1. Len(fifo) + 1 \in DOMAIN fifo'
        BY <1>1, <1>4
      <3> QED BY <1>4, <2>1, <3>1
    <2>2. CASE g # j
      <3>1. entry'[g] = entry[g] /\ entry[g] \in DOMAIN heap
        BY <1>1, <1>3, <2>2
      <3>2. \/ \E i \in DOMAIN fifo : fifo[i] = g
            \/ \E v \in Workers : held[v] = entry[g]
        BY <1>3, <3>1 DEF LineInv, WaitingIsInLine
      <3> QED BY <1>1, <1>4, <3>1, <3>2
    <2> QED BY <2>1, <2>2
  <1> QED
    BY <1>8, <1>9, <1>10, <1>11, <1>12, <1>13, <1>14, <1>15, <1>16, <1>17 DEF LineInv

(* The head of the line is the id of the object after those served; what a *)
(* next_job hands out is the newest object of that id.                     *)
LEMMA HeadOfLine ==
  ASSUME LineInv, fifo # <<>>
  PROVE  /\ Head(fifo) \in Jobs /\ Popped \in Nat
         /\ Popped + 1 \in DOMAIN heap /\ heap[Popped + 1].id = Head(fifo)
         /\ entry[Head(fifo)] \in DOMAIN heap /\ entry[Head(fifo)] # 0
         /\ heap[entry[Head(fifo)]].id = Head(fifo)
  <1>1. /\ fifo \in Seq(Jobs) /\ Len(fifo) \in Nat /\ Len(fifo) # 0 /\ Len(heap) \in Nat
        /\ Len(fifo) <= Len(heap) /\ DOMAIN heap = 1..Len(heap) /\ 1 \in DOMAIN fifo
        /\ Head(fifo) = fifo[1] /\ fifo[1] \in Jobs
    BY DEF LineInv, TypeOK, FifoIsTail
  <1>2. Popped \in Nat /\ Popped + 1 \in DOMAIN heap
    BY <1>1 DEF Popped
  <1>3. heap[Popped + 1].id = Head(fifo)
    BY <1>1 DEF LineInv, FifoIsTail
  <1>4. Popped + 1 <= entry[Head(fifo)] /\ entry[Head(fifo)] \in 0..Len(heap)
    BY <1>1, <1>2, <1>3 DEF LineInv, EntryIsNewest, TypeOK
  <1>5. entry[Head(fifo)] \in DOMAIN heap /\ entry[Head(fifo)] # 0
    BY <1>1, <1>2, <1>4
  <1> QED BY <1>1, <1>2, <1>3, <1>5 DEF LineInv, EntryIsNewest

LEMMA NextJobStep == ASSUME NSteps \in Nat, LineInv, NEW w \in Workers, NextJob(w) PROVE LineInv'
  <1> DEFINE m == entry[Head(fifo)]
  <1>1. /\ pc[w] = "idle" /\ fifo # <<>> /\ fifo \in Seq(Jobs)
        /\ held' = [held EXCEPT ![w] = m] /\ pc' = [pc EXCEPT ![w] = "popped"]
        /\ fifo' = Tail(fifo) /\ UNCHANGED <<heap, entry, step>>
        /\ held \in [Workers -> 0..Len(heap)] /\ pc \in [Workers -> Labels]
        /\ Len(heap) \in Nat /\ DOMAIN heap = 1..Len(heap) /\ held[w] = 0
    BY DEF NextJob, LineInv, TypeOK, BusyHoldsJob
  <1>2. /\ Head(fifo) \in Jobs /\ Popped \in Nat
        /\ Popped + 1 \in DOMAIN heap /\ heap[Popped + 1].id = Head(fifo)
        /\ m \in DOMAIN heap /\ m # 0 /\ heap[m].id = Head(fifo)
    BY <1>1, HeadOfLine
  <1>3. /\ fifo' \in Seq(Jobs) /\ Len(fifo') = Len(fifo) - 1 /\ Len(fifo) \in Nat /\ Len(fifo') \in Nat
        /\ \A p \in DOMAIN fifo' : p + 1 \in DOMAIN fifo /\ fifo'[p] = fifo[p + 1] /\ p \in Nat
        /\ DOMAIN fifo = 1..Len(fifo) /\ DOMAIN fifo' = 1..(Len(fifo) - 1) /\ Head(fifo) = fifo[1]
    BY <1>1
  <1>4. Popped' = Popped + 1
    BY <1>1, <1>3 DEF Popped
  <1>5. Single(m) => m = Popped + 1
    BY <1>2 DEF Single
  <1>6. Single(m) => Untouched(heap[m]) /\ \A v \in Workers : held[v] # m
    BY <1>2, <1>5 DEF LineInv, InLineIsUntouched
  <1>7. /\ held'[w] = m /\ pc'[w] = "popped"
        /\ \A v \in Workers : v # w => held'[v] = held[v] /\ pc'[v] = pc[v]
    BY <1>1
  <1>8. TypeOK'
    BY <1>1, <1>2, <1>3 DEF LineInv, TypeOK, Labels
  <1>9. EntryIsNewest' /\ StepsFitStatus'
    <2>1. EntryIsNewest'
      BY <1>1 DEF LineInv, EntryIsNewest
    <2> SUFFICES ASSUME NEW i \in DOMAIN heap, Single(i) PROVE Fits(heap'[i], Unmarked(i)')
      BY <1>1, <2>1 DEF StepsFitStatus, Single, Fits, Reached
    <2>2. Fits(heap[i], Unmarked(i))
      BY DEF LineInv, StepsFitStatus
    <2>3. Unmarked(i) => Unmarked(i)'
      BY <1>1, <1>7 DEF Unmarked
    <2> QED BY <1>1, <2>2, <2>3 DEF Fits
  <1>10. FifoIsTail'
    <2>1. \A p \in DOMAIN fifo' : fifo'[p] = heap[Popped + (p + 1)].id
      BY <1>3 DEF LineInv, FifoIsTail
    <2>2. \A p \in DOMAIN fifo' : Popped + (p + 1) = (Popped + 1) + p
      BY <1>2, <1>3
    <2> QED BY <1>1, <1>3, <1>4, <2>1, <2>2 DEF LineInv, FifoIsTail
  <1>11. BusyHoldsJob'
    BY <1>1, <1>2, <1>7 DEF LineInv, BusyHoldsJob
  <1>12. InLineIsUntouched'
    <2> SUFFICES ASSUME NEW i \in DOMAIN heap, Single(i), i > Popped + 1
                 PROVE  Untouched(heap[i]) /\ \A v \in Workers : held'[v] # i
      BY <1>1, <1>4 DEF InLineIsUntouched, Single
    <2>1. Untouched(heap[i]) /\ \A v \in Workers : held[v] # i
      BY <1>1, <1>2 DEF LineInv, InLineIsUntouched
    <2>2. m # i
      BY <1>1, <1>2, <1>5
    <2> QED BY <1>7, <2>1, <2>2
  <1>13. OneWorkerPerJob'
    BY <1>1, <1>6, <1>7 DEF LineInv, OneWorkerPerJob, Single
  <1>14. WorkersFit'
    <2> SUFFICES ASSUME NEW v \in Workers PROVE WorkerFits(v)'
      BY DEF WorkersFit
    <2>1. CASE v = w
      BY <1>1, <1>6, <1>7, <2>1 DEF WorkerFits, Single
    <2>2. CASE v # w
      BY <1>1, <1>7, <2>2 DEF LineInv, WorkersFit, WorkerFits, Single
    <2> QED BY <2>1, <2>2
  <1>15. RunningIsHeld'
    <2>1. ASSUME NEW v \in Workers, pc'[v] \in Started \cup {"marking"} PROVE Status(v)' # "queued"
      <3>1. v # w
        BY <1>7, <2>1 DEF Started
      <3> QED BY <1>1, <1>7, <2>1, <3>1 DEF LineInv, RunningIsHeld, Status
    <2>2. ASSUME NEW i \in DOMAIN heap, heap[i].status = "running"
          PROVE  \E v \in Workers : held'[v] = i /\ pc'[v] \in Started \cup {"failing"}
      <3>1. PICK v \in Workers : held[v] = i /\ pc[v] \in Started \cup {"failing"}
        BY <2>2 DEF LineInv, RunningIsHeld
      <3>2. v # w
        BY <1>1, <3>1 DEF Started
      <3> QED BY <1>7, <3>1, <3>2
    <2> QED BY <1>1, <2>1, <2>2 DEF LineInv, RunningIsHeld
  <1>16. WaitingIsInLine'
    <2> SUFFICES ASSUME NEW g \in Jobs, entry[g] # 0, heap[entry[g]].status = "queued"
                 PROVE  \/ \E i \in DOMAIN fifo' : fifo'[i] = g
                        \/ \E v \in Workers : held'[v] = entry[g]
      BY <1>1 DEF WaitingIsInLine
    <2>1. CASE g = Head(fifo)
      BY <1>7, <2>1
    <2>2. ASSUME NEW i \in DOMAIN fifo, fifo[i] = g, g # Head(fifo)
          PROVE  \E p \in DOMAIN fifo' : fifo'[p] = g
      <3>1. i # 1 /\ i - 1 \in DOMAIN fifo' /\ (i - 1) + 1 = i
        BY <1>3, <2>2
      <3> QED BY <1>3, <2>2, <3>1
    <2>3. ASSUME NEW v \in Workers, held[v] = entry[g] PROVE held'[v] = entry[g]
      BY <1>1, <1>7, <2>3
    <2> QED BY <2>1, <2>2, <2>3 DEF LineInv, WaitingIsInLine
  <1> QED
    BY <1>8, <1>9, <1>10, <1>11, <1>12, <1>13, <1>14, <1>15, <1>16 DEF LineInv

LEMMA LineStep == ASSUME NSteps \in Nat PROVE LineInv /\ [Next]_vars => LineInv'
  <1> SUFFICES ASSUME LineInv, [Next]_vars PROVE LineInv'
    OBVIOUS
  <1>1. ASSUME NEW j \in Jobs, Enqueue(j) PROVE LineInv'
    BY <1>1, EnqueueStep
  <1>2. ASSUME NEW w \in Workers, NextJob(w) PROVE LineInv'
    BY <1>2, NextJobStep
  <1>3. ASSUME NEW w \in Workers, TestStart(w) \/ TestFinish(w) \/ TestFail(w) PROVE LineInv'
    <2>1. CASE TestStart(w)
      BY <2>1, TestStep DEF TestStart
    <2>2. CASE TestFinish(w)
      BY <2>2, TestStep DEF TestFinish
    <2>3. CASE TestFail(w)
      BY <2>3, TestStep DEF TestFail
    <2> QED BY <1>3, <2>1, <2>2, <2>3
  <1>4. ASSUME NEW w \in Workers, Start(w) \/ BeginStep(w) \/ EndStep(w) \/ Finish(w) \/ Fail(w) \/ Mark(w)
        PROVE  LineInv'
    BY <1>4, StartStep, BeginStepStep, EndStepStep, FinishStep, FailStep, MarkStep
  <1>5. CASE UNCHANGED vars
    <2>1. TypeOK' /\ EntryIsNewest' /\ FifoIsTail' /\ BusyHoldsJob' /\ InLineIsUntouched'
      BY <1>5 DEF vars, LineInv, TypeOK, EntryIsNewest, FifoIsTail, Popped, BusyHoldsJob,
         InLineIsUntouched, Single
    <2>2. OneWorkerPerJob' /\ WorkersFit' /\ RunningIsHeld' /\ WaitingIsInLine'
      BY <1>5 DEF vars, LineInv, OneWorkerPerJob, WorkersFit, WorkerFits, RunningIsHeld,
         Status, WaitingIsInLine, Single
    <2>3. StepsFitStatus'
      <3> SUFFICES ASSUME NEW i \in DOMAIN heap, Single(i) PROVE Fits(heap[i], Unmarked(i)')
        BY <1>5 DEF vars, StepsFitStatus, Single, Fits, Reached
      <3>1. Fits(heap[i], Unmarked(i))
        BY DEF LineInv, StepsFitStatus
      <3>2. Unmarked(i)' <=> Unmarked(i)
        BY <1>5 DEF vars, Unmarked
      <3> QED BY <3>1, <3>2 DEF Fits
    <2> QED BY <2>1, <2>2, <2>3 DEF LineInv
  <1> QED BY <1>1, <1>2, <1>3, <1>4, <1>5 DEF Next, Work

LEMMA LineInit == ASSUME NSteps \in Nat PROVE Init => LineInv
  <1> SUFFICES ASSUME Init PROVE LineInv
    OBVIOUS
  <1>1. /\ heap = <<>> /\ Len(heap) = 0 /\ DOMAIN heap = {} /\ fifo = <<>> /\ DOMAIN fifo = {}
        /\ heap \in Seq(Job) /\ fifo \in Seq(Jobs) /\ Len(fifo) = 0
    BY DEF Init
  <1>2. TypeOK
    BY <1>1 DEF Init, TypeOK, Labels
  <1>3. EntryIsNewest /\ FifoIsTail /\ InLineIsUntouched /\ StepsFitStatus /\ WaitingIsInLine
    BY <1>1 DEF Init, EntryIsNewest, FifoIsTail, InLineIsUntouched, StepsFitStatus, WaitingIsInLine
  <1>4. BusyHoldsJob /\ OneWorkerPerJob /\ WorkersFit /\ RunningIsHeld
    BY <1>1 DEF Init, BusyHoldsJob, OneWorkerPerJob, WorkersFit, WorkerFits, RunningIsHeld, Started
  <1> QED BY <1>2, <1>3, <1>4 DEF LineInv

(* The inductive invariant holds throughout. *)
THEOREM LineInvariant == ASSUME NSteps \in Nat PROVE Spec => []LineInv
  BY LineInit, LineStep, PTL DEF Spec

(* Workers and queue keep the jobs in order: types, one worker for a job   *)
(* that was enqueued once, steps that fit the status, and every waiting    *)
(* job in line or in hand.                                                 *)
THEOREM QueueInvAlways == ASSUME NSteps \in Nat PROVE Spec => []QueueInv
  <1>1. LineInv => QueueInv
    BY DEF LineInv, QueueInv
  <1> QED
    BY <1>1, LineInvariant, PTL

(* A worker that comes to hold a job has called next_job.                  *)
LEMMA TakesByNextJob ==
  ASSUME LineInv, [Next]_vars, NEW w \in Workers, held[w] = 0, held'[w] # 0
  PROVE  NextJob(w)
  <1>1. ASSUME NEW v \in Workers, Work(v) PROVE held' = held \/ held' = [held EXCEPT ![v] = 0]
    BY <1>1 DEF Work, TestStart, TestFinish, TestFail, Test, LetGo, Start, BeginStep, EndStep,
       Finish, Fail, Mark
  <1>2. ASSUME NEW v \in Workers, NextJob(v) PROVE v = w
    BY <1>2 DEF NextJob, LineInv, TypeOK
  <1>3. ASSUME NEW j \in Jobs, Enqueue(j) PROVE FALSE
    BY <1>3 DEF Enqueue
  <1>4. held \in [Workers -> 0..Len(heap)]
    BY DEF LineInv, TypeOK
  <1> QED BY <1>1, <1>2, <1>3, <1>4 DEF Next, vars

(* What is handed out was enqueued before any job that has waited since    *)
(* its only enqueue and that nobody has taken.                             *)
LEMMA OldestStep ==
  ASSUME LineInv, [Next]_vars, NEW w \in Workers, held[w] = 0, held'[w] # 0,
         NEW i \in DOMAIN heap, Single(i), heap[i].status = "queued", i < held'[w]
  PROVE  heap[held'[w]].id \in EnqueuedBefore(i) \/ \E v \in Workers : held[v] = i
  <1> DEFINE m == entry[Head(fifo)]
             k == Popped + 1
  <1>1. fifo # <<>> /\ held'[w] = m
    BY TakesByNextJob DEF NextJob, LineInv, TypeOK
  <1>2. /\ Popped \in Nat /\ k \in DOMAIN heap /\ heap[k].id = Head(fifo)
        /\ m \in DOMAIN heap /\ heap[m].id = Head(fifo)
    BY <1>1, HeadOfLine
  <1>3. heap[i].id \in Jobs /\ entry[heap[i].id] = i /\ i # 0 /\ i \in Nat
    BY SingleIsNewest DEF LineInv, TypeOK
  <1>4. i # k
    BY <1>1, <1>2, <1>3
  <1>5. ASSUME NEW p \in DOMAIN fifo, fifo[p] = heap[i].id
        PROVE  k < i
    <2>1. /\ heap[Popped + p].id = fifo[p] /\ p \in 1..Len(fifo) /\ Len(fifo) <= Len(heap)
          /\ Len(fifo) \in Nat /\ Len(heap) \in Nat /\ DOMAIN heap = 1..Len(heap)
      BY DEF LineInv, FifoIsTail, TypeOK
    <2>2. Popped + p \in DOMAIN heap
      BY <1>2, <2>1 DEF Popped
    <2>3. Popped + p = i
      BY <1>5, <2>1, <2>2 DEF Single
    <2> QED BY <1>2, <1>3, <1>4, <2>1, <2>3
  <1>6. CASE k < i
    <2>1. k \in 1..(i - 1)
      BY <1>2, <1>3, <1>6
    <2>2. heap[held'[w]].id = heap[k].id
      BY <1>1, <1>2
    <2> QED BY <2>1, <2>2 DEF EnqueuedBefore
  <1>7. CASE ~(k < i)
    <2>1. \A p \in DOMAIN fifo : fifo[p] # heap[i].id
      BY <1>5, <1>7
    <2> QED BY <1>3, <2>1 DEF LineInv, WaitingIsInLine
  <1> QED BY <1>6, <1>7

(* Jobs are handed out in the order in which they were enqueued. *)
THEOREM OldestFirstAlways == ASSUME NSteps \in Nat PROVE Spec => OldestFirst
  <1>1. LineInv /\ [Next]_vars =>
          [\A w \in Workers : held[w] = 0 /\ held'[w] # 0 =>
             \A i \in DOMAIN heap :
               Single(i) /\ heap[i].status = "queued" /\ i < held'[w] =>
                 heap[held'[w]].id \in EnqueuedBefore(i) \/ \E v \in Workers : held[v] = i]_vars
    BY OldestStep
  <1> QED
    BY <1>1, LineInvariant, PTL DEF Spec, OldestFirst
===============================================================================
