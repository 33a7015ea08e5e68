---------------------------- MODULE ApprovalContract ----------------------------
(***************************************************************************)
(* What the approval gate promises, without transactions, threads or time: *)
(* a side effect is launched at most once per approval, only after a       *)
(* person granted it, and clients and the render queue are handed only the *)
(* job that was launched. Lapsing is allowed from every decided state,     *)
(* which is what the code's unconditional expire does.                     *)
(***************************************************************************)
CONSTANTS Approvals, Jobs, NoJob

VARIABLES
  status,  \* of each approval
  job,     \* the job each approval was used for
  handed,  \* the jobs the render queue knows
  told     \* the jobs clients were given as launched

vars == <<status, job, handed, told>>

Init ==
  /\ status = [a \in Approvals |-> "absent"]
  /\ job = [a \in Approvals |-> NoJob]
  /\ handed = {}
  /\ told = {}

Become(a, s) ==
  /\ status' = [status EXCEPT ![a] = s]
  /\ UNCHANGED <<job, handed, told>>

Ask(a) == status[a] = "absent" /\ Become(a, "pending")

Decide(a) == status[a] = "pending" /\ \E v \in {"approved", "rejected"} : Become(a, v)

Lapse(a) == status[a] # "absent" /\ Become(a, "expired")

Launch(a) ==
  /\ status[a] = "approved" /\ job[a] = NoJob
  /\ \E j \in Jobs : job' = [job EXCEPT ![a] = j]
  /\ UNCHANGED <<status, handed, told>>

(* A client is given the job only when the queue knows it. *)
Deliver(a) ==
  /\ job[a] # NoJob
  /\ handed' = handed \cup {job[a]}
  /\ told' = told \cup {job[a]}
  /\ UNCHANGED <<status, job>>

(* The queue is memory: a restart forgets every job, and only the jobs. *)
Forget ==
  /\ handed' = {}
  /\ UNCHANGED <<status, job, told>>

Next ==
  \/ \E a \in Approvals : Ask(a) \/ Decide(a) \/ Lapse(a) \/ Launch(a) \/ Deliver(a)
  \/ Forget

Spec == Init /\ [][Next]_vars

===============================================================================
