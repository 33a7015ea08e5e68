------------------------------ MODULE IssueClosure ------------------------------
(***************************************************************************)
(* scripts/close_delivery_issues.py: after a pull request is merged, a run *)
(* of the script closes the batch issues the request names and then the    *)
(* epics whose batches are all closed. A run is a sequence of HTTP         *)
(* requests to GitHub. Runs for several pull requests overlap, people edit *)
(* issues meanwhile, and any request may fail or lose its answer, which    *)
(* ends its run; the script is then run again by hand.                     *)
(*                                                                         *)
(* Titles, bodies and dry runs, which write nothing, are left out.         *)
(***************************************************************************)
EXTENDS Naturals, Sequences, FiniteSets, SequencesExt

CONSTANTS
  BatchOrder,   \* numbers of the batch issues in the order of the closure map
  EpicOrder,    \* the epics, in that order too
  BatchesOf,    \* the batches the map lists for each epic, in order
  Named,        \* the sets of issue numbers that pull requests name
  Runs,         \* executions of the script
  MaxEdits,     \* bound: edits of issues by people
  MaxFailures   \* bound: requests that fail

Batches == Range(BatchOrder)
Epics == Range(EpicOrder)
Issues == Batches \cup Epics

(* The labels that matter: the type label an issue of the map must have    *)
(* (type:batch or type:epic), a review status (status:needs-review or      *)
(* status:approved) and status:done.                                       *)
LabelNames == {"type", "review", "done"}
Issue == [state: {"open", "closed"}, labels: SUBSET LabelNames]

ASSUME ConstantsAssumption ==
  /\ BatchOrder \in Seq(Nat) /\ EpicOrder \in Seq(Nat) /\ Batches \cap Epics = {}
  /\ BatchesOf \in [Epics -> Seq(Batches)]
  /\ Named \subseteq SUBSET Issues
  /\ MaxEdits \in Nat /\ MaxFailures \in Nat

VARIABLES
  issue,     \* the issues on GitHub
  label,     \* whether the label status:done exists
  comments,  \* the runs that commented on each issue, in order
  pc,        \* the next request of each run
  task,      \* what a run closes, and the runs that were over when it began
  todo,      \* the issues its current loop has still to visit, the first now
  part,      \* the batches of the epic it visits that it has still to read
  seen,      \* the labels of the issue it closes, as it read them
  edits,     \* the issues people have edited, in order
  failures   \* failed requests so far

runVars == <<pc, todo, part, seen>>
vars == <<issue, label, comments, pc, task, todo, part, seen, edits, failures>>

Labels ==
  {"idle", "label", "make_label", "validate", "pull", "batches", "epics",
   "comment", "patch", "done", "skipped", "failed"}
Over == {"done", "skipped", "failed"}

Init ==
  /\ issue \in [Issues ->
       {[state |-> "open", labels |-> {"type", "review"}],
        [state |-> "closed", labels |-> {"type", "done"}]}]
  /\ \A e \in Epics : issue[e].state = "open"
  /\ label \in BOOLEAN
  /\ comments = [n \in Issues |-> <<>>]
  /\ pc = [r \in Runs |-> "idle"]
  /\ task = [r \in Runs |-> [refs |-> {}, after |-> {}]]
  /\ todo = [r \in Runs |-> <<>>]
  /\ part = [r \in Runs |-> <<>>]
  /\ seen = [r \in Runs |-> {}]
  /\ edits = <<>>
  /\ failures = 0

---------------------------------------------------------------------------
(* sorted(): the numbers of a finite set in ascending order.               *)
Ascending(numbers) ==
  CHOOSE list \in [1..Cardinality(numbers) -> numbers] :
    \A i, j \in DOMAIN list : i < j => list[i] < list[j]

(* Where a run goes next.                                                  *)
Visit(r, loop, list) ==
  /\ pc' = [pc EXCEPT ![r] = loop]
  /\ todo' = [todo EXCEPT ![r] = list]
  /\ part' = [part EXCEPT ![r] = IF loop = "epics" THEN BatchesOf[Head(list)] ELSE <<>>]
  /\ seen' = [seen EXCEPT ![r] = {}]

NextEpic(r, list) ==
  \/ list # <<>> /\ Visit(r, "epics", list)
  \/ list = <<>> /\ Visit(r, "done", <<>>)

NextBatch(r, list) ==
  \/ list # <<>> /\ Visit(r, "batches", list)
  \/ list = <<>> /\ NextEpic(r, EpicOrder)

NextIssue(r, list) == Visit(r, IF list = <<>> THEN "pull" ELSE "validate", list)

Goto(r, next) ==
  /\ pc' = [pc EXCEPT ![r] = next]
  /\ UNCHANGED <<todo, part, seen>>

(* An HTTPError, a timeout or a lost answer ends the run.                  *)
Break(r) ==
  /\ failures < MaxFailures
  /\ failures' = failures + 1
  /\ Goto(r, "failed")

Fail(r) ==
  /\ pc[r] \notin Over \cup {"idle"}
  /\ Break(r)
  /\ UNCHANGED <<issue, label, comments, task, edits>>

(* A run begins for a pull request that names some issues.                 *)
Start(r) ==
  /\ pc[r] = "idle"
  /\ \E refs \in Named :
       task' = [task EXCEPT ![r] =
         [refs |-> refs, after |-> {q \in Runs : pc[q] = "done"}]]
  /\ Goto(r, "label")
  /\ UNCHANGED <<issue, label, comments, edits, failures>>

(* ensure_label: GET, and POST when GitHub has no such label. Of two runs  *)
(* that both found none, the second is answered 422 and ends.              *)
FindLabel(r) ==
  /\ pc[r] = "label"
  /\ \/ label /\ NextIssue(r, BatchOrder \o EpicOrder)
     \/ ~label /\ Goto(r, "make_label")
  /\ UNCHANGED <<issue, label, comments, task, edits, failures>>

MakeLabel(r) ==
  /\ pc[r] = "make_label"
  /\ label' = TRUE
  /\ \/ /\ ~label
        /\ NextIssue(r, BatchOrder \o EpicOrder)
        /\ UNCHANGED failures
     \/ ~label /\ Break(r)
     \/ label /\ Goto(r, "failed") /\ UNCHANGED failures
  /\ UNCHANGED <<issue, comments, task, edits>>

(* validate_closure_map: each issue of the map must have its type label.   *)
Validate(r) ==
  /\ pc[r] = "validate"
  /\ \/ "type" \notin issue[Head(todo[r])].labels /\ Goto(r, "failed")
     \/ /\ "type" \in issue[Head(todo[r])].labels
        /\ NextIssue(r, Tail(todo[r]))
  /\ UNCHANGED <<issue, label, comments, task, edits, failures>>

(* The pull request is not merged or its base is not allowed; or the batch *)
(* issues it names are visited in ascending order, and then the epics.     *)
ReadPull(r) ==
  /\ pc[r] = "pull"
  /\ \/ Goto(r, "skipped")
     \/ NextBatch(r, Ascending(task[r].refs))
  /\ UNCHANGED <<issue, label, comments, task, edits, failures>>

(* An open issue with the type label of its kind is closed.                *)
IsOpen(n) == "type" \in issue[n].labels /\ issue[n].state = "open"

Close(r) ==
  /\ pc' = [pc EXCEPT ![r] = "comment"]
  /\ seen' = [seen EXCEPT ![r] = issue[Head(todo[r])].labels]
  /\ UNCHANGED <<todo, part>>

(* Mutant: a batch that is closed already is closed again. *)
ReadBatchClosed(r) ==
  /\ pc[r] = "batches"
  /\ LET n == Head(todo[r])
     IN \/ n \in Batches /\ Close(r)
        \/ n \notin Batches /\ NextBatch(r, Tail(todo[r]))
  /\ UNCHANGED <<issue, label, comments, task, edits, failures>>

(* close_batch_issues: anything but an open batch is skipped.              *)
ReadBatch(r) ==
  /\ pc[r] = "batches"
  /\ LET n == Head(todo[r])
     IN \/ n \in Batches /\ IsOpen(n) /\ Close(r)
        \/ ~(n \in Batches /\ IsOpen(n)) /\ NextBatch(r, Tail(todo[r]))
  /\ UNCHANGED <<issue, label, comments, task, edits, failures>>

(* Mutant: the first batch decides for all of them. *)
CheckBatchFirst(r) ==
  /\ pc[r] = "epics" /\ part[r] # <<>>
  /\ \/ /\ issue[Head(part[r])].state = "closed"
        /\ part' = [part EXCEPT ![r] = <<>>]
        /\ UNCHANGED <<pc, todo, seen>>
     \/ issue[Head(part[r])].state = "open" /\ NextEpic(r, Tail(todo[r]))
  /\ UNCHANGED <<issue, label, comments, task, edits, failures>>

(* Mutant: "return" for "continue" when a batch is open. *)
CheckBatchReturn(r) ==
  /\ pc[r] = "epics" /\ part[r] # <<>>
  /\ \/ /\ issue[Head(part[r])].state = "closed"
        /\ part' = [part EXCEPT ![r] = Tail(@)]
        /\ UNCHANGED <<pc, todo, seen>>
     \/ issue[Head(part[r])].state = "open" /\ Visit(r, "done", <<>>)
  /\ UNCHANGED <<issue, label, comments, task, edits, failures>>

(* all_batches_closed: one GET for each, up to the first that is open.     *)
CheckBatch(r) ==
  /\ pc[r] = "epics" /\ part[r] # <<>>
  /\ \/ /\ issue[Head(part[r])].state = "closed"
        /\ part' = [part EXCEPT ![r] = Tail(@)]
        /\ UNCHANGED <<pc, todo, seen>>
     \/ issue[Head(part[r])].state = "open" /\ NextEpic(r, Tail(todo[r]))
  /\ UNCHANGED <<issue, label, comments, task, edits, failures>>

(* close_ready_epics, when all batches of the epic have been read closed.  *)
ReadEpic(r) ==
  /\ pc[r] = "epics" /\ part[r] = <<>>
  /\ \/ IsOpen(Head(todo[r])) /\ Close(r)
     \/ ~IsOpen(Head(todo[r])) /\ NextEpic(r, Tail(todo[r]))
  /\ UNCHANGED <<issue, label, comments, task, edits, failures>>

(* close_issue: POST the comment, then PATCH state and labels, which are   *)
(* the labels read earlier without the review ones, with status:done.      *)
Comment(r) ==
  /\ pc[r] = "comment"
  /\ comments' = [comments EXCEPT ![Head(todo[r])] = Append(@, r)]
  /\ \/ Goto(r, "patch") /\ UNCHANGED failures
     \/ Break(r)
  /\ UNCHANGED <<issue, label, task, edits>>

(* Mutant: the review label stays. *)
PatchedKeeping(labels) == labels \cup {"done"}

Patched(labels) == (labels \ {"review"}) \cup {"done"}

Patch(r) ==
  /\ pc[r] = "patch"
  /\ LET n == Head(todo[r])
     IN /\ issue' = [issue EXCEPT ![n] = [state |-> "closed", labels |-> Patched(seen[r])]]
        /\ \/ n \in Batches /\ NextBatch(r, Tail(todo[r])) /\ UNCHANGED failures
           \/ n \in Epics /\ NextEpic(r, Tail(todo[r])) /\ UNCHANGED failures
           \/ Break(r)
  /\ UNCHANGED <<label, comments, task, edits>>

(* Somebody closes or reopens an issue, or adds or removes a label.        *)
Edit(n) ==
  /\ Len(edits) < MaxEdits
  /\ edits' = Append(edits, n)
  /\ \/ issue' = [issue EXCEPT ![n].state = IF @ = "open" THEN "closed" ELSE "open"]
     \/ \E l \in LabelNames :
          issue' = [issue EXCEPT ![n].labels = IF l \in @ THEN @ \ {l} ELSE @ \cup {l}]
  /\ UNCHANGED <<label, comments, runVars, task, failures>>

Step(r) ==
  \/ Start(r) \/ FindLabel(r) \/ MakeLabel(r) \/ Validate(r) \/ ReadPull(r)
  \/ ReadBatch(r) \/ CheckBatch(r) \/ ReadEpic(r) \/ Comment(r) \/ Patch(r)

Next ==
  \/ \E r \in Runs : Step(r) \/ Fail(r)
  \/ \E n \in Issues : Edit(n)

Spec == Init /\ [][Next]_vars

---------------------------------------------------------------------------
Task == [refs: SUBSET Issues, after: SUBSET Runs]

TypeOK ==
  /\ issue \in [Issues -> Issue]
  /\ label \in BOOLEAN
  /\ comments \in [Issues -> Seq(Runs)]
  /\ pc \in [Runs -> Labels]
  /\ task \in [Runs -> Task]
  /\ todo \in [Runs -> Seq(Issues)]
  /\ part \in [Runs -> Seq(Batches)]
  /\ seen \in [Runs -> SUBSET LabelNames]
  /\ edits \in Seq(Issues)
  /\ failures \in 0..MaxFailures

Untouched(n) == n \notin Range(edits)
Closed(n) == issue[n].state = "closed"

(* No epic is closed before its batches: the only open batches of an epic  *)
(* that runs have closed are those that people have reopened.              *)
EpicHasBatches ==
  \A e \in Epics : Untouched(e) /\ Closed(e) =>
    \A b \in Range(BatchesOf[e]) : Untouched(b) => Closed(b)

(* An epic is not forgotten when overlapping runs close its last batches:  *)
(* whichever closes the last one reads all of them closed afterwards. Runs *)
(* that failed, and what people do, need another run.                      *)
EpicNotForgotten ==
  (\E r \in Runs : pc[r] = "done") /\ (\A r \in Runs : pc[r] \in {"idle", "done", "skipped"}) =>
    \A e \in Epics :
      (\A n \in Range(BatchesOf[e]) \cup {e} : Untouched(n))
        /\ (\A b \in Range(BatchesOf[e]) : Closed(b))
      => Closed(e)

(* A run for what an earlier run has done already says nothing again.      *)
RerunIsQuiet ==
  \A q, r \in Runs : q \in task[r].after =>
    \A b \in task[q].refs \cap Batches : Untouched(b) => r \notin Range(comments[b])

(* What runs have closed is marked done and waits for no review, though    *)
(* the labels that are written were read two requests earlier.             *)
ClosedIsDone ==
  \A n \in Issues : Untouched(n) /\ Closed(n) =>
    "done" \in issue[n].labels /\ "review" \notin issue[n].labels

(* Issues and runs at any moment. *)
ClosureInv == TypeOK /\ ClosedIsDone

===============================================================================
