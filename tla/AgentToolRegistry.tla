---------------------------- MODULE AgentToolRegistry ----------------------------
(***************************************************************************)
(* AgentToolRegistry of backend/app/domain/services/agent_tool_registry.py *)
(* and its audit sink, db/repos/agent_tool_call.py: callers on threads of  *)
(* their own execute tools; the handler runs on the shared ThreadPool-     *)
(* Executor while its caller waits for the result within the tool's        *)
(* timeout_seconds. A handler that has started cannot be stopped: it keeps *)
(* its worker until it returns, if ever.                                   *)
(***************************************************************************)
EXTENDS Naturals, Sequences, FiniteSets

CONSTANTS
  Tools,    \* tool names
  Calls,    \* executions (each runs once, on a thread of its own)
  Workers,  \* threads of the executor (four in the code)
  NoCall    \* an idle worker

Classes == {"read_only", "cheap_write", "expensive_job", "external_api_cost", "destructive"}

(* What a caller is answered: the handler's own result, or a failure code. *)
Results ==
  {"none", "returned", "unknown_tool", "invalid_tool_input", "approval_required",
   "tool_timeout", "tool_execution_failed"}

(* A work item of the executor. "overran" is a handler that itself raised  *)
(* TimeoutError, which Python 3.11 no longer tells from the executor's.    *)
Futures == {"none", "pending", "running", "returned", "raised", "overran", "cancelled"}
Finished == {"returned", "raised", "overran"}

ASSUME ConstantsAssumption == NoCall \notin Calls

VARIABLES
  class,    \* _tools: the safety class of each name, "absent" if unregistered
  pc,       \* where each call is
  tool,     \* the tool it names
  future,   \* the state of its work item
  backlog,  \* the executor's work queue
  worker,   \* the call whose handler each worker runs
  result,   \* what the call will be answered
  audit     \* the audit rows of each call, committed

vars == <<class, pc, tool, future, backlog, worker, result, audit>>

Labels == {"idle", "waiting", "timed_out", "record", "done"}

Init ==
  /\ class = [t \in Tools |-> "absent"]
  /\ pc = [c \in Calls |-> "idle"]
  /\ tool \in [Calls -> Tools]
  /\ future = [c \in Calls |-> "none"]
  /\ backlog = <<>>
  /\ worker = [w \in Workers |-> NoCall]
  /\ result = [c \in Calls |-> "none"]
  /\ audit = [c \in Calls |-> <<>>]

---------------------------------------------------------------------------
(* register: a name that is taken raises ValueError. It tests and assigns   *)
(* without a lock, as one step here: build_default_agent_tool_registry      *)
(* fills a registry in one thread before it hands it out.                   *)
Register(t) ==
  /\ class[t] = "absent"
  /\ \E s \in Classes : class' = [class EXCEPT ![t] = s]
  /\ UNCHANGED <<pc, tool, future, backlog, worker, result, audit>>

(* The call has its result and goes on to the audit record.                *)
Settle(c, code) ==
  /\ result' = [result EXCEPT ![c] = code]
  /\ pc' = [pc EXCEPT ![c] = "record"]

(* execute: the three refusals that never reach a handler, in their order. *)
Refuse(c) ==
  /\ pc[c] = "idle"
  /\ \/ class[tool[c]] = "absent" /\ Settle(c, "unknown_tool")
     \/ class[tool[c]] # "absent" /\ Settle(c, "invalid_tool_input")
     \/ class[tool[c]] \notin {"absent", "read_only"} /\ Settle(c, "approval_required")
  /\ UNCHANGED <<class, tool, future, backlog, worker, audit>>

(* A valid call of a read-only tool: _EXECUTOR.submit queues its handler.  *)
Submit(c) ==
  /\ pc[c] = "idle"
  /\ class[tool[c]] = "read_only"
  /\ future' = [future EXCEPT ![c] = "pending"]
  /\ backlog' = Append(backlog, c)
  /\ pc' = [pc EXCEPT ![c] = "waiting"]
  /\ UNCHANGED <<class, tool, worker, result, audit>>

(* A free worker takes the oldest item and drops it if it was cancelled.   *)
Take(w) ==
  /\ worker[w] = NoCall /\ backlog # <<>>
  /\ backlog' = Tail(backlog)
  /\ LET c == Head(backlog)
     IN \/ /\ future[c] = "pending"
           /\ future' = [future EXCEPT ![c] = "running"]
           /\ worker' = [worker EXCEPT ![w] = c]
        \/ future[c] = "cancelled" /\ UNCHANGED <<future, worker>>
  /\ UNCHANGED <<class, pc, tool, result, audit>>

(* Mutant: a late result is written over the answer. *)
FinishLate(w) ==
  /\ worker[w] # NoCall
  /\ future' = [future EXCEPT ![worker[w]] = "returned"]
  /\ result' = [result EXCEPT ![worker[w]] = "returned"]
  /\ worker' = [worker EXCEPT ![w] = NoCall]
  /\ UNCHANGED <<class, pc, tool, backlog, audit>>

(* The handler returns or raises, however late, and frees its worker.      *)
Finish(w) ==
  /\ worker[w] # NoCall
  /\ \E outcome \in Finished : future' = [future EXCEPT ![worker[w]] = outcome]
  /\ worker' = [worker EXCEPT ![w] = NoCall]
  /\ UNCHANGED <<class, pc, tool, backlog, result, audit>>

(* future.result: the item has finished in time.                           *)
Collect(c) ==
  /\ pc[c] = "waiting"
  /\ \/ future[c] = "returned" /\ Settle(c, "returned")
     \/ future[c] = "raised" /\ Settle(c, "tool_execution_failed")
     \/ future[c] = "overran" /\ pc' = [pc EXCEPT ![c] = "timed_out"] /\ UNCHANGED result
  /\ UNCHANGED <<class, tool, future, backlog, worker, audit>>

(* Mutant: only a handler that has started can time out. *)
TimeoutRunning(c) ==
  /\ pc[c] = "waiting"
  /\ future[c] = "running"
  /\ pc' = [pc EXCEPT ![c] = "timed_out"]
  /\ UNCHANGED <<class, tool, future, backlog, worker, result, audit>>

(* timeout_seconds pass and the item has not finished, started or not.     *)
Timeout(c) ==
  /\ pc[c] = "waiting"
  /\ future[c] \in {"pending", "running"}
  /\ pc' = [pc EXCEPT ![c] = "timed_out"]
  /\ UNCHANGED <<class, tool, future, backlog, worker, result, audit>>

(* Mutant: a running item counts as cancelled. *)
CancelRunning(c) ==
  /\ pc[c] = "timed_out"
  /\ future' = [future EXCEPT ![c] = IF @ \in {"pending", "running"} THEN "cancelled" ELSE @]
  /\ Settle(c, "tool_timeout")
  /\ UNCHANGED <<class, tool, backlog, worker, audit>>

(* future.cancel: succeeds unless a worker has taken the item meanwhile.   *)
Cancel(c) ==
  /\ pc[c] = "timed_out"
  /\ future' = [future EXCEPT ![c] = IF @ = "pending" THEN "cancelled" ELSE @]
  /\ Settle(c, "tool_timeout")
  /\ UNCHANGED <<class, tool, backlog, worker, audit>>

(* _record_audit: one row, or none when there is no sink or it raises (it  *)
(* rolls back, the registry logs and goes on); then the call is answered.  *)
Record(c) ==
  /\ pc[c] = "record"
  /\ \/ audit' = [audit EXCEPT ![c] = Append(@, result[c])]
     \/ UNCHANGED audit
  /\ pc' = [pc EXCEPT ![c] = "done"]
  /\ UNCHANGED <<class, tool, future, backlog, worker, result>>

Serve(c) == Collect(c) \/ Timeout(c) \/ Cancel(c) \/ Record(c)

Next ==
  \/ \E t \in Tools : Register(t)
  \/ \E c \in Calls : Refuse(c) \/ Submit(c) \/ Serve(c)
  \/ \E w \in Workers : Take(w) \/ Finish(w)

Spec == Init /\ [][Next]_vars

(* Callers run and their timeouts pass; handlers may never return.         *)
FairSpec == Spec /\ \A c \in Calls : WF_vars(Serve(c))

---------------------------------------------------------------------------
TypeOK ==
  /\ class \in [Tools -> Classes \cup {"absent"}]
  /\ pc \in [Calls -> Labels]
  /\ tool \in [Calls -> Tools]
  /\ future \in [Calls -> Futures]
  /\ backlog \in Seq(Calls)
  /\ worker \in [Workers -> Calls \cup {NoCall}]
  /\ result \in [Calls -> Results]
  /\ audit \in [Calls -> Seq(Results)]

Queued == {backlog[i] : i \in DOMAIN backlog}
Running == {worker[w] : w \in Workers} \ {NoCall}

(* A handler runs on one worker, once, and a queued one on none.           *)
RunsOnce ==
  /\ \A v, w \in Workers : worker[v] = worker[w] /\ worker[v] # NoCall => v = w
  /\ \A i, k \in DOMAIN backlog : backlog[i] = backlog[k] => i = k
  /\ \A c \in Calls :
       /\ c \in Running <=> future[c] = "running"
       /\ c \in Queued => future[c] \in {"pending", "cancelled"}
       /\ future[c] = "pending" => c \in Queued

(* A call whose caller gave up while it was queued never runs.             *)
CancelledNeverRuns ==
  [][\A c \in Calls : future[c] = "cancelled" => future'[c] = "cancelled"]_vars

(* The audit row of an answered call is the answer its caller was given,   *)
(* even when the handler finished after its caller had left.               *)
AuditIsAnswer ==
  \A c \in Calls : audit[c] \in {<<>>, <<result[c]>>} /\ (audit[c] # <<>> => pc[c] = "done")

(* Every call is answered though handlers hang and hold all the workers.   *)
EveryCallAnswered == \A c \in Calls : pc[c] # "idle" ~> pc[c] = "done"

RegistryInv ==
  /\ TypeOK
  /\ RunsOnce
  /\ \A c \in Calls : pc[c] = "idle" => future[c] = "none"
  /\ AuditIsAnswer

===============================================================================
