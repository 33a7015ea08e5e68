------------------------------- MODULE AgentProofs -------------------------------
(***************************************************************************)
(* Proofs about what an agent session rests on.                            *)
(*                                                                         *)
(* AgentToolRegistry: RegistryInv is inductive as it stands: an item of    *)
(* the executor is in one place (its queue, one worker, or neither), which *)
(* its future tells, and the audit row is written by the last step of its  *)
(* call, when nothing can change the result any more.                      *)
(*                                                                         *)
(* EventStream: whatever the handlers, the interruptions and the other     *)
(* sessions do, a client that resumes with after_id misses only events of  *)
(* transactions that overlapped another one of its session, for every      *)
(* number of sessions, handlers, clients and events.                       *)
(***************************************************************************)
EXTENDS AgentToolRegistry, EventStream, TLAPS

(* What is queued after an item is added, and that it is queued once.      *)
LEMMA AppendItem ==
  ASSUME NEW s \in Seq(Calls), NEW c \in Calls,
         \A i, k \in DOMAIN s : s[i] = s[k] => i = k,
         \A i \in DOMAIN s : s[i] # c
  PROVE  /\ Append(s, c) \in Seq(Calls)
         /\ \A i, k \in DOMAIN Append(s, c) : Append(s, c)[i] = Append(s, c)[k] => i = k
         /\ {Append(s, c)[i] : i \in DOMAIN Append(s, c)} = {s[i] : i \in DOMAIN s} \cup {c}
<1> DEFINE t == Append(s, c)
<1>1. /\ t \in Seq(Calls) /\ Len(s) \in Nat /\ Len(t) = Len(s) + 1
      /\ DOMAIN s = 1 .. Len(s) /\ DOMAIN t = 1 .. (Len(s) + 1)
      /\ t[Len(s) + 1] = c
      /\ \A i \in 1 .. Len(s) : t[i] = s[i]
  OBVIOUS
<1> HIDE DEF t
<1>2. \A i \in DOMAIN t : (i \in DOMAIN s /\ t[i] = s[i]) \/ (i = Len(s) + 1 /\ t[i] = c)
  BY <1>1
<1>3. \A i, k \in DOMAIN t : t[i] = t[k] => i = k
  BY <1>2
<1>4. {t[i] : i \in DOMAIN t} = {s[i] : i \in DOMAIN s} \cup {c}
  <2>1. ASSUME NEW x \in {t[i] : i \in DOMAIN t} PROVE x \in {s[i] : i \in DOMAIN s} \cup {c}
    BY <1>2
  <2>2. ASSUME NEW x \in {s[i] : i \in DOMAIN s} \cup {c} PROVE x \in {t[i] : i \in DOMAIN t}
    <3>1. CASE x = c
      <4>1. Len(s) + 1 \in DOMAIN t
        BY <1>1
      <4> QED BY <4>1, <3>1, <1>1
    <3>2. CASE x # c
      <4>1. PICK i \in DOMAIN s : x = s[i]
        BY <2>2, <3>2
      <4>2. i \in DOMAIN t /\ t[i] = x
        BY <4>1, <1>1
      <4> QED BY <4>2
    <3> QED BY <3>1, <3>2
  <2> QED BY <2>1, <2>2
<1> QED BY <1>1, <1>3, <1>4 DEF t

(* What is queued after the oldest item is taken, which is then not.       *)
LEMMA TakeItem ==
  ASSUME NEW s \in Seq(Calls), s # <<>>,
         \A i, k \in DOMAIN s : s[i] = s[k] => i = k
  PROVE  /\ Tail(s) \in Seq(Calls) /\ Head(s) \in Calls
         /\ \A i, k \in DOMAIN Tail(s) : Tail(s)[i] = Tail(s)[k] => i = k
         /\ {Tail(s)[i] : i \in DOMAIN Tail(s)} = {s[i] : i \in DOMAIN s} \ {Head(s)}
         /\ Head(s) \in {s[i] : i \in DOMAIN s}
<1> DEFINE t == Tail(s)
<1>1. /\ t \in Seq(Calls) /\ Len(s) \in Nat /\ Len(s) > 0 /\ Len(t) = Len(s) - 1
      /\ DOMAIN s = 1 .. Len(s) /\ DOMAIN t = 1 .. (Len(s) - 1)
      /\ Head(s) = s[1] /\ s[1] \in Calls
      /\ \A i \in 1 .. (Len(s) - 1) : t[i] = s[i + 1]
  OBVIOUS
<1> HIDE DEF t
<1>2. \A i \in DOMAIN t : i \in Nat /\ i + 1 \in DOMAIN s /\ t[i] = s[i + 1] /\ i + 1 # 1
  BY <1>1
<1>3. \A i, k \in DOMAIN t : t[i] = t[k] => i = k
  <2> SUFFICES ASSUME NEW i \in DOMAIN t, NEW k \in DOMAIN t, t[i] = t[k] PROVE i = k
    OBVIOUS
  <2>1. i + 1 = k + 1
    BY <1>2
  <2> QED BY <2>1, <1>2
<1>4. {t[i] : i \in DOMAIN t} = {s[i] : i \in DOMAIN s} \ {Head(s)}
  <2>1. ASSUME NEW i \in DOMAIN t PROVE t[i] \in {s[k] : k \in DOMAIN s} \ {Head(s)}
    <3>1. i + 1 \in DOMAIN s /\ t[i] = s[i + 1] /\ 1 \in DOMAIN s /\ i + 1 # 1
      BY <1>1, <1>2
    <3>2. s[i + 1] # s[1]
      BY <3>1
    <3> QED BY <3>1, <3>2, <1>1
  <2>2. ASSUME NEW i \in DOMAIN s, s[i] # Head(s) PROVE s[i] \in {t[k] : k \in DOMAIN t}
    <3>1. i - 1 \in DOMAIN t /\ t[i - 1] = s[i]
      BY <1>1, <2>2
    <3> QED BY <3>1
  <2> QED BY <2>1, <2>2
<1>5. 1 \in DOMAIN s
  BY <1>1
<1> QED BY <1>1, <1>3, <1>4, <1>5 DEF t

LEMMA InitRegistry == Init => RegistryInv
<1> SUFFICES ASSUME Init PROVE RegistryInv
  OBVIOUS
<1>1. TypeOK
  BY DEF Init, TypeOK, Labels, Futures, Results
<1>2. Queued = {} /\ Running = {}
  BY DEF Init, Queued, Running
<1> QED
  BY <1>1, <1>2 DEF Init, RegistryInv, RunsOnce, AuditIsAnswer, TypeOK

(* Each step keeps the invariant, action by action.                        *)
LEMMA RegistryStep == RegistryInv /\ [Next]_vars => RegistryInv'
<1> SUFFICES ASSUME RegistryInv, [Next]_vars PROVE RegistryInv'
  OBVIOUS
<1> USE ConstantsAssumption
<1>t. TypeOK
  BY DEF RegistryInv
<1>1. CASE UNCHANGED vars
  BY <1>1 DEF vars, RegistryInv, TypeOK, RunsOnce, AuditIsAnswer, Queued, Running
<1>2. ASSUME NEW x \in Tools, Register(x) PROVE RegistryInv'
  <2>1. TypeOK'
    BY <1>t, <1>2 DEF Register, TypeOK
  <2> QED
    BY <1>2, <2>1 DEF Register, RegistryInv, RunsOnce, AuditIsAnswer, Queued, Running
<1>3. ASSUME NEW c \in Calls, Refuse(c) \/ Collect(c) \/ Timeout(c) PROVE RegistryInv'
  <2>1. /\ UNCHANGED <<class, tool, future, backlog, worker, audit>>
        /\ pc[c] \in {"idle", "waiting"} /\ pc'[c] \in {"record", "timed_out"}
        /\ \A d \in Calls : d # c => pc'[d] = pc[d] /\ result'[d] = result[d]
    BY <1>t, <1>3 DEF Refuse, Collect, Timeout, Settle, TypeOK
  <2>2. TypeOK'
    BY <1>t, <1>3 DEF Refuse, Collect, Timeout, Settle, TypeOK, Labels, Results
  <2>3. RunsOnce'
    BY <2>1 DEF RegistryInv, RunsOnce, Queued, Running
  <2>4. AuditIsAnswer'
    BY <2>1 DEF RegistryInv, AuditIsAnswer
  <2> QED BY <2>1, <2>2, <2>3, <2>4 DEF RegistryInv
<1>4. ASSUME NEW c \in Calls, Submit(c) PROVE RegistryInv'
  <2>1. /\ UNCHANGED <<class, tool, worker, result, audit>>
        /\ pc[c] = "idle" /\ class[tool[c]] = "read_only" /\ backlog' = Append(backlog, c)
        /\ pc'[c] = "waiting" /\ future'[c] = "pending"
        /\ \A d \in Calls : d # c => pc'[d] = pc[d] /\ future'[d] = future[d]
    BY <1>t, <1>4 DEF Submit, TypeOK
  <2>2. c \notin Queued /\ future[c] = "none" /\ c \notin Running
    BY <2>1 DEF RegistryInv, RunsOnce
  <2>3. /\ backlog' \in Seq(Calls) /\ Queued' = Queued \cup {c}
        /\ \A i, k \in DOMAIN backlog' : backlog'[i] = backlog'[k] => i = k
    <3>1. \A i \in DOMAIN backlog : backlog[i] # c
      BY <2>2 DEF Queued
    <3>2. /\ backlog \in Seq(Calls)
          /\ \A i, k \in DOMAIN backlog : backlog[i] = backlog[k] => i = k
      BY <1>t DEF RegistryInv, RunsOnce, TypeOK
    <3>3. LET s == Append(backlog, c)
          IN /\ s \in Seq(Calls)
             /\ \A i, k \in DOMAIN s : s[i] = s[k] => i = k
             /\ {s[i] : i \in DOMAIN s} = {backlog[i] : i \in DOMAIN backlog} \cup {c}
      BY <3>1, <3>2, AppendItem
    <3> QED BY <2>1, <3>3 DEF Queued
  <2>4. TypeOK'
    BY <1>t, <1>4, <2>3 DEF Submit, TypeOK, Labels, Futures
  <2>5. Running' = Running
    BY <2>1 DEF Running
  <2>7. RunsOnce'
    BY <2>1, <2>2, <2>3, <2>5 DEF RegistryInv, RunsOnce
  <2>8. AuditIsAnswer'
    BY <2>1 DEF RegistryInv, AuditIsAnswer
  <2> QED BY <2>1, <2>4, <2>7, <2>8 DEF RegistryInv
<1>5. ASSUME NEW w \in Workers, Take(w) PROVE RegistryInv'
  <2> DEFINE h == Head(backlog)
  <2>1. /\ UNCHANGED <<class, pc, tool, result, audit>>
        /\ worker[w] = NoCall /\ backlog # <<>> /\ backlog' = Tail(backlog)
    BY <1>5 DEF Take
  <2>2. /\ backlog' \in Seq(Calls) /\ h \in Calls /\ h \in Queued
        /\ Queued' = Queued \ {h}
        /\ \A i, k \in DOMAIN backlog' : backlog'[i] = backlog'[k] => i = k
    <3>1. /\ backlog \in Seq(Calls)
          /\ \A i, k \in DOMAIN backlog : backlog[i] = backlog[k] => i = k
      BY <1>t DEF RegistryInv, RunsOnce, TypeOK
    <3>2. LET s == Tail(backlog)
          IN /\ s \in Seq(Calls) /\ h \in Calls
             /\ \A i, k \in DOMAIN s : s[i] = s[k] => i = k
             /\ {s[i] : i \in DOMAIN s} = {backlog[i] : i \in DOMAIN backlog} \ {h}
             /\ h \in {backlog[i] : i \in DOMAIN backlog}
      BY <2>1, <3>1, TakeItem
    <3> QED BY <2>1, <3>2 DEF Queued
  <2> HIDE DEF h
  <2>3. CASE /\ future[h] = "pending"
             /\ future' = [future EXCEPT ![h] = "running"]
             /\ worker' = [worker EXCEPT ![w] = h]
    <3>1. TypeOK'
      BY <1>t, <2>1, <2>2, <2>3 DEF TypeOK, Futures
    <3>2. h \notin Running /\ \A v \in Workers : worker[v] # h
      BY <2>2, <2>3 DEF RegistryInv, RunsOnce, Running
    <3>3. Running' = Running \cup {h}
      BY <1>t, <2>1, <2>2, <2>3 DEF Running, TypeOK
    <3>5. RunsOnce'
      <4>1. \A u, v \in Workers : worker'[u] = worker'[v] /\ worker'[u] # NoCall => u = v
        BY <1>t, <2>2, <2>3, <3>2 DEF RegistryInv, RunsOnce, TypeOK
      <4>2. \A c \in Calls : /\ c \in Running' <=> future'[c] = "running"
                             /\ c \in Queued' => future'[c] \in {"pending", "cancelled"}
                             /\ future'[c] = "pending" => c \in Queued'
        BY <1>t, <2>2, <2>3, <3>3 DEF RegistryInv, RunsOnce, TypeOK
      <4> QED BY <2>2, <4>1, <4>2 DEF RunsOnce
    <3>6. AuditIsAnswer' /\ \A c \in Calls : pc'[c] = "idle" => future'[c] = "none"
      BY <1>t, <2>1, <2>2, <2>3 DEF RegistryInv, AuditIsAnswer, TypeOK
    <3> QED BY <3>1, <3>5, <3>6 DEF RegistryInv
  <2>4. CASE future[h] = "cancelled" /\ UNCHANGED <<future, worker>>
    <3>1. TypeOK' /\ Running' = Running
      BY <1>t, <2>1, <2>2, <2>4 DEF TypeOK, Running
    <3>2. RunsOnce'
      BY <2>1, <2>2, <2>4, <3>1 DEF RegistryInv, RunsOnce
    <3> QED BY <2>1, <2>4, <3>1, <3>2 DEF RegistryInv, AuditIsAnswer
  <2> QED BY <1>5, <2>3, <2>4 DEF Take, h
<1>6. ASSUME NEW w \in Workers, Finish(w) PROVE RegistryInv'
  <2> DEFINE h == worker[w]
  <2>1. /\ UNCHANGED <<class, pc, tool, backlog, result, audit>>
        /\ h # NoCall /\ h \in Calls /\ worker' = [worker EXCEPT ![w] = NoCall]
        /\ \E outcome \in Finished : future' = [future EXCEPT ![h] = outcome]
    BY <1>t, <1>6 DEF Finish, TypeOK
  <2>2. h \in Running /\ future[h] = "running" /\ h \notin Queued
    BY <2>1 DEF RegistryInv, RunsOnce, Running
  <2>3. Running' = Running \ {h}
    BY <1>t, <2>1 DEF RegistryInv, RunsOnce, Running, TypeOK
  <2>4. Queued' = Queued
    BY <2>1 DEF Queued
  <2>5. TypeOK'
    BY <1>t, <2>1 DEF TypeOK, Futures, Finished
  <2>6. /\ future'[h] \notin {"none", "pending", "running", "cancelled"}
        /\ \A c \in Calls : c # h => future'[c] = future[c]
    BY <1>t, <2>1 DEF TypeOK, Finished
  <2>8. RunsOnce'
    <3>1. \A u, v \in Workers : worker'[u] = worker'[v] /\ worker'[u] # NoCall => u = v
      BY <1>t, <2>1 DEF RegistryInv, RunsOnce, TypeOK
    <3>2. \A c \in Calls : /\ c \in Running' <=> future'[c] = "running"
                           /\ c \in Queued' => future'[c] \in {"pending", "cancelled"}
                           /\ future'[c] = "pending" => c \in Queued'
      BY <2>2, <2>3, <2>4, <2>6 DEF RegistryInv, RunsOnce
    <3> QED BY <2>1, <3>1, <3>2 DEF RegistryInv, RunsOnce
  <2>9. AuditIsAnswer' /\ \A c \in Calls : pc'[c] = "idle" => future'[c] = "none"
    BY <2>1, <2>2, <2>6 DEF RegistryInv, AuditIsAnswer
  <2> QED BY <2>5, <2>8, <2>9 DEF RegistryInv
<1>7. ASSUME NEW c \in Calls, Cancel(c) PROVE RegistryInv'
  <2>1. /\ UNCHANGED <<class, tool, backlog, worker, audit>>
        /\ pc[c] = "timed_out" /\ pc'[c] = "record"
        /\ future'[c] = (IF future[c] = "pending" THEN "cancelled" ELSE future[c])
        /\ \A d \in Calls : d # c =>
             pc'[d] = pc[d] /\ result'[d] = result[d] /\ future'[d] = future[d]
    BY <1>t, <1>7 DEF Cancel, Settle, TypeOK
  <2>2. TypeOK'
    BY <1>t, <1>7 DEF Cancel, Settle, TypeOK, Labels, Futures, Results
  <2>3. RunsOnce'
    BY <2>1 DEF RegistryInv, RunsOnce, Queued, Running
  <2>4. AuditIsAnswer' /\ \A d \in Calls : pc'[d] = "idle" => future'[d] = "none"
    BY <2>1 DEF RegistryInv, AuditIsAnswer
  <2> QED BY <2>2, <2>3, <2>4 DEF RegistryInv
<1>8. ASSUME NEW c \in Calls, Record(c) PROVE RegistryInv'
  <2>1. /\ UNCHANGED <<class, tool, future, backlog, worker, result>>
        /\ pc[c] = "record" /\ pc'[c] = "done"
        /\ \A d \in Calls : d # c => pc'[d] = pc[d] /\ audit'[d] = audit[d]
        /\ audit'[c] \in {audit[c], Append(audit[c], result[c])}
    BY <1>t, <1>8 DEF Record, TypeOK
  <2>2. audit[c] = <<>>
    BY <2>1 DEF RegistryInv, AuditIsAnswer
  <2>3. audit'[c] \in {<<>>, <<result[c]>>}
    BY <2>1, <2>2
  <2>4. TypeOK'
    <3>1. audit' \in [Calls -> Seq(Results)]
      <4>1. Append(audit[c], result[c]) \in Seq(Results)
        BY <1>t DEF TypeOK
      <4> QED BY <1>t, <1>8, <4>1 DEF Record, TypeOK
    <3>2. pc' \in [Calls -> Labels]
      BY <1>t, <1>8 DEF Record, TypeOK, Labels
    <3> QED BY <1>t, <2>1, <3>1, <3>2 DEF TypeOK
  <2>5. RunsOnce'
    BY <2>1 DEF RegistryInv, RunsOnce, Queued, Running
  <2>6. AuditIsAnswer' /\ \A d \in Calls : pc'[d] = "idle" => future'[d] = "none"
    BY <2>1, <2>3 DEF RegistryInv, AuditIsAnswer
  <2> QED BY <2>4, <2>5, <2>6 DEF RegistryInv
<1> QED BY <1>1, <1>2, <1>3, <1>4, <1>5, <1>6, <1>7, <1>8 DEF Next, Serve

(* The invariant holds of every registry, pool and set of calls.           *)
THEOREM RegistryInvariant == Spec => []RegistryInv
<1>1. Init => RegistryInv
  BY InitRegistry
<1>2. RegistryInv /\ [Next]_vars => RegistryInv'
  BY RegistryStep
<1> QED BY <1>1, <1>2, PTL DEF Spec

(* Every handler runs on at most one worker and at most once.              *)
THEOREM RunsOnceAlways == Spec => []RunsOnce
<1>1. RegistryInv => RunsOnce
  BY DEF RegistryInv
<1> QED BY <1>1, RegistryInvariant, PTL

(* The audit row of a call is its answer, however late its handler ends.   *)
THEOREM AuditIsAnswerAlways == Spec => []AuditIsAnswer
<1>1. RegistryInv => AuditIsAnswer
  BY DEF RegistryInv
<1> QED BY <1>1, RegistryInvariant, PTL

(* A call that was cancelled in the queue never runs: only a worker that   *)
(* finds it pending starts it, and only a running handler finishes.        *)
THEOREM CancelledStays == Spec => CancelledNeverRuns
<1>1. RegistryInv /\ [Next]_vars =>
        [\A c \in Calls : future[c] = "cancelled" => future'[c] = "cancelled"]_vars
  <2> SUFFICES ASSUME RegistryInv, Next, NEW c \in Calls, future[c] = "cancelled"
               PROVE  future'[c] = "cancelled"
    OBVIOUS
  <2>t. TypeOK /\ c \notin Running /\ (pc[c] # "idle")
    BY DEF RegistryInv, RunsOnce
  <2>1. CASE \E t \in Tools : Register(t)
    BY <2>1 DEF Register
  <2>2. ASSUME NEW d \in Calls, Refuse(d) \/ Submit(d) \/ Serve(d) PROVE future'[c] = "cancelled"
    BY <2>t, <2>2 DEF Refuse, Submit, Serve, Collect, Timeout, Cancel, Record, TypeOK
  <2>3. ASSUME NEW w \in Workers, Take(w) PROVE future'[c] = "cancelled"
    BY <2>t, <2>3 DEF Take, TypeOK
  <2>4. ASSUME NEW w \in Workers, Finish(w) PROVE future'[c] = "cancelled"
    <3>1. worker[w] # c
      BY <2>t, <2>4 DEF Running, Finish, TypeOK
    <3> QED BY <2>t, <2>4, <3>1 DEF Finish, TypeOK
  <2> QED BY <2>1, <2>2, <2>3, <2>4 DEF Next
<1> QED BY <1>1, RegistryInvariant, PTL DEF Spec, CancelledNeverRuns

---------------------------------------------------------------------------
(* Every variable keeps its type, whoever writes when.                     *)
LEMMA StreamTypeStep == StreamTypeOK /\ [StreamNext]_streamVars => StreamTypeOK'
  <1> SUFFICES ASSUME StreamTypeOK, [StreamNext]_streamVars PROVE StreamTypeOK'
    OBVIOUS
  <1> USE StreamConstants DEF StreamTypeOK
  <1>1. ASSUME NEW s \in Sessions, CreateSession(s) PROVE StreamTypeOK'
    BY <1>1 DEF CreateSession, clientVars
  <1>2. ASSUME NEW h \in Handlers, RefuseHandler(h) PROVE StreamTypeOK'
    BY <1>2 DEF RefuseHandler, clientVars, StreamPhases
  <1>3. ASSUME NEW h \in Handlers, Begin(h) PROVE StreamTypeOK'
    <2>1. PICK n \in 1..MaxBatch : left' = [left EXCEPT ![h] = n]
      BY <1>3 DEF Begin
    <2>2. n \in 0..MaxBatch
      BY <2>1
    <2>3. overlapped' \subseteq SUBSET Handlers
      BY <1>3 DEF Begin
    <2> QED BY <1>3, <2>1, <2>2, <2>3 DEF Begin, clientVars, StreamPhases
  <1>4. ASSUME NEW h \in Handlers, Insert(h) PROVE StreamTypeOK'
    <2>1. left[h] - 1 \in 0..MaxBatch
      BY <1>4 DEF Insert
    <2>2. batch[h] \cup {nextId} \in SUBSET Nat
      BY <1>4
    <2> QED BY <1>4, <2>1, <2>2 DEF Insert, clientVars
  <1>5. ASSUME NEW h \in Handlers, Commit(h) PROVE StreamTypeOK'
    BY <1>5 DEF Commit, clientVars, StreamPhases
  <1>6. ASSUME NEW h \in Handlers, Rollback(h) PROVE StreamTypeOK'
    BY <1>6 DEF Rollback, clientVars, StreamPhases
  <1>7. ASSUME NEW c \in Clients, Read(c) PROVE StreamTypeOK'
    <2>1. PICK last \in Pending(c) :
            /\ cursor' = [cursor EXCEPT ![c] = last]
            /\ received' = [received EXCEPT ![c] = @ \cup Cut(c, last)]
      BY <1>7 DEF Read
    <2>2. last \in Nat /\ Cut(c, last) \subseteq Nat
      BY <2>1 DEF Pending, Cut
    <2> QED BY <1>7, <2>1, <2>2 DEF Read, writerVars
  <1>8. ASSUME NEW c \in Clients, Reload(c) PROVE StreamTypeOK'
    <2>1. reloads[c] + 1 \in 0..MaxReloads
      BY <1>8 DEF Reload
    <2> QED BY <1>8, <2>1 DEF Reload, writerVars
  <1>9. CASE UNCHANGED streamVars
    BY <1>9 DEF streamVars
  <1> QED
    BY <1>1, <1>2, <1>3, <1>4, <1>5, <1>6, <1>7, <1>8, <1>9 DEF StreamNext

(* The event log's variables always hold what the code can put there.      *)
THEOREM StreamTypeCorrect == StreamSpec => []StreamTypeOK
  <1>1. StreamInit => StreamTypeOK
    BY StreamConstants DEF StreamInit, StreamTypeOK, StreamPhases
  <1> QED BY <1>1, StreamTypeStep, PTL DEF StreamSpec

(* Every step that leaves the writers' side alone but for new sessions,    *)
(* refusals and rollbacks disturbs nothing.                                *)
LEMMA QuietStep ==
  ASSUME StreamInv, StreamTypeOK',
         UNCHANGED <<nextId, table, target, batch, overlapped, clientVars>>,
         \A g \in Handlers : phase'[g] = phase[g] \/ phase'[g] \notin {"idle", "open"}
  PROVE  StreamInv'
  BY DEF StreamInv, IdsAreDrawn, IdsPositive, BeforeBegin, CursorsCommitted, OpenOverlap,
     OpenIsLatest, clientVars

LEMMA StreamStep == StreamInv /\ [StreamNext]_streamVars => StreamInv'
  <1> SUFFICES ASSUME StreamInv, [StreamNext]_streamVars PROVE StreamInv'
    OBVIOUS
  <1>t. StreamTypeOK /\ StreamTypeOK'
    BY StreamTypeStep DEF StreamInv
  <1>1. ASSUME NEW s \in Sessions, CreateSession(s) PROVE StreamInv'
    BY <1>t, <1>1, QuietStep DEF CreateSession
  <1>2. ASSUME NEW h \in Handlers, RefuseHandler(h) \/ Rollback(h) PROVE StreamInv'
    <2>1. phase' = [phase EXCEPT ![h] = "refused"] \/ phase' = [phase EXCEPT ![h] = "rolled_back"]
      BY <1>2 DEF RefuseHandler, Rollback
    <2>2. \A g \in Handlers : phase'[g] = phase[g] \/ phase'[g] \notin {"idle", "open"}
      BY <1>t, <2>1 DEF StreamTypeOK
    <2> QED BY <1>t, <1>2, <2>2, QuietStep DEF RefuseHandler, Rollback
  <1>3. ASSUME NEW h \in Handlers, Begin(h) PROVE StreamInv'
    <2>1. /\ UNCHANGED <<nextId, table, target, batch, clientVars>>
          /\ phase[h] = "idle" /\ batch[h] = {} /\ phase'[h] = "open"
          /\ \A g \in Handlers : g # h => phase'[g] = phase[g]
          /\ overlapped \subseteq overlapped'
          /\ \A g \in Handlers : phase[g] = "open" /\ target[g] = target[h] => {g, h} \in overlapped'
      BY <1>t, <1>3 DEF Begin, StreamInv, BeforeBegin, StreamTypeOK
    <2>2. OpenOverlap'
      <3> SUFFICES ASSUME NEW f \in Handlers, NEW g \in Handlers, f # g,
                          phase'[f] = "open", phase'[g] = "open", target[f] = target[g]
                   PROVE  {f, g} \in overlapped'
        BY <2>1 DEF OpenOverlap
      <3>1. CASE f # h /\ g # h
        BY <2>1, <3>1 DEF StreamInv, OpenOverlap
      <3>2. CASE g = h
        BY <2>1, <3>2
      <3>3. CASE f = h
        <4>1. {g, h} \in overlapped' /\ {g, h} = {f, g}
          BY <2>1, <3>3
        <4> QED BY <4>1
      <3> QED BY <3>1, <3>2, <3>3
    <2>3. OpenIsLatest'
      BY <2>1 DEF StreamInv, OpenIsLatest
    <2>4. IdsAreDrawn' /\ IdsPositive' /\ BeforeBegin' /\ CursorsCommitted'
      BY <2>1 DEF StreamInv, IdsAreDrawn, IdsPositive, BeforeBegin, CursorsCommitted, clientVars
    <2> QED BY <1>t, <2>2, <2>3, <2>4 DEF StreamInv
  <1>4. ASSUME NEW h \in Handlers, Insert(h) PROVE StreamInv'
    <2>1. /\ UNCHANGED <<table, phase, target, overlapped, clientVars>>
          /\ phase[h] = "open" /\ nextId' = nextId + 1 /\ nextId \in Nat
          /\ batch'[h] = batch[h] \cup {nextId}
          /\ \A g \in Handlers : g # h => batch'[g] = batch[g]
      BY <1>t, <1>4 DEF Insert, StreamTypeOK
    <2>a. /\ \A s \in Sessions : \A e : e \in table[s] => e \in Nat /\ e < nextId
          /\ \A g \in Handlers : \A e : e \in batch[g] => e \in Nat /\ e < nextId
      BY <1>t DEF StreamInv, IdsAreDrawn, StreamTypeOK
    <2>b. \A g \in Handlers : \A e :
            /\ e \in batch'[g] => e \in batch[g] \/ (g = h /\ e = nextId)
            /\ e \in batch[g] => e \in batch'[g]
      BY <2>1
    <2>2. IdsAreDrawn' /\ IdsPositive'
      <3>1. \A s \in Sessions : \A e \in table'[s] : e < nextId'
        BY <2>1, <2>a
      <3>2. \A g \in Handlers : \A e \in batch'[g] : e < nextId'
        BY <2>1, <2>a, <2>b
      <3>3. IdsPositive'
        BY <2>1, <2>b DEF StreamInv, IdsPositive
      <3> QED BY <3>1, <3>2, <3>3 DEF IdsAreDrawn
    <2>3. OpenIsLatest'
      <3> SUFFICES ASSUME NEW g \in Handlers, phase[g] = "open",
                          NEW e \in batch'[g], NEW d \in table[target[g]]
                   PROVE  d < e \/ \E f \in Handlers : {f, g} \in overlapped /\ d \in batch'[f]
        BY <2>1, Zenon DEF OpenIsLatest
      <3>1. target[g] \in Sessions
        BY <1>t DEF StreamTypeOK
      <3>2. CASE e \in batch[g]
        BY <2>b, <3>2 DEF StreamInv, OpenIsLatest
      <3>3. CASE e = nextId
        BY <2>a, <3>1, <3>3
      <3> QED BY <2>b, <3>2, <3>3
    <2>4. BeforeBegin' /\ CursorsCommitted' /\ OpenOverlap'
      BY <2>1 DEF StreamInv, BeforeBegin, CursorsCommitted, OpenOverlap, clientVars
    <2> QED BY <1>t, <2>2, <2>3, <2>4 DEF StreamInv
  <1>5. ASSUME NEW h \in Handlers, Commit(h) PROVE StreamInv'
    <2>1. /\ UNCHANGED <<nextId, target, batch, overlapped, clientVars>>
          /\ phase[h] = "open" /\ phase'[h] = "committed"
          /\ \A g \in Handlers : g # h => phase'[g] = phase[g]
          /\ table'[target[h]] = table[target[h]] \cup batch[h]
          /\ \A s \in Sessions : s # target[h] => table'[s] = table[s]
          /\ target[h] \in Sessions
      BY <1>t, <1>5 DEF Commit, StreamTypeOK
    <2>a. \A s \in Sessions : \A e : e \in table'[s] <=>
            e \in table[s] \/ (s = target[h] /\ e \in batch[h])
      BY <2>1
    <2>2. /\ IdsAreDrawn' /\ IdsPositive' /\ BeforeBegin' /\ OpenOverlap'
      <3>1. IdsAreDrawn'
        BY <2>1, <2>a DEF StreamInv, IdsAreDrawn
      <3>2. IdsPositive'
        BY <2>1, <2>a DEF StreamInv, IdsPositive
      <3>3. BeforeBegin' /\ OpenOverlap'
        BY <2>1 DEF StreamInv, BeforeBegin, OpenOverlap
      <3> QED BY <3>1, <3>2, <3>3
    <2>3. CursorsCommitted'
      BY <1>t, <2>1, <2>a DEF StreamInv, CursorsCommitted, clientVars, StreamTypeOK
    <2>4. OpenIsLatest'
      <3> SUFFICES ASSUME NEW g \in Handlers, phase'[g] = "open",
                          NEW e \in batch[g], NEW d \in table'[target[g]]
                   PROVE  d < e \/ \E f \in Handlers : {f, g} \in overlapped /\ d \in batch[f]
        BY <2>1, Zenon DEF OpenIsLatest
      <3>1. g # h /\ phase[g] = "open" /\ target[g] \in Sessions
        BY <1>t, <2>1 DEF StreamTypeOK
      <3>2. CASE d \in table[target[g]]
        BY <3>1, <3>2 DEF StreamInv, OpenIsLatest
      <3>3. CASE target[g] = target[h] /\ d \in batch[h]
        <4>1. {h, g} \in overlapped
          BY <2>1, <3>1, <3>3 DEF StreamInv, OpenOverlap
        <4> QED BY <3>3, <4>1
      <3> QED BY <2>a, <3>1, <3>2, <3>3
    <2> QED BY <1>t, <2>2, <2>3, <2>4 DEF StreamInv
  <1>6. ASSUME NEW c \in Clients, Read(c) PROVE StreamInv'
    <2>1. PICK last \in Pending(c) :
            /\ cursor' = [cursor EXCEPT ![c] = last]
            /\ received' = [received EXCEPT ![c] = @ \cup Cut(c, last)]
      BY <1>6 DEF Read
    <2>2. UNCHANGED writerVars /\ UNCHANGED watched
      BY <1>6 DEF Read
    <2>3. last \in table[watched[c]] /\ last \in Cut(c, last)
      BY <1>t, <2>1 DEF Pending, Cut, StreamTypeOK
    <2>4. CursorsCommitted'
      BY <1>t, <2>1, <2>2, <2>3 DEF StreamInv, CursorsCommitted, writerVars, StreamTypeOK
    <2>5. IdsAreDrawn' /\ IdsPositive' /\ BeforeBegin' /\ OpenOverlap' /\ OpenIsLatest'
      BY <2>2 DEF StreamInv, IdsAreDrawn, IdsPositive, BeforeBegin, OpenOverlap, OpenIsLatest,
         writerVars
    <2> QED BY <1>t, <2>4, <2>5 DEF StreamInv
  <1>7. ASSUME NEW c \in Clients, Reload(c) PROVE StreamInv'
    <2>1. /\ UNCHANGED writerVars /\ UNCHANGED watched
          /\ cursor' = [cursor EXCEPT ![c] = 0]
          /\ received' = [received EXCEPT ![c] = {}]
      BY <1>7 DEF Reload
    <2>2. CursorsCommitted'
      BY <1>t, <2>1 DEF StreamInv, CursorsCommitted, writerVars, StreamTypeOK
    <2>3. IdsAreDrawn' /\ IdsPositive' /\ BeforeBegin' /\ OpenOverlap' /\ OpenIsLatest'
      BY <2>1 DEF StreamInv, IdsAreDrawn, IdsPositive, BeforeBegin, OpenOverlap, OpenIsLatest,
         writerVars
    <2> QED BY <1>t, <2>2, <2>3 DEF StreamInv
  <1>8. CASE UNCHANGED streamVars
    BY <1>8 DEF streamVars, StreamInv, StreamTypeOK, IdsAreDrawn, IdsPositive, BeforeBegin,
       CursorsCommitted, OpenOverlap, OpenIsLatest
  <1> QED
    BY <1>1, <1>2, <1>3, <1>4, <1>5, <1>6, <1>7, <1>8 DEF StreamNext

(* The inductive invariant of the log, however the handlers interleave.     *)
THEOREM StreamInvariant == StreamSpec => []StreamInv
  <1>1. StreamInit => StreamInv
    BY StreamConstants DEF StreamInit, StreamInv, StreamTypeOK, StreamPhases, IdsAreDrawn, IdsPositive,
       BeforeBegin, CursorsCommitted, OpenOverlap, OpenIsLatest
  <1> QED BY <1>1, StreamStep, PTL DEF StreamSpec

(* What a commit adds before a client's cursor came too late for it: the   *)
(* event that the cursor stands on was committed by another transaction    *)
(* that this one overlaps.                                                 *)
LEMMA CommitIsBeyond ==
  ASSUME StreamInv, NEW h \in Handlers, phase[h] = "open",
         NEW c \in Clients, watched[c] = target[h], NEW e \in batch[h],
         e <= cursor[c], e \notin received[c]
  PROVE  TooLateFor(c, h, e)
  <1>1. e \in Nat /\ cursor[c] \in Nat /\ e # 0
    BY DEF StreamInv, StreamTypeOK, IdsPositive
  <1>2. cursor[c] \in table[target[h]] /\ cursor[c] \in received[c]
    BY <1>1 DEF StreamInv, CursorsCommitted
  <1>3. e < cursor[c]
    BY <1>1, <1>2
  <1>4. PICK g \in Handlers : {g, h} \in overlapped /\ cursor[c] \in batch[g]
    <2>1. cursor[c] < e \/ \E g \in Handlers : {g, h} \in overlapped /\ cursor[c] \in batch[g]
      BY <1>2, Zenon DEF StreamInv, OpenIsLatest
    <2>2. ~(cursor[c] < e)
      BY <1>1, <1>3
    <2> QED BY <2>1, <2>2
  <1> QED BY <1>2, <1>3, <1>4 DEF TooLateFor

(* An event that came too late for a client stays too late until it reloads. *)
LEMMA StaysTooLate ==
  ASSUME NEW c \in Clients, NEW h \in Handlers, NEW e, TooLateFor(c, h, e),
         overlapped \subseteq overlapped', received[c] \subseteq received'[c],
         \A g \in Handlers : batch[g] \subseteq batch'[g]
  PROVE  TooLateFor(c, h, e)'
  BY DEF TooLateFor

LEMMA SkippedStep ==
  StreamInv /\ SkippedOnlyWhenOverlapped /\ [StreamNext]_streamVars => SkippedOnlyWhenOverlapped'
  <1> SUFFICES ASSUME StreamInv, SkippedOnlyWhenOverlapped, [StreamNext]_streamVars,
                      NEW c \in Clients, NEW e \in table'[watched'[c]],
                      e <= cursor'[c], e \notin received'[c]
               PROVE  \E h \in Handlers : e \in batch'[h] /\ TooLateFor(c, h, e)'
    BY DEF SkippedOnlyWhenOverlapped
  <1>t. StreamTypeOK /\ StreamTypeOK' /\ StreamInv'
    BY StreamTypeStep, StreamStep DEF StreamInv
  <1> DEFINE Known == e \in table[watched[c]] /\ e <= cursor[c] /\ e \notin received[c]
             Grows == /\ overlapped \subseteq overlapped' /\ received[c] \subseteq received'[c]
                      /\ \A g \in Handlers : batch[g] \subseteq batch'[g]
  <1>1. ASSUME Known, Grows PROVE \E h \in Handlers : e \in batch'[h] /\ TooLateFor(c, h, e)'
    <2>1. PICK h \in Handlers : e \in batch[h] /\ TooLateFor(c, h, e)
      BY <1>1 DEF SkippedOnlyWhenOverlapped
    <2> QED BY <1>1, <2>1, StaysTooLate
  <1>2. ASSUME UNCHANGED <<table, overlapped, batch, watched, cursor, received>> PROVE Known /\ Grows
    BY <1>2
  <1>3. ASSUME NEW s \in Sessions, CreateSession(s) PROVE Known /\ Grows
    BY <1>2, <1>3 DEF CreateSession, clientVars
  <1>4. ASSUME NEW h \in Handlers, RefuseHandler(h) \/ Rollback(h) PROVE Known /\ Grows
    BY <1>2, <1>4 DEF RefuseHandler, Rollback, clientVars
  <1>5. ASSUME NEW h \in Handlers, Begin(h) PROVE Known /\ Grows
    BY <1>5 DEF Begin, clientVars
  <1>6. ASSUME NEW h \in Handlers, Insert(h) PROVE Known /\ Grows
    BY <1>t, <1>6 DEF Insert, clientVars, StreamTypeOK
  <1>7. ASSUME NEW h \in Handlers, Commit(h)
        PROVE  \E g \in Handlers : e \in batch'[g] /\ TooLateFor(c, g, e)'
    <2>1. /\ UNCHANGED <<batch, overlapped, target, clientVars>> /\ phase[h] = "open"
          /\ Grows /\ e <= cursor[c] /\ e \notin received[c]
          /\ e \in table[watched[c]] \/ (watched[c] = target[h] /\ e \in batch[h])
      BY <1>t, <1>7 DEF Commit, clientVars, StreamTypeOK
    <2>2. CASE e \in table[watched[c]]
      BY <1>1, <2>1, <2>2
    <2>3. CASE watched[c] = target[h] /\ e \in batch[h]
      <3>1. TooLateFor(c, h, e)
        BY <2>1, <2>3, CommitIsBeyond
      <3> QED BY <2>1, <2>3, <3>1, StaysTooLate
    <2> QED BY <2>1, <2>2, <2>3
  <1>8. ASSUME NEW d \in Clients, Read(d) PROVE Known /\ Grows
    <2>1. PICK last \in Pending(d) :
            /\ cursor' = [cursor EXCEPT ![d] = last]
            /\ received' = [received EXCEPT ![d] = @ \cup Cut(d, last)]
      BY <1>8 DEF Read
    <2>2. UNCHANGED <<table, overlapped, batch, watched>>
      BY <1>8 DEF Read, writerVars
    <2>3. Grows
      BY <1>t, <2>1, <2>2 DEF StreamTypeOK
    <2>4. CASE d # c
      BY <1>t, <2>1, <2>2, <2>3, <2>4 DEF StreamTypeOK
    <2>5. CASE d = c
      <3>1. /\ e \in Nat /\ cursor[c] \in Nat /\ last \in Nat /\ cursor'[c] = last
            /\ e \in table[watched[c]] /\ e \notin received[c] /\ e \notin Cut(c, last)
        BY <1>t, <2>1, <2>2, <2>5 DEF StreamTypeOK, Pending
      <3>2. e <= cursor[c]
        BY <3>1 DEF Cut, Pending
      <3> QED BY <2>3, <3>1, <3>2
    <2> QED BY <2>4, <2>5
  <1>9. ASSUME NEW d \in Clients, Reload(d) PROVE Known /\ Grows
    <2>1. /\ UNCHANGED <<table, overlapped, batch, watched>>
          /\ cursor' = [cursor EXCEPT ![d] = 0]
          /\ received' = [received EXCEPT ![d] = {}]
      BY <1>9 DEF Reload, writerVars
    <2>2. e \in Nat /\ e # 0
      BY <1>t DEF StreamInv, IdsPositive, StreamTypeOK
    <2>3. d # c
      BY <1>t, <2>1, <2>2 DEF StreamTypeOK
    <2> QED BY <1>t, <2>1, <2>3 DEF StreamTypeOK
  <1>10. CASE UNCHANGED streamVars
    BY <1>1, <1>2, <1>10 DEF streamVars
  <1> HIDE DEF Known, Grows
  <1> QED
    BY <1>1, <1>3, <1>4, <1>5, <1>6, <1>7, <1>8, <1>9, <1>10 DEF StreamNext

(* A client that resumes with after_id misses only events of transactions  *)
(* that overlapped another one of its session, whatever the handlers, the  *)
(* interruptions and the other sessions do.                                *)
THEOREM SkippedOnlyWhenOverlappedAlways == StreamSpec => []SkippedOnlyWhenOverlapped
  <1>1. StreamInit => SkippedOnlyWhenOverlapped
    BY DEF StreamInit, SkippedOnlyWhenOverlapped
  <1> QED BY <1>1, SkippedStep, StreamInvariant, PTL DEF StreamSpec

(* When no transactions of a session overlap, as when its writers take     *)
(* turns, every client has received all that lies before its cursor.       *)
THEOREM NoneSkippedInTurns == StreamSpec => [](overlapped = {} => NoEventSkipped)
  <1>1. SkippedOnlyWhenOverlapped /\ overlapped = {} => NoEventSkipped
    BY DEF SkippedOnlyWhenOverlapped, TooLateFor, NoEventSkipped
  <1> QED BY <1>1, SkippedOnlyWhenOverlappedAlways, PTL

===============================================================================
