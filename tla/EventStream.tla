------------------------------- MODULE EventStream -------------------------------
(***************************************************************************)
(* The event log of an agent session: handlers that insert agent_events    *)
(* rows (backend/app/api/v1/agent_sessions.py over db/repos/agent_event.py *)
(* and agent_session.py), and clients that read it with                    *)
(* GET /sessions/{id}/events?after_id=... and resume where they stopped.   *)
(*                                                                         *)
(* agent_events.id is drawn from one database sequence when a row is       *)
(* inserted (create_event flushes), and the row is visible when its        *)
(* transaction commits: ids are handed out in another order than rows      *)
(* appear. What an event says is left out; ApprovalGate has it.            *)
(***************************************************************************)
EXTENDS Naturals

CONSTANTS
  Sessions,     \* primary keys of agent_sessions
  Handlers,     \* requests that write events (each runs once)
  Clients,      \* readers of the stream
  MaxBatch,     \* bound: events of one transaction (a launch writes three)
  MaxReloads    \* bound: times a client forgets its cursor

ASSUME StreamConstants ==
  /\ MaxBatch \in Nat \ {0}
  /\ MaxReloads \in Nat

VARIABLES
  nextId,    \* the sequence behind agent_events.id
  sessions,  \* committed agent_sessions
  table,     \* committed agent_events: the ids of each session
  phase,        \* where each handler is
  target,    \* the session it writes to
  left,      \* events its transaction has still to insert
  batch,     \* ids its transaction has inserted
  watched,   \* the session each client reads
  cursor,    \* the last event id it received: its next after_id
  received,  \* the ids it received since it started afresh
  reloads,   \* how often it started afresh
  overlapped \* history: the pairs of handlers whose transactions in one
             \* session were open at the same time; no step reads it

writerVars == <<nextId, sessions, table, phase, target, left, batch, overlapped>>
clientVars == <<watched, cursor, received, reloads>>
streamVars == <<nextId, sessions, table, phase, target, left, batch,
          overlapped, watched, cursor, received, reloads>>

StreamPhases == {"idle", "open", "committed", "rolled_back", "refused"}

StreamInit ==
  /\ nextId = 1
  /\ sessions = {}
  /\ table = [s \in Sessions |-> {}]
  /\ phase = [h \in Handlers |-> "idle"]
  /\ target \in [Handlers -> Sessions]
  /\ left = [h \in Handlers |-> 0]
  /\ batch = [h \in Handlers |-> {}]
  /\ watched \in [Clients -> Sessions]
  /\ cursor = [c \in Clients |-> 0]
  /\ received = [c \in Clients |-> {}]
  /\ reloads = [c \in Clients |-> 0]
  /\ overlapped = {}

---------------------------------------------------------------------------
(* create_session: one INSERT and its COMMIT. *)
CreateSession(s) ==
  /\ s \notin sessions
  /\ sessions' = sessions \cup {s}
  /\ UNCHANGED <<nextId, table, phase, target, left, batch, overlapped, clientVars>>

(* get_session finds nothing: 404, nothing is written.                     *)
RefuseHandler(h) ==
  /\ phase[h] = "idle"
  /\ target[h] \notin sessions
  /\ phase' = [phase EXCEPT ![h] = "refused"]
  /\ UNCHANGED <<nextId, sessions, table, target, left, batch, overlapped, clientVars>>

(* A handler that will write n events opens its transaction: each handler  *)
(* has a database session of its own, and nothing makes them take turns.   *)
Begin(h) ==
  /\ phase[h] = "idle"
  /\ target[h] \in sessions
  /\ \E n \in 1..MaxBatch : left' = [left EXCEPT ![h] = n]
  /\ phase' = [phase EXCEPT ![h] = "open"]
  /\ overlapped' = overlapped \cup
       {{g, h} : g \in {f \in Handlers : phase[f] = "open" /\ target[f] = target[h]}}
  /\ UNCHANGED <<nextId, sessions, table, target, batch, clientVars>>

(* Mutant: the events are committed one by one. *)
InsertAndCommit(h) ==
  /\ phase[h] = "open" /\ left[h] > 0
  /\ left' = [left EXCEPT ![h] = @ - 1]
  /\ batch' = [batch EXCEPT ![h] = @ \cup {nextId}]
  /\ table' = [table EXCEPT ![target[h]] = @ \cup {nextId}]
  /\ nextId' = nextId + 1
  /\ UNCHANGED <<sessions, phase, target, overlapped, clientVars>>

(* create_event: the flush draws the id; others cannot see the row.        *)
Insert(h) ==
  /\ phase[h] = "open" /\ left[h] > 0
  /\ left' = [left EXCEPT ![h] = @ - 1]
  /\ batch' = [batch EXCEPT ![h] = @ \cup {nextId}]
  /\ nextId' = nextId + 1
  /\ UNCHANGED <<sessions, table, phase, target, overlapped, clientVars>>

Commit(h) ==
  /\ phase[h] = "open" /\ left[h] = 0
  /\ table' = [table EXCEPT ![target[h]] = @ \cup batch[h]]
  /\ phase' = [phase EXCEPT ![h] = "committed"]
  /\ UNCHANGED <<nextId, sessions, target, left, batch, overlapped, clientVars>>

(* An INSERT or the COMMIT fails: the rows vanish, their ids stay used.    *)
Rollback(h) ==
  /\ phase[h] = "open"
  /\ phase' = [phase EXCEPT ![h] = "rolled_back"]
  /\ UNCHANGED <<nextId, sessions, table, target, left, batch, overlapped, clientVars>>

---------------------------------------------------------------------------
(* list_events: the rows of the session with id > after_id.                *)
Pending(c) == {e \in table[watched[c]] : e > cursor[c]}

(* Mutant: the rows come in no particular order. *)
CutAnywhere(c, last) == {e \in Pending(c) : e = last}

(* ORDER BY id: a stream interrupted after row "last" has delivered the    *)
(* rows up to it.                                                          *)
Cut(c, last) == {e \in Pending(c) : e <= last}

(* One request of a client: the SELECT materialises the rows, the response *)
(* streams them, and may break off after any of them.                      *)
Read(c) ==
  /\ watched[c] \in sessions
  /\ \E last \in Pending(c) :
       /\ cursor' = [cursor EXCEPT ![c] = last]
       /\ received' = [received EXCEPT ![c] = @ \cup Cut(c, last)]
  /\ UNCHANGED <<writerVars, watched, reloads>>

(* The page is reloaded: no cursor, and nothing received yet.              *)
Reload(c) ==
  /\ reloads[c] < MaxReloads
  /\ reloads' = [reloads EXCEPT ![c] = @ + 1]
  /\ cursor' = [cursor EXCEPT ![c] = 0]
  /\ received' = [received EXCEPT ![c] = {}]
  /\ UNCHANGED <<writerVars, watched>>

StreamNext ==
  \/ \E s \in Sessions : CreateSession(s)
  \/ \E h \in Handlers : RefuseHandler(h) \/ Begin(h) \/ Insert(h) \/ Commit(h) \/ Rollback(h)
  \/ \E c \in Clients : Read(c) \/ Reload(c)

StreamSpec == StreamInit /\ [][StreamNext]_streamVars

(* A client that is told of the stream's end connects again and gets at    *)
(* least one more event; the threadpool runs the handlers it has started.  *)
StreamFairSpec ==
  /\ StreamSpec
  /\ \A c \in Clients : WF_streamVars(Read(c))
  /\ \A h \in Handlers : WF_streamVars(Insert(h) \/ Commit(h))

---------------------------------------------------------------------------
StreamTypeOK ==
  /\ nextId \in Nat
  /\ sessions \subseteq Sessions
  /\ table \in [Sessions -> SUBSET Nat]
  /\ phase \in [Handlers -> StreamPhases]
  /\ target \in [Handlers -> Sessions]
  /\ left \in [Handlers -> 0..MaxBatch]
  /\ batch \in [Handlers -> SUBSET Nat]
  /\ watched \in [Clients -> Sessions]
  /\ cursor \in [Clients -> Nat]
  /\ received \in [Clients -> SUBSET Nat]
  /\ reloads \in [Clients -> 0..MaxReloads]
  /\ overlapped \subseteq SUBSET Handlers

(* docs/agent-operational-hardening.md:39, "Clients resume with after_id":  *)
(* every committed event of its session up to a client's cursor reached it. *)
NoEventSkipped ==
  \A c \in Clients : \A e \in table[watched[c]] : e <= cursor[c] => e \in received[c]

(* When the client has already a later event of a transaction that was open *)
(* while h's was, h's event e came too late for it.                         *)
TooLateFor(c, h, e) ==
  \E g \in Handlers : {g, h} \in overlapped /\ \E d \in batch[g] \cap received[c] : e < d

(* A client that is interrupted and resumes with after_id misses an event   *)
(* before its cursor only when two transactions of its session overlapped   *)
(* and the one that had drawn the smaller id was the second to commit:      *)
(* nothing is lost by where the stream broke off, by a rollback, or by what *)
(* other sessions write.                                                    *)
SkippedOnlyWhenOverlapped ==
  \A c \in Clients : \A e \in table[watched[c]] :
    e <= cursor[c] =>
      e \in received[c] \/ \E h \in Handlers : e \in batch[h] /\ TooLateFor(c, h, e)

(* Every event a session has recorded reaches every client that keeps       *)
(* reading it, unless it came too late for that client.                     *)
EveryEventDelivered ==
  \A h \in Handlers, c \in Clients :
    phase[h] = "committed" /\ target[h] = watched[c] ~>
      \A e \in batch[h] : e \in received[c] \/ TooLateFor(c, h, e)

---------------------------------------------------------------------------
(* Why only an overlap can hide an event: the ids of an open transaction    *)
(* are beyond every id its session has committed, and so beyond every       *)
(* cursor on it, but for what was committed by a transaction it overlaps.   *)
IdsAreDrawn ==
  /\ \A s \in Sessions : \A e \in table[s] : e < nextId
  /\ \A h \in Handlers : \A e \in batch[h] : e < nextId
IdsPositive ==
  /\ nextId # 0
  /\ \A s \in Sessions : 0 \notin table[s]
  /\ \A h \in Handlers : 0 \notin batch[h]
BeforeBegin == \A h \in Handlers : phase[h] = "idle" => batch[h] = {}
CursorsCommitted ==
  \A c \in Clients : cursor[c] # 0 => cursor[c] \in table[watched[c]] \cap received[c]
OpenOverlap ==
  \A g, h \in Handlers :
    phase[g] = "open" /\ phase[h] = "open" /\ target[g] = target[h] =>
      g = h \/ {g, h} \in overlapped
OpenIsLatest ==
  \A h \in Handlers : phase[h] = "open" =>
    \A e \in batch[h], d \in table[target[h]] :
      d < e \/ \E g \in Handlers : {g, h} \in overlapped /\ d \in batch[g]

(* Ids are drawn once and in order, a cursor stands on an event its client   *)
(* received, and an open transaction overlaps whatever it is not beyond.     *)
StreamInv ==
  /\ StreamTypeOK
  /\ IdsAreDrawn
  /\ IdsPositive
  /\ BeforeBegin
  /\ CursorsCommitted
  /\ OpenOverlap
  /\ OpenIsLatest

===============================================================================
