-------------------------- MODULE ArtifactRegistration --------------------------
(***************************************************************************)
(* Runs of the legacy scripts and the registration of what they write:     *)
(* the adapters and execution.py under backend/app/integrations/scripts,   *)
(* artifacts/storage.py and AssetRepository.record_stored_artifact.        *)
(*                                                                         *)
(* A run has a thread and a database session of its own; the file system   *)
(* is shared. It copies its command's output files into the storage one by *)
(* one and inserts a row for each; its caller commits, or rolls back when  *)
(* the run raises. Files and rows can fail separately.                     *)
(*                                                                         *)
(* A name is a sequence of words. The content of a file is the run whose   *)
(* command wrote it, which its checksum tells apart.                       *)
(***************************************************************************)
EXTENDS Naturals, Sequences, FiniteSets, SequencesExt

CONSTANTS
  Runs,      \* calls of an adapter's run_ function (each is made once)
  Earlier,   \* the run that left the artifacts that are there at first
  Requests,  \* what a run may be asked for
  Present,   \* the paths of those artifacts, in the order of their ids
  NoOut,     \* a request without an output path
  NoName,    \* a request without a namespace
  Partial,   \* the content of a file that is being copied
  SlugWords  \* how many words of a prompt fit into a file name

ASSUME ConstantsAssumption ==
  /\ Earlier \notin Runs
  /\ Partial \notin Runs \cup {Earlier}
  /\ SlugWords \in Nat \ {0}

IsPath(p) == p.root # <<>> /\ p.name # <<>> /\ p.index \in Nat \ {0}

(* What the request dataclasses of the adapters let through: every list is *)
(* there, and an output path, which elevenlabs must be given, names a file. *)
ASSUME RequestsAssumption ==
  \A t \in Requests :
    /\ t.adapter \in {"make_short", "f5", "elevenlabs", "expand_ltx", "tiktok"}
    /\ t.words \in Seq(STRING)
    /\ t.videos \in Seq(Seq(STRING))
    /\ t.parents \in Seq(Nat)
    /\ t.namespace = NoName \/ t.namespace \in Seq(STRING)
    /\ t.out = NoOut \/ IsPath(t.out)
    /\ t.adapter = "elevenlabs" => t.out # NoOut
    /\ t.stored \in BOOLEAN /\ t.recorded \in BOOLEAN

Path(root, kind, name, index) == [root |-> root, kind |-> kind, name |-> name, index |-> index]
Outside(place, name) == Path(<<place>>, "outside", name, 1)
InStorage(p) == p.kind # "outside"

(* The earlier artifacts are files of the storage, each at its own path.   *)
ASSUME PresentAssumption ==
  /\ Present \in Seq(ToSet(Present))
  /\ \A i, j \in DOMAIN Present : Present[i] = Present[j] => i = j
  /\ \A p \in ToSet(Present) : IsPath(p) /\ InStorage(p)

(* -- what the adapters ask for ------------------------------------------ *)

Slug(prompt) == IF prompt = <<>> THEN <<"short">>
                ELSE SubSeq(prompt, 1, IF Len(prompt) < SlugWords THEN Len(prompt) ELSE SlugWords)

Safe(namespace) == namespace \notin {<<>>, <<".">>, <<"..">>}

(* Default outputs have the namespace in their names, next to the prompt   *)
(* of make_short or the video of F5.                                       *)
Space(t) == IF t.stored THEN t.namespace ELSE <<>>
MakeShortOutput(t) == IF t.out = NoOut THEN Outside("tiktok", Space(t) \o Slug(t.words)) ELSE t.out
F5Output(t) == IF t.out = NoOut THEN Outside("videos", t.words \o Space(t) \o <<"voice">>) ELSE t.out

(* Two files with one stem; the second place stands for the other suffix.  *)
TikTokOutputs(videos) ==
  [i \in 1 .. 2 * Len(videos) |->
     LET video == videos[(i + 1) \div 2]
     IN IF i % 2 = 1 THEN [path |-> Outside("tt_data", video), kind |-> "json"]
                     ELSE [path |-> Outside("tt_shots", video), kind |-> "screenshot"]]

ExpandLtxOutputs(t) == IF t.out = NoOut THEN <<>> ELSE <<[path |-> t.out, kind |-> "workflow"]>>

Artifacts(t) ==
  CASE t.adapter = "make_short" -> <<[path |-> MakeShortOutput(t), kind |-> "video"]>>
    [] t.adapter = "f5" -> <<[path |-> F5Output(t), kind |-> "video"]>>
    [] t.adapter = "elevenlabs" -> <<[path |-> t.out, kind |-> "video"]>>
    [] t.adapter = "expand_ltx" -> ExpandLtxOutputs(t)
    [] t.adapter = "tiktok" -> TikTokOutputs(t.videos)

(* What is refused before the command runs: no namespace for what will be  *)
(* stored, an unsafe one that would go into a name, a video without an id. *)
Names == {"make_short", "f5"}
NameMissing(t) ==
  t.stored /\ t.namespace = NoName /\ (t.adapter \in Names \/ Artifacts(t) # <<>>)
NameUnsafe(t) == t.stored /\ t.adapter \in Names /\ t.out = NoOut /\ ~Safe(t.namespace)
VideoUnknown(t) == t.adapter = "tiktok" /\ <<>> \in ToSet(t.videos)
Refused(t) == NameMissing(t) \/ NameUnsafe(t) \/ VideoUnknown(t)

VARIABLES
  files,    \* the file system: who wrote each file, and what is in it
  assets,   \* committed rows of assets
  edges,    \* committed rows of asset_lineage: parent and child
  drawn,    \* asset ids the sequence has handed out
  pc,       \* where each run is
  task,     \* what it was asked for
  at,       \* the position of its current artifact
  target,   \* the path chosen for it
  detached, \* whether that path was removed under its open copy
  sum,      \* the checksum of the stored file
  copied,   \* copied_artifacts: what a failure has to remove
  rows,     \* rows inserted in its open transaction
  links,    \* edges inserted in its open transaction
  result,   \* how the run ended
  shared,   \* paths at which runs have met (history)
  stranded  \* copies that a failure has put out of the cleanup's reach (history)

stores == <<files, assets, edges, drawn>>
locals == <<at, target, detached, sum, copied, rows, links>>
vars == <<stores, locals, pc, task, result, shared, stranded>>

Labels == {"idle", "command", "target", "copy", "copying", "checksum", "record",
           "commit", "cleanup", "rollback", "done"}
Results == {"none", "ok", "error", "crashed"}
NoTask == [adapter |-> "none"]

Exists(p) == p \in DOMAIN files
Content(p) == IF Exists(p) THEN files[p].content ELSE Partial
Put(p, r, content) ==
  [q \in DOMAIN files \cup {p} |-> IF q = p THEN [by |-> r, content |-> content] ELSE files[q]]

Wanted(r) == Artifacts(task[r])
Sources(r) == {a.path : a \in ToSet(Wanted(r))}
Source(r) == Wanted(r)[at[r]].path
Running(r) == pc[r] \notin {"idle", "command", "done"}

(* Earlier artifacts are on the disk and in the tables, each derived from  *)
(* the one before.                                                         *)
Init ==
  /\ files = [p \in ToSet(Present) |-> [by |-> Earlier, content |-> Earlier]]
  /\ assets = {[id |-> i, path |-> Present[i], sum |-> Earlier, run |-> Earlier,
                source |-> Present[i]] : i \in DOMAIN Present}
  /\ edges = {<<i, i + 1>> : i \in 1 .. Len(Present) - 1}
  /\ drawn = Len(Present)
  /\ pc = [r \in Runs |-> "idle"]
  /\ task = [r \in Runs |-> NoTask]
  /\ at = [r \in Runs |-> 1]
  /\ target = [r \in Runs |-> NoOut]
  /\ detached = [r \in Runs |-> FALSE]
  /\ sum = [r \in Runs |-> Partial]
  /\ copied = [r \in Runs |-> <<>>]
  /\ rows = [r \in Runs |-> <<>>]
  /\ links = [r \in Runs |-> {}]
  /\ result = [r \in Runs |-> "none"]
  /\ shared = {}
  /\ stranded = [r \in Runs |-> {}]

Goto(r, label) == pc' = [pc EXCEPT ![r] = label]

(* A run that has ended, and whose transaction is over, keeps nothing.     *)
End(r, outcome) ==
  /\ Goto(r, "done")
  /\ result' = [result EXCEPT ![r] = outcome]
  /\ at' = [at EXCEPT ![r] = 1]
  /\ target' = [target EXCEPT ![r] = NoOut]
  /\ detached' = [detached EXCEPT ![r] = FALSE]
  /\ sum' = [sum EXCEPT ![r] = Partial]
  /\ copied' = [copied EXCEPT ![r] = <<>>]
  /\ rows' = [rows EXCEPT ![r] = <<>>]
  /\ links' = [links EXCEPT ![r] = {}]

Start(r) ==
  /\ pc[r] = "idle"
  /\ \E t \in Requests :
       /\ task' = [task EXCEPT ![r] = t]
       /\ IF Refused(t) THEN End(r, "error") ELSE Goto(r, "command") /\ UNCHANGED <<locals, result>>
  /\ UNCHANGED <<stores, shared, stranded>>

(* subprocess.run with check=True: the script writes its outputs, or only  *)
(* some of them, or exits with an error. What it writes where another run  *)
(* reads or stores, and what it leaves to another run, is shared.          *)
CommandRuns(r) ==
  \E n \in 0 .. Len(Wanted(r)) :
    LET written == {Wanted(r)[i].path : i \in 1 .. n}
        others == {s \in Runs \ {r} : Running(s)}
        met == {p \in written : \/ \E s \in others : p \in Sources(s) \cup {target[s]}
                                \/ InStorage(p) /\ Exists(p)}
        left == {p \in Sources(r) \ written : Exists(p) \/ \E s \in others : p = target[s]}
    IN /\ files' = [p \in DOMAIN files \cup written |->
                      IF p \in written THEN [by |-> r, content |-> r] ELSE files[p]]
       /\ shared' = shared \cup met \cup left
Command(r) ==
  /\ pc[r] = "command"
  /\ CommandRuns(r)
  /\ IF task[r].stored /\ Wanted(r) # <<>> THEN Goto(r, "target") ELSE Goto(r, "commit")
  /\ UNCHANGED <<assets, edges, drawn, locals, task, result, stranded>>
CommandFails(r) ==
  /\ pc[r] = "command"
  /\ End(r, "error")
  /\ UNCHANGED <<stores, task, shared, stranded>>

(* -- ArtifactStorage.register_existing ---------------------------------- *)

(* An exception goes to the except clause of run_legacy_command.           *)
Raise(r) == Goto(r, "cleanup")

FreeIndex(root, kind, name) ==
  CHOOSE n \in 2 .. Cardinality(DOMAIN files) + 2 :
    /\ ~Exists(Path(root, kind, name, n))
    /\ \A m \in 2 .. n - 1 : Exists(Path(root, kind, name, m))

(* Mutant: a file of the same name is copied over.                         *)
TargetForSame(source, root, kind) == Path(root, kind, source.name, 1)

TargetFor(source, root, kind) ==
  LET same == Path(root, kind, source.name, 1)
  IN IF source = same \/ ~Exists(same) THEN same
     ELSE Path(root, kind, source.name, FreeIndex(root, kind, source.name))

(* The path is chosen here and made by Open: until then another run can    *)
(* choose it too.                                                          *)
Choose(r) ==
  /\ pc[r] = "target"
  /\ LET t == TargetFor(Source(r), task[r].namespace, Wanted(r)[at[r]].kind)
     IN IF ~Safe(task[r].namespace) \/ ~Exists(Source(r))
          THEN Raise(r) /\ UNCHANGED <<target, shared>>
          ELSE /\ target' = [target EXCEPT ![r] = t]
               /\ Goto(r, IF t = Source(r) THEN "checksum" ELSE "copy")
               /\ shared' = IF \E s \in Runs \ {r} : \/ pc[s] = "copy" /\ target[s] = t
                                                     \/ Running(s) /\ t \in Sources(s)
                              THEN shared \cup {t} ELSE shared
  /\ UNCHANGED <<stores, at, detached, sum, copied, rows, links, task, result, stranded>>

(* shutil.copy2: it opens the target, which empties it, and fills it. What *)
(* follows on the full copy, its times and mode, its checksum and size, is *)
(* done in "checksum".                                                     *)
Open(r) ==
  /\ pc[r] = "copy"
  /\ IF Exists(Source(r))
       THEN Goto(r, "copying") /\ files' = Put(target[r], r, Partial)
       ELSE Raise(r) /\ UNCHANGED files
  /\ detached' = [detached EXCEPT ![r] = FALSE]
  /\ UNCHANGED <<assets, edges, drawn, at, target, sum, copied, rows, links, task, result, shared, stranded>>
Close(r) ==
  /\ pc[r] = "copying"
  /\ files' = IF detached[r] THEN files ELSE Put(target[r], r, Content(Source(r)))
  /\ Goto(r, "checksum")
  /\ UNCHANGED <<assets, edges, drawn, locals, task, result, shared, stranded>>

(* Any of these calls may raise: mkdir, each part of the copy, the hash,   *)
(* the stat and the INSERT. The copy in hand, part or whole, is not in     *)
(* copied_artifacts before the hash and the stat are done.                 *)
Fails(r) ==
  /\ pc[r] \in {"target", "copy", "copying", "checksum", "record"}
  /\ Raise(r)
  /\ stranded' = IF pc[r] \in {"copying", "checksum"}
                   THEN [stranded EXCEPT ![r] = @ \cup {target[r]}] ELSE stranded
  /\ UNCHANGED <<stores, locals, task, result, shared>>

NextArtifact(r) ==
  IF at[r] = Len(Wanted(r)) THEN Goto(r, "commit") /\ UNCHANGED at
  ELSE Goto(r, "target") /\ at' = [at EXCEPT ![r] = @ + 1]

(* Mutant: the list of copies holds only the last one.                     *)
WithLastCopy(done, r) == IF target[r] = Source(r) THEN done ELSE <<target[r]>>

(* Only what was copied is to be removed, not an output that was already   *)
(* in its place.                                                           *)
WithCopy(done, r) == IF target[r] = Source(r) THEN done ELSE Append(done, target[r])

Checksum(r) ==
  /\ pc[r] = "checksum"
  /\ IF ~Exists(target[r]) THEN Raise(r) /\ UNCHANGED <<at, sum, copied>>
     ELSE /\ sum' = [sum EXCEPT ![r] = Content(target[r])]
          /\ copied' = [copied EXCEPT ![r] = WithCopy(@, r)]
          /\ IF task[r].recorded THEN Goto(r, "record") /\ UNCHANGED at ELSE NextArtifact(r)
  /\ UNCHANGED <<stores, target, detached, rows, links, task, result, shared, stranded>>

(* -- AssetRepository.record_stored_artifact ----------------------------- *)

AssetIds == {a.id : a \in assets}
Taken(p) == \E a \in assets : a.path = p

(* Who holds the entry of the unique index on relative_path.               *)
Holders(r) == {s \in Runs \ {r} : pc[r] = "record" /\ \E a \in ToSet(rows[s]) : a.path = target[r]}

(* Mutant: a parent that has any child gets no other edge.                 *)
NewEdgesFirstChild(parents, child, present) ==
  {<<p, child>> : p \in {q \in ToSet(parents) : \A e \in present : e[1] # q}}

(* add_lineage for each parent: an edge that is there is returned.         *)
NewEdges(parents, child, present) == {<<p, child>> : p \in ToSet(parents)} \ present

(* The rows a foreign key of the run can refer to, its own among them.     *)
Visible(r) == AssetIds \cup {a.id : a \in ToSet(rows[r])} \cup {drawn + 1}

Row(r) == [id |-> drawn + 1, path |-> target[r], sum |-> sum[r], run |-> r, source |-> Source(r)]

(* The INSERT waits for a transaction that inserted the same path. A path  *)
(* that is taken, or a parent that does not exist, is an IntegrityError.   *)
(* A cycle of waits would need a file that exists to be chosen as free.    *)
Record(r) ==
  /\ pc[r] = "record"
  /\ Holders(r) = {}
  /\ drawn' = drawn + 1
  /\ IF Taken(target[r]) \/ \E a \in ToSet(rows[r]) : a.path = target[r]
       THEN Raise(r) /\ UNCHANGED <<at, rows, links>>
       ELSE /\ rows' = [rows EXCEPT ![r] = Append(@, Row(r))]
            /\ IF ToSet(task[r].parents) \subseteq Visible(r)
                 THEN /\ links' = [links EXCEPT ![r] =
                             @ \cup NewEdges(task[r].parents, drawn + 1, edges \cup @)]
                      /\ NextArtifact(r)
                 ELSE Raise(r) /\ UNCHANGED <<at, links>>
  /\ UNCHANGED <<files, assets, edges, target, detached, sum, copied, task, result, shared, stranded>>

(* The caller's commit, when the run returns.                              *)
Commit(r) ==
  /\ pc[r] = "commit"
  /\ assets' = assets \cup ToSet(rows[r])
  /\ edges' = edges \cup links[r]
  /\ End(r, "ok")
  /\ UNCHANGED <<files, drawn, task, shared, stranded>>

(* The except clause removes one copy after the other and raises again.    *)
Unlink(p, r) ==
  /\ files' = Restrict(files, DOMAIN files \ {p})
  /\ detached' = [s \in Runs |-> detached[s] \/ (pc[s] = "copying" /\ target[s] = p)]
  /\ copied' = [copied EXCEPT ![r] = Tail(@)]
  /\ UNCHANGED <<assets, edges, drawn, at, target, sum, rows, links, pc>>
Cleanup(r) ==
  /\ pc[r] = "cleanup"
  /\ IF copied[r] # <<>> THEN Unlink(Head(copied[r]), r)
     ELSE Goto(r, "rollback") /\ UNCHANGED <<stores, locals>>
  /\ UNCHANGED <<task, result, shared, stranded>>

(* An unlink raises, in the place of the first error: the copies that are  *)
(* still in the list stay.                                                 *)
UnlinkFails(r) ==
  /\ pc[r] = "cleanup" /\ copied[r] # <<>>
  /\ Goto(r, "rollback")
  /\ stranded' = [stranded EXCEPT ![r] = @ \cup ToSet(copied[r])]
  /\ UNCHANGED <<stores, locals, task, result, shared>>

(* The caller's session is closed, which rolls its transaction back.       *)
Rollback(r) ==
  /\ pc[r] = "rollback"
  /\ End(r, "error")
  /\ UNCHANGED <<stores, task, shared, stranded>>

(* The process dies, or the caller's commit fails: the transaction is      *)
(* rolled back, the files stay.                                            *)
Crash(r) ==
  /\ pc[r] \notin {"idle", "done"}
  /\ End(r, "crashed")
  /\ UNCHANGED <<stores, task, shared, stranded>>

Registration(r) ==
  \/ Choose(r) \/ Open(r) \/ Close(r) \/ Checksum(r) \/ Record(r) \/ Commit(r)
  \/ Fails(r) \/ Cleanup(r) \/ UnlinkFails(r) \/ Rollback(r)

AllDone == (\A r \in Runs : pc[r] = "done") /\ UNCHANGED vars
Next == (\E r \in Runs : Start(r) \/ Command(r) \/ CommandFails(r) \/ Registration(r) \/ Crash(r)) \/ AllDone

Spec == Init /\ [][Next]_vars

(* -- Properties ---------------------------------------------------------- *)

(* Types. File names are never empty, whatever the prompt.                 *)
TypeOK ==
  /\ \A p \in DOMAIN files :
       /\ IsPath(p)
       /\ files[p].by \in Runs \cup {Earlier}
       /\ files[p].content \in Runs \cup {Earlier, Partial}
  /\ \A a \in assets : a.id \in 1 .. drawn /\ IsPath(a.path)
  /\ \A a, b \in assets : a.id = b.id \/ a.path = b.path => a = b
  /\ \A e \in edges : e[1] \in AssetIds /\ e[2] \in AssetIds
  /\ pc \in [Runs -> Labels]
  /\ \A r \in Runs : task[r] \in Requests \cup {NoTask}
  /\ result \in [Runs -> Results]
  /\ detached \in [Runs -> BOOLEAN]

(* A committed row of assets describes a file that is there, with the      *)
(* content its checksum was taken of, and that content is what the row's   *)
(* own command wrote: whatever other runs copy, fail and clean up around   *)
(* it. Excepted are the paths at which two runs have met: both chose the   *)
(* name before either copied, a script wrote over the file of another run, *)
(* or one stored its copy where a script of the other was to leave an      *)
(* output; or a script left its output from an earlier run in place.       *)
RecordedIsStored ==
  \A a \in assets :
    a.path \notin shared =>
      /\ Exists(a.path)
      /\ Content(a.path) = a.sum
      /\ a.source \notin shared => a.sum = a.run

(* A run that raised leaves no row. In the storage it leaves what its      *)
(* command itself wrote there and, besides that, only the copies that the  *)
(* except clause of run_legacy_command cannot reach: the one that was      *)
(* being made, hashed or measured when that failed, and those whose        *)
(* removal failed. Every other copy goes, however the run failed.          *)
FailedLeavesStranded ==
  \A r \in Runs : result[r] = "error" =>
    /\ \A a \in assets : a.run # r
    /\ \A p \in DOMAIN files :
         InStorage(p) /\ files[p].by = r => p \in Sources(r) \cup stranded[r]

(* A run that returned has a row for each of its outputs, and from each    *)
(* row an edge to each parent it was given.                                *)
DoneIsRecorded ==
  \A r \in Runs : result[r] = "ok" /\ task[r].stored /\ task[r].recorded =>
    LET mine == {a \in assets : a.run = r}
    IN /\ Cardinality(mine) = Len(Wanted(r))
       /\ \A a \in ToSet(Wanted(r)) : \E m \in mine : m.source = a.path
       /\ \A m \in mine : \A p \in ToSet(task[r].parents) : <<p, m.id>> \in edges

(* Storage and tables at any moment: typed, with no file or row at a name   *)
(* that is not one, and whole for each run that returned.                   *)
RegistrationInv == TypeOK /\ DoneIsRecorded

=================================================================================
