----------------------- MODULE ArtifactRegistrationProofs -----------------------
(***************************************************************************)
(* What holds of the artifact storage for every set of runs, every list    *)
(* of earlier artifacts and every set of requests: the theorems            *)
(* RegistrationInvAlways, RecordedIsStoredAlways and                       *)
(* FailedLeavesStrandedAlways at the end of the parts.                      *)
(***************************************************************************)
EXTENDS ArtifactRegistration, FunctionTheorems, FiniteSetTheorems, TLAPS

(* -- Sequences ------------------------------------------------------------ *)

IsSeq(s) == s \in Seq(ToSet(s))

LEMMA SeqElements ==
  ASSUME NEW s, IsSeq(s)
  PROVE  /\ Len(s) \in Nat /\ DOMAIN s = 1 .. Len(s)
         /\ \A i \in 1 .. Len(s) : s[i] \in ToSet(s)
         /\ \A x \in ToSet(s) : \E i \in 1 .. Len(s) : x = s[i]
  <1>1. Len(s) \in Nat /\ DOMAIN s = 1 .. Len(s)
    BY DEF IsSeq
  <1> QED BY <1>1 DEF ToSet

LEMMA NothingIn ==
  ASSUME NEW S, NEW s \in Seq(S), Len(s) = 0
  PROVE  ToSet(s) = {} /\ s \in Seq(ToSet(s))
  <1>1. DOMAIN s = 1 .. 0
    OBVIOUS
  <1>2. ToSet(s) = {}
    BY <1>1 DEF ToSet
  <1>3. s \in Seq({})
    BY <1>1
  <1> QED BY <1>2, <1>3

LEMMA NoElements == IsSeq(<<>>) /\ ToSet(<<>>) = {} /\ Len(<<>>) = 0
  <1>1. <<>> \in Seq({}) /\ Len(<<>>) = 0
    OBVIOUS
  <1>2. ToSet(<<>>) = {} /\ <<>> \in Seq(ToSet(<<>>))
    BY <1>1, NothingIn
  <1> QED BY <1>1, <1>2 DEF IsSeq

LEMMA SingleSeq ==
  ASSUME NEW S, NEW x \in S
  PROVE  <<x>> \in Seq(S) /\ <<x>> # <<>>
  OBVIOUS

LEMMA AppendElements ==
  ASSUME NEW s, IsSeq(s), NEW x
  PROVE  /\ IsSeq(Append(s, x))
         /\ ToSet(Append(s, x)) = ToSet(s) \cup {x}
         /\ Len(Append(s, x)) = Len(s) + 1
         /\ \A i \in 1 .. Len(s) : Append(s, x)[i] = s[i]
         /\ Append(s, x)[Len(s) + 1] = x
  <1> DEFINE S == ToSet(s) \cup {x}
             a == Append(s, x)
  <1>1. s \in Seq(S)
    BY DEF IsSeq
  <1>2. /\ a \in Seq(S) /\ Len(a) = Len(s) + 1 /\ DOMAIN a = 1 .. Len(s) + 1
        /\ \A i \in 1 .. Len(s) : a[i] = s[i]
        /\ a[Len(s) + 1] = x
        /\ DOMAIN s = 1 .. Len(s) /\ Len(s) \in Nat
    BY <1>1
  <1>3. ToSet(a) = S
    <2>1. \A i \in DOMAIN a : a[i] \in S
      BY <1>2
    <2>2. ASSUME NEW y \in S PROVE \E i \in DOMAIN a : a[i] = y
      <3>1. CASE y = x BY <1>2, <3>1
      <3>2. CASE y \in ToSet(s)
        <4>1. PICK i \in DOMAIN s : y = s[i] BY <3>2 DEF ToSet
        <4>2. i \in DOMAIN a /\ a[i] = y BY <1>2, <4>1
        <4> QED BY <4>2
      <3> QED BY <3>1, <3>2
    <2> QED BY <2>1, <2>2 DEF ToSet
  <1> QED BY <1>2, <1>3 DEF IsSeq

LEMMA TailElements ==
  ASSUME NEW s, IsSeq(s), s # <<>>
  PROVE  /\ IsSeq(Tail(s)) /\ Len(Tail(s)) = Len(s) - 1 /\ Len(s) \in Nat \ {0}
         /\ \A i \in 1 .. Len(s) - 1 : Tail(s)[i] = s[i + 1]
         /\ Head(s) = s[1] /\ Head(s) \in ToSet(s)
         /\ ToSet(Tail(s)) \subseteq ToSet(s)
         /\ ToSet(s) = ToSet(Tail(s)) \cup {Head(s)}
  <1> DEFINE S == ToSet(s)
             t == Tail(s)
  <1>1. s \in Seq(S)
    BY DEF IsSeq
  <1>2. /\ t \in Seq(S) /\ Len(t) = Len(s) - 1 /\ Len(s) \in Nat \ {0}
        /\ DOMAIN t = 1 .. Len(s) - 1 /\ DOMAIN s = 1 .. Len(s)
        /\ \A i \in 1 .. Len(s) - 1 : t[i] = s[i + 1]
        /\ Head(s) = s[1]
    BY <1>1
  <1>3. Head(s) \in S
    BY <1>2 DEF ToSet
  <1>4. ToSet(t) \subseteq S
    BY <1>2 DEF ToSet
  <1>5. ASSUME NEW y \in S PROVE y = Head(s) \/ y \in ToSet(t)
    <2>1. PICK i \in 1 .. Len(s) : y = s[i] BY <1>2 DEF ToSet
    <2>2. CASE i = 1 BY <2>1, <2>2, <1>2
    <2>3. CASE i # 1
      <3>1. i - 1 \in DOMAIN t /\ t[i - 1] = y BY <2>1, <2>3, <1>2
      <3> QED BY <3>1 DEF ToSet
    <2> QED BY <2>2, <2>3
  <1>6. t \in Seq(ToSet(t))
    <2>1. \A i \in 1 .. Len(t) : t[i] \in ToSet(t) BY <1>2 DEF ToSet
    <2>0. t \in Seq(S) /\ Len(t) \in Nat BY <1>2
    <2> HIDE DEF t, S
    <2>2. t = [i \in 1 .. Len(t) |-> t[i]] BY <2>0
    <2>3. Len(t) \in Nat BY <2>0
    <2>4. [i \in 1 .. Len(t) |-> t[i]] \in Seq(ToSet(t)) BY <2>1, <2>3
    <2> QED BY <2>2, <2>4
  <1> QED BY <1>2, <1>3, <1>4, <1>5, <1>6 DEF IsSeq

(* -- What the adapters ask for -------------------------------------------- *)

Kinds == {"video", "json", "screenshot", "workflow"}

(* The outputs a run may expect: files with names, of kinds the storage     *)
(* has, and more than one only outside of it.                               *)
OutputsShaped(list) ==
  /\ Len(list) \in Nat /\ DOMAIN list = 1 .. Len(list)
  /\ \A i \in 1 .. Len(list) :
       /\ IsPath(list[i].path) /\ list[i].kind \in Kinds
       /\ InStorage(list[i].path) => Len(list) = 1

LEMMA OneOutput ==
  ASSUME NEW p, IsPath(p), NEW k \in Kinds
  PROVE  OutputsShaped(<<[path |-> p, kind |-> k]>>)
  BY DEF OutputsShaped

LEMMA OutsideIs ==
  ASSUME NEW place, NEW name, name # <<>>
  PROVE  IsPath(Outside(place, name)) /\ ~InStorage(Outside(place, name))
  BY DEF IsPath, Outside, Path, InStorage

Words == STRING \cup {"short"}

LEMMA NotEmptyAppended ==
  ASSUME NEW s \in Seq(STRING), NEW t \in Seq(Words), t # <<>>
  PROVE  s \o t # <<>>
  <1>1. s \in Seq(Words)
    BY DEF Words
  <1> QED BY <1>1

LEMMA SlugIs ==
  ASSUME NEW prompt \in Seq(STRING)
  PROVE  Slug(prompt) \in Seq(Words) /\ Slug(prompt) # <<>>
  <1>1. CASE prompt = <<>>
    <2>1. Slug(prompt) = <<"short">> BY <1>1 DEF Slug
    <2>2. "short" \in Words BY DEF Words
    <2>3. <<"short">> \in Seq(Words) /\ <<"short">> # <<>> BY <2>2, SingleSeq
    <2> QED BY <2>1, <2>3
  <1>2. CASE prompt # <<>>
    <2> DEFINE n == IF Len(prompt) < SlugWords THEN Len(prompt) ELSE SlugWords
    <2>1. n \in 1 .. Len(prompt)
      BY <1>2, ConstantsAssumption
    <2>0. prompt \in Seq(Words)
      BY DEF Words
    <2>2. SubSeq(prompt, 1, n) \in Seq(Words) /\ Len(SubSeq(prompt, 1, n)) = n
      BY <2>0, <2>1
    <2>3. Slug(prompt) = SubSeq(prompt, 1, n)
      BY <1>2 DEF Slug
    <2> QED BY <2>1, <2>2, <2>3
  <1> QED BY <1>1, <1>2

LEMMA SpaceIs ==
  ASSUME NEW t \in Requests, ~Refused(t), t.adapter \in Names
  PROVE  Space(t) \in Seq(STRING)
  <1>1. CASE t.stored
    <2>1. t.namespace # NoName BY <1>1 DEF Refused, NameMissing
    <2> QED BY <1>1, <2>1, RequestsAssumption DEF Space
  <1>2. CASE ~t.stored
    <2>1. Space(t) = <<>> BY <1>2 DEF Space
    <2> QED BY <2>1
  <1> QED BY <1>1, <1>2

LEMMA TikTokOutputsAre ==
  ASSUME NEW videos \in Seq(Seq(STRING)), <<>> \notin ToSet(videos)
  PROVE  OutputsShaped(TikTokOutputs(videos))
  <1> DEFINE list == TikTokOutputs(videos)
  <1>1. /\ Len(list) = 2 * Len(videos) /\ Len(list) \in Nat /\ DOMAIN list = 1 .. Len(list)
    BY DEF TikTokOutputs
  <1>2. ASSUME NEW i \in 1 .. Len(list)
        PROVE  IsPath(list[i].path) /\ list[i].kind \in Kinds /\ ~InStorage(list[i].path)
    <2> DEFINE video == videos[(i + 1) \div 2]
    <2>1. (i + 1) \div 2 \in 1 .. Len(videos)
      BY <1>1
    <2>2. video # <<>>
      BY <2>1 DEF ToSet
    <2>3. \/ list[i] = [path |-> Outside("tt_data", video), kind |-> "json"]
          \/ list[i] = [path |-> Outside("tt_shots", video), kind |-> "screenshot"]
      BY <1>1 DEF TikTokOutputs
    <2>4. \A place \in {"tt_data", "tt_shots"} :
            IsPath(Outside(place, video)) /\ ~InStorage(Outside(place, video))
      BY <2>2, OutsideIs
    <2> HIDE DEF list, video
    <2> QED BY <2>3, <2>4 DEF Kinds
  <1> HIDE DEF list
  <1>3. OutputsShaped(list)
    BY <1>1, <1>2 DEF OutputsShaped
  <1> QED BY <1>3 DEF list

LEMMA ArtifactsShaped ==
  ASSUME NEW t \in Requests, ~Refused(t)
  PROVE  OutputsShaped(Artifacts(t))
  <1>1. CASE t.adapter = "make_short"
    <2>1. IsPath(MakeShortOutput(t))
      <3>1. CASE t.out = NoOut
        <4>1. Space(t) \o Slug(t.words) # <<>>
          BY <1>1, SpaceIs, SlugIs, NotEmptyAppended, RequestsAssumption DEF Names
        <4> QED BY <3>1, <4>1, OutsideIs DEF MakeShortOutput
      <3>2. CASE t.out # NoOut
        BY <3>2, RequestsAssumption DEF MakeShortOutput
      <3> QED BY <3>1, <3>2
    <2> QED BY <1>1, <2>1, OneOutput DEF Artifacts, Kinds
  <1>2. CASE t.adapter = "f5"
    <2>1. IsPath(F5Output(t))
      <3>1. CASE t.out = NoOut
        <4>1. t.words \in Seq(STRING) /\ Space(t) \in Seq(STRING)
          BY <1>2, SpaceIs, RequestsAssumption DEF Names
        <4>2. t.words \o Space(t) \o <<"voice">> # <<>>
          BY <4>1
        <4> QED BY <3>1, <4>2, OutsideIs DEF F5Output
      <3>2. CASE t.out # NoOut
        BY <3>2, RequestsAssumption DEF F5Output
      <3> QED BY <3>1, <3>2
    <2> QED BY <1>2, <2>1, OneOutput DEF Artifacts, Kinds
  <1>3. CASE t.adapter = "elevenlabs"
    <2>1. IsPath(t.out)
      BY <1>3, RequestsAssumption
    <2> QED BY <1>3, <2>1, OneOutput DEF Artifacts, Kinds
  <1>4. CASE t.adapter = "expand_ltx"
    <2>1. CASE t.out = NoOut
      BY <1>4, <2>1 DEF Artifacts, ExpandLtxOutputs, OutputsShaped
    <2>2. CASE t.out # NoOut
      <3>1. IsPath(t.out)
        BY <2>2, RequestsAssumption
      <3> QED BY <1>4, <2>2, <3>1, OneOutput DEF Artifacts, ExpandLtxOutputs, Kinds
    <2> QED BY <2>1, <2>2
  <1>5. CASE t.adapter = "tiktok"
    <2>1. t.videos \in Seq(Seq(STRING)) /\ <<>> \notin ToSet(t.videos)
      BY <1>5, RequestsAssumption DEF Refused, VideoUnknown
    <2> QED BY <1>5, <2>1, TikTokOutputsAre DEF Artifacts
  <1> QED BY <1>1, <1>2, <1>3, <1>4, <1>5, RequestsAssumption

(* -- Names in the storage -------------------------------------------------- *)

LEMMA Least ==
  ASSUME NEW S \in SUBSET Nat, S # {}
  PROVE  \E n \in S : \A m \in S : n <= m
  <1> DEFINE R == OpToRel(<, Nat)
  <1>1. IsWellFoundedOn(R, Nat)
    BY NatLessThanWellFounded
  <1>2. \A a, b \in Nat : a < b => <<a, b>> \in R
    BY DEF OpToRel
  <1> HIDE DEF R
  <1>3. PICK n \in S : \A m \in S : ~(<<m, n>> \in R)
    BY <1>1, WFMin
  <1>4. ASSUME NEW m \in S PROVE n <= m
    <2>1. m \in Nat /\ n \in Nat /\ ~(m < n)
      BY <1>2, <1>3
    <2> QED BY <2>1
  <1> QED BY <1>4

(* _target_for finds a free name: there are more numbers than files.        *)
LEMMA FreeIndexIs ==
  ASSUME IsFiniteSet(DOMAIN files), NEW root, NEW kind, NEW name
  PROVE  /\ FreeIndex(root, kind, name) \in Nat \ {0}
         /\ ~Exists(Path(root, kind, name, FreeIndex(root, kind, name)))
  <1> DEFINE c == Cardinality(DOMAIN files)
             at2(n) == Path(root, kind, name, n)
             Free == {n \in 2 .. c + 2 : ~Exists(at2(n))}
  <1>1. c \in Nat
    BY FS_CardinalityType
  <1>2. Free # {}
    <2> SUFFICES ASSUME Free = {} PROVE FALSE OBVIOUS
    <2> DEFINE S == 2 .. c + 2
               f == [n \in S |-> at2(n)]
    <2>1. f \in [S -> DOMAIN files]
      BY DEF Exists
    <2>2. IsFiniteSet(S) /\ Cardinality(S) = c + 1
      BY <1>1, FS_Interval
    <2>3. Cardinality(DOMAIN files) < Cardinality(S)
      BY <1>1, <2>2
    <2>4. IsFiniteSet(DOMAIN files)
      OBVIOUS
    <2> HIDE DEF c, f, S
    <2>5. \E x, y \in S : x # y /\ f[x] = f[y]
      BY <2>1, <2>2, <2>3, <2>4, FS_PigeonHole
    <2> QED BY <2>5 DEF f, Path, S
  <1>3. PICK n \in Free : \A m \in Free : n <= m
    <2>1. Free \in SUBSET Nat
      BY <1>1
    <2> HIDE DEF Free
    <2> QED BY <1>2, <2>1, Least
  <1>4. n \in 2 .. c + 2 /\ ~Exists(at2(n)) /\ \A m \in 2 .. n - 1 : Exists(at2(m))
    <2>1. n \in 2 .. c + 2 /\ ~Exists(at2(n))
      OBVIOUS
    <2>2. ASSUME NEW m \in 2 .. n - 1, ~Exists(at2(m)) PROVE FALSE
      <3>1. m \in Free
        BY <1>1, <2>1, <2>2
      <3> QED BY <1>1, <1>3, <2>1, <3>1
    <2> QED BY <2>1, <2>2
  <1> DEFINE i == FreeIndex(root, kind, name)
  <1>5. i \in 2 .. c + 2 /\ ~Exists(at2(i))
    BY <1>4 DEF FreeIndex
  <1> QED BY <1>1, <1>5

LEMMA TargetForIs ==
  ASSUME IsFiniteSet(DOMAIN files), NEW source, IsPath(source),
         NEW root, root # <<>>, NEW kind \in Kinds
  PROVE  /\ IsPath(TargetFor(source, root, kind)) /\ InStorage(TargetFor(source, root, kind))
         /\ TargetFor(source, root, kind) = source \/ ~Exists(TargetFor(source, root, kind))
  <1> DEFINE same == Path(root, kind, source.name, 1)
             free == Path(root, kind, source.name, FreeIndex(root, kind, source.name))
  <1>1. IsPath(same) /\ InStorage(same)
    BY DEF IsPath, InStorage, Path, Kinds
  <1>2. FreeIndex(root, kind, source.name) \in Nat \ {0} /\ ~Exists(free)
    BY FreeIndexIs
  <1>3. IsPath(free) /\ InStorage(free)
    BY <1>2 DEF IsPath, InStorage, Path, Kinds
  <1>4. \/ TargetFor(source, root, kind) = same /\ (source = same \/ ~Exists(same))
        \/ TargetFor(source, root, kind) = free
    BY DEF TargetFor
  <1> HIDE DEF same, free
  <1> QED BY <1>1, <1>2, <1>3, <1>4

(* -- Steps ------------------------------------------------------------------ *)

Moves(r) == Start(r) \/ Command(r) \/ CommandFails(r) \/ Registration(r) \/ Crash(r)

Functions ==
  /\ pc \in [Runs -> Labels] /\ result \in [Runs -> Results] /\ detached \in [Runs -> BOOLEAN]
  /\ DOMAIN task = Runs /\ DOMAIN at = Runs /\ DOMAIN target = Runs /\ DOMAIN sum = Runs
  /\ DOMAIN copied = Runs /\ DOMAIN rows = Runs /\ DOMAIN links = Runs
  /\ DOMAIN stranded = Runs

(* A step of one run leaves the others where they are, with what they have;  *)
(* only the file under an open copy may be removed by another run.           *)
Same(s) ==
  /\ pc'[s] = pc[s] /\ task'[s] = task[s] /\ result'[s] = result[s]
  /\ at'[s] = at[s] /\ target'[s] = target[s] /\ sum'[s] = sum[s]
  /\ copied'[s] = copied[s] /\ rows'[s] = rows[s] /\ links'[s] = links[s]
  /\ stranded'[s] = stranded[s]

Ended(r, outcome) ==
  /\ pc'[r] = "done" /\ result'[r] = outcome /\ at'[r] = 1 /\ sum'[r] = Partial
  /\ copied'[r] = <<>> /\ rows'[r] = <<>> /\ links'[r] = {}

LEMMA EndStep ==
  ASSUME Functions, NEW r \in Runs, NEW outcome \in Results, End(r, outcome),
         UNCHANGED <<task, stranded>>
  PROVE  Functions' /\ Ended(r, outcome) /\ \A s \in Runs \ {r} : Same(s)
  <1>1. "done" \in Labels
    BY DEF Labels
  <1>2. Functions'
    BY <1>1 DEF Functions, End, Goto
  <1> QED BY <1>2 DEF Functions, End, Goto, Ended, Same

LEMMA GotoStep ==
  ASSUME Functions, NEW r \in Runs, NEW label \in Labels, Goto(r, label)
  PROVE  /\ pc' \in [Runs -> Labels] /\ pc'[r] = label
         /\ \A s \in Runs \ {r} : pc'[s] = pc[s]
  BY DEF Functions, Goto

LEMMA LabelsAre ==
  /\ \A l \in {"idle", "command", "target", "copy", "copying", "checksum", "record"} : l \in Labels
  /\ \A l \in {"commit", "cleanup", "rollback", "done"} : l \in Labels
  /\ \A o \in {"ok", "error", "crashed", "none"} : o \in Results
  BY DEF Labels, Results

LEMMA StartSame ==
  ASSUME Functions, NEW r \in Runs, Start(r)
  PROVE  Functions' /\ \A s \in Runs \ {r} : Same(s)
  <1>1. PICK t \in Requests :
          /\ task' = [task EXCEPT ![r] = t]
          /\ IF Refused(t) THEN End(r, "error") ELSE Goto(r, "command") /\ UNCHANGED <<locals, result>>
    BY DEF Start
  <1>2. /\ DOMAIN task' = Runs /\ \A s \in Runs \ {r} : task'[s] = task[s]
        /\ stranded' = stranded
    BY <1>1 DEF Functions, Start
  <1>3. CASE End(r, "error")
    BY <1>2, <1>3, LabelsAre DEF Functions, End, Goto, Same
  <1>4. CASE Goto(r, "command") /\ UNCHANGED <<locals, result>>
    BY <1>2, <1>4, LabelsAre, GotoStep DEF Functions, Same, locals
  <1> QED BY <1>1, <1>3, <1>4

LEMMA StepSame ==
  ASSUME Functions, NEW r \in Runs, Moves(r)
  PROVE  Functions' /\ \A s \in Runs \ {r} : Same(s)
  <1> USE DEF Functions, Same, locals, stores
  <1>1. CASE Start(r)
    BY <1>1, StartSame
  <1>2. CASE Command(r)
    <2>1. \E l \in Labels : Goto(r, l)
      BY <1>2, LabelsAre DEF Command
    <2> QED BY <1>2, <2>1, GotoStep DEF Command
  <1>3. CASE CommandFails(r)
    BY <1>3, LabelsAre, EndStep DEF CommandFails
  <1>4. CASE Choose(r)
    <2>1. \E l \in Labels : Goto(r, l)
      BY <1>4, LabelsAre DEF Choose, Raise
    <2>2. DOMAIN target' = Runs /\ \A s \in Runs \ {r} : target'[s] = target[s]
      BY <1>4 DEF Choose
    <2> QED BY <1>4, <2>1, <2>2, GotoStep DEF Choose
  <1>5. CASE Open(r)
    <2>1. \E l \in Labels : Goto(r, l)
      BY <1>5, LabelsAre DEF Open, Raise
    <2>2. detached' \in [Runs -> BOOLEAN]
      BY <1>5 DEF Open
    <2> QED BY <1>5, <2>1, <2>2, GotoStep DEF Open
  <1>6. CASE Close(r)
    BY <1>6, LabelsAre, GotoStep DEF Close
  <1>7. CASE Fails(r) \/ UnlinkFails(r)
    <2>1. \E l \in Labels : Goto(r, l)
      BY <1>7, LabelsAre DEF Fails, UnlinkFails, Raise
    <2>2. DOMAIN stranded' = Runs /\ \A s \in Runs \ {r} : stranded'[s] = stranded[s]
      BY <1>7 DEF Fails, UnlinkFails
    <2> QED BY <1>7, <2>1, <2>2, GotoStep DEF Fails, UnlinkFails
  <1>8. CASE Checksum(r)
    <2>1. \E l \in Labels : Goto(r, l)
      BY <1>8, LabelsAre DEF Checksum, Raise, NextArtifact
    <2>2. /\ DOMAIN at' = Runs /\ \A s \in Runs \ {r} : at'[s] = at[s]
          /\ DOMAIN sum' = Runs /\ \A s \in Runs \ {r} : sum'[s] = sum[s]
          /\ DOMAIN copied' = Runs /\ \A s \in Runs \ {r} : copied'[s] = copied[s]
      BY <1>8 DEF Checksum, NextArtifact
    <2> QED BY <1>8, <2>1, <2>2, GotoStep DEF Checksum
  <1>9. CASE Record(r)
    <2>1. \E l \in Labels : Goto(r, l)
      BY <1>9, LabelsAre DEF Record, Raise, NextArtifact
    <2>2. /\ DOMAIN at' = Runs /\ \A s \in Runs \ {r} : at'[s] = at[s]
          /\ DOMAIN rows' = Runs /\ \A s \in Runs \ {r} : rows'[s] = rows[s]
          /\ DOMAIN links' = Runs /\ \A s \in Runs \ {r} : links'[s] = links[s]
      BY <1>9 DEF Record, NextArtifact
    <2> QED BY <1>9, <2>1, <2>2, GotoStep DEF Record
  <1>10. CASE Commit(r)
    BY <1>10, LabelsAre, EndStep DEF Commit
  <1>11. CASE Cleanup(r)
    <2>1. CASE copied[r] # <<>>
      <3>1. Unlink(Head(copied[r]), r) /\ UNCHANGED <<task, result, shared, stranded>>
        BY <1>11, <2>1 DEF Cleanup
      <3>2. detached' \in [Runs -> BOOLEAN]
        BY <3>1 DEF Unlink
      <3> QED BY <3>1, <3>2 DEF Unlink
    <2>2. CASE copied[r] = <<>>
      BY <1>11, <2>2, LabelsAre, GotoStep DEF Cleanup
    <2> QED BY <2>1, <2>2
  <1>12. CASE Rollback(r)
    BY <1>12, LabelsAre, EndStep DEF Rollback
  <1>13. CASE Crash(r)
    BY <1>13, LabelsAre, EndStep DEF Crash
  <1> QED BY <1>1, <1>2, <1>3, <1>4, <1>5, <1>6, <1>7, <1>8, <1>9, <1>10, <1>11, <1>12, <1>13
          DEF Moves, Registration

(* -- Shapes ------------------------------------------------------------------ *)

AtArtifact == {"target", "copy", "copying", "checksum", "record"}
WithTarget == {"copy", "copying", "checksum", "record"}
Contents == Runs \cup {Earlier, Partial}

FilesShaped ==
  /\ IsFiniteSet(DOMAIN files)
  /\ \A p \in DOMAIN files :
       IsPath(p) /\ files[p].by \in Runs \cup {Earlier} /\ files[p].content \in Contents

(* What a run holds where it is: an allowed task, a position in the list of  *)
(* its outputs, a path in the storage, copies and rows of its own.           *)
RunShaped(r) ==
  /\ pc[r] # "idle" => task[r] \in Requests
  /\ pc[r] \notin {"idle", "done"} => ~Refused(task[r])
  /\ pc[r] \in {"idle", "command", "done"} =>
       at[r] = 1 /\ copied[r] = <<>> /\ rows[r] = <<>> /\ links[r] = {}
  /\ pc[r] \in AtArtifact => task[r].stored /\ at[r] \in 1 .. Len(Wanted(r))
  /\ pc[r] = "record" => task[r].recorded
  /\ pc[r] \in WithTarget => IsPath(target[r]) /\ InStorage(target[r])
  /\ IsSeq(copied[r]) /\ \A p \in ToSet(copied[r]) : InStorage(p)
  /\ IsSeq(rows[r])
  /\ \A a \in ToSet(rows[r]) : a.run = r /\ IsPath(a.path) /\ InStorage(a.path)
  /\ sum[r] \in Contents

Shaped == FilesShaped /\ Functions /\ \A r \in Runs : RunShaped(r)

LEMMA WantedShaped ==
  ASSUME Shaped, NEW r \in Runs, pc[r] \notin {"idle", "done"}
  PROVE  OutputsShaped(Wanted(r))
  BY ArtifactsShaped DEF Shaped, RunShaped, Wanted

LEMMA SourceIs ==
  ASSUME Shaped, NEW r \in Runs, pc[r] \in AtArtifact
  PROVE  /\ Source(r) \in Sources(r) /\ IsPath(Source(r))
         /\ Wanted(r)[at[r]].kind \in Kinds
         /\ \A p \in Sources(r) : InStorage(p) => p = Source(r)
  <1>1. OutputsShaped(Wanted(r))
    BY WantedShaped DEF AtArtifact
  <1>2. at[r] \in 1 .. Len(Wanted(r))
    BY DEF Shaped, RunShaped
  <1>3. \A p \in Sources(r) : \E i \in 1 .. Len(Wanted(r)) : p = Wanted(r)[i].path
    BY <1>1 DEF Sources, ToSet, OutputsShaped
  <1>4. ASSUME NEW p \in Sources(r), InStorage(p) PROVE p = Source(r)
    <2>1. PICK i \in 1 .. Len(Wanted(r)) : p = Wanted(r)[i].path
      BY <1>3
    <2>2. Len(Wanted(r)) = 1
      BY <1>1, <1>4, <2>1 DEF OutputsShaped
    <2>3. i = at[r]
      BY <1>2, <2>2
    <2> QED BY <2>1, <2>3 DEF Source
  <1> QED BY <1>1, <1>2, <1>4 DEF Sources, Source, ToSet, OutputsShaped

LEMMA PutIs ==
  ASSUME NEW p, NEW r, NEW content, files' = Put(p, r, content)
  PROVE  /\ DOMAIN files' = DOMAIN files \cup {p}
         /\ files'[p].by = r /\ files'[p].content = content
         /\ \A q \in DOMAIN files : q # p => files'[q] = files[q]
  BY DEF Put

LEMMA PutShaped ==
  ASSUME FilesShaped, NEW r \in Runs, NEW p, IsPath(p), NEW content \in Contents,
         files' = Put(p, r, content)
  PROVE  FilesShaped'
  <1>1. /\ DOMAIN files' = DOMAIN files \cup {p}
        /\ files'[p].by = r /\ files'[p].content = content
        /\ \A q \in DOMAIN files : q # p => files'[q] = files[q]
    BY PutIs
  <1>2. IsFiniteSet(DOMAIN files')
    BY <1>1, FS_AddElement DEF FilesShaped
  <1> QED BY <1>1, <1>2 DEF FilesShaped

LEMMA ContentIs ==
  ASSUME FilesShaped, NEW p
  PROVE  Content(p) \in Contents
  BY DEF Content, Exists, FilesShaped, Contents

(* What the script writes: one run's outputs, up to some n.                  *)
Written(r, n) == {Wanted(r)[i].path : i \in 1 .. n}

LEMMA WrittenIs ==
  ASSUME Shaped, NEW r \in Runs, pc[r] = "command", NEW n \in 0 .. Len(Wanted(r))
  PROVE  /\ IsFiniteSet(Written(r, n)) /\ Written(r, n) \subseteq Sources(r)
         /\ \A p \in Sources(r) : IsPath(p)
  <1>1. OutputsShaped(Wanted(r))
    BY WantedShaped
  <1>2. Written(r, n) \subseteq Sources(r)
    BY <1>1 DEF Written, Sources, ToSet, OutputsShaped
  <1>3. \A p \in Sources(r) : IsPath(p)
    BY <1>1 DEF Sources, ToSet, OutputsShaped
  <1>4. IsFiniteSet(Written(r, n))
    <2> DEFINE I == 1 .. n
               f == [i \in I |-> Wanted(r)[i].path]
               W == Written(r, n)
    <2>1. f \in Surjection(I, W)
      BY DEF Surjection, Written
    <2>2. IsFiniteSet(I)
      BY <1>1, FS_Interval DEF OutputsShaped
    <2> HIDE DEF I, f, W
    <2>3. IsFiniteSet(W)
      BY <2>1, <2>2, FS_Surjection
    <2> QED BY <2>3 DEF W
  <1> QED BY <1>2, <1>3, <1>4

LEMMA CommandShaped ==
  ASSUME Shaped, NEW r \in Runs, pc[r] = "command", CommandRuns(r)
  PROVE  FilesShaped'
  <1>1. PICK n \in 0 .. Len(Wanted(r)) :
          files' = [p \in DOMAIN files \cup Written(r, n) |->
                      IF p \in Written(r, n) THEN [by |-> r, content |-> r] ELSE files[p]]
    BY DEF CommandRuns, Written
  <1>2. IsFiniteSet(Written(r, n)) /\ \A p \in Written(r, n) : IsPath(p)
    BY WrittenIs
  <1>3. IsFiniteSet(DOMAIN files')
    BY <1>1, <1>2, FS_Union DEF Shaped, FilesShaped
  <1> QED BY <1>1, <1>2, <1>3 DEF Shaped, FilesShaped, Contents

LEMMA RemovedShaped ==
  ASSUME FilesShaped, NEW p, files' = Restrict(files, DOMAIN files \ {p})
  PROVE  FilesShaped'
  <1>1. DOMAIN files' = DOMAIN files \ {p} /\ \A q \in DOMAIN files' : files'[q] = files[q]
    BY DEF Restrict
  <1>2. IsFiniteSet(DOMAIN files')
    BY <1>1, FS_RemoveElement DEF FilesShaped
  <1> QED BY <1>1, <1>2 DEF FilesShaped

LEMMA EndShaped ==
  ASSUME NEW r \in Runs, NEW outcome, Ended(r, outcome), task'[r] \in Requests
  PROVE  RunShaped(r)'
  BY NoElements DEF Ended, RunShaped, AtArtifact, WithTarget, Contents

LEMMA GotoShaped ==
  ASSUME Shaped, NEW r \in Runs, NEW label \in {"checksum", "cleanup", "rollback"}, pc'[r] = label,
         pc[r] \notin {"idle", "done"}, label = "checksum" => pc[r] \in WithTarget,
         UNCHANGED <<task, at, target, sum, copied, rows, links>>
  PROVE  RunShaped(r)'
  BY DEF Shaped, RunShaped, AtArtifact, WithTarget, Wanted

LEMMA NextArtifactShaped ==
  ASSUME Shaped, NEW r \in Runs, pc[r] \in AtArtifact, NextArtifact(r), task' = task,
         IsSeq(copied[r])', \A p \in ToSet(copied[r])' : InStorage(p),
         IsSeq(rows[r])', \A a \in ToSet(rows[r])' : a.run = r /\ IsPath(a.path) /\ InStorage(a.path),
         sum'[r] \in Contents
  PROVE  RunShaped(r)'
  <1>1. /\ task[r] \in Requests /\ ~Refused(task[r])
        /\ task[r].stored /\ at[r] \in 1 .. Len(Wanted(r))
    BY DEF Shaped, RunShaped, AtArtifact
  <1>2. OutputsShaped(Wanted(r))
    BY WantedShaped DEF AtArtifact
  <1>3. Wanted(r)' = Wanted(r)
    BY DEF Wanted
  <1>4. CASE pc'[r] = "commit"
    BY <1>1, <1>4 DEF RunShaped, AtArtifact, WithTarget
  <1>5. CASE at[r] # Len(Wanted(r)) /\ pc'[r] = "target" /\ at'[r] = at[r] + 1
    <2>1. at'[r] \in 1 .. Len(Wanted(r))'
      BY <1>1, <1>2, <1>3, <1>5 DEF OutputsShaped
    <2> QED BY <1>1, <1>5, <2>1 DEF RunShaped, AtArtifact, WithTarget
  <1> QED BY <1>4, <1>5 DEF NextArtifact, Goto, Shaped, Functions

LEMMA StartShaped ==
  ASSUME Shaped, NEW r \in Runs, Start(r)
  PROVE  FilesShaped' /\ RunShaped(r)'
  <1>1. PICK t \in Requests :
          /\ task' = [task EXCEPT ![r] = t]
          /\ IF Refused(t) THEN End(r, "error") ELSE Goto(r, "command") /\ UNCHANGED <<locals, result>>
    BY DEF Start
  <1>2. pc[r] = "idle" /\ task'[r] = t /\ UNCHANGED stores
    BY <1>1 DEF Shaped, Functions, Start
  <1>3. FilesShaped'
    BY <1>2 DEF Shaped, FilesShaped, stores
  <1>4. CASE Refused(t)
    <2>1. Ended(r, "error")
      BY <1>1, <1>4 DEF End, Goto, Ended, Shaped, Functions
    <2> QED BY <1>2, <1>3, <2>1, EndShaped
  <1>5. CASE ~Refused(t)
    <2>1. pc'[r] = "command" /\ UNCHANGED locals
      BY <1>1, <1>5 DEF Goto, Shaped, Functions
    <2> QED BY <1>2, <1>3, <1>5, <2>1 DEF Shaped, RunShaped, locals, AtArtifact, WithTarget
  <1> QED BY <1>4, <1>5

LEMMA CommandStepShaped ==
  ASSUME Shaped, NEW r \in Runs, Command(r)
  PROVE  FilesShaped' /\ RunShaped(r)'
  <1>1. FilesShaped'
    BY CommandShaped DEF Command
  <1>2. OutputsShaped(Wanted(r))
    BY WantedShaped DEF Command
  <1>3. /\ pc[r] = "command" /\ UNCHANGED <<locals, task>> /\ Wanted(r)' = Wanted(r)
        /\ task[r] \in Requests /\ ~Refused(task[r]) /\ at[r] = 1
    BY DEF Command, Shaped, RunShaped, Wanted
  <1>4. CASE pc'[r] = "target" /\ task[r].stored /\ Wanted(r) # <<>>
    <2>1. at[r] \in 1 .. Len(Wanted(r))
      BY <1>2, <1>3, <1>4 DEF OutputsShaped
    <2> QED BY <1>1, <1>3, <1>4, <2>1 DEF Shaped, RunShaped, locals, AtArtifact, WithTarget
  <1>5. CASE pc'[r] = "commit"
    BY <1>1, <1>3, <1>5 DEF Shaped, RunShaped, locals, AtArtifact, WithTarget
  <1> QED BY <1>4, <1>5 DEF Command, Goto, Shaped, Functions

LEMMA ChooseShaped ==
  ASSUME Shaped, NEW r \in Runs, Choose(r)
  PROVE  FilesShaped' /\ RunShaped(r)'
  <1> DEFINE t == TargetFor(Source(r), task[r].namespace, Wanted(r)[at[r]].kind)
  <1>1. FilesShaped'
    BY DEF Choose, stores, Shaped, FilesShaped
  <1>2. pc[r] = "target" /\ task' = task /\ UNCHANGED <<at, sum, copied, rows, links>>
    BY DEF Choose
  <1>3. CASE pc'[r] = "cleanup" /\ target' = target
    BY <1>1, <1>2, <1>3, GotoShaped
  <1>4. CASE /\ Safe(task[r].namespace)
             /\ target' = [target EXCEPT ![r] = t]
             /\ pc'[r] \in {"checksum", "copy"}
    <2>1. IsPath(t) /\ InStorage(t)
      BY <1>2, <1>4, SourceIs, TargetForIs DEF Shaped, FilesShaped, AtArtifact, Safe
    <2>2. target'[r] = t
      BY <1>4 DEF Shaped, Functions
    <2> HIDE DEF t
    <2> QED BY <1>1, <1>2, <1>4, <2>1, <2>2
            DEF Shaped, RunShaped, AtArtifact, WithTarget, Wanted
  <1> HIDE DEF t
  <1> QED BY <1>3, <1>4 DEF Choose, Raise, Goto, Shaped, Functions, t

LEMMA OpenShaped ==
  ASSUME Shaped, NEW r \in Runs, Open(r)
  PROVE  FilesShaped' /\ RunShaped(r)'
  <1>1. /\ pc[r] = "copy" /\ UNCHANGED <<task, at, target, sum, copied, rows, links>>
    BY DEF Open
  <1>2. CASE Exists(Source(r))
    <2>1. pc'[r] = "copying" /\ files' = Put(target[r], r, Partial)
      BY <1>2 DEF Open, Goto, Shaped, Functions
    <2>2. IsPath(target[r])
      BY <1>1 DEF Shaped, RunShaped, WithTarget
    <2>3. FilesShaped'
      BY <2>1, <2>2, PutShaped DEF Shaped, Contents
    <2> QED BY <1>1, <2>1, <2>3 DEF Shaped, RunShaped, AtArtifact, WithTarget, Wanted
  <1>3. CASE ~Exists(Source(r))
    <2>1. pc'[r] = "cleanup" /\ UNCHANGED files
      BY <1>3 DEF Open, Raise, Goto, Shaped, Functions
    <2> QED BY <1>1, <2>1, GotoShaped DEF Shaped, FilesShaped
  <1> QED BY <1>2, <1>3

LEMMA CloseShaped ==
  ASSUME Shaped, NEW r \in Runs, Close(r)
  PROVE  FilesShaped' /\ RunShaped(r)'
  <1>1. /\ pc[r] = "copying" /\ UNCHANGED <<task, at, target, sum, copied, rows, links>>
        /\ pc'[r] = "checksum"
        /\ files' = IF detached[r] THEN files ELSE Put(target[r], r, Content(Source(r)))
    BY DEF Close, Goto, locals, Shaped, Functions
  <1>2. RunShaped(r)'
    BY <1>1, GotoShaped DEF WithTarget
  <1>3. FilesShaped'
    <2>1. IsPath(target[r]) /\ FilesShaped
      BY <1>1 DEF Shaped, RunShaped, WithTarget
    <2>2. Content(Source(r)) \in Contents
      BY <2>1, ContentIs
    <2>3. CASE detached[r]
      BY <1>1, <2>1, <2>3 DEF FilesShaped
    <2>4. CASE ~detached[r]
      BY <1>1, <2>1, <2>2, <2>4, PutShaped
    <2> QED BY <2>3, <2>4
  <1> QED BY <1>2, <1>3

LEMMA ChecksumShaped ==
  ASSUME Shaped, NEW r \in Runs, Checksum(r)
  PROVE  FilesShaped' /\ RunShaped(r)'
  <1>1. /\ pc[r] = "checksum" /\ UNCHANGED <<stores, task, target, rows, links>>
    BY DEF Checksum
  <1>2. FilesShaped'
    BY <1>1 DEF Shaped, FilesShaped, stores
  <1>3. CASE ~Exists(target[r])
    <2>1. pc'[r] = "cleanup" /\ UNCHANGED <<at, sum, copied>>
      BY <1>3 DEF Checksum, Raise, Goto, Shaped, Functions
    <2> QED BY <1>1, <1>2, <2>1, GotoShaped
  <1>4. CASE Exists(target[r])
    <2>1. /\ sum'[r] = Content(target[r]) /\ copied'[r] = WithCopy(copied[r], r)
          /\ IF task[r].recorded THEN pc'[r] = "record" /\ UNCHANGED at ELSE NextArtifact(r)
      BY <1>4 DEF Checksum, Goto, Shaped, Functions
    <2>2. InStorage(target[r]) /\ IsPath(target[r])
      BY <1>1 DEF Shaped, RunShaped, WithTarget
    <2>3. IsSeq(copied'[r]) /\ \A p \in ToSet(copied'[r]) : InStorage(p)
      BY <2>1, <2>2, AppendElements DEF WithCopy, Shaped, RunShaped
    <2>4. sum'[r] \in Contents
      BY <2>1, ContentIs DEF Shaped
    <2>5. CASE task[r].recorded
      BY <1>1, <1>2, <2>1, <2>2, <2>3, <2>4, <2>5
         DEF Shaped, RunShaped, AtArtifact, WithTarget, Wanted
    <2>6. CASE ~task[r].recorded
      <3>1. RunShaped(r)'
        BY <1>1, <2>1, <2>3, <2>4, <2>6, NextArtifactShaped
           DEF Shaped, RunShaped, AtArtifact
      <3> QED BY <1>2, <3>1
    <2> QED BY <2>5, <2>6
  <1> QED BY <1>3, <1>4

LEMMA RecordShaped ==
  ASSUME Shaped, NEW r \in Runs, Record(r)
  PROVE  FilesShaped' /\ RunShaped(r)'
  <1>1. /\ pc[r] = "record" /\ UNCHANGED <<files, task, target, sum, copied>>
    BY DEF Record
  <1>2. FilesShaped'
    BY <1>1 DEF Shaped, FilesShaped
  <1>3. CASE pc'[r] = "cleanup" /\ UNCHANGED <<at, rows, links>>
    BY <1>1, <1>2, <1>3, GotoShaped
  <1>4. CASE /\ rows' = [rows EXCEPT ![r] = Append(@, Row(r))]
             /\ NextArtifact(r) \/ (pc'[r] = "cleanup" /\ UNCHANGED at)
    <2>1. Row(r).run = r /\ Row(r).path = target[r]
      BY DEF Row
    <2>2. IsPath(target[r]) /\ InStorage(target[r])
      BY <1>1 DEF Shaped, RunShaped, WithTarget
    <2> DEFINE row == Row(r)
    <2>3. rows'[r] = Append(rows[r], row) /\ IsSeq(rows[r])
      BY <1>4 DEF Shaped, Functions, RunShaped
    <2> HIDE DEF row
    <2>4. IsSeq(rows'[r]) /\ ToSet(rows'[r]) = ToSet(rows[r]) \cup {row}
      BY <2>3, AppendElements
    <2>5. \A a \in ToSet(rows'[r]) : a.run = r /\ IsPath(a.path) /\ InStorage(a.path)
      BY <2>1, <2>2, <2>4 DEF row, Shaped, RunShaped
    <2>6. CASE NextArtifact(r)
      <3>1. RunShaped(r)'
        BY <1>1, <2>4, <2>5, <2>6, NextArtifactShaped DEF Shaped, RunShaped, AtArtifact
      <3> QED BY <1>2, <3>1
    <2>7. CASE pc'[r] = "cleanup" /\ UNCHANGED at
      BY <1>1, <1>2, <2>4, <2>5, <2>7 DEF Shaped, RunShaped, AtArtifact, WithTarget, Wanted
    <2> QED BY <1>4, <2>6, <2>7
  <1>5. Raise(r) => pc'[r] = "cleanup"
    BY DEF Raise, Goto, Shaped, Functions
  <1> QED BY <1>3, <1>4, <1>5 DEF Record

LEMMA CleanupShaped ==
  ASSUME Shaped, NEW r \in Runs, Cleanup(r)
  PROVE  FilesShaped' /\ RunShaped(r)'
  <1>1. pc[r] = "cleanup" /\ UNCHANGED task
    BY DEF Cleanup
  <1>2. CASE copied[r] # <<>>
    <2>1. Unlink(Head(copied[r]), r)
      BY <1>2 DEF Cleanup
    <2>2. FilesShaped'
      BY <2>1, RemovedShaped DEF Unlink, Shaped
    <2>3. /\ copied'[r] = Tail(copied[r]) /\ IsSeq(copied[r])
          /\ UNCHANGED <<at, target, sum, rows, links, pc>>
      BY <2>1 DEF Unlink, Shaped, Functions, RunShaped
    <2>4. IsSeq(copied'[r]) /\ ToSet(copied'[r]) \subseteq ToSet(copied[r])
      BY <1>2, <2>3, TailElements
    <2> QED BY <1>1, <2>2, <2>3, <2>4 DEF Shaped, RunShaped, AtArtifact, WithTarget
  <1>3. CASE copied[r] = <<>>
    <2>1. pc'[r] = "rollback" /\ UNCHANGED <<stores, locals>>
      BY <1>3 DEF Cleanup, Goto, Shaped, Functions
    <2> QED BY <1>1, <1>3, <2>1
            DEF Shaped, FilesShaped, RunShaped, stores, locals, AtArtifact, WithTarget
  <1> QED BY <1>2, <1>3

LEMMA FinishShaped ==
  ASSUME Shaped, NEW r \in Runs, CommandFails(r) \/ Commit(r) \/ Rollback(r) \/ Crash(r)
  PROVE  FilesShaped' /\ RunShaped(r)'
  <1>1. PICK outcome \in Results : End(r, outcome)
    BY LabelsAre DEF CommandFails, Commit, Rollback, Crash
  <1>2. pc[r] \notin {"idle", "done"} /\ UNCHANGED <<files, task, stranded>>
    BY DEF CommandFails, Commit, Rollback, Crash, stores
  <1>3. Ended(r, outcome)
    BY <1>1, <1>2, EndStep DEF Shaped
  <1>4. task'[r] \in Requests
    BY <1>2 DEF Shaped, RunShaped
  <1> QED BY <1>2, <1>3, <1>4, EndShaped DEF Shaped, FilesShaped

LEMMA ShapedStep ==
  ASSUME Shaped, NEW r \in Runs, Moves(r)
  PROVE  Shaped'
  <1>1. FilesShaped' /\ RunShaped(r)'
    <2>1. CASE Fails(r) \/ UnlinkFails(r)
      <3>1. /\ pc[r] \notin {"idle", "done"} /\ pc'[r] \in {"cleanup", "rollback"}
            /\ UNCHANGED <<stores, locals, task>>
        BY <2>1 DEF Fails, UnlinkFails, Raise, Goto, Shaped, Functions
      <3> QED BY <3>1, GotoShaped DEF Shaped, FilesShaped, stores, locals
    <2> QED BY <2>1, StartShaped, CommandStepShaped, ChooseShaped, OpenShaped, CloseShaped,
               ChecksumShaped, RecordShaped, CleanupShaped, FinishShaped DEF Moves, Registration
  <1>2. Functions' /\ \A s \in Runs \ {r} : Same(s)
    BY StepSame DEF Shaped
  <1>3. \A s \in Runs \ {r} : RunShaped(s)'
    BY <1>2 DEF Shaped, RunShaped, Same, Wanted
  <1> QED BY <1>1, <1>2, <1>3 DEF Shaped

LEMMA ShapedInit == Init => Shaped
  <1> SUFFICES ASSUME Init PROVE Shaped OBVIOUS
  <1>1. IsFiniteSet(DOMAIN files)
    <2> DEFINE I == 1 .. Len(Present)
               P == ToSet(Present)
    <2>1. Present \in Surjection(I, P) /\ IsFiniteSet(I)
      <3>1. Present \in Seq(P)
        BY PresentAssumption
      <3>2. Present \in [I -> P] /\ DOMAIN Present = I /\ Len(Present) \in Nat
        BY <3>1
      <3>3. \A p \in P : \E i \in I : Present[i] = p
        BY <3>2 DEF ToSet
      <3>4. Present \in Surjection(I, P)
        BY <3>2, <3>3 DEF Surjection
      <3> QED BY <3>2, <3>4, FS_Interval
    <2> HIDE DEF I, P
    <2>2. IsFiniteSet(P)
      BY <2>1, FS_Surjection
    <2> QED BY <2>2 DEF Init, P
  <1>2. FilesShaped
    BY <1>1, PresentAssumption DEF Init, FilesShaped, Contents
  <1>3. Functions
    BY DEF Init, Functions, Labels, Results
  <1>4. ASSUME NEW r \in Runs PROVE RunShaped(r)
    BY NoElements DEF Init, RunShaped, AtArtifact, WithTarget, Contents
  <1> QED BY <1>2, <1>3, <1>4 DEF Shaped

LEMMA ShapedStutter ==
  ASSUME Shaped, UNCHANGED vars
  PROVE  Shaped'
  BY DEF Shaped, FilesShaped, Functions, RunShaped, Wanted, vars, stores, locals

LEMMA StepCases ==
  ASSUME [Next]_vars
  PROVE  UNCHANGED vars \/ \E r \in Runs : Moves(r)
  BY DEF Next, Moves, AllDone

(* Every run has in hand what its place in the code says it has.             *)
LEMMA ShapedAlways == Spec => []Shaped
  <1>1. Shaped /\ [Next]_vars => Shaped'
    BY StepCases, ShapedStep, ShapedStutter
  <1> QED BY ShapedInit, <1>1, PTL DEF Spec

(* -- What is recorded is stored ---------------------------------------------- *)

Undoing == {"cleanup", "rollback"}

(* The files a run counts on: the one in hand, its copies, and those of the   *)
(* rows it may yet commit.                                                    *)
Claims(r) ==
  {p \in {target[r]} : pc[r] \in {"copying", "checksum", "record"}}
  \cup ToSet(copied[r])
  \cup {a.path : a \in {b \in ToSet(rows[r]) : pc[r] \notin Undoing}}

Held(r) == \A p \in Claims(r) : p \notin shared => Exists(p) /\ files[p].by = r

ChosenFree(r) ==
  /\ pc[r] \in {"copy", "copying"} => target[r] # Source(r)
  /\ pc[r] = "copy" /\ target[r] \notin shared =>
       /\ ~Exists(target[r])
       /\ \A s \in Runs \ {r} : /\ ~(pc[s] = "copy" /\ target[s] = target[r])
                                /\ ~(Running(s) /\ target[r] \in Sources(s))

Outputs(r) ==
  Running(r) => \A p \in Sources(r) : p \notin shared /\ Exists(p) =>
                  files[p].by = r /\ files[p].content = r

Copied(r) ==
  /\ pc[r] = "copying" /\ Source(r) \notin shared => Exists(Source(r))
  /\ pc[r] = "copying" /\ detached[r] => target[r] \in shared
  /\ pc[r] = "checksum" /\ target[r] \notin shared /\ Source(r) \notin shared =>
       Content(target[r]) = r
  /\ pc[r] = "record" /\ target[r] \notin shared =>
       Content(target[r]) = sum[r] /\ (Source(r) \notin shared => sum[r] = r)

RowsStored(r) ==
  pc[r] \notin Undoing =>
    \A a \in ToSet(rows[r]) : a.path \notin shared =>
      /\ Content(a.path) = a.sum
      /\ a.source \notin shared => a.sum = r
      /\ pc[r] = "copying" => a.path # target[r]

CopiedOnce(r) ==
  /\ \A i, j \in 1 .. Len(copied[r]) :
       copied[r][i] = copied[r][j] /\ copied[r][i] \notin shared => i = j
  /\ pc[r] \in {"copying", "checksum"} /\ target[r] # Source(r) /\ target[r] \notin shared =>
       target[r] \notin ToSet(copied[r])

RunStored(r) ==
  /\ Held(r) /\ ChosenFree(r) /\ Outputs(r) /\ Copied(r) /\ RowsStored(r) /\ CopiedOnce(r)

AssetStored(a) ==
  /\ a.run \in Runs \cup {Earlier}
  /\ a.run \in Runs => pc[a.run] = "done"
  /\ InStorage(a.path)
  /\ a.path \notin shared =>
       /\ Exists(a.path) /\ files[a.path].by = a.run /\ files[a.path].content = a.sum
       /\ a.source \notin shared => a.sum = a.run

Stored ==
  /\ Shaped
  /\ \A a \in assets : AssetStored(a)
  /\ \A r \in Runs : RunStored(r)

(* A step does one of five things to the files.                              *)
Writes(r) ==
  /\ pc[r] = "command"
  /\ \E n \in 0 .. Len(Wanted(r)) :
       /\ files' = [p \in DOMAIN files \cup Written(r, n) |->
                      IF p \in Written(r, n) THEN [by |-> r, content |-> r] ELSE files[p]]
       /\ \A p \in Written(r, n) :
            (InStorage(p) /\ Exists(p))
              \/ (\E s \in Runs \ {r} : Running(s) /\ p \in Sources(s) \cup {target[s]})
            => p \in shared'
       /\ \A p \in Sources(r) \ Written(r, n) :
            Exists(p) \/ (\E s \in Runs \ {r} : Running(s) /\ p = target[s]) => p \in shared'
Opens(r) == pc[r] = "copy" /\ files' = Put(target[r], r, Partial) /\ shared' = shared
Fills(r) ==
  /\ pc[r] = "copying" /\ ~detached[r] /\ shared' = shared
  /\ files' = Put(target[r], r, Content(Source(r)))
Removes(r) ==
  /\ pc[r] = "cleanup" /\ copied[r] # <<>> /\ shared' = shared
  /\ files' = Restrict(files, DOMAIN files \ {Head(copied[r])})

LEMMA FileSteps ==
  ASSUME Functions, NEW r \in Runs, Moves(r)
  PROVE  /\ files' = files \/ Writes(r) \/ Opens(r) \/ Fills(r) \/ Removes(r)
         /\ shared \subseteq shared'
         /\ pc[r] # "done"
         /\ \A s \in Runs \ {r} : \/ detached'[s] = detached[s]
                                  \/ Removes(r) /\ target[s] = Head(copied[r])
  <1>1. CASE Start(r)
    BY <1>1 DEF Start, stores, End, Goto, locals, Functions
  <1>2. CASE Command(r)
    <2>1. CommandRuns(r) /\ pc[r] = "command" /\ UNCHANGED detached
      BY <1>2 DEF Command, locals
    <2>2. Writes(r)
      BY <2>1 DEF CommandRuns, Writes, Written
    <2>3. shared \subseteq shared'
      BY <2>1 DEF CommandRuns
    <2> QED BY <2>1, <2>2, <2>3
  <1>3. CASE Choose(r)
    BY <1>3 DEF Choose, stores
  <1>4. CASE Open(r)
    BY <1>4 DEF Open, Opens, Functions
  <1>5. CASE Close(r)
    BY <1>5 DEF Close, Fills, locals
  <1>6. CASE Fails(r) \/ UnlinkFails(r) \/ Checksum(r) \/ Record(r)
    BY <1>6 DEF Fails, UnlinkFails, Checksum, Record, stores, locals
  <1>7. CASE Cleanup(r)
    BY <1>7 DEF Cleanup, Unlink, Removes, stores, locals, Functions
  <1>8. CASE CommandFails(r) \/ Commit(r) \/ Rollback(r) \/ Crash(r)
    BY <1>8 DEF CommandFails, Commit, Rollback, Crash, stores, End, Goto, Functions
  <1> QED BY <1>1, <1>2, <1>3, <1>4, <1>5, <1>6, <1>7, <1>8 DEF Moves, Registration

Kept(p) == p \in DOMAIN files' /\ files'[p] = files[p]

LEMMA OpensIs ==
  ASSUME NEW r, Opens(r)
  PROVE  /\ DOMAIN files' = DOMAIN files \cup {target[r]}
         /\ files'[target[r]].by = r /\ files'[target[r]].content = Partial
         /\ \A q \in DOMAIN files : q # target[r] => files'[q] = files[q]
  BY DEF Opens, Put

LEMMA FillsIs ==
  ASSUME NEW r, Fills(r)
  PROVE  /\ DOMAIN files' = DOMAIN files \cup {target[r]}
         /\ files'[target[r]].by = r /\ files'[target[r]].content = Content(Source(r))
         /\ \A q \in DOMAIN files : q # target[r] => files'[q] = files[q]
  BY DEF Fills, Put

LEMMA RemovesIs ==
  ASSUME NEW r, Removes(r)
  PROVE  /\ DOMAIN files' = DOMAIN files \ {Head(copied[r])}
         /\ \A q \in DOMAIN files' : files'[q] = files[q]
  BY DEF Removes, Restrict

LEMMA HeldIs ==
  ASSUME Stored, NEW r \in Runs
  PROVE  /\ pc[r] \in {"copying", "checksum", "record"} /\ target[r] \notin shared =>
              Exists(target[r]) /\ files[target[r]].by = r
         /\ \A p \in ToSet(copied[r]) : p \notin shared => Exists(p) /\ files[p].by = r
         /\ pc[r] \notin Undoing => \A a \in ToSet(rows[r]) : a.path \notin shared =>
              Exists(a.path) /\ files[a.path].by = r
  BY DEF Stored, RunStored, Held, Claims

(* Where runs have not met, no run touches a stored file that is not its own. *)
LEMMA OthersKept ==
  ASSUME Stored, NEW r \in Runs, Moves(r), NEW p \in DOMAIN files,
         InStorage(p), p \notin shared', files[p].by # r
  PROVE  Kept(p)
  <1>1. p \notin shared
    BY FileSteps DEF Stored, Shaped
  <1>2. CASE files' = files
    BY <1>2 DEF Kept
  <1>3. CASE Writes(r)
    BY <1>3 DEF Writes, Kept, Exists
  <1>4. CASE Opens(r)
    <2>1. p # target[r]
      BY <1>1, <1>4 DEF Opens, Stored, RunStored, ChosenFree, Exists
    <2> QED BY <1>4, <2>1, OpensIs DEF Kept
  <1>5. CASE Fills(r)
    <2>1. p # target[r]
      BY <1>1, <1>5, HeldIs DEF Fills
    <2> QED BY <1>5, <2>1, FillsIs DEF Kept
  <1>6. CASE Removes(r)
    <2>1. IsSeq(copied[r])
      BY DEF Stored, Shaped, RunShaped
    <2>2. Head(copied[r]) \in ToSet(copied[r])
      BY <1>6, <2>1, TailElements DEF Removes
    <2>3. p # Head(copied[r])
      BY <1>1, <2>2, HeldIs
    <2> QED BY <1>6, <2>3, RemovesIs DEF Kept
  <1> QED BY <1>2, <1>3, <1>4, <1>5, <1>6, FileSteps DEF Stored, Shaped

(* ... nor an output that another run is about to read, which it leaves      *)
(* missing, too.                                                             *)
LEMMA SourcesKept ==
  ASSUME Stored, NEW r \in Runs, Moves(r), NEW s \in Runs \ {r}, Running(s),
         NEW p \in Sources(s), p \notin shared'
  PROVE  /\ Exists(p) => Kept(p)
         /\ p \in DOMAIN files' => Exists(p)
  <1>1. p \notin shared
    BY FileSteps DEF Stored, Shaped
  <1>2. Exists(p) => files[p].by = s
    BY <1>1 DEF Stored, RunStored, Outputs
  <1>3. CASE files' = files
    BY <1>3 DEF Kept, Exists
  <1>4. CASE Writes(r)
    BY <1>4 DEF Writes, Kept, Exists
  <1>5. CASE Opens(r)
    <2>1. p # target[r]
      BY <1>1, <1>5 DEF Opens, Stored, RunStored, ChosenFree
    <2>2. /\ DOMAIN files' = DOMAIN files \cup {target[r]}
         /\ \A q \in DOMAIN files : q # target[r] => files'[q] = files[q]
      BY <1>5, OpensIs
    <2> QED BY <1>5, <2>1, <2>2 DEF Kept, Exists
  <1>6. CASE Fills(r)
    <2>1. p # target[r]
      BY <1>1, <1>2, <1>6, HeldIs DEF Fills
    <2>2. /\ DOMAIN files' = DOMAIN files \cup {target[r]}
         /\ \A q \in DOMAIN files : q # target[r] => files'[q] = files[q]
      BY <1>6, FillsIs
    <2> QED BY <1>6, <2>1, <2>2 DEF Kept, Exists
  <1>7. CASE Removes(r)
    <2>1. IsSeq(copied[r])
      BY DEF Stored, Shaped, RunShaped
    <2>2. Head(copied[r]) \in ToSet(copied[r])
      BY <1>7, <2>1, TailElements DEF Removes
    <2>3. p # Head(copied[r])
      BY <1>1, <1>2, <2>2, HeldIs
    <2>4. /\ DOMAIN files' = DOMAIN files \ {Head(copied[r])}
         /\ \A q \in DOMAIN files' : files'[q] = files[q]
      BY <1>7, RemovesIs
    <2> QED BY <1>7, <2>3, <2>4 DEF Kept, Exists
  <1> QED BY <1>3, <1>4, <1>5, <1>6, <1>7, FileSteps DEF Stored, Shaped

(* A name a run has chosen stays free and its own to make, or is shared.      *)
LEMMA ChosenKept ==
  ASSUME Stored, NEW r \in Runs, Moves(r), NEW s \in Runs \ {r},
         pc[s] = "copy", target[s] \notin shared'
  PROVE  /\ target[s] \notin DOMAIN files'
         /\ ~(pc'[r] = "copy" /\ target'[r] = target[s])
         /\ ~(Running(r)' /\ target[s] \in Sources(r)')
  <1> DEFINE p == target[s]
  <1>1. /\ p \notin shared /\ ~Exists(p) /\ InStorage(p) /\ Running(s)
        /\ ~(pc[r] = "copy" /\ target[r] = p) /\ ~(Running(r) /\ p \in Sources(r))
    BY FileSteps DEF Stored, Shaped, RunStored, ChosenFree, RunShaped, WithTarget, Running
  <1>2. p \notin DOMAIN files'
    <2>1. CASE files' = files
      BY <1>1, <2>1 DEF Exists
    <2>2. CASE Writes(r)
      BY <1>1, <2>2 DEF Writes, Exists
    <2>3. CASE Opens(r)
      <3>1. /\ DOMAIN files' = DOMAIN files \cup {target[r]}
           /\ \A q \in DOMAIN files : q # target[r] => files'[q] = files[q]
        BY <2>3, OpensIs
      <3> QED BY <1>1, <2>3, <3>1 DEF Exists, Opens
    <2>4. CASE Fills(r)
      <3>1. p # target[r]
        BY <1>1, <2>4, HeldIs DEF Fills
      <3>2. /\ DOMAIN files' = DOMAIN files \cup {target[r]}
           /\ \A q \in DOMAIN files : q # target[r] => files'[q] = files[q]
        BY <2>4, FillsIs
      <3> QED BY <1>1, <2>4, <3>1, <3>2 DEF Exists
    <2>5. CASE Removes(r)
      <3>1. /\ DOMAIN files' = DOMAIN files \ {Head(copied[r])}
           /\ \A q \in DOMAIN files' : files'[q] = files[q]
        BY <2>5, RemovesIs
      <3> QED BY <1>1, <2>5, <3>1 DEF Exists
    <2> QED BY <2>1, <2>2, <2>3, <2>4, <2>5, FileSteps DEF Stored, Shaped
  <1>3. CASE Command(r)
    <2>1. Writes(r) /\ task' = task /\ Sources(r)' = Sources(r)
      BY <1>3 DEF Command, CommandRuns, Writes, Written, Sources, Wanted
    <2>2. p \notin Sources(r)
      BY <1>1, <2>1 DEF Writes
    <2>3. pc'[r] # "copy"
      BY <1>3 DEF Command, Goto, Stored, Shaped, Functions
    <2> QED BY <1>2, <2>1, <2>2, <2>3
  <1>4. CASE Start(r) \/ CommandFails(r)
    <2>1. ~Running(r)' /\ pc'[r] # "copy"
      BY <1>4 DEF Start, CommandFails, End, Goto, Running, Stored, Shaped, Functions
    <2> QED BY <1>2, <2>1
  <1>5. CASE Registration(r) \/ Crash(r)
    <2>1. task' = task /\ Sources(r)' = Sources(r)
      BY <1>5 DEF Registration, Crash, Choose, Open, Close, Fails, UnlinkFails, Checksum, Record,
              Commit, Cleanup, Rollback, Sources, Wanted
    <2>2. Running(r) \/ ~Running(r)'
      BY <1>5 DEF Registration, Crash, Choose, Open, Close, Fails, UnlinkFails, Checksum, Record,
              Commit, Cleanup, Rollback, Running, End, Goto, Stored, Shaped, Functions
    <2>3. ~(pc'[r] = "copy" /\ target'[r] = p)
      <3>1. CASE Choose(r)
        BY <1>1, <3>1 DEF Choose, Raise, Goto, Stored, Shaped, Functions
      <3>2. CASE ~Choose(r)
        <4>1. pc'[r] # "copy"
          BY <1>5, <3>2 DEF Registration, Crash, Open, Close, Fails, UnlinkFails, Checksum, Record,
                    Commit, Cleanup, Rollback, Raise, NextArtifact, Unlink, End, Goto,
                    Stored, Shaped, Functions
        <4> QED BY <4>1
      <3> QED BY <3>1, <3>2
    <2> QED BY <1>1, <1>2, <2>1, <2>2, <2>3
  <1> QED BY <1>3, <1>4, <1>5 DEF Moves

LEMMA ClaimsShaped ==
  ASSUME Shaped, NEW s \in Runs, NEW p \in Claims(s)
  PROVE  InStorage(p)
  BY DEF Shaped, RunShaped, Claims, WithTarget

(* What a run counts on outlives a step of another.                          *)
LEMMA OthersStored ==
  ASSUME Stored, NEW r \in Runs, Moves(r), NEW s \in Runs \ {r}
  PROVE  RunStored(s)'
  <1>1. /\ Same(s) /\ Sources(s)' = Sources(s) /\ Source(s)' = Source(s)
        /\ Running(s)' = Running(s) /\ Claims(s)' = Claims(s) /\ shared \subseteq shared'
    BY StepSame, FileSteps DEF Stored, Shaped, Same, Sources, Source, Wanted, Running, Claims
  <1>2. RunStored(s)
    BY DEF Stored
  <1>3. ASSUME NEW p \in Claims(s), p \notin shared'
        PROVE  Exists(p) /\ files[p].by = s /\ Kept(p)
    <2>1. InStorage(p)
      BY ClaimsShaped DEF Stored
    <2>2. Exists(p) /\ files[p].by = s
      BY <1>1, <1>2, <1>3 DEF RunStored, Held
    <2> QED BY <1>3, <2>1, <2>2, OthersKept DEF Exists
  <1>4. Held(s)'
    BY <1>1, <1>3 DEF Held, Kept, Exists
  <1>5. ChosenFree(s)'
    <2>1. pc'[s] \in {"copy", "copying"} => target'[s] # Source(s)'
      BY <1>1, <1>2 DEF RunStored, ChosenFree, Same
    <2>2. ASSUME pc'[s] = "copy", target'[s] \notin shared'
          PROVE  /\ ~Exists(target[s])'
                 /\ \A q \in Runs \ {s} : /\ ~(pc'[q] = "copy" /\ target'[q] = target'[s])
                                          /\ ~(Running(q)' /\ target'[s] \in Sources(q)')
      <3>1. pc[s] = "copy" /\ target[s] \notin shared' /\ target'[s] = target[s]
        BY <1>1, <2>2 DEF Same
      <3>2. target[s] \notin DOMAIN files'
        BY <3>1, ChosenKept
      <3>3. ASSUME NEW q \in Runs \ {s}
            PROVE  /\ ~(pc'[q] = "copy" /\ target'[q] = target[s])
                   /\ ~(Running(q)' /\ target[s] \in Sources(q)')
        <4>1. CASE q = r
          BY <3>1, <4>1, ChosenKept
        <4>2. CASE q # r
          <5>1. Same(q) /\ Sources(q)' = Sources(q) /\ Running(q)' = Running(q)
            BY <4>2, StepSame DEF Stored, Shaped, Same, Sources, Wanted, Running
          <5>2. target[s] \notin shared
            BY <1>1, <3>1
          <5> QED BY <1>2, <3>1, <5>1, <5>2 DEF RunStored, ChosenFree, Same
        <4> QED BY <4>1, <4>2
      <3> QED BY <3>1, <3>2, <3>3 DEF Exists
    <2> QED BY <2>1, <2>2 DEF ChosenFree
  <1>6. Outputs(s)'
    <2>1. ASSUME Running(s), NEW p \in Sources(s), p \notin shared', p \in DOMAIN files'
          PROVE  files'[p].by = s /\ files'[p].content = s
      <3>1. Exists(p) /\ Kept(p)
        BY <2>1, SourcesKept
      <3> QED BY <1>1, <1>2, <2>1, <3>1 DEF RunStored, Outputs, Kept
    <2> QED BY <1>1, <2>1 DEF Outputs, Exists
  <1>7. Copied(s)'
    <2>1. pc[s] = "copying" /\ Source(s) \notin shared' => Exists(Source(s))'
      <3> SUFFICES ASSUME pc[s] = "copying", Source(s) \notin shared' PROVE Kept(Source(s))
        BY <1>1 DEF Kept, Exists
      <3>1. Source(s) \in Sources(s) /\ Running(s)
        BY SourceIs DEF Stored, AtArtifact, Running
      <3>2. Exists(Source(s))
        BY <1>1, <1>2 DEF RunStored, Copied
      <3> QED BY <3>1, <3>2, SourcesKept
    <2>2. ASSUME pc[s] = "copying", detached'[s], target[s] \notin shared' PROVE FALSE
      <3>1. target[s] \notin shared /\ ~detached[s]
        BY <1>1, <1>2, <2>2 DEF RunStored, Copied
      <3>2. Removes(r) /\ target[s] = Head(copied[r])
        BY <2>2, <3>1, FileSteps DEF Stored, Shaped
      <3>3. target[s] \in Claims(s)
        BY <2>2 DEF Claims
      <3>4. Kept(target[s])
        BY <1>3, <2>2, <3>3
      <3>5. DOMAIN files' = DOMAIN files \ {Head(copied[r])}
        BY <3>2, RemovesIs
      <3> QED BY <3>2, <3>4, <3>5 DEF Kept
    <2>3. ASSUME pc[s] \in {"checksum", "record"}, target[s] \notin shared'
          PROVE  Content(target[s])' = Content(target[s])
      <3>1. target[s] \in Claims(s)
        BY <2>3 DEF Claims
      <3>2. Exists(target[s]) /\ Kept(target[s])
        BY <1>3, <2>3, <3>1
      <3>3. target'[s] = target[s]
        BY <1>1 DEF Same
      <3> QED BY <3>2, <3>3 DEF Kept, Content, Exists
    <2>4. pc[s] = "checksum" /\ target[s] \notin shared' /\ Source(s) \notin shared' =>
            Content(target[s])' = s
      BY <1>1, <1>2, <2>3 DEF RunStored, Copied
    <2>5. pc[s] = "record" /\ target[s] \notin shared' =>
            Content(target[s])' = sum[s] /\ (Source(s) \notin shared' => sum[s] = s)
      BY <1>1, <1>2, <2>3 DEF RunStored, Copied
    <2> QED BY <1>1, <2>1, <2>2, <2>4, <2>5 DEF Copied, Same
  <1>8. RowsStored(s)'
    <2>1. ASSUME pc[s] \notin Undoing, NEW a \in ToSet(rows[s]), a.path \notin shared'
          PROVE  /\ Content(a.path)' = a.sum
                 /\ a.source \notin shared' => a.sum = s
                 /\ pc[s] = "copying" => a.path # target[s]
      <3>1. a.path \in Claims(s)
        BY <2>1 DEF Claims
      <3>2. Exists(a.path) /\ Kept(a.path)
        BY <1>3, <2>1, <3>1
      <3>3. Content(a.path)' = Content(a.path)
        BY <3>2 DEF Kept, Content, Exists
      <3> QED BY <1>1, <1>2, <2>1, <3>3 DEF RunStored, RowsStored
    <2> QED BY <1>1, <2>1 DEF RowsStored, Same
  <1>9. CopiedOnce(s)'
    BY <1>1, <1>2 DEF RunStored, CopiedOnce, Same
  <1> QED BY <1>4, <1>5, <1>6, <1>7, <1>8, <1>9 DEF RunStored

LEMMA AssetKept ==
  ASSUME Stored, NEW r \in Runs, Moves(r), NEW a \in assets
  PROVE  AssetStored(a)'
  <1>1. AssetStored(a) /\ shared \subseteq shared' /\ pc[r] # "done"
    BY FileSteps DEF Stored, Shaped
  <1>2. a.run # r
    BY <1>1 DEF AssetStored
  <1>3. a.run \in Runs => pc'[a.run] = "done"
    BY <1>1, <1>2, StepSame DEF AssetStored, Stored, Shaped, Same
  <1>4. ASSUME a.path \notin shared' PROVE Kept(a.path)
    BY <1>1, <1>2, <1>4, OthersKept DEF AssetStored, Exists
  <1> QED BY <1>1, <1>3, <1>4 DEF AssetStored, Kept, Exists

(* A run without a target in hand counts on no more than before.             *)
LEMMA RestStored ==
  ASSUME Stored, NEW r \in Runs, Running(r),
         pc'[r] \in {"target", "commit", "cleanup", "rollback"},
         pc[r] \in Undoing => pc'[r] \in Undoing, shared \subseteq shared', task' = task,
         copied'[r] = copied[r], rows'[r] = rows[r] \/ pc'[r] = "cleanup", UNCHANGED files
  PROVE  RunStored(r)'
  <1>1. RunStored(r)
    BY DEF Stored
  <1>2. Claims(r)' \subseteq Claims(r) /\ Sources(r)' = Sources(r)
    BY DEF Claims, Undoing, Sources, Wanted
  <1>3. Held(r)'
    BY <1>1, <1>2 DEF RunStored, Held, Exists
  <1>4. Outputs(r)'
    BY <1>1, <1>2 DEF RunStored, Outputs, Exists
  <1>5. RowsStored(r)'
    BY <1>1 DEF RunStored, RowsStored, Undoing, Content, Exists
  <1>6. CopiedOnce(r)'
    BY <1>1 DEF RunStored, CopiedOnce
  <1> QED BY <1>3, <1>4, <1>5, <1>6 DEF RunStored, ChosenFree, Copied

LEMMA EndStored ==
  ASSUME NEW r \in Runs, pc'[r] \in {"command", "done"}, copied'[r] = <<>>, rows'[r] = <<>>
  PROVE  RunStored(r)'
  BY NoElements DEF RunStored, Held, Claims, ChosenFree, Outputs, Copied, RowsStored, CopiedOnce,
     Running

LEMMA CommandStored ==
  ASSUME Stored, NEW r \in Runs, Command(r)
  PROVE  RunStored(r)'
  <1>1. /\ pc[r] = "command" /\ pc'[r] \in {"target", "commit"}
        /\ UNCHANGED <<task, copied, rows>> /\ copied[r] = <<>> /\ rows[r] = <<>>
        /\ Writes(r) /\ Sources(r)' = Sources(r)
    BY DEF Command, CommandRuns, Writes, Written, Goto, locals, Sources, Wanted,
       Stored, Shaped, Functions, RunShaped
  <1>2. Outputs(r)'
    <2>1. ASSUME NEW p \in Sources(r), p \notin shared', p \in DOMAIN files'
          PROVE  files'[p].by = r /\ files'[p].content = r
      <3>1. PICK n \in 0 .. Len(Wanted(r)) :
              /\ files' = [q \in DOMAIN files \cup Written(r, n) |->
                      IF q \in Written(r, n) THEN [by |-> r, content |-> r] ELSE files[q]]
              /\ \A q \in Sources(r) \ Written(r, n) : Exists(q) => q \in shared'
        BY <1>1 DEF Writes
      <3>2. p \in Written(r, n)
        BY <2>1, <3>1 DEF Exists
      <3> QED BY <3>1, <3>2
    <2> QED BY <1>1, <2>1 DEF Outputs, Exists
  <1> QED BY <1>1, <1>2, NoElements
          DEF RunStored, Held, Claims, ChosenFree, Copied, RowsStored, CopiedOnce

LEMMA ChooseStored ==
  ASSUME Stored, NEW r \in Runs, Choose(r)
  PROVE  RunStored(r)'
  <1> DEFINE t == TargetFor(Source(r), task[r].namespace, Wanted(r)[at[r]].kind)
  <1>1. /\ pc[r] = "target" /\ UNCHANGED <<files, task, at, copied, rows>>
        /\ Running(r) /\ shared \subseteq shared' /\ RunStored(r)
        /\ Sources(r)' = Sources(r) /\ Source(r)' = Source(r)
    BY DEF Choose, stores, Running, Sources, Source, Wanted, Stored
  <1>2. CASE pc'[r] = "cleanup"
    BY <1>1, <1>2, RestStored DEF Undoing
  <1>3. CASE /\ Safe(task[r].namespace) /\ Exists(Source(r))
             /\ target'[r] = t /\ pc'[r] = IF t = Source(r) THEN "checksum" ELSE "copy"
             /\ (\E s \in Runs \ {r} : \/ pc[s] = "copy" /\ target[s] = t
                                       \/ Running(s) /\ t \in Sources(s)) => t \in shared'
    <2>1. Source(r) \in Sources(r) /\ (t = Source(r) \/ ~Exists(t))
      BY <1>1, <1>3, SourceIs, TargetForIs DEF Stored, Shaped, FilesShaped, AtArtifact, Safe
    <2>2. \A s \in Runs \ {r} : /\ pc'[s] = pc[s] /\ target'[s] = target[s]
                                /\ Sources(s)' = Sources(s) /\ Running(s)' = Running(s)
      BY <1>1, StepSame DEF Moves, Registration, Stored, Shaped, Same, Sources, Wanted, Running
    <2> HIDE DEF t
    <2>3. Outputs(r)'
      BY <1>1 DEF RunStored, Outputs, Exists
    <2>4. RowsStored(r)'
      BY <1>1, <1>3 DEF RunStored, RowsStored, Undoing, Content, Exists
    <2>5. CASE t = Source(r)
      <3>1. t \notin shared' => files[t].by = r /\ files[t].content = r
        BY <1>1, <1>3, <2>1, <2>5 DEF RunStored, Outputs
      <3>2. Claims(r)' \subseteq Claims(r) \cup {t}
        BY <1>1, <1>3, <2>5 DEF Claims, Undoing
      <3>3. Held(r)'
        BY <1>1, <1>3, <2>5, <3>1, <3>2 DEF RunStored, Held, Exists
      <3>4. Copied(r)'
        BY <1>1, <1>3, <2>5, <3>1 DEF Copied, Content, Exists
      <3>5. CopiedOnce(r)' /\ ChosenFree(r)'
        BY <1>1, <1>3, <2>5 DEF RunStored, CopiedOnce, ChosenFree
      <3> QED BY <2>3, <2>4, <3>3, <3>4, <3>5 DEF RunStored
    <2>6. CASE t # Source(r)
      <3>1. Claims(r)' = Claims(r)
        BY <1>1, <1>3, <2>6 DEF Claims, Undoing
      <3>2. Held(r)'
        BY <1>1, <3>1 DEF RunStored, Held, Exists
      <3>3. ChosenFree(r)'
        BY <1>1, <1>3, <2>1, <2>2, <2>6 DEF ChosenFree, Exists
      <3>4. CopiedOnce(r)' /\ Copied(r)'
        BY <1>1, <1>3, <2>6 DEF RunStored, CopiedOnce, Copied
      <3> QED BY <2>3, <2>4, <3>2, <3>3, <3>4 DEF RunStored
    <2> QED BY <2>5, <2>6
  <1> HIDE DEF t
  <1> QED BY <1>2, <1>3 DEF Choose, Raise, Goto, Stored, Shaped, Functions, t

(* What a run held before it opened or filled its target is held still.      *)
LEMMA TargetApart ==
  ASSUME Stored, NEW r \in Runs, pc[r] \in {"copy", "copying"},
         DOMAIN files' = DOMAIN files \cup {target[r]},
         \A q \in DOMAIN files : q # target[r] => files'[q] = files[q],
         UNCHANGED <<task, at, target, copied, rows, shared>>, pc'[r] \in {"copying", "checksum"}
  PROVE  /\ Outputs(r)'
         /\ \A p \in Sources(r) : p # target[r]
         /\ \A p \in ToSet(copied[r]) : p \notin shared => p # target[r] /\ Kept(p)
         /\ \A a \in ToSet(rows[r]) : a.path \notin shared => a.path # target[r] /\ Kept(a.path)
  <1>1. /\ RunStored(r) /\ Running(r) /\ Sources(r)' = Sources(r)
    BY DEF Stored, Sources, Wanted, Running
  <1>2. \A p \in Sources(r) : p # target[r]
    <2>1. InStorage(target[r]) /\ target[r] # Source(r)
      BY <1>1 DEF RunStored, ChosenFree, Stored, Shaped, RunShaped, WithTarget
    <2>2. \A p \in Sources(r) : InStorage(p) => p = Source(r)
      BY SourceIs DEF Stored, AtArtifact
    <2> QED BY <2>1, <2>2
  <1>3. Outputs(r)'
    BY <1>1, <1>2 DEF RunStored, Outputs, Exists
  <1>4. ASSUME NEW p \in ToSet(copied[r]), p \notin shared
        PROVE  p # target[r] /\ Kept(p)
    <2>1. Exists(p)
      BY <1>4, HeldIs
    <2>2. p # target[r]
      BY <1>1, <1>4, <2>1 DEF RunStored, ChosenFree, CopiedOnce
    <2> QED BY <2>1, <2>2 DEF Kept, Exists
  <1>5. ASSUME NEW a \in ToSet(rows[r]), a.path \notin shared
        PROVE  a.path # target[r] /\ Kept(a.path)
    <2>1. Exists(a.path)
      BY <1>5, HeldIs DEF Undoing
    <2>2. a.path # target[r]
      BY <1>1, <1>5, <2>1 DEF RunStored, ChosenFree, RowsStored, Undoing
    <2> QED BY <2>1, <2>2 DEF Kept, Exists
  <1> QED BY <1>2, <1>3, <1>4, <1>5

LEMMA OpenStored ==
  ASSUME Stored, NEW r \in Runs, Open(r)
  PROVE  RunStored(r)'
  <1>1. /\ pc[r] = "copy" /\ UNCHANGED <<task, at, target, copied, rows, shared>>
        /\ Running(r) /\ RunStored(r) /\ Source(r)' = Source(r)
    BY DEF Open, Running, Source, Wanted, Stored
  <1>2. CASE ~Exists(Source(r))
    <2>1. pc'[r] = "cleanup" /\ UNCHANGED files
      BY <1>2 DEF Open, Raise, Goto, Stored, Shaped, Functions
    <2> QED BY <1>1, <2>1, RestStored DEF Undoing
  <1>3. CASE Exists(Source(r))
    <2>1. pc'[r] = "copying" /\ Opens(r) /\ detached'[r] = FALSE
      BY <1>3 DEF Open, Opens, Goto, Stored, Shaped, Functions
    <2>2. /\ DOMAIN files' = DOMAIN files \cup {target[r]}
          /\ files'[target[r]].by = r
          /\ \A q \in DOMAIN files : q # target[r] => files'[q] = files[q]
      BY <2>1, OpensIs
    <2>3. /\ Outputs(r)'
          /\ \A p \in ToSet(copied[r]) : p \notin shared => p # target[r] /\ Kept(p)
          /\ \A a \in ToSet(rows[r]) : a.path \notin shared => a.path # target[r] /\ Kept(a.path)
      BY <1>1, <2>1, <2>2, TargetApart
    <2>4. /\ \A p \in ToSet(copied[r]) : p \notin shared => files[p].by = r /\ Exists(p)
          /\ \A a \in ToSet(rows[r]) : a.path \notin shared => files[a.path].by = r /\ Exists(a.path)
      BY <1>1, HeldIs DEF Undoing
    <2>5. Claims(r)' \subseteq {target[r]} \cup ToSet(copied[r]) \cup {a.path : a \in ToSet(rows[r])}
      BY <1>1 DEF Claims
    <2>6. Held(r)'
      BY <1>1, <2>2, <2>3, <2>4, <2>5 DEF Held, Kept, Exists
    <2>7. Copied(r)' /\ ChosenFree(r)'
      BY <1>1, <1>3, <2>1, <2>2 DEF RunStored, Copied, ChosenFree, Exists
    <2>8. RowsStored(r)'
      BY <1>1, <2>1, <2>3, <2>4 DEF RunStored, RowsStored, Undoing, Content, Kept, Exists
    <2>9. CopiedOnce(r)'
      BY <1>1, <2>1, <2>3 DEF RunStored, CopiedOnce
    <2> QED BY <2>3, <2>6, <2>7, <2>8, <2>9 DEF RunStored
  <1> QED BY <1>2, <1>3

LEMMA CloseStored ==
  ASSUME Stored, NEW r \in Runs, Close(r)
  PROVE  RunStored(r)'
  <1>1. /\ pc[r] = "copying" /\ pc'[r] = "checksum"
        /\ UNCHANGED <<task, at, target, copied, rows, shared>>
        /\ Running(r) /\ RunStored(r) /\ Source(r)' = Source(r) /\ Sources(r)' = Sources(r)
        /\ target[r] # Source(r)
    BY DEF Close, locals, Goto, Running, Source, Sources, Wanted, Stored, Shaped, Functions,
       RunStored, ChosenFree
  <1>2. Claims(r)' \subseteq Claims(r) /\ ChosenFree(r)' /\ CopiedOnce(r)'
    BY <1>1 DEF Claims, Undoing, RunStored, ChosenFree, CopiedOnce
  <1>3. CASE detached[r]
    <2>1. files' = files /\ target[r] \in shared
      BY <1>1, <1>3 DEF Close, RunStored, Copied
    <2>2. Held(r)' /\ Outputs(r)'
      BY <1>1, <1>2, <2>1 DEF RunStored, Held, Outputs, Exists, Running
    <2>3. RowsStored(r)'
      BY <1>1, <2>1 DEF RunStored, RowsStored, Undoing, Content, Exists
    <2>4. Copied(r)'
      BY <1>1, <2>1 DEF Copied
    <2> QED BY <1>2, <2>2, <2>3, <2>4 DEF RunStored
  <1>4. CASE ~detached[r]
    <2>1. Fills(r)
      BY <1>1, <1>4 DEF Close, Fills
    <2>2. /\ DOMAIN files' = DOMAIN files \cup {target[r]}
          /\ files'[target[r]].by = r /\ files'[target[r]].content = Content(Source(r))
          /\ \A q \in DOMAIN files : q # target[r] => files'[q] = files[q]
      BY <2>1, FillsIs
    <2>3. /\ Outputs(r)'
          /\ \A p \in ToSet(copied[r]) : p \notin shared => p # target[r] /\ Kept(p)
          /\ \A a \in ToSet(rows[r]) : a.path \notin shared => a.path # target[r] /\ Kept(a.path)
      BY <1>1, <2>2, TargetApart
    <2>4. /\ \A p \in ToSet(copied[r]) : p \notin shared => files[p].by = r /\ Exists(p)
          /\ \A a \in ToSet(rows[r]) : a.path \notin shared => files[a.path].by = r /\ Exists(a.path)
      BY <1>1, HeldIs DEF Undoing
    <2>5. Claims(r)' \subseteq {target[r]} \cup ToSet(copied[r]) \cup {a.path : a \in ToSet(rows[r])}
      BY <1>1 DEF Claims
    <2>6. Held(r)'
      BY <1>1, <2>2, <2>3, <2>4, <2>5 DEF Held, Kept, Exists
    <2>7. RowsStored(r)'
      BY <1>1, <2>3, <2>4 DEF RunStored, RowsStored, Undoing, Content, Kept, Exists
    <2>8. Source(r) \notin shared => Content(Source(r)) = r
      <3>1. Source(r) \in Sources(r)
        BY <1>1, SourceIs DEF Stored, AtArtifact
      <3> QED BY <1>1, <3>1 DEF RunStored, Copied, Outputs, Content
    <2>9. Copied(r)'
      BY <1>1, <2>2, <2>8 DEF Copied, Content, Exists
    <2> QED BY <1>2, <2>3, <2>6, <2>7, <2>9 DEF RunStored
  <1> QED BY <1>3, <1>4

LEMMA NextArtifactIs ==
  ASSUME Functions, NEW r \in Runs, NextArtifact(r)
  PROVE  pc'[r] \in {"target", "commit"}
  BY DEF Functions, NextArtifact, Goto

(* The copy that is done joins the list of copies, and is there only once.   *)
LEMMA CopyListed ==
  ASSUME Stored, NEW r \in Runs, pc[r] = "checksum", copied'[r] = WithCopy(copied[r], r)
  PROVE  /\ ToSet(copied'[r]) \subseteq ToSet(copied[r]) \cup {target[r]}
         /\ \A i, j \in 1 .. Len(copied'[r]) :
              copied'[r][i] = copied'[r][j] /\ copied'[r][i] \notin shared => i = j
  <1>1. CopiedOnce(r) /\ IsSeq(copied[r])
    BY DEF Stored, Shaped, RunShaped, RunStored
  <1>2. CASE target[r] = Source(r)
    BY <1>1, <1>2 DEF WithCopy, CopiedOnce
  <1>3. CASE target[r] # Source(r)
    <2> DEFINE old == copied[r]
               new == copied'[r]
               t == target[r]
    <2>1. new = Append(old, t) /\ IsSeq(old)
      BY <1>1, <1>3 DEF WithCopy
    <2>2. t \notin shared => t \notin ToSet(old)
      BY <1>1, <1>3 DEF CopiedOnce
    <2>3. \A i, j \in 1 .. Len(old) : old[i] = old[j] /\ old[i] \notin shared => i = j
      BY <1>1 DEF CopiedOnce
    <2> HIDE DEF old, new, t
    <2>4. /\ ToSet(new) = ToSet(old) \cup {t} /\ Len(new) = Len(old) + 1
          /\ \A i \in 1 .. Len(old) : new[i] = old[i]
          /\ new[Len(old) + 1] = t
      BY <2>1, AppendElements
    <2>5. Len(old) \in Nat /\ \A i \in 1 .. Len(old) : old[i] \in ToSet(old)
      BY <2>1, SeqElements
    <2>6. ASSUME NEW i \in 1 .. Len(new), NEW j \in 1 .. Len(new),
                 new[i] = new[j], new[i] \notin shared
          PROVE  i = j
      <3>1. CASE i \in 1 .. Len(old) /\ j \in 1 .. Len(old)
        BY <2>3, <2>4, <2>6, <3>1
      <3>2. CASE i = Len(old) + 1 /\ j \in 1 .. Len(old)
        BY <2>2, <2>4, <2>5, <2>6, <3>2
      <3>3. CASE i \in 1 .. Len(old) /\ j = Len(old) + 1
        BY <2>2, <2>4, <2>5, <2>6, <3>3
      <3> QED BY <2>4, <2>5, <3>1, <3>2, <3>3
    <2>7. \A i, j \in 1 .. Len(new) : new[i] = new[j] /\ new[i] \notin shared => i = j
      BY <2>6
    <2> QED BY <2>4, <2>7 DEF old, new, t
  <1> QED BY <1>2, <1>3

LEMMA ChecksumStored ==
  ASSUME Stored, NEW r \in Runs, Checksum(r)
  PROVE  RunStored(r)'
  <1>1. /\ pc[r] = "checksum" /\ UNCHANGED <<files, task, target, rows, shared>>
        /\ Running(r) /\ RunStored(r) /\ Sources(r)' = Sources(r)
    BY DEF Checksum, stores, Running, Sources, Wanted, Stored
  <1>2. CASE ~Exists(target[r])
    <2>1. pc'[r] = "cleanup" /\ UNCHANGED copied
      BY <1>2 DEF Checksum, Raise, Goto, Stored, Shaped, Functions
    <2> QED BY <1>1, <2>1, RestStored DEF Undoing
  <1>3. CASE Exists(target[r])
    <2>1. /\ sum'[r] = Content(target[r]) /\ copied'[r] = WithCopy(copied[r], r)
          /\ IF task[r].recorded THEN pc'[r] = "record" /\ UNCHANGED at ELSE NextArtifact(r)
      BY <1>3 DEF Checksum, Goto, Stored, Shaped, Functions
    <2>2. pc'[r] \in {"target", "commit"} \/ (pc'[r] = "record" /\ UNCHANGED at)
      BY <2>1, NextArtifactIs DEF Stored, Shaped
    <2>3. /\ ToSet(copied'[r]) \subseteq ToSet(copied[r]) \cup {target[r]}
          /\ \A i, j \in 1 .. Len(copied'[r]) :
               copied'[r][i] = copied'[r][j] /\ copied'[r][i] \notin shared => i = j
      BY <1>1, <2>1, CopyListed
    <2>4. Claims(r)' \subseteq Claims(r)
      BY <1>1, <2>2, <2>3 DEF Claims, Undoing
    <2>5. Held(r)' /\ Outputs(r)'
      BY <1>1, <2>4 DEF RunStored, Held, Outputs, Exists
    <2>6. ChosenFree(r)' /\ CopiedOnce(r)'
      BY <1>1, <2>2, <2>3 DEF ChosenFree, CopiedOnce
    <2>7. RowsStored(r)'
      BY <1>1, <2>2 DEF RunStored, RowsStored, Undoing, Content, Exists
    <2>8. Copied(r)'
      <3>1. pc'[r] = "record" => Source(r)' = Source(r)
        BY <1>1, <2>2 DEF Source, Wanted
      <3>2. pc'[r] = "record" /\ target[r] \notin shared =>
              Content(target[r]) = sum'[r] /\ (Source(r) \notin shared => sum'[r] = r)
        BY <1>1, <2>1 DEF RunStored, Copied
      <3>3. Content(target[r])' = Content(target[r])
        BY <1>1 DEF Content, Exists
      <3> QED BY <1>1, <2>2, <3>1, <3>2, <3>3 DEF Copied
    <2> QED BY <2>5, <2>6, <2>7, <2>8 DEF RunStored
  <1> QED BY <1>2, <1>3

LEMMA RecordStored ==
  ASSUME Stored, NEW r \in Runs, Record(r)
  PROVE  RunStored(r)'
  <1>1. /\ pc[r] = "record" /\ UNCHANGED <<files, task, target, sum, copied, shared>>
        /\ Running(r) /\ RunStored(r) /\ Sources(r)' = Sources(r)
    BY DEF Record, Running, Sources, Wanted, Stored
  <1>2. Raise(r) => pc'[r] = "cleanup"
    BY DEF Raise, Goto, Stored, Shaped, Functions
  <1>3. CASE pc'[r] = "cleanup"
    BY <1>1, <1>3, RestStored DEF Undoing
  <1>4. CASE rows' = [rows EXCEPT ![r] = Append(@, Row(r))] /\ pc'[r] \in {"target", "commit"}
    <2> DEFINE row == Row(r)
    <2>1. rows'[r] = Append(rows[r], row) /\ IsSeq(rows[r])
      BY <1>4 DEF Stored, Shaped, Functions, RunShaped
    <2>2. row.path = target[r] /\ row.sum = sum[r] /\ row.source = Source(r)
      BY DEF Row
    <2> HIDE DEF row
    <2>3. ToSet(rows'[r]) = ToSet(rows[r]) \cup {row}
      BY <2>1, AppendElements
    <2>4. Claims(r)' \subseteq Claims(r)
      BY <1>1, <1>4, <2>2, <2>3 DEF Claims, Undoing
    <2>5. Held(r)' /\ Outputs(r)'
      BY <1>1, <2>4 DEF RunStored, Held, Outputs, Exists
    <2>6. ChosenFree(r)' /\ CopiedOnce(r)' /\ Copied(r)'
      BY <1>1, <1>4 DEF RunStored, ChosenFree, CopiedOnce, Copied
    <2>7. RowsStored(r)'
      <3>1. row.path \notin shared =>
              Content(row.path) = row.sum /\ (row.source \notin shared => row.sum = r)
        BY <1>1, <2>2 DEF RunStored, Copied
      <3>2. \A a \in ToSet(rows[r]) : a.path \notin shared =>
              Content(a.path) = a.sum /\ (a.source \notin shared => a.sum = r)
        BY <1>1 DEF RunStored, RowsStored, Undoing
      <3> QED BY <1>1, <1>4, <2>3, <3>1, <3>2 DEF RowsStored, Content, Exists
    <2> QED BY <2>5, <2>6, <2>7 DEF RunStored
  <1>5. NextArtifact(r) => pc'[r] \in {"target", "commit"}
    BY NextArtifactIs DEF Stored, Shaped
  <1> QED BY <1>2, <1>3, <1>4, <1>5 DEF Record

LEMMA CleanupStored ==
  ASSUME Stored, NEW r \in Runs, Cleanup(r)
  PROVE  RunStored(r)'
  <1>1. /\ pc[r] = "cleanup" /\ UNCHANGED <<task, shared>>
        /\ Running(r) /\ RunStored(r) /\ Sources(r)' = Sources(r)
    BY DEF Cleanup, Running, Sources, Wanted, Stored
  <1>2. CASE copied[r] = <<>>
    <2>1. pc'[r] = "rollback" /\ UNCHANGED <<files, copied, rows>>
      BY <1>2 DEF Cleanup, Goto, stores, locals, Stored, Shaped, Functions
    <2> QED BY <1>1, <2>1, RestStored DEF Undoing
  <1>3. CASE copied[r] # <<>>
    <2> DEFINE old == copied[r]
               p == Head(copied[r])
    <2>1. Unlink(p, r) /\ Removes(r) /\ IsSeq(old)
      BY <1>1, <1>3 DEF Cleanup, Unlink, Removes, Stored, Shaped, RunShaped
    <2>2. /\ DOMAIN files' = DOMAIN files \ {p}
          /\ \A q \in DOMAIN files' : files'[q] = files[q]
      BY <2>1, RemovesIs
    <2>3. copied'[r] = Tail(old) /\ UNCHANGED <<rows, pc>>
      BY <2>1 DEF Unlink, Stored, Shaped, Functions
    <2>4. \A i, j \in 1 .. Len(old) : old[i] = old[j] /\ old[i] \notin shared => i = j
      BY <1>1 DEF RunStored, CopiedOnce
    <2>5. \A q \in ToSet(old) : q \notin shared => Exists(q) /\ files[q].by = r
      BY HeldIs
    <2>6. old # <<>> /\ p = Head(old)
      BY <1>3
    <2>11. pc[r] \notin {"copy", "copying", "checksum", "record"} /\ pc[r] \in Undoing
      BY <1>1 DEF Undoing
    <2> HIDE DEF old, p
    <2>7. /\ IsSeq(Tail(old)) /\ Len(Tail(old)) = Len(old) - 1 /\ Len(old) \in Nat \ {0}
          /\ \A i \in 1 .. Len(old) - 1 : Tail(old)[i] = old[i + 1]
          /\ p = old[1] /\ ToSet(Tail(old)) \subseteq ToSet(old)
      BY <2>1, <2>6, TailElements
    <2>8. ASSUME NEW q \in ToSet(Tail(old)), q \notin shared PROVE q # p
      <3>1. PICK i \in 1 .. Len(Tail(old)) : q = Tail(old)[i]
        BY <2>7, SeqElements
      <3>2. q = old[i + 1] /\ i + 1 \in 1 .. Len(old) /\ i + 1 # 1 /\ 1 \in 1 .. Len(old)
        BY <2>7, <3>1
      <3> QED BY <2>4, <2>7, <2>8, <3>2
    <2>9. Held(r)'
      <3>1. Claims(r)' = ToSet(Tail(old))
        BY <2>3, <2>11 DEF Claims
      <3> QED BY <1>1, <2>2, <2>5, <2>7, <2>8, <3>1 DEF Held, Exists
    <2>10. CopiedOnce(r)'
      <3>1. ASSUME NEW i \in 1 .. Len(Tail(old)), NEW j \in 1 .. Len(Tail(old)),
                   Tail(old)[i] = Tail(old)[j], Tail(old)[i] \notin shared
            PROVE  i = j
        <4>1. /\ i + 1 \in 1 .. Len(old) /\ j + 1 \in 1 .. Len(old)
              /\ Tail(old)[i] = old[i + 1] /\ Tail(old)[j] = old[j + 1]
          BY <2>7
        <4>2. i + 1 = j + 1
          BY <2>4, <3>1, <4>1
        <4> QED BY <2>7, <4>2
      <3> QED BY <1>1, <2>3, <2>11, <3>1 DEF CopiedOnce
    <2>12. Outputs(r)'
      BY <1>1, <2>2, <2>3 DEF RunStored, Outputs, Exists
    <2>13. ChosenFree(r)' /\ Copied(r)' /\ RowsStored(r)'
      BY <2>3, <2>11 DEF ChosenFree, Copied, RowsStored
    <2> QED BY <2>9, <2>10, <2>12, <2>13 DEF RunStored
  <1> QED BY <1>2, <1>3

LEMMA OwnStored ==
  ASSUME Stored, NEW r \in Runs, Moves(r)
  PROVE  RunStored(r)'
  <1>1. CASE Fails(r) \/ UnlinkFails(r)
    <2>1. /\ pc'[r] \in {"cleanup", "rollback"} /\ UNCHANGED <<files, task, copied, rows, shared>>
          /\ Running(r)
      BY <1>1 DEF Fails, UnlinkFails, Raise, Goto, stores, locals, Running, Stored, Shaped, Functions
    <2> QED BY <2>1, RestStored DEF Undoing
  <1>2. CASE Start(r)
    <2>1. pc'[r] \in {"command", "done"} /\ copied'[r] = <<>> /\ rows'[r] = <<>>
      BY <1>2 DEF Start, End, Goto, locals, Stored, Shaped, Functions, RunShaped
    <2> QED BY <2>1, EndStored
  <1>3. CASE CommandFails(r) \/ Commit(r) \/ Rollback(r) \/ Crash(r)
    <2>1. pc'[r] = "done" /\ copied'[r] = <<>> /\ rows'[r] = <<>>
      BY <1>3 DEF CommandFails, Commit, Rollback, Crash, End, Goto, Stored, Shaped, Functions
    <2> QED BY <2>1, EndStored
  <1> QED BY <1>1, <1>2, <1>3, CommandStored, ChooseStored, OpenStored, CloseStored, ChecksumStored,
             RecordStored, CleanupStored DEF Moves, Registration

LEMMA StoredStep ==
  ASSUME Stored, NEW r \in Runs, Moves(r)
  PROVE  Stored'
  <1>1. Shaped'
    BY ShapedStep DEF Stored
  <1>2. \A s \in Runs : RunStored(s)'
    BY OwnStored, OthersStored
  <1>3. CASE Commit(r)
    <2>1. ASSUME NEW a \in ToSet(rows[r]) PROVE AssetStored(a)'
      <3>1. /\ pc[r] = "commit" /\ files' = files /\ shared' = shared /\ pc'[r] = "done"
        BY <1>3 DEF Commit, End, Goto, Stored, Shaped, Functions
      <3>2. a.run = r /\ InStorage(a.path)
        BY DEF Stored, Shaped, RunShaped
      <3>3. a.path \notin shared => Exists(a.path) /\ files[a.path].by = r
        BY <3>1, HeldIs DEF Undoing
      <3>4. a.path \notin shared => Content(a.path) = a.sum /\ (a.source \notin shared => a.sum = r)
        BY <3>1 DEF Stored, RunStored, RowsStored, Undoing
      <3> QED BY <3>1, <3>2, <3>3, <3>4 DEF AssetStored, Content, Exists
    <2>2. assets' = assets \cup ToSet(rows[r])
      BY <1>3 DEF Commit
    <2>3. \A a \in assets' : AssetStored(a)'
      BY <2>1, <2>2, AssetKept
    <2> QED BY <1>1, <1>2, <2>3 DEF Stored
  <1>4. CASE ~Commit(r)
    <2>1. assets' = assets
      BY <1>4 DEF Moves, Registration, Start, Command, CommandFails, Choose, Open, Close, Fails, UnlinkFails,
              Checksum, Record, Cleanup, Unlink, Rollback, Crash, stores
    <2> QED BY <1>1, <1>2, <2>1, AssetKept DEF Stored
  <1> QED BY <1>3, <1>4

LEMMA StoredInit == Init => Stored
  <1> SUFFICES ASSUME Init PROVE Stored OBVIOUS
  <1>1. ASSUME NEW r \in Runs PROVE RunStored(r)
    BY NoElements DEF Init, RunStored, Held, Claims, ChosenFree, Outputs, Copied, RowsStored,
       CopiedOnce, Running
  <1>2. ASSUME NEW a \in assets PROVE AssetStored(a)
    <2>1. PICK i \in DOMAIN Present :
            a = [id |-> i, path |-> Present[i], sum |-> Earlier, run |-> Earlier,
                 source |-> Present[i]]
      BY DEF Init
    <2>2. a.path = Present[i] /\ a.sum = Earlier /\ a.run = Earlier /\ Present[i] \in ToSet(Present)
      BY <2>1 DEF ToSet
    <2> QED BY <2>2, ConstantsAssumption, PresentAssumption DEF Init, AssetStored, Exists
  <1> QED BY <1>1, <1>2, ShapedInit DEF Stored

LEMMA StoredStutter ==
  ASSUME Stored, UNCHANGED vars
  PROVE  Stored'
  BY ShapedStutter DEF Stored, RunStored, Held, Claims, ChosenFree, Outputs, Copied, RowsStored,
     CopiedOnce, AssetStored, Running, Exists, Content, Sources, Source, Wanted, vars, stores, locals

(* register_existing, record_stored_artifact and the except clause of         *)
(* run_legacy_command, for any runs at once: a committed row of assets        *)
(* describes a file that is there, with the content its checksum was taken    *)
(* of, which its own command wrote - wherever runs have not met.              *)
THEOREM RecordedIsStoredAlways == Spec => []RecordedIsStored
  <1>1. Stored /\ [Next]_vars => Stored'
    BY StepCases, StoredStep, StoredStutter
  <1>2. Stored => RecordedIsStored
    BY DEF Stored, AssetStored, RecordedIsStored, Content, Exists
  <1> QED BY StoredInit, <1>1, <1>2, PTL DEF Spec

(* -- What a failed run leaves ------------------------------------------------ *)

(* Why a file of a run that has not ended well is still in the storage.       *)
Accounted(r, p) ==
  /\ pc[r] \notin {"idle", "command"}
  /\ \/ p \in Sources(r) \cup stranded[r]
     \/ p \in ToSet(copied[r])
     \/ pc[r] \in {"copying", "checksum"} /\ p = target[r]

RunAccounted(r) ==
  /\ pc[r] # "done" => result[r] = "none"
  /\ pc[r] = "rollback" => ToSet(copied[r]) \subseteq stranded[r]
  /\ result[r] \in {"none", "error"} =>
       \A p \in DOMAIN files : InStorage(p) /\ files[p].by = r => Accounted(r, p)

Explained ==
  /\ Shaped
  /\ \A r \in Runs : RunAccounted(r)
  /\ \A a \in assets : a.run \in Runs => result[a.run] = "ok"

(* What is not a run's own is as it was before its step.                      *)
LEMMA NotOwn ==
  ASSUME Functions, NEW r \in Runs, Moves(r), NEW p \in DOMAIN files', files'[p].by # r
  PROVE  p \in DOMAIN files /\ files'[p] = files[p]
  <1>1. CASE files' = files
    BY <1>1
  <1>2. CASE Writes(r)
    BY <1>2 DEF Writes
  <1>3. CASE Opens(r)
    <2>1. /\ DOMAIN files' = DOMAIN files \cup {target[r]} /\ files'[target[r]].by = r
          /\ \A q \in DOMAIN files : q # target[r] => files'[q] = files[q]
      BY <1>3, OpensIs
    <2> QED BY <2>1
  <1>4. CASE Fills(r)
    <2>1. /\ DOMAIN files' = DOMAIN files \cup {target[r]} /\ files'[target[r]].by = r
          /\ \A q \in DOMAIN files : q # target[r] => files'[q] = files[q]
      BY <1>4, FillsIs
    <2> QED BY <2>1
  <1>5. CASE Removes(r)
    BY <1>5, RemovesIs
  <1> QED BY <1>1, <1>2, <1>3, <1>4, <1>5, FileSteps

LEMMA OthersAccounted ==
  ASSUME Explained, NEW r \in Runs, Moves(r), NEW s \in Runs \ {r}
  PROVE  RunAccounted(s)'
  <1>1. Same(s) /\ Sources(s)' = Sources(s)
    BY StepSame DEF Explained, Shaped, Same, Sources, Wanted
  <1>2. RunAccounted(s)
    BY DEF Explained
  <1>3. ASSUME NEW p \in DOMAIN files', files'[p].by = s
        PROVE  p \in DOMAIN files /\ files'[p] = files[p]
    BY <1>3, NotOwn DEF Explained, Shaped
  <1> QED BY <1>1, <1>2, <1>3 DEF RunAccounted, Accounted, Same

LEMMA OwnAccounted ==
  ASSUME Explained, NEW r \in Runs, Moves(r)
  PROVE  RunAccounted(r)'
  <1> DEFINE Mine(p) == p \in DOMAIN files /\ InStorage(p) /\ files[p].by = r
  <1>1. /\ pc[r] # "done" /\ result[r] = "none" /\ Functions
        /\ \A p \in DOMAIN files : InStorage(p) /\ files[p].by = r => Accounted(r, p)
    BY FileSteps DEF Explained, Shaped, RunAccounted
  <1>2. CASE Start(r) \/ CommandFails(r)
    <2>1. /\ files' = files /\ pc[r] \in {"idle", "command"} /\ pc'[r] # "rollback"
          /\ pc'[r] = "done" \/ result'[r] = "none"
      BY <1>1, <1>2 DEF Start, CommandFails, End, Goto, stores, locals, Functions
    <2> QED BY <1>1, <2>1 DEF RunAccounted, Accounted
  <1>3. CASE Command(r)
    <2>1. /\ Writes(r) /\ Sources(r)' = Sources(r) /\ pc'[r] \in {"target", "commit"}
          /\ result' = result /\ pc[r] = "command"
      BY <1>3 DEF Command, CommandRuns, Writes, Written, Sources, Wanted, Goto,
              Explained, Shaped, Functions
    <2>2. PICK n \in 0 .. Len(Wanted(r)) :
            files' = [q \in DOMAIN files \cup Written(r, n) |->
                        IF q \in Written(r, n) THEN [by |-> r, content |-> r] ELSE files[q]]
      BY <2>1 DEF Writes
    <2>3. Written(r, n) \subseteq Sources(r)
      BY <2>1, WrittenIs DEF Explained
    <2>4. ASSUME NEW p \in DOMAIN files', InStorage(p), files'[p].by = r PROVE p \in Sources(r)
      BY <1>1, <2>1, <2>2, <2>3, <2>4 DEF Accounted
    <2> QED BY <1>1, <2>1, <2>4 DEF RunAccounted, Accounted
  <1>4. CASE Commit(r) \/ Crash(r)
    BY <1>1, <1>4 DEF Commit, Crash, End, Goto, RunAccounted, Functions
  <1>5. CASE Rollback(r)
    <2>1. /\ pc[r] = "rollback" /\ pc'[r] = "done" /\ UNCHANGED <<files, task, stranded>>
          /\ Sources(r)' = Sources(r)
      BY <1>5 DEF Rollback, End, Goto, stores, Explained, Shaped, Functions, Sources, Wanted
    <2>2. ToSet(copied[r]) \subseteq stranded[r]
      BY <2>1 DEF Explained, RunAccounted
    <2> QED BY <1>1, <2>1, <2>2 DEF RunAccounted, Accounted
  <1>6. CASE Choose(r) \/ Record(r)
    <2>1. /\ UNCHANGED <<files, task, copied, result, stranded>> /\ Sources(r)' = Sources(r)
          /\ pc[r] \notin {"copying", "checksum"} /\ pc'[r] \notin {"idle", "command", "rollback"}
      BY <1>1, <1>6 DEF Choose, Record, Raise, NextArtifact, Goto, stores, locals,
              Functions, Sources, Wanted
    <2> QED BY <1>1, <2>1 DEF RunAccounted, Accounted
  <1>7. CASE Open(r)
    <2>1. /\ UNCHANGED <<task, target, copied, result, stranded>> /\ Sources(r)' = Sources(r)
          /\ pc[r] = "copy"
          /\ \/ files' = files /\ pc'[r] = "cleanup"
             \/ Opens(r) /\ pc'[r] = "copying"
      BY <1>1, <1>7 DEF Open, Opens, Raise, Goto, Functions, Sources, Wanted
    <2>2. CASE files' = files /\ pc'[r] \in {"copying", "cleanup"}
      BY <1>1, <2>1, <2>2 DEF RunAccounted, Accounted
    <2>3. CASE Opens(r) /\ pc'[r] = "copying"
      <3>1. /\ DOMAIN files' = DOMAIN files \cup {target[r]}
            /\ \A q \in DOMAIN files : q # target[r] => files'[q] = files[q]
        BY <2>3, OpensIs
      <3> QED BY <1>1, <2>1, <3>1 DEF RunAccounted, Accounted
    <2> QED BY <2>1, <2>2, <2>3
  <1>8. CASE Close(r)
    <2>1. /\ UNCHANGED <<task, target, copied, result, stranded>> /\ Sources(r)' = Sources(r)
          /\ pc[r] = "copying" /\ pc'[r] = "checksum" /\ (files' = files \/ Fills(r))
      BY <1>1, <1>8 DEF Close, Fills, Goto, locals, Functions, Sources, Wanted
    <2>2. CASE files' = files
      BY <1>1, <2>1, <2>2 DEF RunAccounted, Accounted
    <2>3. CASE Fills(r)
      <3>1. /\ DOMAIN files' = DOMAIN files \cup {target[r]}
            /\ \A q \in DOMAIN files : q # target[r] => files'[q] = files[q]
        BY <2>3, FillsIs
      <3> QED BY <1>1, <2>1, <3>1 DEF RunAccounted, Accounted
    <2> QED BY <2>1, <2>2, <2>3
  <1>9. CASE Checksum(r)
    <2>1. /\ UNCHANGED <<files, task, result, stranded>> /\ Sources(r)' = Sources(r)
          /\ pc[r] = "checksum" /\ pc'[r] \in {"cleanup", "record", "target", "commit"}
          /\ \/ ~Exists(target[r]) /\ copied' = copied
             \/ copied'[r] = WithCopy(copied[r], r)
      BY <1>1, <1>9 DEF Checksum, Raise, NextArtifact, Goto, stores, Functions, Sources, Wanted
    <2>2. IsSeq(copied[r]) /\ Source(r) \in Sources(r)
      BY <2>1, SourceIs DEF Explained, Shaped, RunShaped, AtArtifact
    <2>3. CASE ~Exists(target[r]) /\ copied' = copied
      BY <1>1, <2>1, <2>3 DEF RunAccounted, Accounted, Exists
    <2>4. CASE copied'[r] = WithCopy(copied[r], r)
      <3>1. /\ ToSet(copied[r]) \subseteq ToSet(copied'[r])
            /\ target[r] \in ToSet(copied'[r]) \cup Sources(r)
        BY <2>2, <2>4, AppendElements DEF WithCopy
      <3> QED BY <1>1, <2>1, <3>1 DEF RunAccounted, Accounted
    <2> QED BY <2>1, <2>3, <2>4
  <1>10. CASE Cleanup(r)
    <2>1. /\ UNCHANGED <<task, result, stranded>> /\ Sources(r)' = Sources(r) /\ pc[r] = "cleanup"
          /\ pc'[r] \in {"cleanup", "rollback"} /\ IsSeq(copied[r])
          /\ \/ files' = files /\ copied' = copied /\ copied[r] = <<>>
             \/ pc' = pc /\ Removes(r) /\ copied'[r] = Tail(copied[r])
      BY <1>1, <1>10 DEF Cleanup, Unlink, Removes, Goto, stores, locals, Functions, Sources, Wanted,
              Explained, Shaped, RunShaped
    <2>2. CASE files' = files /\ copied' = copied /\ copied[r] = <<>>
      BY <1>1, <2>1, <2>2, NoElements DEF RunAccounted, Accounted
    <2>3. CASE pc' = pc /\ Removes(r) /\ copied'[r] = Tail(copied[r])
      <3>1. /\ DOMAIN files' = DOMAIN files \ {Head(copied[r])}
            /\ \A q \in DOMAIN files' : files'[q] = files[q]
        BY <2>3, RemovesIs
      <3>2. copied[r] # <<>>
        BY <2>3 DEF Removes
      <3>3. ToSet(copied[r]) = ToSet(copied'[r]) \cup {Head(copied[r])}
        BY <2>1, <2>3, <3>2, TailElements
      <3> QED BY <1>1, <2>1, <2>3, <3>1, <3>3 DEF RunAccounted, Accounted
    <2> QED BY <2>1, <2>2, <2>3
  <1>11. CASE Fails(r)
    <2>1. /\ UNCHANGED <<files, task, target, copied, result>> /\ Sources(r)' = Sources(r)
          /\ pc'[r] = "cleanup" /\ stranded[r] \subseteq stranded'[r]
          /\ pc[r] \in {"copying", "checksum"} => target[r] \in stranded'[r]
      BY <1>1, <1>11 DEF Fails, Raise, Goto, stores, locals, Functions, Sources, Wanted
    <2> QED BY <1>1, <2>1 DEF RunAccounted, Accounted
  <1>12. CASE UnlinkFails(r)
    <2>1. /\ UNCHANGED <<files, task, target, copied, result>> /\ Sources(r)' = Sources(r)
          /\ pc[r] = "cleanup" /\ pc'[r] = "rollback"
          /\ stranded'[r] = stranded[r] \cup ToSet(copied[r])
      BY <1>1, <1>12 DEF UnlinkFails, Goto, stores, locals, Functions, Sources, Wanted
    <2> QED BY <1>1, <2>1 DEF RunAccounted, Accounted
  <1> QED BY <1>2, <1>3, <1>4, <1>5, <1>6, <1>7, <1>8, <1>9, <1>10, <1>11, <1>12
          DEF Moves, Registration

LEMMA ExplainedStep ==
  ASSUME Explained, NEW r \in Runs, Moves(r)
  PROVE  Explained'
  <1>1. Shaped' /\ \A s \in Runs : RunAccounted(s)'
    BY ShapedStep, OwnAccounted, OthersAccounted DEF Explained
  <1>2. \A s \in Runs \ {r} : result'[s] = result[s]
    BY StepSame DEF Explained, Shaped, Same
  <1>3. result[r] # "ok"
    BY FileSteps DEF Explained, Shaped, RunAccounted
  <1>4. \A a \in assets : a.run \in Runs => result'[a.run] = "ok"
    BY <1>2, <1>3 DEF Explained
  <1>5. CASE Commit(r)
    <2>1. assets' = assets \cup ToSet(rows[r]) /\ result'[r] = "ok"
      BY <1>5 DEF Commit, End, Explained, Shaped, Functions
    <2>2. \A a \in ToSet(rows[r]) : a.run = r
      BY DEF Explained, Shaped, RunShaped
    <2> QED BY <1>1, <1>4, <2>1, <2>2 DEF Explained
  <1>6. CASE ~Commit(r)
    <2>1. assets' = assets
      BY <1>6 DEF Moves, Registration, Start, Command, CommandFails, Choose, Open, Close, Fails, UnlinkFails,
              Checksum, Record, Cleanup, Unlink, Rollback, Crash, stores
    <2> QED BY <1>1, <1>4, <2>1 DEF Explained
  <1> QED BY <1>5, <1>6

LEMMA ExplainedInit == Init => Explained
  BY ShapedInit, ConstantsAssumption DEF Init, Explained, RunAccounted

LEMMA ExplainedStutter ==
  ASSUME Explained, UNCHANGED vars
  PROVE  Explained'
  BY ShapedStutter DEF Explained, RunAccounted, Accounted, Sources, Wanted, vars, stores, locals

(* The except clause of run_legacy_command, for any runs at once: a run that  *)
(* raised has no row, and no file in the storage but what its own command     *)
(* wrote there and the copies that are out of the clause's reach: the one in  *)
(* hand when it failed, and those whose removal failed.                       *)
THEOREM FailedLeavesStrandedAlways == Spec => []FailedLeavesStranded
  <1>1. Explained /\ [Next]_vars => Explained'
    BY StepCases, ExplainedStep, ExplainedStutter
  <1>2. ASSUME Explained PROVE FailedLeavesStranded
    <2>1. ASSUME NEW r \in Runs, result[r] = "error"
          PROVE  /\ \A a \in assets : a.run # r
                 /\ \A p \in DOMAIN files : InStorage(p) /\ files[p].by = r =>
                      p \in Sources(r) \cup stranded[r]
      <3>1. pc[r] = "done" /\ ToSet(copied[r]) = {}
        BY <1>2, <2>1, NoElements DEF Explained, RunAccounted, Shaped, RunShaped
      <3> QED BY <1>2, <2>1, <3>1 DEF Explained, RunAccounted, Accounted
    <2> QED BY <2>1 DEF FailedLeavesStranded
  <1> QED BY ExplainedInit, <1>1, <1>2, PTL DEF Spec

(* -- What a run that returned has recorded ----------------------------------- *)

(* Rows in the table and rows of open transactions: numbered apart, at paths  *)
(* apart, and every edge between rows.                                        *)
Numbered ==
  /\ drawn \in Nat
  /\ \A a \in assets : a.id \in 1 .. drawn /\ IsPath(a.path)
  /\ \A a, b \in assets : a.id = b.id \/ a.path = b.path => a = b
  /\ \A r \in Runs : \A a \in ToSet(rows[r]) :
       /\ a.id \in 1 .. drawn
       /\ \A b \in assets : a.id # b.id /\ a.path # b.path
  /\ \A r \in Runs : \A s \in Runs \ {r} : \A a \in ToSet(rows[r]) : \A b \in ToSet(rows[s]) :
       a.id # b.id /\ a.path # b.path
  /\ \A r \in Runs : \A i, j \in 1 .. Len(rows[r]) :
       rows[r][i].id = rows[r][j].id \/ rows[r][i].path = rows[r][j].path => i = j
  /\ \A e \in edges : e[1] \in AssetIds /\ e[2] \in AssetIds
  /\ \A r \in Runs : \A e \in links[r] :
       e[1] \in AssetIds \cup {a.id : a \in ToSet(rows[r])}
         /\ e[2] \in AssetIds \cup {a.id : a \in ToSet(rows[r])}

Linked(r, row) == \A p \in ToSet(task[r].parents) : <<p, row.id>> \in edges \cup links[r]

(* A run that records has a row, with its edges, for each output it has dealt *)
(* with.                                                                      *)
Progress(r) ==
  /\ pc[r] \in AtArtifact => Len(rows[r]) = at[r] - 1
  /\ pc[r] = "commit" => Len(rows[r]) = Len(Wanted(r))
  /\ pc[r] \in AtArtifact \cup {"commit"} =>
       \A i \in 1 .. Len(rows[r]) :
         rows[r][i].source = Wanted(r)[i].path /\ Linked(r, rows[r][i])

Whole(r) ==
  LET mine == {a \in assets : a.run = r}
  IN /\ Cardinality(mine) = Len(Wanted(r))
     /\ \A a \in ToSet(Wanted(r)) : \E m \in mine : m.source = a.path
     /\ \A m \in mine : \A p \in ToSet(task[r].parents) : <<p, m.id>> \in edges

RunRecorded(r) ==
  /\ task[r] \in Requests \cup {NoTask}
  /\ pc[r] # "idle" /\ task[r].stored /\ task[r].recorded =>
       Progress(r) /\ (result[r] = "ok" => Whole(r))

Recorded == Explained /\ Numbered /\ \A r \in Runs : RunRecorded(r)

TablesKept(r) ==
  /\ UNCHANGED <<assets, edges, drawn>>
  /\ \/ rows'[r] = rows[r] /\ links'[r] = links[r]
     \/ rows'[r] = <<>> /\ links'[r] = {}

LEMMA TableSteps ==
  ASSUME Functions, NEW r \in Runs, Moves(r)
  PROVE  TablesKept(r) \/ Record(r) \/ Commit(r)
  BY DEF TablesKept, Moves, Registration, Start, Command, CommandFails, Choose, Open, Close, Fails, UnlinkFails,
     Checksum, Cleanup, Unlink, Rollback, Crash, End, Goto, stores, locals, Functions

LEMMA TablesKeptNumbered ==
  ASSUME Numbered, Functions, NEW r \in Runs, TablesKept(r), \A s \in Runs \ {r} : Same(s)
  PROVE  Numbered'
  <1>1. \A s \in Runs : \/ rows'[s] = rows[s] /\ links'[s] = links[s]
                        \/ rows'[s] = <<>> /\ links'[s] = {}
    BY DEF TablesKept, Same
  <1>2. UNCHANGED <<assets, edges, drawn>> /\ AssetIds' = AssetIds
    BY DEF TablesKept, AssetIds
  <1>3. \A s \in Runs : \/ rows'[s] = rows[s] /\ links'[s] = links[s]
                        \/ rows'[s] = <<>> /\ ToSet(rows'[s]) = {} /\ links'[s] = {}
    BY <1>1, NoElements
  <1>4. \A s \in Runs : ToSet(rows'[s]) \subseteq ToSet(rows[s])
    BY <1>3
  <1>5. /\ drawn' \in Nat
        /\ \A a \in assets' : a.id \in 1 .. drawn' /\ IsPath(a.path)
        /\ \A a, b \in assets' : a.id = b.id \/ a.path = b.path => a = b
    BY <1>2 DEF Numbered
  <1>6. \A s \in Runs : \A a \in ToSet(rows'[s]) :
          /\ a.id \in 1 .. drawn'
          /\ \A b \in assets' : a.id # b.id /\ a.path # b.path
    BY <1>2, <1>4 DEF Numbered
  <1>7. \A s \in Runs : \A t \in Runs \ {s} : \A a \in ToSet(rows'[s]) : \A b \in ToSet(rows'[t]) :
          a.id # b.id /\ a.path # b.path
    BY <1>4 DEF Numbered
  <1>8. \A s \in Runs : \A i, j \in 1 .. Len(rows'[s]) :
          rows'[s][i].id = rows'[s][j].id \/ rows'[s][i].path = rows'[s][j].path => i = j
    <2> SUFFICES ASSUME NEW s \in Runs
                 PROVE  \A i, j \in 1 .. Len(rows'[s]) :
                          rows'[s][i].id = rows'[s][j].id \/ rows'[s][i].path = rows'[s][j].path => i = j
      OBVIOUS
    <2>1. CASE rows'[s] = rows[s]
      BY <2>1 DEF Numbered
    <2>2. CASE rows'[s] = <<>>
      BY <2>2
    <2> QED BY <1>1, <2>1, <2>2
  <1>9. /\ \A e \in edges' : e[1] \in AssetIds' /\ e[2] \in AssetIds'
        /\ \A s \in Runs : \A e \in links'[s] :
             e[1] \in AssetIds' \cup {a.id : a \in ToSet(rows'[s])}
               /\ e[2] \in AssetIds' \cup {a.id : a \in ToSet(rows'[s])}
    BY <1>2, <1>3 DEF Numbered
  <1> QED BY <1>5, <1>6, <1>7, <1>8, <1>9 DEF Numbered

LEMMA CommitNumbered ==
  ASSUME Numbered, Shaped, NEW r \in Runs, Commit(r), \A s \in Runs \ {r} : Same(s)
  PROVE  Numbered'
  <1>1. /\ assets' = assets \cup ToSet(rows[r]) /\ edges' = edges \cup links[r] /\ drawn' = drawn
        /\ rows'[r] = <<>> /\ links'[r] = {}
        /\ \A s \in Runs \ {r} : rows'[s] = rows[s] /\ links'[s] = links[s]
    BY DEF Commit, End, Shaped, Functions, Same
  <1>2. AssetIds' = AssetIds \cup {a.id : a \in ToSet(rows[r])}
    BY <1>1 DEF AssetIds
  <1>3. IsSeq(rows[r]) /\ \A a \in ToSet(rows[r]) : IsPath(a.path)
    BY DEF Shaped, RunShaped
  <1>4. \A a, b \in ToSet(rows[r]) : a.id = b.id \/ a.path = b.path => a = b
    <2> DEFINE list == rows[r]
    <2>1. \A i, j \in 1 .. Len(list) : list[i].id = list[j].id \/ list[i].path = list[j].path => i = j
      BY DEF Numbered
    <2>2. IsSeq(list)
      BY <1>3
    <2> HIDE DEF list
    <2>3. \A x \in ToSet(list) : \E i \in 1 .. Len(list) : x = list[i]
      BY <2>2, SeqElements
    <2> SUFFICES ASSUME NEW a \in ToSet(list), NEW b \in ToSet(list), a.id = b.id \/ a.path = b.path
                 PROVE  a = b
      BY DEF list
    <2>4. PICK i \in 1 .. Len(list) : a = list[i]
      BY <2>3
    <2>5. PICK j \in 1 .. Len(list) : b = list[j]
      BY <2>3
    <2> QED BY <2>1, <2>4, <2>5
  <1>5. \A a, b \in assets' : a.id = b.id \/ a.path = b.path => a = b
    BY <1>1, <1>4 DEF Numbered
  <1>6. \A a \in assets' : a.id \in 1 .. drawn' /\ IsPath(a.path)
    BY <1>1, <1>3 DEF Numbered
  <1>7. \A s \in Runs : \A a \in ToSet(rows'[s]) :
          /\ a.id \in 1 .. drawn'
          /\ \A b \in assets' : a.id # b.id /\ a.path # b.path
    BY <1>1, NoElements DEF Numbered
  <1>8. \A q \in Runs : \A s \in Runs \ {q} : \A a \in ToSet(rows'[q]) : \A b \in ToSet(rows'[s]) :
          a.id # b.id /\ a.path # b.path
    BY <1>1, NoElements DEF Numbered
  <1>9. \A s \in Runs : \A i, j \in 1 .. Len(rows'[s]) :
          rows'[s][i].id = rows'[s][j].id \/ rows'[s][i].path = rows'[s][j].path => i = j
    BY <1>1, NoElements DEF Numbered
  <1>10. \A e \in edges' : e[1] \in AssetIds' /\ e[2] \in AssetIds'
    BY <1>1, <1>2 DEF Numbered
  <1>11. \A s \in Runs : \A e \in links'[s] :
           e[1] \in AssetIds' \cup {a.id : a \in ToSet(rows'[s])}
             /\ e[2] \in AssetIds' \cup {a.id : a \in ToSet(rows'[s])}
    BY <1>1, <1>2 DEF Numbered
  <1> QED BY <1>1, <1>5, <1>6, <1>7, <1>8, <1>9, <1>10, <1>11 DEF Numbered

LEMMA RecordIs ==
  ASSUME Functions, NEW r \in Runs, Record(r)
  PROVE  /\ UNCHANGED <<files, assets, edges, task, result>> /\ drawn' = drawn + 1 /\ pc[r] = "record"
         /\ \/ UNCHANGED <<rows, links>> /\ pc'[r] = "cleanup"
            \/ /\ ~Taken(target[r]) /\ \A a \in ToSet(rows[r]) : a.path # target[r]
               /\ \A s \in Runs \ {r} : \A a \in ToSet(rows[s]) : a.path # target[r]
               /\ rows'[r] = Append(rows[r], Row(r))
               /\ \/ links'[r] = links[r] /\ pc'[r] = "cleanup"
                  \/ /\ ToSet(task[r].parents) \subseteq Visible(r)
                     /\ links'[r] = links[r] \cup
                          NewEdges(task[r].parents, drawn + 1, edges \cup links[r])
                     /\ NextArtifact(r)
  <1>1. \A s \in Runs \ {r} : \A a \in ToSet(rows[s]) : a.path # target[r]
    BY DEF Record, Holders
  <1>2. Raise(r) => pc'[r] = "cleanup"
    BY DEF Raise, Goto, Functions
  <1>3. CASE Taken(target[r]) \/ \E a \in ToSet(rows[r]) : a.path = target[r]
    BY <1>2, <1>3 DEF Record
  <1>4. CASE ~(Taken(target[r]) \/ \E a \in ToSet(rows[r]) : a.path = target[r])
    <2>1. /\ rows' = [rows EXCEPT ![r] = Append(@, Row(r))]
          /\ \/ links' = links /\ Raise(r)
             \/ /\ ToSet(task[r].parents) \subseteq Visible(r)
                /\ links' = [links EXCEPT ![r] =
                               @ \cup NewEdges(task[r].parents, drawn + 1, edges \cup @)]
                /\ NextArtifact(r)
      BY <1>4 DEF Record
    <2> QED BY <1>1, <1>2, <1>4, <2>1 DEF Record, Functions
  <1> QED BY <1>3, <1>4

LEMMA RecordNumbered ==
  ASSUME Numbered, Shaped, NEW r \in Runs, Record(r), \A s \in Runs \ {r} : Same(s)
  PROVE  Numbered'
  <1>1. /\ UNCHANGED <<assets, edges>> /\ drawn' = drawn + 1 /\ AssetIds' = AssetIds
        /\ drawn \in Nat /\ \A n \in 1 .. drawn : n \in 1 .. drawn' /\ n # drawn + 1
        /\ drawn + 1 \in 1 .. drawn'
        /\ \A s \in Runs \ {r} : rows'[s] = rows[s] /\ links'[s] = links[s]
    <2>1. UNCHANGED <<assets, edges>> /\ drawn' = drawn + 1
      BY RecordIs DEF Shaped
    <2>2. drawn \in Nat
      BY DEF Numbered
    <2>3. /\ \A n \in 1 .. drawn : n \in 1 .. drawn' /\ n # drawn + 1
          /\ drawn + 1 \in 1 .. drawn'
      BY <2>1, <2>2
    <2> QED BY <2>1, <2>2, <2>3 DEF AssetIds, Same
  <1>2. CASE UNCHANGED <<rows, links>>
    BY <1>1, <1>2 DEF Numbered
  <1>3. CASE /\ ~Taken(target[r]) /\ \A a \in ToSet(rows[r]) : a.path # target[r]
             /\ \A s \in Runs \ {r} : \A a \in ToSet(rows[s]) : a.path # target[r]
             /\ rows'[r] = Append(rows[r], Row(r))
             /\ \/ links'[r] = links[r]
                \/ /\ ToSet(task[r].parents) \subseteq Visible(r)
                   /\ links'[r] = links[r] \cup
                        NewEdges(task[r].parents, drawn + 1, edges \cup links[r])
    <2> DEFINE old == rows[r]
               new == rows'[r]
               row == Row(r)
    <2>1. row.id = drawn + 1 /\ row.path = target[r]
      BY DEF Row
    <2>2. IsSeq(old) /\ new = Append(old, row)
      BY <1>3 DEF Shaped, RunShaped
    <2>3. \A i, j \in 1 .. Len(old) : old[i].id = old[j].id \/ old[i].path = old[j].path => i = j
      BY DEF Numbered
    <2>4. \A a \in ToSet(old) : /\ a.id \in 1 .. drawn /\ a.path # row.path
                                /\ \A b \in assets : a.id # b.id /\ a.path # b.path
      BY <1>3, <2>1 DEF Numbered
    <2> HIDE DEF row
    <2>5. \A a \in assets : a.id # row.id /\ a.path # row.path
      BY <1>1, <1>3, <2>1 DEF Numbered, Taken
    <2>6. \A s \in Runs \ {r} : \A a \in ToSet(rows[s]) : a.id # row.id /\ a.path # row.path
      BY <1>1, <1>3, <2>1 DEF Numbered
    <2> HIDE DEF old, new
    <2>7. /\ ToSet(new) = ToSet(old) \cup {row} /\ Len(new) = Len(old) + 1
          /\ \A i \in 1 .. Len(old) : new[i] = old[i]
          /\ new[Len(old) + 1] = row
      BY <2>2, AppendElements
    <2>8. Len(old) \in Nat /\ \A i \in 1 .. Len(old) : old[i] \in ToSet(old)
      BY <2>2, SeqElements
    <2>9. ASSUME NEW i \in 1 .. Len(new), NEW j \in 1 .. Len(new),
                 new[i].id = new[j].id \/ new[i].path = new[j].path
          PROVE  i = j
      <3>1. \A k \in 1 .. Len(old) : old[k].id # row.id /\ old[k].path # row.path
        BY <1>1, <2>1, <2>4, <2>8
      <3>2. CASE i \in 1 .. Len(old) /\ j \in 1 .. Len(old)
        BY <2>3, <2>7, <2>9, <3>2
      <3>3. CASE i = Len(old) + 1 /\ j \in 1 .. Len(old)
        BY <2>7, <2>9, <3>1, <3>3
      <3>4. CASE i \in 1 .. Len(old) /\ j = Len(old) + 1
        BY <2>7, <2>9, <3>1, <3>4
      <3> QED BY <2>7, <2>8, <3>2, <3>3, <3>4
    <2>10. \A i, j \in 1 .. Len(new) : new[i].id = new[j].id \/ new[i].path = new[j].path => i = j
      BY <2>9
    <2>11. \A a \in ToSet(new) : /\ a.id \in 1 .. drawn'
                                 /\ \A b \in assets : a.id # b.id /\ a.path # b.path
      BY <1>1, <2>1, <2>4, <2>5, <2>7
    <2> DEFINE Ids == AssetIds \cup {a.id : a \in ToSet(old)}
    <2>12. {a.id : a \in ToSet(new)} = {a.id : a \in ToSet(old)} \cup {drawn + 1}
      BY <2>1, <2>7
    <2>13. Visible(r) = Ids \cup {drawn + 1} /\ \A e \in links[r] : e[1] \in Ids /\ e[2] \in Ids
      BY DEF Visible, Numbered, old
    <2>14. \A e \in NewEdges(task[r].parents, drawn + 1, edges \cup links[r]) :
             e[1] \in ToSet(task[r].parents) /\ e[2] = drawn + 1
      BY DEF NewEdges
    <2>15. \A e \in links'[r] : /\ e[1] \in AssetIds \cup {a.id : a \in ToSet(new)}
                                /\ e[2] \in AssetIds \cup {a.id : a \in ToSet(new)}
      BY <1>3, <2>12, <2>13, <2>14
    <2>16. \A s \in Runs : \A a \in ToSet(rows'[s]) :
             /\ a.id \in 1 .. drawn'
             /\ \A b \in assets' : a.id # b.id /\ a.path # b.path
      BY <1>1, <2>11 DEF new, Numbered
    <2>17. ASSUME NEW q \in Runs, NEW s \in Runs \ {q},
                  NEW a \in ToSet(rows'[q]), NEW b \in ToSet(rows'[s])
           PROVE  a.id # b.id /\ a.path # b.path
      <3>1. CASE q # r /\ s # r
        BY <1>1, <2>17, <3>1 DEF Numbered
      <3>2. CASE q = r
        <4>1. b \in ToSet(rows[s]) /\ (a = row \/ a \in ToSet(rows[r]))
          BY <1>1, <2>7, <3>2 DEF new, old
        <4> QED BY <2>6, <3>2, <4>1 DEF Numbered
      <3>3. CASE s = r
        <4>1. a \in ToSet(rows[q]) /\ q \in Runs \ {r} /\ (b = row \/ b \in ToSet(rows[r]))
          BY <1>1, <2>7, <3>3 DEF new, old
        <4> QED BY <2>6, <3>3, <4>1 DEF Numbered
      <3> QED BY <3>1, <3>2, <3>3
    <2>18. \A s \in Runs : \A i, j \in 1 .. Len(rows'[s]) :
             rows'[s][i].id = rows'[s][j].id \/ rows'[s][i].path = rows'[s][j].path => i = j
      BY <1>1, <2>10 DEF new, Numbered
    <2>19. \A s \in Runs : \A e \in links'[s] :
             e[1] \in AssetIds' \cup {a.id : a \in ToSet(rows'[s])}
               /\ e[2] \in AssetIds' \cup {a.id : a \in ToSet(rows'[s])}
      BY <1>1, <2>15 DEF new, Numbered
    <2>20. \A a \in assets' : a.id \in 1 .. drawn' /\ IsPath(a.path)
      BY <1>1 DEF Numbered
    <2>21. /\ drawn' \in Nat
           /\ \A a, b \in assets' : a.id = b.id \/ a.path = b.path => a = b
           /\ \A e \in edges' : e[1] \in AssetIds' /\ e[2] \in AssetIds'
      BY <1>1 DEF Numbered
    <2> QED BY <2>16, <2>17, <2>18, <2>19, <2>20, <2>21 DEF Numbered
  <1> QED BY <1>2, <1>3, RecordIs DEF Shaped

LEMMA NumberedStep ==
  ASSUME Numbered, Shaped, NEW r \in Runs, Moves(r)
  PROVE  Numbered'
  <1>1. Functions /\ \A s \in Runs \ {r} : Same(s)
    BY StepSame DEF Shaped
  <1> QED BY <1>1, TableSteps, TablesKeptNumbered, RecordNumbered, CommitNumbered

(* Another run's rows and edges take nothing from a run's record.             *)
LEMMA OthersRecorded ==
  ASSUME Recorded, NEW r \in Runs, Moves(r), NEW s \in Runs \ {r}
  PROVE  RunRecorded(s)'
  <1>1. Same(s) /\ Wanted(s)' = Wanted(s)
    BY StepSame DEF Recorded, Explained, Shaped, Same, Wanted
  <1>2. edges \subseteq edges' /\ {a \in assets' : a.run = s} = {a \in assets : a.run = s}
    <2>1. CASE Commit(r)
      <3>1. /\ assets' = assets \cup ToSet(rows[r]) /\ edges' = edges \cup links[r]
            /\ \A a \in ToSet(rows[r]) : a.run = r
        BY <2>1 DEF Commit, Recorded, Explained, Shaped, RunShaped
      <3> QED BY <3>1
    <2>2. CASE ~Commit(r)
      <3>1. UNCHANGED <<assets, edges>>
        BY <2>2, TableSteps, RecordIs DEF TablesKept, Recorded, Explained, Shaped
      <3> QED BY <3>1
    <2> QED BY <2>1, <2>2
  <1>3. RunRecorded(s)
    BY DEF Recorded
  <1>4. pc[s] # "idle" /\ task[s].stored /\ task[s].recorded => Progress(s)'
    BY <1>1, <1>2, <1>3 DEF RunRecorded, Progress, Linked, Same
  <1>5. pc[s] # "idle" /\ task[s].stored /\ task[s].recorded /\ result[s] = "ok" => Whole(s)'
    BY <1>1, <1>2, <1>3 DEF RunRecorded, Whole, Same
  <1> QED BY <1>1, <1>3, <1>4, <1>5 DEF RunRecorded, Same

(* What it committed is what it inserted: one row for each output.            *)
LEMMA CommitWhole ==
  ASSUME Recorded, NEW r \in Runs, Commit(r), task[r].stored, task[r].recorded
  PROVE  Whole(r)'
  <1> DEFINE list == rows[r]
             n == Len(list)
             S == ToSet(list)
  <1>1. /\ pc[r] = "commit" /\ task' = task /\ Wanted(r)' = Wanted(r)
        /\ assets' = assets \cup S /\ edges' = edges \cup links[r]
    BY DEF Commit, Wanted
  <1>2. /\ IsSeq(list) /\ \A a \in S : a.run = r /\ OutputsShaped(Wanted(r))
    BY <1>1, WantedShaped DEF Recorded, Explained, Shaped, RunShaped
  <1>3. Progress(r) /\ OutputsShaped(Wanted(r))
    BY <1>1, WantedShaped DEF Recorded, Explained, RunRecorded
  <1>4. /\ n = Len(Wanted(r))
        /\ \A i \in 1 .. n : list[i].source = Wanted(r)[i].path /\ Linked(r, list[i])
    BY <1>1, <1>3 DEF Progress
  <1>5. \A a \in assets : a.run # r
    BY <1>1 DEF Recorded, Explained, RunAccounted
  <1>6. {a \in assets' : a.run = r} = S
    BY <1>1, <1>2, <1>5
  <1>7. n \in Nat /\ DOMAIN list = 1 .. n /\ \A i \in 1 .. n : list[i] \in S
    BY <1>2, SeqElements
  <1>8. \A x \in S : \E i \in 1 .. n : x = list[i]
    BY <1>2, SeqElements
  <1>9. \A i, j \in 1 .. n : list[i] = list[j] => i = j
    BY DEF Recorded, Numbered
  <1>10. Cardinality(S) = n
    <2> HIDE DEF list, n, S
    <2> DEFINE f == [i \in 1 .. n |-> list[i]]
    <2>1. f \in Bijection(1 .. n, S)
      BY <1>7, <1>8, <1>9 DEF Bijection, Injection, Surjection, IsInjective
    <2>2. ExistsBijection(1 .. n, S)
      BY <2>1 DEF ExistsBijection
    <2> QED BY <1>7, <2>2, FS_CountingElements
  <1>11. \A a \in ToSet(Wanted(r)) : \E m \in S : m.source = a.path
    <2> SUFFICES ASSUME NEW a \in ToSet(Wanted(r)) PROVE \E m \in S : m.source = a.path
      OBVIOUS
    <2>1. PICK i \in 1 .. n : a = Wanted(r)[i]
      BY <1>3, <1>4 DEF OutputsShaped, ToSet
    <2> QED BY <1>4, <1>7, <2>1
  <1>12. \A m \in S : \A p \in ToSet(task[r].parents) : <<p, m.id>> \in edges'
    BY <1>1, <1>4, <1>8 DEF Linked
  <1> HIDE DEF list, n, S
  <1> QED BY <1>1, <1>4, <1>6, <1>10, <1>11, <1>12 DEF Whole

LEMMA RecordProgress ==
  ASSUME Recorded, NEW r \in Runs, Record(r), task[r].stored, task[r].recorded
  PROVE  Progress(r)'
  <1>1. /\ UNCHANGED <<edges, task>> /\ pc[r] = "record" /\ Wanted(r)' = Wanted(r)
        /\ Functions /\ Progress(r) /\ IsSeq(rows[r]) /\ Source(r) = Wanted(r)[at[r]].path
        /\ at[r] \in 1 .. Len(Wanted(r)) /\ OutputsShaped(Wanted(r))
    BY RecordIs, WantedShaped DEF Wanted, Source, Recorded, Explained, Shaped, RunShaped, RunRecorded,
       AtArtifact
  <1>2. CASE pc'[r] = "cleanup"
    BY <1>2 DEF Progress, AtArtifact
  <1>3. CASE /\ rows'[r] = Append(rows[r], Row(r))
             /\ links'[r] = links[r] \cup NewEdges(task[r].parents, drawn + 1, edges \cup links[r])
             /\ NextArtifact(r)
    <2> DEFINE old == rows[r]
               new == rows'[r]
               row == Row(r)
    <2>1. row.id = drawn + 1 /\ row.source = Source(r)
      BY DEF Row
    <2> HIDE DEF row
    <2>2. /\ Len(old) = at[r] - 1
          /\ \A i \in 1 .. Len(old) : old[i].source = Wanted(r)[i].path /\ Linked(r, old[i])
      BY <1>1 DEF Progress, AtArtifact
    <2>3. edges \cup links[r] \subseteq edges' \cup links'[r]
      BY <1>1, <1>3
    <2>4. \A i \in 1 .. Len(old) : Linked(r, old[i])'
      BY <1>1, <1>3, <2>2, <2>3, AppendElements DEF Linked
    <2>5. \A p \in ToSet(task[r].parents) : <<p, row.id>> \in edges' \cup links'[r]
      BY <1>1, <1>3, <2>1 DEF NewEdges
    <2> HIDE DEF old, new
    <2>6. /\ Len(new) = Len(old) + 1
          /\ \A i \in 1 .. Len(old) : new[i] = old[i]
          /\ new[Len(old) + 1] = row
      BY <1>1, <1>3, AppendElements DEF old, new, row
    <2>7. Len(new) = at[r]
      BY <1>1, <2>2, <2>6
    <2>8. ASSUME NEW i \in 1 .. Len(new)
          PROVE  /\ new[i].source = Wanted(r)[i].path
                 /\ \A p \in ToSet(task[r].parents) : <<p, new[i].id>> \in edges' \cup links'[r]
      <3>1. CASE i = at[r]
        BY <1>1, <2>1, <2>2, <2>5, <2>6, <3>1
      <3>2. CASE i # at[r]
        <4>1. i \in 1 .. Len(old) /\ new[i] = old[i]
          BY <1>1, <2>2, <2>6, <2>7, <3>2
        <4>2. \A p \in ToSet(task[r].parents) : <<p, old[i].id>> \in edges \cup links[r]
          BY <2>2, <4>1 DEF Linked
        <4> QED BY <2>2, <2>3, <4>1, <4>2
      <3> QED BY <3>1, <3>2
    <2>9. \/ at[r] = Len(Wanted(r)) /\ pc'[r] = "commit"
          \/ pc'[r] = "target" /\ at'[r] = at[r] + 1
      BY <1>1, <1>3 DEF NextArtifact, Goto, Functions, Recorded, Explained, Shaped
    <2>10. \A i \in 1 .. Len(rows'[r]) : rows'[r][i].source = Wanted(r)'[i].path /\ Linked(r, rows[r][i])'
      BY <1>1, <2>8 DEF new, Linked
    <2> QED BY <1>1, <2>7, <2>9, <2>10 DEF Progress, AtArtifact, new
  <1> QED BY <1>1, <1>2, <1>3, RecordIs

LEMMA OwnProgress ==
  ASSUME Recorded, NEW r \in Runs, Moves(r), ~Start(r), ~Record(r),
         task[r].stored, task[r].recorded
  PROVE  Progress(r)'
  <1>1. /\ Shaped /\ Functions /\ RunShaped(r) /\ pc[r] # "done"
    BY FileSteps DEF Recorded, Explained, Shaped
  <1>2. pc[r] # "idle" /\ Progress(r)
    BY <1>1 DEF Moves, Command, CommandFails, Registration, Choose, Open, Close, Fails, UnlinkFails, Checksum,
       Commit, Cleanup, Rollback, Crash, Recorded, RunRecorded
  <1>3. CASE pc'[r] \in {"done", "cleanup", "rollback"}
    BY <1>3 DEF Progress, AtArtifact
  <1>4. CASE Command(r)
    <2>1. /\ rows'[r] = <<>> /\ at'[r] = 1 /\ Wanted(r)' = Wanted(r)
          /\ pc'[r] = "target" \/ (pc'[r] = "commit" /\ Wanted(r) = <<>>)
      BY <1>1, <1>4 DEF Command, Goto, locals, Functions, RunShaped, Wanted
    <2> QED BY <2>1, NoElements DEF Progress, AtArtifact
  <1>5. CASE /\ pc[r] \in AtArtifact /\ pc'[r] \in AtArtifact
             /\ rows'[r] = rows[r] /\ links'[r] = links[r] /\ at'[r] = at[r]
             /\ UNCHANGED <<edges, task>>
    BY <1>2, <1>5 DEF Progress, Linked, Wanted, AtArtifact
  <1>6. CASE Choose(r) \/ Open(r) \/ Close(r) \/ Checksum(r)
    <2>1. task[r].stored /\ task[r].recorded
      OBVIOUS
    <2> QED BY <1>1, <1>3, <1>5, <1>6, <2>1
            DEF Choose, Open, Close, Checksum, Raise, Goto, stores, locals, Functions, AtArtifact
  <1>7. CASE \/ CommandFails(r) \/ Fails(r) \/ Commit(r) \/ Cleanup(r) \/ UnlinkFails(r)
             \/ Rollback(r) \/ Crash(r)
    BY <1>1, <1>3, <1>7 DEF CommandFails, Fails, Commit, Cleanup, UnlinkFails, Unlink, Rollback, Crash,
       Raise, End, Goto, locals, Functions
  <1> QED BY <1>4, <1>6, <1>7 DEF Moves, Registration

LEMMA OwnRecorded ==
  ASSUME Recorded, NEW r \in Runs, Moves(r)
  PROVE  RunRecorded(r)'
  <1>1. /\ Functions /\ Shaped /\ pc[r] # "done" /\ result[r] = "none" /\ RunRecorded(r)
        /\ Explained' /\ RunAccounted(r)'
    BY FileSteps, ExplainedStep DEF Recorded, Explained, Shaped, RunAccounted
  <1>2. CASE Start(r)
    <2>1. PICK t \in Requests : /\ task' = [task EXCEPT ![r] = t]
                                /\ \/ End(r, "error")
                                   \/ Goto(r, "command") /\ UNCHANGED <<locals, result>>
      BY <1>2 DEF Start
    <2>2. task'[r] = t /\ pc'[r] \in {"done", "command"} /\ result'[r] # "ok"
      BY <1>1, <2>1 DEF End, Goto, Functions
    <2> QED BY <2>2 DEF RunRecorded, Progress, AtArtifact
  <1>3. CASE ~Start(r)
    <2>1. task' = task
      BY <1>3, RecordIs DEF Moves, Command, CommandFails, Registration, Choose, Open, Close, Fails, UnlinkFails,
         Checksum, Record, Commit, Cleanup, Rollback, Crash
    <2>2. task[r].stored /\ task[r].recorded => Progress(r)'
      BY <1>3, OwnProgress, RecordProgress
    <2>3. CASE Commit(r)
      BY <1>1, <2>1, <2>2, <2>3, CommitWhole DEF RunRecorded
    <2>4. CASE ~Commit(r)
      <3>1. result'[r] # "ok"
        BY <1>1, <1>3, <2>4, RecordIs DEF Moves, Command, CommandFails, Registration, Choose, Open,
           Close, Fails, UnlinkFails, Checksum, Record, Cleanup, Rollback, Crash, End, Functions
      <3> QED BY <1>1, <2>1, <2>2, <3>1 DEF RunRecorded
    <2> QED BY <2>3, <2>4
  <1> QED BY <1>2, <1>3

LEMMA RecordedStep ==
  ASSUME Recorded, NEW r \in Runs, Moves(r)
  PROVE  Recorded'
  <1>1. Explained' /\ Numbered'
    BY ExplainedStep, NumberedStep DEF Recorded, Explained
  <1> QED BY <1>1, OwnRecorded, OthersRecorded DEF Recorded

LEMMA RecordedInit == Init => Recorded
  <1> SUFFICES ASSUME Init PROVE Recorded OBVIOUS
  <1>1. Present \in Seq(ToSet(Present)) /\ Len(Present) \in Nat /\ DOMAIN Present = 1 .. Len(Present)
    BY PresentAssumption
  <1>2. ASSUME NEW a \in assets
        PROVE  \E i \in 1 .. Len(Present) : a.id = i /\ a.path = Present[i] /\ a =
                 [id |-> i, path |-> Present[i], sum |-> Earlier, run |-> Earlier, source |-> Present[i]]
    BY <1>1 DEF Init
  <1>3. \A i \in 1 .. Len(Present) : i \in AssetIds
    <2> SUFFICES ASSUME NEW i \in 1 .. Len(Present) PROVE \E a \in assets : a.id = i
      BY DEF AssetIds
    <2> DEFINE a == [id |-> i, path |-> Present[i], sum |-> Earlier, run |-> Earlier,
                     source |-> Present[i]]
    <2>1. a \in assets /\ a.id = i
      BY <1>1 DEF Init
    <2> QED BY <2>1
  <1>4. \A a \in assets : a.id \in 1 .. drawn /\ IsPath(a.path)
    BY <1>1, <1>2, PresentAssumption DEF Init, ToSet
  <1>5. ASSUME NEW a \in assets, NEW b \in assets, a.id = b.id \/ a.path = b.path PROVE a = b
    <2>1. PICK i \in 1 .. Len(Present) : a.id = i /\ a.path = Present[i] /\ a =
            [id |-> i, path |-> Present[i], sum |-> Earlier, run |-> Earlier, source |-> Present[i]]
      BY <1>2
    <2>2. PICK j \in 1 .. Len(Present) : b.id = j /\ b.path = Present[j] /\ b =
            [id |-> j, path |-> Present[j], sum |-> Earlier, run |-> Earlier, source |-> Present[j]]
      BY <1>2
    <2>3. i = j
      BY <1>1, <1>5, <2>1, <2>2, PresentAssumption
    <2> QED BY <2>1, <2>2, <2>3
  <1>6. ASSUME NEW e \in edges PROVE e[1] \in AssetIds /\ e[2] \in AssetIds
    <2>1. PICK i \in 1 .. Len(Present) - 1 : e = <<i, i + 1>>
      BY DEF Init
    <2>2. i \in 1 .. Len(Present) /\ i + 1 \in 1 .. Len(Present)
      BY <1>1
    <2> QED BY <1>3, <2>1, <2>2
  <1>7. \A r \in Runs : rows[r] = <<>> /\ links[r] = {} /\ ToSet(rows[r]) = {} /\ Len(rows[r]) = 0
    BY NoElements DEF Init
  <1>8. Numbered
    BY <1>1, <1>4, <1>5, <1>6, <1>7 DEF Init, Numbered
  <1>9. \A r \in Runs : RunRecorded(r)
    BY DEF Init, RunRecorded
  <1> QED BY <1>8, <1>9, ExplainedInit DEF Recorded

LEMMA RecordedStutter ==
  ASSUME Recorded, UNCHANGED vars
  PROVE  Recorded'
  <1>1. Numbered'
    BY DEF Recorded, Numbered, AssetIds, vars, stores, locals
  <1>2. ASSUME NEW r \in Runs PROVE RunRecorded(r)'
    BY DEF Recorded, RunRecorded, Progress, Whole, Linked, Wanted, vars, stores, locals
  <1> QED BY <1>1, <1>2, ExplainedStutter DEF Recorded

(* Files and rows are well-formed, rows unique in id and path, edges between  *)
(* rows, and a run that returned has a row for each of its outputs with an    *)
(* edge from each parent it was given: for any runs and requests at once.     *)
THEOREM RegistrationInvAlways == Spec => []RegistrationInv
  <1>1. Recorded /\ [Next]_vars => Recorded'
    BY StepCases, RecordedStep, RecordedStutter
  <1>2. ASSUME Recorded PROVE TypeOK
    BY <1>2 DEF Recorded, Explained, Shaped, FilesShaped, Functions, Numbered, RunRecorded, Contents, TypeOK
  <1>3. ASSUME Recorded PROVE DoneIsRecorded
    <2>1. ASSUME NEW r \in Runs, result[r] = "ok", task[r].stored, task[r].recorded PROVE Whole(r)
      <3>1. pc[r] # "idle"
        BY <1>3, <2>1 DEF Recorded, Explained, RunAccounted
      <3> QED BY <1>3, <2>1, <3>1 DEF Recorded, RunRecorded
    <2> QED BY <2>1 DEF DoneIsRecorded, Whole
  <1> QED BY RecordedInit, <1>1, <1>2, <1>3, PTL DEF Spec, RegistrationInv

=================================================================================
