--------------------------- MODULE IssueClosureProofs ---------------------------
(***************************************************************************)
(* Proofs about IssueClosure, for every closure map, any number of         *)
(* overlapping runs, and any number of edits and failures: an epic is      *)
(* closed only after its batches, is not forgotten, and a run for what is  *)
(* done already says nothing.                                              *)
(***************************************************************************)
EXTENDS IssueClosure, FiniteSetTheorems, TLAPS

(* Every set of naturals that is not empty has a least element: the order  *)
(* of the naturals is well-founded.                                        *)
LEMMA LeastNat ==
  ASSUME NEW T \in SUBSET Nat, T # {}
  PROVE  \E n \in T : \A m \in T : n <= m
  <1> DEFINE R == OpToRel(<, Nat)
  <1>1. IsWellFoundedOn(R, Nat)
    BY NatLessThanWellFounded
  <1>2. \A m, n \in Nat : m < n => <<m, n>> \in R
    BY DEF OpToRel
  <1> HIDE DEF R
  <1>3. PICK n \in T : \A m \in T : ~(<<m, n>> \in R)
    BY <1>1, WFMin
  <1>4. \A m \in T : ~(m < n)
    BY <1>2, <1>3
  <1> QED BY <1>4

(* Induction over a set of naturals.                                       *)
LEMMA NatSetInduction ==
  ASSUME NEW T, 0 \in T, \A n \in Nat : n \in T => n + 1 \in T
  PROVE  Nat \subseteq T
  <1> SUFFICES ASSUME Nat \ T # {} PROVE FALSE
    OBVIOUS
  <1>1. PICK n \in Nat \ T : \A m \in Nat \ T : n <= m
    BY LeastNat
  <1>2. n # 0 /\ n - 1 \in Nat /\ n - 1 < n
    BY <1>1
  <1>3. n - 1 \in T
    BY <1>1, <1>2
  <1> QED BY <1>1, <1>2, <1>3

(* A finite set of numbers can be sorted: its least number goes first.     *)
LEMMA CanBeSorted ==
  ASSUME NEW S \in SUBSET Nat, IsFiniteSet(S)
  PROVE  \E list \in [1..Cardinality(S) -> S] :
           \A i, j \in DOMAIN list : i < j => list[i] < list[j]
  <1> DEFINE Sorted(list) == \A i, j \in DOMAIN list : i < j => list[i] < list[j]
             T == {k \in Nat : \A U \in SUBSET Nat : IsFiniteSet(U) /\ Cardinality(U) = k =>
                     \E list \in [1..k -> U] : Sorted(list)}
  <1>1. 0 \in T
    <2> SUFFICES ASSUME NEW U \in SUBSET Nat, IsFiniteSet(U), Cardinality(U) = 0
                 PROVE  \E list \in [1..0 -> U] : Sorted(list)
      OBVIOUS
    <2> DEFINE none == [i \in 1..0 |-> 0]
    <2>1. none \in [1..0 -> U] /\ Sorted(none)
      OBVIOUS
    <2> HIDE DEF none, Sorted
    <2> QED BY <2>1
  <1>2. ASSUME NEW k \in Nat, k \in T PROVE k + 1 \in T
    <2> SUFFICES ASSUME NEW U \in SUBSET Nat, IsFiniteSet(U), Cardinality(U) = k + 1
                 PROVE  \E list \in [1..(k + 1) -> U] : Sorted(list)
      OBVIOUS
    <2>1. U # {}
      BY FS_EmptySet
    <2>2. PICK m \in U : \A n \in U : m <= n
      BY <2>1, LeastNat
    <2>3. IsFiniteSet(U \ {m}) /\ Cardinality(U \ {m}) = k
      <3>1. m \in U
        BY <2>2
      <3>2. /\ IsFiniteSet(U \ {m})
            /\ Cardinality(U \ {m}) = IF m \in U THEN Cardinality(U) - 1 ELSE Cardinality(U)
        BY FS_RemoveElement
      <3> HIDE DEF T
      <3> QED BY <3>1, <3>2
    <2>4. PICK rest \in [1..k -> U \ {m}] : Sorted(rest)
      BY <1>2, <2>3
    <2> DEFINE list == [i \in 1..(k + 1) |-> IF i = 1 THEN m ELSE rest[i - 1]]
    <2>5. \A i \in 1..(k + 1) : i # 1 => i - 1 \in 1..k /\ list[i] = rest[i - 1] /\ list[i] \in U \ {m}
      OBVIOUS
    <2>6. list \in [1..(k + 1) -> U]
      BY <2>5
    <2>7. ASSUME NEW i \in 1..(k + 1), NEW j \in 1..(k + 1), i < j PROVE list[i] < list[j]
      <3>1. j # 1 /\ list[j] = rest[j - 1] /\ list[j] \in U \ {m} /\ j - 1 \in 1..k
        BY <2>5, <2>7
      <3>2. CASE i = 1
        <4>1. list[i] = m
          BY <3>2
        <4>2. m <= list[j] /\ list[j] # m /\ list[j] \in Nat /\ m \in Nat
          BY <2>2, <3>1
        <4> HIDE DEF list
        <4> QED BY <4>1, <4>2
      <3>3. CASE i # 1
        <4>1. list[i] = rest[i - 1] /\ i - 1 \in 1..k /\ i - 1 < j - 1
          BY <2>5, <2>7, <3>3
        <4> HIDE DEF list
        <4> QED BY <2>4, <3>1, <4>1
      <3> QED BY <3>2, <3>3
    <2>8. Sorted(list)
      BY <2>7
    <2> HIDE DEF list
    <2> QED BY <2>6, <2>8
  <1>3. Nat \subseteq T
    <2> HIDE DEF T
    <2> QED BY <1>1, <1>2, NatSetInduction
  <1>4. Cardinality(S) \in T
    BY <1>3, FS_CardinalityType
  <1> QED BY <1>4

(* sorted(numbers) lists exactly the numbers.                              *)
LEMMA AscendingIs ==
  ASSUME NEW S \in SUBSET Nat, IsFiniteSet(S)
  PROVE  Ascending(S) \in Seq(S) /\ Range(Ascending(S)) = S
  <1> DEFINE list == Ascending(S)
             n == Cardinality(S)
  <1>1. n \in Nat
    BY FS_CardinalityType
  <1>2. /\ list \in [1..n -> S]
        /\ \A i, j \in DOMAIN list : i < j => list[i] < list[j]
    BY CanBeSorted DEF Ascending
  <1> HIDE DEF list
  <1>3. \A i, j \in 1..n : list[i] = list[j] => i = j
    <2> SUFFICES ASSUME NEW i \in 1..n, NEW j \in 1..n, list[i] = list[j] PROVE i = j
      OBVIOUS
    <2>1. list[i] \in Nat /\ list[j] \in Nat
      BY <1>2
    <2>2. ~(i < j) /\ ~(j < i)
      BY <1>2, <2>1
    <2> QED BY <1>1, <2>2
  <1>4. list \in Injection(1..n, S)
    BY <1>2, <1>3 DEF Injection, IsInjective
  <1>5. IsFiniteSet(1..n) /\ Cardinality(1..n) = n
    BY <1>1, FS_Interval
  <1>6. list \in Surjection(1..n, S)
    BY <1>4, <1>5, FS_Injection
  <1>7. Range(list) = S
    BY <1>2, <1>6 DEF Surjection, Range
  <1>8. list \in Seq(S)
    BY <1>1, <1>2
  <1> QED BY <1>7, <1>8 DEF list

(* Lists: what is in them, and in what is left after the first.            *)
LEMMA ListOf ==
  ASSUME NEW S, NEW s \in Seq(S)
  PROVE  /\ Range(s) \subseteq S
         /\ \A T : Range(s) \subseteq T => s \in Seq(T)
         /\ IsFiniteSet(Range(s))
  <1>1. Len(s) \in Nat /\ s \in [1..Len(s) -> S] /\ DOMAIN s = 1..Len(s)
    OBVIOUS
  <1>2. Range(s) \subseteq S
    BY <1>1 DEF Range
  <1>3. ASSUME NEW T, Range(s) \subseteq T PROVE s \in Seq(T)
    <2>1. s \in [1..Len(s) -> T]
      BY <1>1, <1>3 DEF Range
    <2> QED BY <1>1, <2>1
  <1>4. s \in Surjection(1..Len(s), Range(s))
    BY <1>1 DEF Surjection, Range
  <1>5. IsFiniteSet(1..Len(s))
    BY <1>1, FS_Interval
  <1>6. IsFiniteSet(Range(s))
    BY <1>4, <1>5, FS_Surjection
  <1> QED BY <1>2, <1>3, <1>6

LEMMA ListSplit ==
  ASSUME NEW S, NEW s \in Seq(S), s # <<>>
  PROVE  /\ Head(s) \in S /\ Tail(s) \in Seq(S)
         /\ Range(s) = {Head(s)} \cup Range(Tail(s))
  <1>1. /\ Len(s) \in Nat \ {0} /\ DOMAIN s = 1..Len(s) /\ Head(s) = s[1]
        /\ Tail(s) \in Seq(S) /\ Len(Tail(s)) = Len(s) - 1
        /\ DOMAIN Tail(s) = 1..(Len(s) - 1)
        /\ \A i \in 1..(Len(s) - 1) : Tail(s)[i] = s[i + 1]
    OBVIOUS
  <1>2. Range(s) \subseteq {Head(s)} \cup Range(Tail(s))
    <2> SUFFICES ASSUME NEW i \in 1..Len(s), i # 1 PROVE s[i] \in Range(Tail(s))
      BY <1>1 DEF Range
    <2>1. i - 1 \in 1..(Len(s) - 1) /\ i - 1 + 1 = i
      BY <1>1
    <2>2. i - 1 \in DOMAIN Tail(s) /\ Tail(s)[i - 1] = s[i]
      BY <1>1, <2>1
    <2> QED BY <2>2 DEF Range
  <1>3. Range(Tail(s)) \subseteq Range(s)
    <2> SUFFICES ASSUME NEW i \in 1..(Len(s) - 1) PROVE s[i + 1] \in Range(s)
      BY <1>1 DEF Range
    <2>1. i + 1 \in 1..Len(s)
      BY <1>1
    <2> QED BY <1>1, <2>1 DEF Range
  <1>4. Head(s) \in Range(s)
    BY <1>1 DEF Range
  <1> QED BY <1>1, <1>2, <1>3, <1>4

LEMMA ListAppend ==
  ASSUME NEW S, NEW s \in Seq(S), NEW x \in S
  PROVE  /\ Append(s, x) \in Seq(S)
         /\ Range(Append(s, x)) = Range(s) \cup {x}
  <1>1. /\ Len(s) \in Nat /\ DOMAIN s = 1..Len(s) /\ Append(s, x) \in Seq(S)
        /\ DOMAIN Append(s, x) = 1..(Len(s) + 1)
        /\ \A i \in 1..Len(s) : Append(s, x)[i] = s[i]
        /\ Append(s, x)[Len(s) + 1] = x
    OBVIOUS
  <1>2. \A i \in 1..(Len(s) + 1) : i \in 1..Len(s) \/ i = Len(s) + 1
    BY <1>1
  <1>3. Len(s) + 1 \in 1..(Len(s) + 1) /\ 1..Len(s) \subseteq 1..(Len(s) + 1)
    BY <1>1
  <1> HIDE DEF Range
  <1>4. Range(Append(s, x)) \subseteq Range(s) \cup {x}
    BY <1>1, <1>2 DEF Range
  <1>5. Range(s) \cup {x} \subseteq Range(Append(s, x))
    <2>1. x \in Range(Append(s, x))
      BY <1>1, <1>3 DEF Range
    <2>2. ASSUME NEW i \in 1..Len(s) PROVE s[i] \in Range(Append(s, x))
      BY <1>1, <1>3 DEF Range
    <2> QED BY <1>1, <2>1, <2>2 DEF Range
  <1> QED BY <1>1, <1>4, <1>5

LEMMA ListNone == Range(<<>>) = {}
  BY DEF Range

(* The issues of the map are numbers, and there are finitely many.         *)
LEMMA IssuesAre ==
  /\ BatchOrder \in Seq(Issues) /\ EpicOrder \in Seq(Epics) /\ EpicOrder \in Seq(Issues)
  /\ BatchOrder \o EpicOrder \in Seq(Issues)
  /\ Issues \subseteq Nat /\ IsFiniteSet(Issues)
  /\ Batches \subseteq Issues /\ Epics \subseteq Issues
  /\ Batches \cap Epics = {}
  <1>1. BatchOrder \in Seq(Nat) /\ EpicOrder \in Seq(Nat) /\ Batches \cap Epics = {}
    BY ConstantsAssumption
  <1>2. /\ Batches \subseteq Nat /\ IsFiniteSet(Batches)
        /\ Batches \subseteq Issues => BatchOrder \in Seq(Issues)
    BY <1>1, ListOf DEF Batches
  <1>3. /\ Epics \subseteq Nat /\ IsFiniteSet(Epics) /\ EpicOrder \in Seq(Epics)
        /\ Epics \subseteq Issues => EpicOrder \in Seq(Issues)
    BY <1>1, ListOf DEF Epics
  <1>4. Batches \subseteq Issues /\ Epics \subseteq Issues /\ Issues \subseteq Nat
    BY <1>2, <1>3 DEF Issues
  <1>5. IsFiniteSet(Issues)
    BY <1>2, <1>3, FS_Union DEF Issues
  <1>6. BatchOrder \in Seq(Issues) /\ EpicOrder \in Seq(Issues)
    BY <1>2, <1>3, <1>4
  <1>7. BatchOrder \o EpicOrder \in Seq(Issues)
    BY <1>6
  <1> QED BY <1>1, <1>3, <1>4, <1>5, <1>6, <1>7

LEMMA MapIs ==
  ASSUME NEW e \in Epics
  PROVE  BatchesOf[e] \in Seq(Batches) /\ Range(BatchesOf[e]) \subseteq Batches
  <1>1. BatchesOf[e] \in Seq(Batches)
    BY ConstantsAssumption
  <1> QED BY <1>1, ListOf

(* What a pull request names can be visited in ascending order.            *)
LEMMA SortedRefs ==
  ASSUME NEW refs \in SUBSET Issues
  PROVE  Ascending(refs) \in Seq(Issues) /\ Range(Ascending(refs)) = refs
  <1>1. refs \in SUBSET Nat /\ IsFiniteSet(refs)
    BY IssuesAre, FS_Subset
  <1>2. Ascending(refs) \in Seq(refs) /\ Range(Ascending(refs)) = refs
    BY <1>1, AscendingIs
  <1> QED BY <1>2, ListOf

---------------------------------------------------------------------------
(* Where a run is: it closes the issue it visits, in one loop or the other. *)
Closing(r) == pc[r] \in {"comment", "patch"}
InBatches(r) == pc[r] = "batches" \/ (Closing(r) /\ Head(todo[r]) \in Batches)
InEpics(r) == pc[r] = "epics" \/ (Closing(r) /\ Head(todo[r]) \in Epics)

(* A run is at an issue in its loops, and in its second loop at epics.     *)
Placed(r) ==
  /\ pc[r] \in {"validate", "batches", "epics", "comment", "patch"} => todo[r] # <<>>
  /\ pc[r] = "epics" => Range(part[r]) \subseteq Range(BatchesOf[Head(todo[r])])
  /\ InEpics(r) => Range(todo[r]) \subseteq Epics

(* It has read the type label of what it closes.                           *)
SeenFits(r) == Closing(r) /\ Untouched(Head(todo[r])) => "type" \in seen[r]

(* It has read as closed the batches of its epic that it need not read.    *)
HasRead(r) ==
  InEpics(r) => \A b \in Range(BatchesOf[Head(todo[r])]) : Untouched(b) /\ ~Closed(b) =>
    pc[r] = "epics" /\ b \in Range(part[r])

(* It has closed the batches its request names that it need not visit.     *)
Visited(r) ==
  \A b \in task[r].refs \cap Batches : Untouched(b) /\ ~Closed(b) =>
    /\ pc[r] # "done" /\ ~InEpics(r)
    /\ InBatches(r) => b \in Range(todo[r])

(* Runs that were over before it began were done, and what they have       *)
(* closed it does not comment on.                                          *)
Quiet(r) ==
  /\ pc[r] = "idle" => task[r].after = {} /\ \A n \in Issues : r \notin Range(comments[n])
  /\ \A q \in task[r].after : pc[q] = "done"
  /\ \A q \in task[r].after : \A b \in task[q].refs \cap Batches : Untouched(b) =>
       /\ r \notin Range(comments[b])
       /\ pc[r] = "comment" => Head(todo[r]) # b

RunFits(r) == Placed(r) /\ SeenFits(r) /\ HasRead(r) /\ Visited(r) /\ Quiet(r)

IssuesFit ==
  /\ \A n \in Issues : Untouched(n) => "type" \in issue[n].labels
  /\ ClosedIsDone
  /\ EpicHasBatches

(* An epic that could be closed is still ahead of some run, or no run has  *)
(* gone past it.                                                           *)
OnWay(r, e) == InBatches(r) \/ (InEpics(r) /\ e \in Range(todo[r]))
Passed(r, e) == pc[r] = "done" \/ (InEpics(r) /\ e \notin Range(todo[r]))
Ready(e) ==
  /\ Untouched(e) /\ ~Closed(e)
  /\ \A b \in Range(BatchesOf[e]) : Untouched(b) /\ Closed(b)
NotForgotten ==
  (\A r \in Runs : pc[r] # "failed") => \A e \in Epics : Ready(e) =>
    (\E r \in Runs : OnWay(r, e)) \/ (\A r \in Runs : ~Passed(r, e))

ScriptInv == TypeOK /\ IssuesFit /\ (\A r \in Runs : RunFits(r)) /\ NotForgotten

---------------------------------------------------------------------------
(* Where a step takes a run. *)
Alone(r) ==
  \A q \in Runs \ {r} :
    pc'[q] = pc[q] /\ todo'[q] = todo[q] /\ part'[q] = part[q] /\ seen'[q] = seen[q]
RunTypes ==
  /\ pc \in [Runs -> Labels]
  /\ todo \in [Runs -> Seq(Issues)]
  /\ part \in [Runs -> Seq(Batches)]
  /\ seen \in [Runs -> SUBSET LabelNames]

LEMMA VisitMoves ==
  ASSUME TypeOK, NEW r \in Runs, NEW loop \in Labels, NEW list \in Seq(Issues),
         Visit(r, loop, list), loop = "epics" => Head(list) \in Epics
  PROVE  /\ RunTypes' /\ Alone(r)
         /\ pc'[r] = loop /\ todo'[r] = list
         /\ loop = "epics" => part'[r] = BatchesOf[Head(list)]
  <1>1. (IF loop = "epics" THEN BatchesOf[Head(list)] ELSE <<>>) \in Seq(Batches)
    BY MapIs
  <1> QED BY <1>1 DEF TypeOK, Visit, RunTypes, Alone

LEMMA EpicMoves ==
  ASSUME TypeOK, NEW r \in Runs, NEW list \in Seq(Epics), NextEpic(r, list)
  PROVE  /\ RunTypes' /\ Alone(r)
         /\ \/ pc'[r] = "epics" /\ list # <<>> /\ todo'[r] = list /\ part'[r] = BatchesOf[Head(list)]
            \/ pc'[r] = "done" /\ list = <<>>
  <1>1. list \in Seq(Issues) /\ <<>> \in Seq(Issues)
    <2>1. Range(list) \subseteq Epics
      BY ListOf
    <2>2. Range(list) \subseteq Issues
      BY <2>1, IssuesAre
    <2> QED BY <2>2, ListOf
  <1>2. list # <<>> => Head(list) \in Epics
    BY ListSplit
  <1>3. "epics" \in Labels /\ "done" \in Labels
    BY DEF Labels
  <1>4. CASE list # <<>> /\ Visit(r, "epics", list)
    BY <1>1, <1>2, <1>3, <1>4, VisitMoves
  <1>5. CASE list = <<>> /\ Visit(r, "done", <<>>)
    BY <1>1, <1>3, <1>5, VisitMoves
  <1> QED BY <1>4, <1>5 DEF NextEpic

LEMMA BatchMoves ==
  ASSUME TypeOK, NEW r \in Runs, NEW list \in Seq(Issues), NextBatch(r, list)
  PROVE  /\ RunTypes' /\ Alone(r)
         /\ \/ pc'[r] = "batches" /\ list # <<>> /\ todo'[r] = list
            \/ /\ list = <<>> /\ pc'[r] = "epics" /\ EpicOrder # <<>>
               /\ todo'[r] = EpicOrder /\ part'[r] = BatchesOf[Head(EpicOrder)]
            \/ list = <<>> /\ pc'[r] = "done" /\ EpicOrder = <<>>
  <1>1. "batches" \in Labels
    BY DEF Labels
  <1>2. CASE list # <<>> /\ Visit(r, "batches", list)
    BY <1>1, <1>2, VisitMoves
  <1>3. CASE list = <<>> /\ NextEpic(r, EpicOrder)
    BY <1>3, IssuesAre, EpicMoves
  <1> QED BY <1>2, <1>3 DEF NextBatch

LEMMA IssueMoves ==
  ASSUME TypeOK, NEW r \in Runs, NEW list \in Seq(Issues), NextIssue(r, list)
  PROVE  /\ RunTypes' /\ Alone(r)
         /\ pc'[r] \in {"pull", "validate"}
         /\ pc'[r] = "validate" => todo'[r] # <<>>
  <1> DEFINE loop == IF list = <<>> THEN "pull" ELSE "validate"
  <1>1. loop \in Labels /\ loop # "epics"
    BY DEF Labels
  <1>2. Visit(r, loop, list)
    BY DEF NextIssue
  <1>3. RunTypes' /\ Alone(r) /\ pc'[r] = loop /\ todo'[r] = list
    BY <1>1, <1>2, VisitMoves
  <1> QED BY <1>3

LEMMA GotoMoves ==
  ASSUME TypeOK, NEW r \in Runs, NEW next \in Labels, Goto(r, next)
  PROVE  /\ RunTypes' /\ Alone(r)
         /\ pc'[r] = next /\ UNCHANGED <<todo, part, seen>>
  BY DEF TypeOK, Goto, RunTypes, Alone

LEMMA CloseMoves ==
  ASSUME TypeOK, NEW r \in Runs, Close(r), todo[r] # <<>>
  PROVE  /\ RunTypes' /\ Alone(r)
         /\ pc'[r] = "comment" /\ todo'[r] = todo[r] /\ part'[r] = part[r]
         /\ seen'[r] = issue[Head(todo[r])].labels
  <1>1. Head(todo[r]) \in Issues
    BY ListSplit DEF TypeOK
  <1>2. issue[Head(todo[r])].labels \in SUBSET LabelNames
    BY <1>1 DEF TypeOK, Issue
  <1>3. "comment" \in Labels
    BY DEF Labels
  <1> QED BY <1>2, <1>3 DEF TypeOK, Close, RunTypes, Alone

LEMMA BreakMoves ==
  ASSUME TypeOK, NEW r \in Runs, Break(r)
  PROVE  /\ RunTypes' /\ Alone(r)
         /\ pc'[r] = "failed" /\ failures' \in 0..MaxFailures
  <1>1. "failed" \in Labels
    BY DEF Labels
  <1>2. failures' \in 0..MaxFailures
    BY ConstantsAssumption DEF TypeOK, Break
  <1> QED BY <1>1, <1>2, GotoMoves DEF Break

(* What a visited issue leaves to visit. *)
LEMMA AtIssue ==
  ASSUME TypeOK, NEW r \in Runs, Placed(r),
         pc[r] \in {"validate", "batches", "epics", "comment", "patch"}
  PROVE  /\ todo[r] # <<>>
         /\ Head(todo[r]) \in Issues /\ Tail(todo[r]) \in Seq(Issues)
         /\ Range(todo[r]) = {Head(todo[r])} \cup Range(Tail(todo[r]))
         /\ InEpics(r) => Head(todo[r]) \in Epics /\ Tail(todo[r]) \in Seq(Epics)
  <1>1. todo[r] \in Seq(Issues) /\ todo[r] # <<>>
    BY DEF TypeOK, Placed
  <1>2. /\ Head(todo[r]) \in Issues /\ Tail(todo[r]) \in Seq(Issues)
        /\ Range(todo[r]) = {Head(todo[r])} \cup Range(Tail(todo[r]))
    BY <1>1, ListSplit
  <1>3. ASSUME InEpics(r) PROVE Head(todo[r]) \in Epics /\ Tail(todo[r]) \in Seq(Epics)
    <2>1. Range(Tail(todo[r])) \subseteq Epics /\ Head(todo[r]) \in Epics
      BY <1>2, <1>3 DEF Placed
    <2> QED BY <1>2, <2>1, ListOf
  <1> QED BY <1>1, <1>2, <1>3

(* What no step undoes: an issue that nobody has edited stays closed, and  *)
(* a run that is done stays done.                                          *)
Mild ==
  /\ \A n \in Issues : Untouched(n)' => Untouched(n) /\ (Closed(n) => Closed(n)')
  /\ \A q \in Runs : pc[q] = "done" => pc'[q] = "done" /\ task'[q] = task[q]

(* Only the run that comments is added to the comments.                    *)
Comments(r) ==
  \A q \in Runs, n \in Issues : q \in Range(comments'[n]) =>
    q \in Range(comments[n]) \/ (q = r /\ pc[r] = "comment" /\ n = Head(todo[r]))

(* A run that does not move. *)
Rests(q) ==
  /\ pc'[q] = pc[q] /\ todo'[q] = todo[q] /\ part'[q] = part[q] /\ seen'[q] = seen[q]
  /\ task'[q] = task[q]
  /\ \A n \in Issues : q \notin Range(comments[n]) => q \notin Range(comments'[n])

LEMMA TasksAre ==
  ASSUME TypeOK, NEW r \in Runs
  PROVE  task[r].refs \subseteq Issues /\ task[r].after \subseteq Runs
  BY DEF TypeOK, Task

LEMMA OthersKeep ==
  ASSUME ScriptInv, Mild, NEW q \in Runs, Rests(q)
  PROVE  RunFits(q)'
  <1>1. /\ pc'[q] = pc[q] /\ todo'[q] = todo[q] /\ part'[q] = part[q] /\ seen'[q] = seen[q]
        /\ task'[q] = task[q]
    BY DEF Rests
  <1>2. Closing(q)' <=> Closing(q)
    BY <1>1 DEF Closing
  <1>3. (InBatches(q)' <=> InBatches(q)) /\ (InEpics(q)' <=> InEpics(q))
    BY <1>1, <1>2 DEF InBatches, InEpics
  <1>4. RunFits(q) /\ TypeOK
    BY DEF ScriptInv
  <1>5. Placed(q)'
    BY <1>1, <1>3, <1>4 DEF RunFits, Placed
  <1>6. Closing(q) => Head(todo[q]) \in Issues
    BY <1>4, AtIssue DEF RunFits, Closing
  <1>7. SeenFits(q)'
    <2> SUFFICES ASSUME Closing(q)', Untouched(Head(todo[q]))' PROVE "type" \in seen'[q]
      BY DEF SeenFits
    <2>1. Untouched(Head(todo[q]))
      BY <1>1, <1>2, <1>6 DEF Mild, Untouched
    <2> QED BY <1>1, <1>2, <1>4, <2>1 DEF RunFits, SeenFits
  <1>8. HasRead(q)'
    <2> SUFFICES ASSUME InEpics(q)', NEW b \in Range(BatchesOf[Head(todo[q])]),
                        Untouched(b)', ~Closed(b)'
                 PROVE  pc[q] = "epics" /\ b \in Range(part[q])
      BY <1>1 DEF HasRead
    <2>1. Head(todo[q]) \in Epics
      BY <1>3, <1>4, AtIssue DEF RunFits, InEpics, Closing
    <2>2. b \in Issues
      BY <2>1, MapIs, IssuesAre
    <2>3. Untouched(b) /\ ~Closed(b)
      BY <2>2 DEF Mild
    <2> QED BY <1>3, <1>4, <2>3 DEF RunFits, HasRead
  <1>9. Visited(q)'
    <2> SUFFICES ASSUME NEW b \in task[q].refs \cap Batches, Untouched(b)', ~Closed(b)'
                 PROVE  /\ pc[q] # "done" /\ ~InEpics(q)
                        /\ InBatches(q) => b \in Range(todo[q])
      BY <1>1, <1>3 DEF Visited
    <2>1. b \in Issues
      BY IssuesAre
    <2>2. Untouched(b) /\ ~Closed(b)
      BY <2>1 DEF Mild
    <2> QED BY <1>4, <2>2 DEF RunFits, Visited
  <1>10. Quiet(q)'
    <2>1. Quiet(q)
      BY <1>4 DEF RunFits
    <2>2. \A n \in Issues : q \notin Range(comments[n]) => q \notin Range(comments'[n])
      BY DEF Rests
    <2>3. pc'[q] = "idle" => task'[q].after = {} /\ \A n \in Issues : q \notin Range(comments'[n])
      BY <1>1, <2>1, <2>2 DEF Quiet
    <2>4. ASSUME NEW p \in task[q].after
          PROVE  p \in Runs /\ pc[p] = "done" /\ pc'[p] = "done" /\ task'[p] = task[p]
      BY <1>4, <2>1, TasksAre DEF Quiet, Mild
    <2>5. ASSUME NEW p \in task[q].after, NEW b \in task'[p].refs \cap Batches, Untouched(b)'
          PROVE  q \notin Range(comments'[b]) /\ (pc'[q] = "comment" => Head(todo'[q]) # b)
      <3>1. b \in task[p].refs \cap Batches /\ b \in Issues
        BY <2>4, IssuesAre
      <3>2. Untouched(b)
        BY <2>5, <3>1 DEF Mild
      <3> QED BY <1>1, <2>1, <2>2, <3>1, <3>2 DEF Quiet
    <2> QED BY <1>1, <2>3, <2>4, <2>5 DEF Quiet
  <1> QED BY <1>5, <1>7, <1>8, <1>9, <1>10 DEF RunFits

(* The run that moves: its comments, *)
LEMMA MovedQuiet ==
  ASSUME ScriptInv, Mild, NEW r \in Runs, Comments(r), task'[r] = task[r],
         pc[r] # "idle", pc'[r] # "idle",
         pc'[r] = "comment" => Head(todo'[r]) \in Issues /\ ~Closed(Head(todo'[r]))
  PROVE  Quiet(r)'
  <1>1. Quiet(r) /\ TypeOK
    BY DEF ScriptInv, RunFits
  <1>2. ASSUME NEW p \in task[r].after
        PROVE  p \in Runs /\ pc[p] = "done" /\ pc'[p] = "done" /\ task'[p] = task[p]
    BY <1>1, TasksAre DEF Quiet, Mild
  <1>3. ASSUME NEW p \in task[r].after, NEW b \in task'[p].refs \cap Batches, Untouched(b)'
        PROVE  r \notin Range(comments'[b]) /\ (pc'[r] = "comment" => Head(todo'[r]) # b)
    <2>1. b \in task[p].refs \cap Batches /\ b \in Issues
      BY <1>2, IssuesAre
    <2>2. Untouched(b)
      BY <1>3, <2>1 DEF Mild
    <2>3. r \notin Range(comments[b]) /\ (pc[r] = "comment" => Head(todo[r]) # b)
      BY <1>1, <2>1, <2>2 DEF Quiet
    <2>4. r \notin Range(comments'[b])
      BY <2>1, <2>3 DEF Comments
    <2>5. Closed(b)
      <3>1. Visited(p) /\ pc[p] = "done"
        BY <1>2 DEF ScriptInv, RunFits
      <3> QED BY <2>1, <2>2, <3>1 DEF Visited
    <2> QED BY <2>4, <2>5
  <1> QED BY <1>2, <1>3 DEF Quiet

(* and its place. *)
Settled(r) == Placed(r) /\ SeenFits(r) /\ HasRead(r) /\ Visited(r)

LEMMA ToElsewhere ==
  ASSUME NEW r \in Runs,
         pc'[r] \in {"label", "make_label", "validate", "pull", "skipped", "failed"},
         pc'[r] = "validate" => todo'[r] # <<>>
  PROVE  Settled(r)'
  <1>1. ~Closing(r)' /\ ~InEpics(r)' /\ ~InBatches(r)'
    BY DEF Closing, InEpics, InBatches
  <1> QED BY <1>1 DEF Settled, Placed, SeenFits, HasRead, Visited

LEMMA ToEpics ==
  ASSUME ScriptInv, NEW r \in Runs, NEW list \in Seq(Epics), NextEpic(r, list), task'[r] = task[r],
         \A b \in task[r].refs \cap Batches : Untouched(b)' => Closed(b)'
  PROVE  Settled(r)'
  <1>1. \/ pc'[r] = "epics" /\ list # <<>> /\ todo'[r] = list /\ part'[r] = BatchesOf[Head(list)]
        \/ pc'[r] = "done" /\ list = <<>>
    BY EpicMoves DEF ScriptInv
  <1>2. ~Closing(r)' /\ Range(list) \subseteq Epics
    BY <1>1, ListOf DEF Closing
  <1>3. Placed(r)'
    BY <1>1, <1>2 DEF Placed, InEpics
  <1>4. SeenFits(r)'
    BY <1>2 DEF SeenFits
  <1>5. HasRead(r)'
    BY <1>1, <1>2 DEF HasRead, InEpics
  <1>6. Visited(r)'
    BY DEF Visited
  <1> QED BY <1>3, <1>4, <1>5, <1>6 DEF Settled

LEMMA ToBatches ==
  ASSUME ScriptInv, NEW r \in Runs, NEW list \in Seq(Issues), NextBatch(r, list), task'[r] = task[r],
         \A b \in task[r].refs \cap Batches : Untouched(b)' /\ ~Closed(b)' => b \in Range(list)
  PROVE  Settled(r)'
  <1>1. CASE list # <<>>
    <2>1. pc'[r] = "batches" /\ todo'[r] = list
      BY <1>1, BatchMoves DEF ScriptInv
    <2>2. ~Closing(r)' /\ ~InEpics(r)'
      BY <2>1 DEF Closing, InEpics
    <2> QED BY <1>1, <2>1, <2>2 DEF Settled, Placed, SeenFits, HasRead, Visited
  <1>2. CASE list = <<>>
    <2>1. NextEpic(r, EpicOrder)
      BY <1>2 DEF NextBatch
    <2>2. \A b \in task[r].refs \cap Batches : Untouched(b)' => Closed(b)'
      BY <1>2, ListNone
    <2> QED BY <2>1, <2>2, ToEpics, IssuesAre
  <1> QED BY <1>1, <1>2

(* What the step of a run keeps, whatever the step.                        *)
Kept(r) ==
  /\ TypeOK' /\ IssuesFit' /\ Mild /\ Comments(r) /\ Alone(r)
  /\ (\A q \in Runs \ {r} : task'[q] = task[q])
  /\ RunFits(r)'

(* Steps that only read keep the issues, the comments and the tasks.       *)
LEMMA ReadKeeps ==
  ASSUME ScriptInv, NEW r \in Runs, pc[r] \notin {"done", "idle"},
         UNCHANGED <<issue, comments, task, edits>>, label' \in BOOLEAN,
         failures' \in 0..MaxFailures, RunTypes', Alone(r), pc'[r] # "idle",
         pc'[r] = "comment" => Head(todo'[r]) \in Issues /\ ~Closed(Head(todo'[r])),
         Settled(r)'
  PROVE  Kept(r)
  <1>1. TypeOK'
    BY DEF ScriptInv, TypeOK, RunTypes
  <1>2. IssuesFit'
    BY DEF ScriptInv, IssuesFit, ClosedIsDone, EpicHasBatches, Untouched, Closed
  <1>3. Mild
    BY DEF Mild, Untouched, Closed, Alone
  <1>4. Comments(r)
    BY DEF Comments
  <1>5. Quiet(r)'
    BY <1>3, <1>4, MovedQuiet
  <1>6. RunFits(r)'
    BY <1>5 DEF RunFits, Settled
  <1> QED BY <1>1, <1>2, <1>3, <1>4, <1>6 DEF Kept

LEMMA StartKeeps == ASSUME ScriptInv, NEW r \in Runs, Start(r) PROVE Kept(r)
  <1> USE DEF ScriptInv
  <1>1. PICK refs \in Named : task' = [task EXCEPT ![r] =
          [refs |-> refs, after |-> {q \in Runs : pc[q] = "done"}]]
    BY DEF Start
  <1>2. /\ pc[r] = "idle" /\ Goto(r, "label")
        /\ UNCHANGED <<issue, label, comments, edits, failures>>
    BY DEF Start
  <1>3. "label" \in Labels
    BY DEF Labels
  <1>4. RunTypes' /\ Alone(r) /\ pc'[r] = "label"
    BY <1>2, <1>3, GotoMoves
  <1>5. [refs |-> refs, after |-> {q \in Runs : pc[q] = "done"}] \in Task
    BY ConstantsAssumption DEF Task
  <1>6. TypeOK'
    BY <1>1, <1>2, <1>4, <1>5 DEF TypeOK, RunTypes
  <1>7. IssuesFit'
    BY <1>2 DEF IssuesFit, ClosedIsDone, EpicHasBatches, Untouched, Closed
  <1>8. \A q \in Runs \ {r} : task'[q] = task[q]
    BY <1>1 DEF TypeOK
  <1>9. Mild
    BY <1>2, <1>4, <1>8 DEF Mild, Untouched, Closed, Alone
  <1>10. Comments(r)
    BY <1>2 DEF Comments
  <1>11. Settled(r)'
    BY <1>4, ToElsewhere
  <1>12. Quiet(r)'
    <2>1. \A n \in Issues : r \notin Range(comments'[n])
      BY <1>2 DEF RunFits, Quiet
    <2>2. task'[r].after = {q \in Runs : pc[q] = "done"}
      BY <1>1 DEF TypeOK
    <2>3. ASSUME NEW q \in task'[r].after PROVE q \in Runs /\ pc'[q] = "done"
      BY <1>9, <2>2 DEF Mild
    <2>4. ASSUME NEW q \in task'[r].after, NEW b \in task'[q].refs \cap Batches
          PROVE  r \notin Range(comments'[b])
      BY <2>1, IssuesAre
    <2> QED BY <1>4, <2>3, <2>4 DEF Quiet
  <1>13. RunFits(r)'
    BY <1>11, <1>12 DEF RunFits, Settled
  <1> QED BY <1>4, <1>6, <1>7, <1>8, <1>9, <1>10, <1>13 DEF Kept

LEMMA FindLabelKeeps == ASSUME ScriptInv, NEW r \in Runs, FindLabel(r) PROVE Kept(r)
  <1>1. /\ TypeOK /\ pc[r] = "label" /\ UNCHANGED <<issue, comments, task, edits>>
        /\ label' \in BOOLEAN /\ failures' \in 0..MaxFailures
    BY DEF FindLabel, ScriptInv, TypeOK
  <1>2. /\ RunTypes' /\ Alone(r) /\ pc'[r] \in {"make_label", "pull", "validate"}
        /\ pc'[r] = "validate" => todo'[r] # <<>>
    <2>1. CASE NextIssue(r, BatchOrder \o EpicOrder)
      BY <1>1, <2>1, IssuesAre, IssueMoves
    <2>2. CASE Goto(r, "make_label")
      <3>1. "make_label" \in Labels
        BY DEF Labels
      <3> QED BY <1>1, <2>2, <3>1, GotoMoves
    <2> QED BY <2>1, <2>2 DEF FindLabel
  <1>3. Settled(r)'
    BY <1>2, ToElsewhere
  <1> QED BY <1>1, <1>2, <1>3, ReadKeeps

LEMMA MakeLabelKeeps == ASSUME ScriptInv, NEW r \in Runs, MakeLabel(r) PROVE Kept(r)
  <1>1. /\ TypeOK /\ pc[r] = "make_label" /\ UNCHANGED <<issue, comments, task, edits>>
        /\ label' \in BOOLEAN
    BY DEF MakeLabel, ScriptInv
  <1>2. /\ RunTypes' /\ Alone(r) /\ pc'[r] \in {"failed", "pull", "validate"}
        /\ pc'[r] = "validate" => todo'[r] # <<>>
        /\ failures' \in 0..MaxFailures
    <2>1. CASE NextIssue(r, BatchOrder \o EpicOrder) /\ UNCHANGED failures
      BY <1>1, <2>1, IssuesAre, IssueMoves DEF TypeOK
    <2>2. CASE Break(r)
      BY <1>1, <2>2, BreakMoves
    <2>3. CASE Goto(r, "failed") /\ UNCHANGED failures
      <3>1. "failed" \in Labels
        BY DEF Labels
      <3>2. RunTypes' /\ Alone(r) /\ pc'[r] = "failed"
        BY <1>1, <2>3, <3>1, GotoMoves
      <3> QED BY <1>1, <2>3, <3>2 DEF TypeOK
    <2> QED BY <2>1, <2>2, <2>3 DEF MakeLabel
  <1>3. Settled(r)'
    BY <1>2, ToElsewhere
  <1> QED BY <1>1, <1>2, <1>3, ReadKeeps

LEMMA ValidateKeeps == ASSUME ScriptInv, NEW r \in Runs, Validate(r) PROVE Kept(r)
  <1>1. /\ TypeOK /\ pc[r] = "validate" /\ UNCHANGED <<issue, comments, task, edits>>
        /\ label' \in BOOLEAN /\ failures' \in 0..MaxFailures
    BY DEF Validate, ScriptInv, TypeOK
  <1>2. /\ RunTypes' /\ Alone(r) /\ pc'[r] \in {"failed", "pull", "validate"}
        /\ pc'[r] = "validate" => todo'[r] # <<>>
    <2>1. CASE NextIssue(r, Tail(todo[r]))
      <3>1. Tail(todo[r]) \in Seq(Issues)
        BY <1>1, AtIssue DEF ScriptInv, RunFits
      <3> QED BY <1>1, <2>1, <3>1, IssueMoves
    <2>2. CASE Goto(r, "failed")
      <3>1. "failed" \in Labels
        BY DEF Labels
      <3> QED BY <1>1, <2>2, <3>1, GotoMoves
    <2> QED BY <2>1, <2>2 DEF Validate
  <1>3. Settled(r)'
    BY <1>2, ToElsewhere
  <1> QED BY <1>1, <1>2, <1>3, ReadKeeps

LEMMA FailKeeps == ASSUME ScriptInv, NEW r \in Runs, Fail(r) PROVE Kept(r)
  <1>1. /\ TypeOK /\ pc[r] \notin {"done", "idle"} /\ UNCHANGED <<issue, comments, task, edits>>
        /\ label' \in BOOLEAN
    BY DEF Fail, Over, ScriptInv, TypeOK
  <1>2. RunTypes' /\ Alone(r) /\ pc'[r] = "failed" /\ failures' \in 0..MaxFailures
    BY <1>1, BreakMoves DEF Fail
  <1>3. Settled(r)'
    BY <1>2, ToElsewhere
  <1> QED BY <1>1, <1>2, <1>3, ReadKeeps

LEMMA ReadPullKeeps == ASSUME ScriptInv, NEW r \in Runs, ReadPull(r) PROVE Kept(r)
  <1>1. /\ TypeOK /\ pc[r] = "pull" /\ UNCHANGED <<issue, comments, task, edits>>
        /\ label' \in BOOLEAN /\ failures' \in 0..MaxFailures
    BY DEF ReadPull, ScriptInv, TypeOK
  <1>2. CASE Goto(r, "skipped")
    <2>1. "skipped" \in Labels
      BY DEF Labels
    <2>2. RunTypes' /\ Alone(r) /\ pc'[r] = "skipped"
      BY <1>1, <1>2, <2>1, GotoMoves
    <2>3. Settled(r)'
      BY <2>2, ToElsewhere
    <2> QED BY <1>1, <2>2, <2>3, ReadKeeps
  <1>3. CASE NextBatch(r, Ascending(task[r].refs))
    <2>1. task[r].refs \in SUBSET Issues
      BY <1>1, TasksAre
    <2>2. Ascending(task[r].refs) \in Seq(Issues) /\ Range(Ascending(task[r].refs)) = task[r].refs
      BY <2>1, SortedRefs
    <2>3. RunTypes' /\ Alone(r) /\ pc'[r] \in {"batches", "epics", "done"}
      BY <1>1, <1>3, <2>2, BatchMoves
    <2>4. task'[r] = task[r]
      BY <1>1
    <2>5. Settled(r)'
      BY <1>3, <2>2, <2>4, ToBatches
    <2> QED BY <1>1, <2>3, <2>5, ReadKeeps
  <1> QED BY <1>2, <1>3 DEF ReadPull

LEMMA ReadBatchKeeps == ASSUME ScriptInv, NEW r \in Runs, ReadBatch(r) PROVE Kept(r)
  <1> DEFINE n == Head(todo[r])
  <1>1. /\ TypeOK /\ pc[r] = "batches" /\ UNCHANGED <<issue, comments, task, edits>>
        /\ label' \in BOOLEAN /\ failures' \in 0..MaxFailures
    BY DEF ReadBatch, ScriptInv, TypeOK
  <1>2. /\ todo[r] # <<>> /\ n \in Issues /\ Tail(todo[r]) \in Seq(Issues)
        /\ Range(todo[r]) = {n} \cup Range(Tail(todo[r]))
    BY <1>1, AtIssue DEF ScriptInv, RunFits
  <1>3. task'[r] = task[r]
    BY <1>1
  <1>4. Visited(r) /\ \A b \in Batches : b \in Issues
    BY IssuesAre DEF ScriptInv, RunFits
  <1>5. /\ \A b \in task[r].refs \cap Batches : Untouched(b) /\ ~Closed(b) => b \in Range(todo[r])
        /\ \A b \in Issues : (Untouched(b)' <=> Untouched(b)) /\ (Closed(b)' <=> Closed(b))
    <2>1. \A b \in task[r].refs \cap Batches : Untouched(b) /\ ~Closed(b) => b \in Range(todo[r])
      BY <1>1, <1>4 DEF Visited, InBatches
    <2>2. \A b \in Issues : (Untouched(b)' <=> Untouched(b)) /\ (Closed(b)' <=> Closed(b))
      BY <1>1 DEF Untouched, Closed
    <2> QED BY <2>1, <2>2
  <1>6. CASE n \in Batches /\ IsOpen(n) /\ Close(r)
    <2>1. /\ RunTypes' /\ Alone(r) /\ pc'[r] = "comment" /\ todo'[r] = todo[r]
          /\ seen'[r] = issue[n].labels
      BY <1>1, <1>2, <1>6, CloseMoves
    <2>2. Head(todo'[r]) \in Issues /\ ~Closed(Head(todo'[r]))
      BY <1>2, <1>6, <2>1 DEF IsOpen, Closed
    <2>3. Closing(r)' /\ InBatches(r)' /\ ~InEpics(r)'
      BY <1>6, <2>1, IssuesAre DEF Closing, InBatches, InEpics
    <2>4. Placed(r)'
      BY <1>2, <2>1, <2>3 DEF Placed
    <2>5. SeenFits(r)'
      BY <1>6, <2>1 DEF SeenFits, IsOpen
    <2>6. HasRead(r)'
      BY <2>3 DEF HasRead
    <2>7. Visited(r)'
      <3>1. \A b \in task[r].refs \cap Batches : Untouched(b)' /\ ~Closed(b)' => b \in Range(todo[r])
        BY <1>4, <1>5
      <3> QED BY <1>3, <2>1, <2>3, <3>1 DEF Visited
    <2>8. Settled(r)'
      BY <2>4, <2>5, <2>6, <2>7 DEF Settled
    <2> QED BY <1>1, <2>1, <2>2, <2>8, ReadKeeps
  <1>7. CASE ~(n \in Batches /\ IsOpen(n)) /\ NextBatch(r, Tail(todo[r]))
    <2>1. RunTypes' /\ Alone(r) /\ pc'[r] \in {"batches", "epics", "done"}
      BY <1>1, <1>2, <1>7, BatchMoves
    <2>2. ASSUME NEW b \in task[r].refs \cap Batches, Untouched(b)', ~Closed(b)'
          PROVE  b \in Range(Tail(todo[r]))
      <3>1. Untouched(b) /\ ~Closed(b) /\ b \in Range(todo[r]) /\ b \in Issues
        BY <1>4, <1>5, <2>2
      <3>2. "type" \in issue[b].labels /\ issue[b].state \in {"open", "closed"}
        BY <1>1, <3>1 DEF ScriptInv, IssuesFit, TypeOK, Issue
      <3>3. IsOpen(b)
        BY <3>1, <3>2 DEF IsOpen, Closed
      <3> QED BY <1>2, <1>7, <3>1, <3>3
    <2>3. Settled(r)'
      BY <1>2, <1>3, <1>7, <2>2, ToBatches
    <2> QED BY <1>1, <2>1, <2>3, ReadKeeps
  <1> QED BY <1>6, <1>7 DEF ReadBatch

(* A run among its epics has seen to the batches its request names. *)
LEMMA NamedClosed ==
  ASSUME ScriptInv, NEW r \in Runs, InEpics(r), NEW b \in task[r].refs \cap Batches, Untouched(b)
  PROVE  Closed(b)
  BY DEF ScriptInv, RunFits, Visited

LEMMA CheckBatchKeeps == ASSUME ScriptInv, NEW r \in Runs, CheckBatch(r) PROVE Kept(r)
  <1> DEFINE e == Head(todo[r])
             n == Head(part[r])
  <1>1. /\ TypeOK /\ pc[r] = "epics" /\ UNCHANGED <<issue, comments, task, edits>>
        /\ label' \in BOOLEAN /\ failures' \in 0..MaxFailures
    BY DEF CheckBatch, ScriptInv, TypeOK
  <1>2. InEpics(r) /\ RunFits(r)
    BY <1>1 DEF InEpics, ScriptInv
  <1>3. /\ todo[r] # <<>> /\ e \in Epics /\ Tail(todo[r]) \in Seq(Epics)
    BY <1>1, <1>2, AtIssue DEF RunFits
  <1>4. task'[r] = task[r]
    BY <1>1
  <1>5. part[r] # <<>> /\ part[r] \in Seq(Batches)
    BY <1>1 DEF CheckBatch, TypeOK
  <1>6. /\ n \in Batches /\ Tail(part[r]) \in Seq(Batches)
        /\ Range(part[r]) = {n} \cup Range(Tail(part[r]))
    BY <1>5, ListSplit
  <1>7. \A b \in Batches : (Untouched(b)' <=> Untouched(b)) /\ (Closed(b)' <=> Closed(b))
    BY <1>1 DEF Untouched, Closed
  <1>8. \A b \in task[r].refs \cap Batches : Untouched(b)' => Closed(b)'
    BY <1>2, <1>7, NamedClosed
  <1>9. CASE Closed(n) /\ part' = [part EXCEPT ![r] = Tail(@)] /\ UNCHANGED <<pc, todo, seen>>
    <2>1. part'[r] = Tail(part[r]) /\ RunTypes' /\ Alone(r)
      BY <1>1, <1>6, <1>9 DEF TypeOK, RunTypes, Alone
    <2>2. InEpics(r)' /\ ~Closing(r)'
      BY <1>1, <1>9 DEF InEpics, Closing
    <2>3. Placed(r)'
      BY <1>1, <1>2, <1>6, <1>9, <2>1 DEF RunFits, Placed, InEpics, Closing
    <2>4. SeenFits(r)'
      BY <2>2 DEF SeenFits
    <2>5. HasRead(r)'
      <3>1. ASSUME NEW b \in Range(BatchesOf[e]), Untouched(b)', ~Closed(b)'
            PROVE  b \in Range(Tail(part[r]))
        <4>1. b \in Batches
          BY <1>3, MapIs
        <4>2. Untouched(b) /\ ~Closed(b)
          BY <1>7, <3>1, <4>1
        <4>3. b \in Range(part[r])
          BY <1>2, <4>2 DEF RunFits, HasRead
        <4> QED BY <1>6, <1>9, <4>2, <4>3
      <3> QED BY <1>1, <1>9, <2>1, <3>1 DEF HasRead
    <2>6. Visited(r)'
      BY <1>4, <1>8 DEF Visited
    <2>7. Settled(r)'
      BY <2>3, <2>4, <2>5, <2>6 DEF Settled
    <2> QED BY <1>1, <1>9, <2>1, <2>7, ReadKeeps
  <1>10. CASE NextEpic(r, Tail(todo[r]))
    <2>1. RunTypes' /\ Alone(r) /\ pc'[r] \in {"epics", "done"}
      BY <1>1, <1>3, <1>10, EpicMoves
    <2>2. Settled(r)'
      BY <1>3, <1>4, <1>8, <1>10, ToEpics
    <2> QED BY <1>1, <2>1, <2>2, ReadKeeps
  <1> QED BY <1>9, <1>10 DEF CheckBatch, Closed

LEMMA ReadEpicKeeps == ASSUME ScriptInv, NEW r \in Runs, ReadEpic(r) PROVE Kept(r)
  <1> DEFINE e == Head(todo[r])
  <1>1. /\ TypeOK /\ pc[r] = "epics" /\ UNCHANGED <<issue, comments, task, edits>>
        /\ label' \in BOOLEAN /\ failures' \in 0..MaxFailures /\ part[r] = <<>>
    BY DEF ReadEpic, ScriptInv, TypeOK
  <1>2. InEpics(r) /\ RunFits(r)
    BY <1>1 DEF InEpics, ScriptInv
  <1>3. /\ todo[r] # <<>> /\ e \in Epics /\ Tail(todo[r]) \in Seq(Epics) /\ e \in Issues
    BY <1>1, <1>2, AtIssue DEF RunFits
  <1>4. task'[r] = task[r]
    BY <1>1
  <1>5. \A b \in Batches : (Untouched(b)' <=> Untouched(b)) /\ (Closed(b)' <=> Closed(b))
    BY <1>1 DEF Untouched, Closed
  <1>6. \A b \in task[r].refs \cap Batches : Untouched(b)' => Closed(b)'
    BY <1>2, <1>5, NamedClosed
  <1>7. CASE IsOpen(e) /\ Close(r)
    <2>1. /\ RunTypes' /\ Alone(r) /\ pc'[r] = "comment" /\ todo'[r] = todo[r]
          /\ seen'[r] = issue[e].labels
      BY <1>1, <1>3, <1>7, CloseMoves
    <2>2. Head(todo'[r]) \in Issues /\ ~Closed(Head(todo'[r]))
      BY <1>3, <1>7, <2>1 DEF IsOpen, Closed
    <2>3. Placed(r)'
      BY <1>2, <1>3, <2>1 DEF RunFits, Placed, InEpics
    <2>4. SeenFits(r)'
      BY <1>7, <2>1 DEF SeenFits, IsOpen
    <2>5. HasRead(r)'
      <3>1. ASSUME NEW b \in Range(BatchesOf[e]), Untouched(b)' PROVE Closed(b)'
        <4>1. b \in Batches
          BY <1>3, MapIs
        <4> QED BY <1>1, <1>2, <1>5, <3>1, <4>1, ListNone DEF RunFits, HasRead
      <3> QED BY <2>1, <3>1 DEF HasRead
    <2>6. Visited(r)'
      BY <1>4, <1>6 DEF Visited
    <2>7. Settled(r)'
      BY <2>3, <2>4, <2>5, <2>6 DEF Settled
    <2> QED BY <1>1, <2>1, <2>2, <2>7, ReadKeeps
  <1>8. CASE NextEpic(r, Tail(todo[r]))
    <2>1. RunTypes' /\ Alone(r) /\ pc'[r] \in {"epics", "done"}
      BY <1>1, <1>3, <1>8, EpicMoves
    <2>2. Settled(r)'
      BY <1>3, <1>4, <1>6, <1>8, ToEpics
    <2> QED BY <1>1, <2>1, <2>2, ReadKeeps
  <1> QED BY <1>7, <1>8 DEF ReadEpic

LEMMA CommentKeeps == ASSUME ScriptInv, NEW r \in Runs, Comment(r) PROVE Kept(r)
  <1> DEFINE n == Head(todo[r])
  <1>1. /\ TypeOK /\ pc[r] = "comment" /\ UNCHANGED <<issue, label, task, edits>>
        /\ comments' = [comments EXCEPT ![n] = Append(@, r)]
    BY DEF Comment, ScriptInv
  <1>2. RunFits(r)
    BY DEF ScriptInv
  <1>3. n \in Issues /\ comments[n] \in Seq(Runs)
    BY <1>1, <1>2, AtIssue DEF RunFits, TypeOK
  <1>4. Append(comments[n], r) \in Seq(Runs) /\ Range(Append(comments[n], r)) = Range(comments[n]) \cup {r}
    BY <1>3, ListAppend
  <1>5. Comments(r)
    BY <1>1, <1>3, <1>4 DEF Comments, TypeOK
  <1>6. /\ RunTypes' /\ Alone(r) /\ failures' \in 0..MaxFailures
        /\ \/ pc'[r] = "failed"
           \/ pc'[r] = "patch" /\ UNCHANGED <<todo, part, seen>>
    <2>1. CASE Goto(r, "patch") /\ UNCHANGED failures
      <3>1. "patch" \in Labels
        BY DEF Labels
      <3> QED BY <1>1, <2>1, <3>1, GotoMoves DEF TypeOK
    <2>2. CASE Break(r)
      BY <1>1, <2>2, BreakMoves
    <2> QED BY <2>1, <2>2 DEF Comment
  <1>7. TypeOK'
    BY <1>1, <1>3, <1>4, <1>6 DEF TypeOK, RunTypes
  <1>8. IssuesFit'
    BY <1>1 DEF ScriptInv, IssuesFit, ClosedIsDone, EpicHasBatches, Untouched, Closed
  <1>9. Mild
    BY <1>1, <1>6 DEF Mild, Untouched, Closed, Alone
  <1>10. Quiet(r)'
    BY <1>1, <1>5, <1>6, <1>9, MovedQuiet
  <1>11. Settled(r)'
    <2>1. CASE pc'[r] = "failed"
      BY <2>1, ToElsewhere
    <2>2. CASE pc'[r] = "patch" /\ UNCHANGED <<todo, part, seen>>
      <3>1. Closing(r)' /\ Closing(r)
        BY <1>1, <2>2 DEF Closing
      <3>2. (InBatches(r)' <=> InBatches(r)) /\ (InEpics(r)' <=> InEpics(r))
        BY <1>1, <2>2, <3>1 DEF InBatches, InEpics
      <3>3. Placed(r)'
        BY <1>1, <1>2, <2>2, <3>2 DEF RunFits, Placed
      <3>4. SeenFits(r)'
        BY <1>1, <1>2, <2>2, <3>1 DEF RunFits, SeenFits, Untouched
      <3>5. HasRead(r)'
        BY <1>1, <1>2, <2>2, <3>2 DEF RunFits, HasRead, Untouched, Closed
      <3>6. Visited(r)'
        BY <1>1, <1>2, <2>2, <3>2 DEF RunFits, Visited, Untouched, Closed
      <3> QED BY <3>3, <3>4, <3>5, <3>6 DEF Settled
    <2> QED BY <1>6, <2>1, <2>2
  <1>12. RunFits(r)'
    BY <1>10, <1>11 DEF RunFits, Settled
  <1> QED BY <1>1, <1>5, <1>6, <1>7, <1>8, <1>9, <1>12 DEF Kept

LEMMA PatchKeeps == ASSUME ScriptInv, NEW r \in Runs, Patch(r) PROVE Kept(r)
  <1> DEFINE n == Head(todo[r])
  <1>1. /\ TypeOK /\ pc[r] = "patch" /\ UNCHANGED <<label, comments, task, edits>>
        /\ issue' = [issue EXCEPT ![n] = [state |-> "closed", labels |-> Patched(seen[r])]]
    BY DEF Patch, ScriptInv
  <1>2. RunFits(r) /\ Closing(r)
    BY <1>1 DEF ScriptInv, Closing
  <1>3. /\ todo[r] # <<>> /\ n \in Issues /\ Tail(todo[r]) \in Seq(Issues)
        /\ Range(todo[r]) = {n} \cup Range(Tail(todo[r]))
        /\ InEpics(r) => n \in Epics /\ Tail(todo[r]) \in Seq(Epics)
    BY <1>1, <1>2, AtIssue DEF RunFits
  <1>4. Patched(seen[r]) \in SUBSET LabelNames
    BY <1>1 DEF TypeOK, Patched, LabelNames
  <1>5. /\ \A m \in Issues : m # n => issue'[m] = issue[m]
        /\ issue'[n].state = "closed" /\ issue'[n].labels = Patched(seen[r])
        /\ issue' \in [Issues -> Issue]
    BY <1>1, <1>3, <1>4 DEF TypeOK, Issue
  <1>6. /\ RunTypes' /\ Alone(r) /\ failures' \in 0..MaxFailures
        /\ pc'[r] \in {"batches", "epics", "done", "failed"}
    <2>1. CASE n \in Batches /\ NextBatch(r, Tail(todo[r])) /\ UNCHANGED failures
      BY <1>1, <1>3, <2>1, BatchMoves DEF TypeOK
    <2>2. CASE n \in Epics /\ NextEpic(r, Tail(todo[r])) /\ UNCHANGED failures
      <3>1. InEpics(r)
        BY <1>2, <2>2 DEF InEpics
      <3> QED BY <1>1, <1>3, <2>2, <3>1, EpicMoves DEF TypeOK
    <2>3. CASE Break(r)
      BY <1>1, <2>3, BreakMoves
    <2> QED BY <2>1, <2>2, <2>3 DEF Patch
  <1>7. TypeOK'
    BY <1>1, <1>5, <1>6 DEF TypeOK, RunTypes
  <1>8. \A m \in Issues : (Untouched(m)' <=> Untouched(m)) /\ (Closed(m) => Closed(m)')
    BY <1>1, <1>5 DEF Untouched, Closed
  <1>9. Mild
    BY <1>1, <1>6, <1>8 DEF Mild, Alone
  <1>10. Comments(r)
    BY <1>1 DEF Comments
  <1>11. IssuesFit'
    <2>1. ASSUME NEW m \in Issues, Untouched(m)' PROVE "type" \in issue'[m].labels
      <3>1. Untouched(m)
        BY <1>8, <2>1
      <3>2. CASE m = n
        BY <1>2, <1>5, <3>1, <3>2 DEF RunFits, SeenFits, Patched
      <3>3. CASE m # n
        BY <1>5, <3>1, <3>3 DEF ScriptInv, IssuesFit
      <3> QED BY <3>2, <3>3
    <2>2. ASSUME NEW m \in Issues, Untouched(m)', Closed(m)'
          PROVE  "done" \in issue'[m].labels /\ "review" \notin issue'[m].labels
      <3>1. CASE m = n
        BY <1>5, <3>1 DEF Patched
      <3>2. CASE m # n
        BY <1>5, <1>8, <2>2, <3>2 DEF ScriptInv, IssuesFit, ClosedIsDone, Closed
      <3> QED BY <3>1, <3>2
    <2>3. ASSUME NEW e \in Epics, Untouched(e)', Closed(e)',
                 NEW b \in Range(BatchesOf[e]), Untouched(b)'
          PROVE  Closed(b)'
      <3>1. e \in Issues /\ b \in Issues
        BY MapIs, IssuesAre
      <3>2. Untouched(e) /\ Untouched(b)
        BY <1>8, <2>3, <3>1
      <3>3. CASE e = n
        <4>1. InEpics(r)
          BY <1>2, <3>3 DEF InEpics
        <4>2. Closed(b)
          BY <1>1, <1>2, <2>3, <3>2, <3>3, <4>1 DEF RunFits, HasRead
        <4> QED BY <1>8, <3>1, <4>2
      <3>4. CASE e # n
        <4>1. Closed(e)
          BY <1>5, <2>3, <3>1, <3>4 DEF Closed
        <4>2. Closed(b)
          BY <2>3, <3>2, <4>1 DEF ScriptInv, IssuesFit, EpicHasBatches
        <4> QED BY <1>8, <3>1, <4>2
      <3> QED BY <3>3, <3>4
    <2> QED BY <2>1, <2>2, <2>3 DEF IssuesFit, ClosedIsDone, EpicHasBatches
  <1>12. Quiet(r)'
    BY <1>1, <1>6, <1>9, <1>10, MovedQuiet
  <1>13. Settled(r)'
    <2>1. task'[r] = task[r] /\ \A b \in Batches : b \in Issues
      BY <1>1, IssuesAre
    <2>2. CASE n \in Batches /\ NextBatch(r, Tail(todo[r]))
      <3>1. ASSUME NEW b \in task[r].refs \cap Batches, Untouched(b)', ~Closed(b)'
            PROVE  b \in Range(Tail(todo[r]))
        <4>1. Untouched(b) /\ ~Closed(b)
          BY <1>8, <2>1, <3>1
        <4>2. b # n
          BY <1>5, <3>1 DEF Closed
        <4>3. b \in Range(todo[r])
          BY <1>2, <2>2, <4>1 DEF RunFits, Visited, InBatches
        <4> QED BY <1>3, <4>2, <4>3
      <3> QED BY <1>3, <2>1, <2>2, <3>1, ToBatches
    <2>3. CASE n \in Epics /\ NextEpic(r, Tail(todo[r]))
      <3>1. InEpics(r)
        BY <1>2, <2>3 DEF InEpics
      <3>2. \A b \in task[r].refs \cap Batches : Untouched(b)' => Closed(b)'
        BY <1>8, <2>1, <3>1, NamedClosed
      <3> QED BY <1>3, <2>1, <2>3, <3>1, <3>2, ToEpics
    <2>4. CASE Break(r)
      <3>1. pc'[r] = "failed"
        BY <1>1, <2>4, BreakMoves
      <3> QED BY <3>1, ToElsewhere
    <2> QED BY <2>2, <2>3, <2>4 DEF Patch
  <1>14. RunFits(r)'
    BY <1>12, <1>13 DEF RunFits, Settled
  <1> QED BY <1>1, <1>6, <1>7, <1>9, <1>10, <1>11, <1>14 DEF Kept

LEMMA StepKeeps ==
  ASSUME ScriptInv, NEW r \in Runs, Step(r) \/ Fail(r)
  PROVE  Kept(r)
  BY StartKeeps, FindLabelKeeps, MakeLabelKeeps, ValidateKeeps, ReadPullKeeps, ReadBatchKeeps,
     CheckBatchKeeps, ReadEpicKeeps, CommentKeeps, PatchKeeps, FailKeeps DEF Step

(* People touch what they edit, and only that. *)
LEMMA EditKeeps ==
  ASSUME ScriptInv, NEW n \in Issues, Edit(n)
  PROVE  /\ TypeOK' /\ IssuesFit' /\ Mild /\ (\A q \in Runs : Rests(q))
         /\ \A m \in Issues : Untouched(m)' => Untouched(m) /\ (Closed(m)' <=> Closed(m))
  <1>1. /\ TypeOK /\ edits' = Append(edits, n)
        /\ UNCHANGED <<label, comments, pc, todo, part, seen, task, failures>>
    BY DEF Edit, runVars, ScriptInv
  <1>2. edits' \in Seq(Issues) /\ Range(edits') = Range(edits) \cup {n}
    BY <1>1, ListAppend DEF TypeOK
  <1>3. \A m \in Issues : m # n => issue'[m] = issue[m]
    BY DEF Edit, ScriptInv, TypeOK
  <1>4. issue' \in [Issues -> Issue]
    <2>1. issue \in [Issues -> Issue] /\ issue[n] \in Issue
      BY <1>1 DEF TypeOK
    <2>2. CASE issue' = [issue EXCEPT ![n].state = IF @ = "open" THEN "closed" ELSE "open"]
      BY <2>1, <2>2 DEF Issue
    <2>3. ASSUME NEW l \in LabelNames,
                 issue' = [issue EXCEPT ![n].labels = IF l \in @ THEN @ \ {l} ELSE @ \cup {l}]
          PROVE  issue' \in [Issues -> Issue]
      <3> DEFINE new == IF l \in issue[n].labels THEN issue[n].labels \ {l} ELSE issue[n].labels \cup {l}
      <3>1. issue[n].labels \in SUBSET LabelNames
        BY <2>1 DEF Issue
      <3>2. new \in SUBSET LabelNames
        BY <3>1
      <3>3. [issue[n] EXCEPT !.labels = new] \in Issue
        <4> HIDE DEF new
        <4> QED BY <2>1, <3>2 DEF Issue
      <3>4. issue' = [issue EXCEPT ![n] = [issue[n] EXCEPT !.labels = new]]
        BY <2>1, <2>3
      <3> QED BY <2>1, <3>3, <3>4
    <2> QED BY <2>2, <2>3 DEF Edit
  <1>5. \A m \in Issues : Untouched(m)' => m # n /\ Untouched(m)
    BY <1>2 DEF Untouched
  <1>6. \A m \in Issues : m # n => (Closed(m)' <=> Closed(m))
    BY <1>3 DEF Closed
  <1>7. TypeOK'
    BY <1>1, <1>2, <1>4 DEF TypeOK
  <1>8. Mild
    BY <1>1, <1>5, <1>6 DEF Mild
  <1>9. \A q \in Runs : Rests(q)
    BY <1>1 DEF Rests
  <1>10. IssuesFit'
    <2>1. ASSUME NEW m \in Issues, Untouched(m)'
          PROVE  /\ "type" \in issue'[m].labels
                 /\ Closed(m)' => "done" \in issue'[m].labels /\ "review" \notin issue'[m].labels
      BY <1>3, <1>5, <1>6, <2>1 DEF ScriptInv, IssuesFit, ClosedIsDone
    <2>2. ASSUME NEW e \in Epics, Untouched(e)', Closed(e)',
                 NEW b \in Range(BatchesOf[e]), Untouched(b)'
          PROVE  Closed(b)'
      <3>1. e \in Issues /\ b \in Issues
        BY MapIs, IssuesAre
      <3> QED BY <1>5, <1>6, <2>2, <3>1 DEF ScriptInv, IssuesFit, EpicHasBatches
    <2> QED BY <2>1, <2>2 DEF IssuesFit, ClosedIsDone, EpicHasBatches
  <1> QED BY <1>5, <1>6, <1>7, <1>8, <1>9, <1>10

(* How a run gets on and off the way to an epic that could be closed.      *)
OnTheWay(r, e) == (OnWay(r, e) => OnWay(r, e)') /\ (Passed(r, e)' => Passed(r, e))

LEMMA BatchWay ==
  ASSUME TypeOK, NEW r \in Runs, NEW list \in Seq(Issues), NextBatch(r, list), NEW e \in Epics
  PROVE  OnWay(r, e)' /\ OnTheWay(r, e)
  <1>1. e \in Range(EpicOrder) /\ EpicOrder # <<>>
    BY ListNone DEF Epics
  <1>2. \/ pc'[r] = "batches"
        \/ pc'[r] = "epics" /\ todo'[r] = EpicOrder
    BY <1>1, BatchMoves
  <1>3. OnWay(r, e)'
    BY <1>1, <1>2 DEF OnWay, InBatches, InEpics
  <1>4. ~Passed(r, e)'
    BY <1>1, <1>2 DEF Passed, InEpics, Closing
  <1> QED BY <1>3, <1>4 DEF OnTheWay

LEMMA EpicWay ==
  ASSUME TypeOK, NEW r \in Runs, NEW e \in Epics, InEpics(r), Placed(r), pc[r] # "done",
         NextEpic(r, Tail(todo[r])), e # Head(todo[r])
  PROVE  OnTheWay(r, e)
  <1>1. /\ Head(todo[r]) \in Epics /\ Tail(todo[r]) \in Seq(Epics)
        /\ Range(todo[r]) = {Head(todo[r])} \cup Range(Tail(todo[r]))
    BY AtIssue DEF InEpics, Closing
  <1>2. e \in Range(todo[r]) <=> e \in Range(Tail(todo[r]))
    BY <1>1
  <1>3. \/ pc'[r] = "epics" /\ todo'[r] = Tail(todo[r])
        \/ pc'[r] = "done" /\ Tail(todo[r]) = <<>>
    BY <1>1, EpicMoves
  <1>4. ~InBatches(r)
    BY <1>1, IssuesAre DEF InBatches, InEpics, Closing
  <1>5. ASSUME OnWay(r, e) PROVE OnWay(r, e)'
    <2>1. e \in Range(Tail(todo[r]))
      BY <1>2, <1>4, <1>5 DEF OnWay
    <2>2. pc'[r] = "epics" /\ todo'[r] = Tail(todo[r])
      BY <1>3, <2>1, ListNone
    <2> QED BY <2>1, <2>2 DEF OnWay, InEpics
  <1>6. ASSUME Passed(r, e)' PROVE Passed(r, e)
    <2>1. e \notin Range(Tail(todo[r]))
      BY <1>3, <1>6, ListNone DEF Passed, InEpics, Closing
    <2> QED BY <1>2, <2>1 DEF Passed
  <1> QED BY <1>5, <1>6 DEF OnTheWay

LEMMA StillThere ==
  ASSUME NEW r \in Runs, NEW e, todo'[r] = todo[r],
         InBatches(r)' <=> InBatches(r), InEpics(r)' <=> InEpics(r), pc'[r] # "done"
  PROVE  OnTheWay(r, e)
  BY DEF OnTheWay, OnWay, Passed

LEMMA NotThere ==
  ASSUME NEW r \in Runs, NEW e,
         pc[r] \in {"idle", "label", "make_label", "validate", "pull"},
         pc'[r] \in {"label", "make_label", "validate", "pull", "skipped"}
  PROVE  OnTheWay(r, e)
  BY DEF OnTheWay, OnWay, Passed, InBatches, InEpics, Closing

LEMMA WayStep ==
  ASSUME ScriptInv, NEW r \in Runs, Step(r) \/ Fail(r), pc'[r] # "failed",
         NEW e \in Epics, Ready(e), Ready(e)'
  PROVE  OnTheWay(r, e)
  <1> DEFINE n == Head(todo[r])
  <1>1. TypeOK /\ RunFits(r) /\ Placed(r)
    BY DEF ScriptInv, RunFits
  <1>2. e \in Issues
    BY IssuesAre
  <1>3. pc[r] \in {"validate", "batches", "epics", "comment", "patch"} =>
          /\ todo[r] # <<>> /\ n \in Issues /\ Tail(todo[r]) \in Seq(Issues)
          /\ InEpics(r) => n \in Epics
    BY <1>1, AtIssue
  <1>4. CASE Start(r)
    <2>1. "label" \in Labels
      BY DEF Labels
    <2>2. pc[r] = "idle" /\ pc'[r] = "label"
      BY <1>1, <1>4, <2>1, GotoMoves DEF Start
    <2> QED BY <2>2, NotThere
  <1>5. CASE FindLabel(r)
    <2>1. "make_label" \in Labels
      BY DEF Labels
    <2>2. pc[r] = "label" /\ pc'[r] \in {"make_label", "pull", "validate"}
      BY <1>1, <1>5, <2>1, GotoMoves, IssueMoves, IssuesAre DEF FindLabel
    <2> QED BY <2>2, NotThere
  <1>6. CASE MakeLabel(r)
    <2>1. "failed" \in Labels
      BY DEF Labels
    <2>2. pc[r] = "make_label" /\ pc'[r] \in {"pull", "validate"}
      BY <1>1, <1>6, <2>1, GotoMoves, BreakMoves, IssueMoves, IssuesAre DEF MakeLabel
    <2> QED BY <2>2, NotThere
  <1>7. CASE Validate(r)
    <2>1. "failed" \in Labels
      BY DEF Labels
    <2>2. pc[r] = "validate" /\ pc'[r] \in {"pull", "validate"}
      BY <1>1, <1>3, <1>7, <2>1, GotoMoves, IssueMoves DEF Validate
    <2> QED BY <2>2, NotThere
  <1>8. CASE ReadPull(r)
    <2>1. CASE Goto(r, "skipped")
      <3>1. "skipped" \in Labels
        BY DEF Labels
      <3>2. pc[r] = "pull" /\ pc'[r] = "skipped"
        BY <1>1, <1>8, <2>1, <3>1, GotoMoves DEF ReadPull
      <3> QED BY <3>2, NotThere
    <2>2. CASE NextBatch(r, Ascending(task[r].refs))
      <3>1. Ascending(task[r].refs) \in Seq(Issues)
        BY <1>1, TasksAre, SortedRefs
      <3> QED BY <1>1, <2>2, <3>1, BatchWay
    <2> QED BY <1>8, <2>1, <2>2 DEF ReadPull
  <1>9. CASE ReadBatch(r)
    <2>1. pc[r] = "batches"
      BY <1>9 DEF ReadBatch
    <2>2. CASE n \in Batches /\ Close(r)
      <3>1. pc'[r] = "comment" /\ todo'[r] = todo[r]
        BY <1>1, <1>3, <2>1, <2>2, CloseMoves
      <3>2. n \notin Epics
        BY <2>2, IssuesAre
      <3>3. (InBatches(r)' <=> InBatches(r)) /\ (InEpics(r)' <=> InEpics(r))
        BY <2>1, <2>2, <3>1, <3>2 DEF InBatches, InEpics, Closing
      <3> QED BY <3>1, <3>3, StillThere
    <2>3. CASE NextBatch(r, Tail(todo[r]))
      BY <1>1, <1>3, <2>1, <2>3, BatchWay
    <2> QED BY <1>9, <2>2, <2>3 DEF ReadBatch
  <1>10. CASE CheckBatch(r)
    <2>1. pc[r] = "epics" /\ InEpics(r)
      BY <1>10 DEF CheckBatch, InEpics
    <2>2. CASE UNCHANGED <<pc, todo, seen>>
      <3>1. (InBatches(r)' <=> InBatches(r)) /\ (InEpics(r)' <=> InEpics(r))
        BY <2>2 DEF InBatches, InEpics, Closing
      <3> QED BY <2>1, <2>2, <3>1, StillThere
    <2>3. CASE issue[Head(part[r])].state = "open" /\ NextEpic(r, Tail(todo[r]))
      <3>1. part[r] # <<>> /\ part[r] \in Seq(Batches)
        BY <1>1, <1>10 DEF CheckBatch, TypeOK
      <3>2. Head(part[r]) \in Range(part[r])
        BY <3>1, ListSplit
      <3>3. ~Closed(Head(part[r]))
        BY <2>3 DEF Closed
      <3>4. n # e
        BY <1>1, <2>1, <3>2, <3>3 DEF Placed, Ready
      <3> QED BY <1>1, <2>1, <2>3, <3>4, EpicWay
    <2> QED BY <1>10, <2>2, <2>3 DEF CheckBatch
  <1>11. CASE ReadEpic(r)
    <2>1. pc[r] = "epics" /\ InEpics(r)
      BY <1>11 DEF ReadEpic, InEpics
    <2>2. CASE Close(r)
      <3>1. pc'[r] = "comment" /\ todo'[r] = todo[r]
        BY <1>1, <1>3, <2>1, <2>2, CloseMoves
      <3>2. n \in Epics /\ n \notin Batches
        BY <1>3, <2>1, IssuesAre
      <3>3. (InBatches(r)' <=> InBatches(r)) /\ (InEpics(r)' <=> InEpics(r))
        BY <2>1, <3>1, <3>2 DEF InBatches, InEpics, Closing
      <3> QED BY <3>1, <3>3, StillThere
    <2>3. CASE ~IsOpen(n) /\ NextEpic(r, Tail(todo[r]))
      <3>1. Untouched(e) /\ ~Closed(e)
        BY DEF Ready
      <3>2. "type" \in issue[e].labels /\ issue[e].state \in {"open", "closed"}
        BY <1>1, <1>2, <3>1 DEF ScriptInv, IssuesFit, TypeOK, Issue
      <3>3. IsOpen(e)
        BY <3>1, <3>2 DEF IsOpen, Closed
      <3> QED BY <1>1, <2>1, <2>3, <3>3, EpicWay
    <2> QED BY <1>11, <2>2, <2>3 DEF ReadEpic
  <1>12. CASE Comment(r)
    <2>1. "patch" \in Labels
      BY DEF Labels
    <2>2. pc[r] = "comment" /\ pc'[r] = "patch" /\ UNCHANGED todo
      BY <1>1, <1>12, <2>1, GotoMoves, BreakMoves DEF Comment
    <2>3. (InBatches(r)' <=> InBatches(r)) /\ (InEpics(r)' <=> InEpics(r))
      BY <2>2 DEF InBatches, InEpics, Closing
    <2> QED BY <2>2, <2>3, StillThere
  <1>13. CASE Patch(r)
    <2>1. /\ pc[r] = "patch" /\ Closing(r)
          /\ issue' = [issue EXCEPT ![n] = [state |-> "closed", labels |-> Patched(seen[r])]]
      BY <1>13 DEF Patch, Closing
    <2>2. n # e
      <3> SUFFICES ASSUME n = e PROVE FALSE
        OBVIOUS
      <3>1. issue'[e].state = "closed"
        BY <1>1, <1>2, <2>1 DEF TypeOK
      <3> QED BY <3>1 DEF Ready, Closed
    <2>3. CASE n \in Batches /\ NextBatch(r, Tail(todo[r]))
      BY <1>1, <1>3, <2>1, <2>3, BatchWay
    <2>4. CASE n \in Epics /\ NextEpic(r, Tail(todo[r]))
      <3>1. InEpics(r)
        BY <2>1, <2>4 DEF InEpics
      <3> QED BY <1>1, <2>1, <2>2, <2>4, <3>1, EpicWay
    <2>5. ~Break(r)
      BY <1>1, BreakMoves
    <2> QED BY <1>13, <2>3, <2>4, <2>5 DEF Patch
  <1>14. ~Fail(r)
    BY <1>1, BreakMoves DEF Fail
  <1> QED BY <1>4, <1>5, <1>6, <1>7, <1>8, <1>9, <1>10, <1>11, <1>12, <1>13, <1>14 DEF Step

(* Only Patch closes issues, and no step begins at a failed run. *)
LEMMA OnlyPatchCloses ==
  ASSUME NEW r \in Runs, Step(r) \/ Fail(r)
  PROVE  /\ pc[r] # "failed"
         /\ ~Patch(r) => UNCHANGED issue
  BY DEF Step, Fail, Start, FindLabel, MakeLabel, Validate, ReadPull, ReadBatch, CheckBatch, ReadEpic,
         Comment, Patch, Over

LEMMA ForgottenStep ==
  ASSUME ScriptInv, NEW r \in Runs, Step(r) \/ Fail(r)
  PROVE  NotForgotten'
  <1>1. TypeOK /\ Kept(r) /\ NotForgotten
    BY StepKeeps DEF ScriptInv
  <1> SUFFICES ASSUME \A q \in Runs : pc'[q] # "failed", NEW e \in Epics, Ready(e)'
               PROVE  (\E q \in Runs : OnWay(q, e)') \/ (\A q \in Runs : ~Passed(q, e)')
    BY DEF NotForgotten
  <1>2. \A q \in Runs : pc[q] # "failed"
    BY <1>1, OnlyPatchCloses DEF Kept, Alone
  <1>3. e \in Issues /\ Range(BatchesOf[e]) \subseteq Batches /\ Batches \subseteq Issues
    BY MapIs, IssuesAre
  <1>4. /\ Untouched(e) /\ ~Closed(e)
        /\ \A b \in Range(BatchesOf[e]) : Untouched(b) /\ Closed(b)'
    BY <1>1, <1>3 DEF Ready, Kept, Mild
  <1>5. CASE Ready(e)
    <2>1. OnTheWay(r, e)
      BY <1>5, WayStep
    <2>2. \A q \in Runs \ {r} : (OnWay(q, e)' <=> OnWay(q, e)) /\ (Passed(q, e)' <=> Passed(q, e))
      BY <1>1 DEF Kept, Alone, OnWay, Passed, InBatches, InEpics, Closing
    <2>3. (\E q \in Runs : OnWay(q, e)) \/ (\A q \in Runs : ~Passed(q, e))
      BY <1>1, <1>2, <1>5 DEF NotForgotten
    <2>4. CASE \E q \in Runs : OnWay(q, e)
      <3>1. PICK q \in Runs : OnWay(q, e)
        BY <2>4
      <3>2. OnWay(q, e)'
        BY <2>1, <2>2, <3>1 DEF OnTheWay
      <3> QED BY <3>2
    <2>5. CASE \A q \in Runs : ~Passed(q, e)
      BY <2>1, <2>2, <2>5 DEF OnTheWay
    <2> QED BY <2>3, <2>4, <2>5
  <1>6. CASE ~Ready(e)
    <2>1. PICK b \in Range(BatchesOf[e]) : ~Closed(b) /\ Closed(b)'
      BY <1>4, <1>6 DEF Ready
    <2>2. b \in Batches /\ b \in Issues
      BY <1>3
    <2>3. Patch(r)
      BY <2>1, OnlyPatchCloses DEF Closed
    <2>4. /\ pc[r] = "patch"
          /\ issue' = [issue EXCEPT ![Head(todo[r])] = [state |-> "closed", labels |-> Patched(seen[r])]]
      BY <2>3 DEF Patch
    <2>5. b = Head(todo[r])
      BY <1>1, <2>1, <2>2, <2>4 DEF TypeOK, Closed
    <2>6. NextBatch(r, Tail(todo[r]))
      <3>1. ~Break(r)
        BY <1>1, BreakMoves
      <3> QED BY <2>2, <2>3, <2>5, <3>1, IssuesAre DEF Patch
    <2>7. Tail(todo[r]) \in Seq(Issues)
      BY <1>1, <2>4, AtIssue DEF ScriptInv, RunFits
    <2>8. OnWay(r, e)'
      BY <1>1, <2>6, <2>7, BatchWay
    <2> QED BY <2>8
  <1> QED BY <1>5, <1>6

LEMMA InvStep == ScriptInv /\ [Next]_vars => ScriptInv'
  <1> SUFFICES ASSUME ScriptInv, [Next]_vars PROVE ScriptInv'
    OBVIOUS
  <1>1. ASSUME NEW r \in Runs, Step(r) \/ Fail(r) PROVE ScriptInv'
    <2>1. Kept(r)
      BY <1>1, StepKeeps
    <2>2. ASSUME NEW q \in Runs \ {r} PROVE RunFits(q)'
      <3>1. Rests(q)
        BY <2>1 DEF Kept, Alone, Comments, Rests
      <3> QED BY <2>1, <3>1, OthersKeep DEF Kept
    <2>3. NotForgotten'
      BY <1>1, ForgottenStep
    <2> QED BY <2>1, <2>2, <2>3 DEF Kept, ScriptInv
  <1>2. ASSUME NEW n \in Issues, Edit(n) PROVE ScriptInv'
    <2>1. /\ TypeOK' /\ IssuesFit' /\ Mild /\ (\A q \in Runs : Rests(q))
          /\ \A m \in Issues : Untouched(m)' => Untouched(m) /\ (Closed(m)' <=> Closed(m))
      BY <1>2, EditKeeps
    <2>2. \A q \in Runs : RunFits(q)'
      BY <2>1, OthersKeep
    <2>3. NotForgotten'
      <3> SUFFICES ASSUME \A q \in Runs : pc'[q] # "failed", NEW e \in Epics, Ready(e)'
                   PROVE  (\E q \in Runs : OnWay(q, e)') \/ (\A q \in Runs : ~Passed(q, e)')
        BY DEF NotForgotten
      <3>1. \A q \in Runs : pc[q] # "failed"
        BY <2>1 DEF Rests
      <3>2. e \in Issues /\ Range(BatchesOf[e]) \subseteq Issues
        BY MapIs, IssuesAre
      <3>3. Ready(e)
        BY <2>1, <3>2 DEF Ready
      <3>4. (\E q \in Runs : OnWay(q, e)) \/ (\A q \in Runs : ~Passed(q, e))
        BY <3>1, <3>3 DEF ScriptInv, NotForgotten
      <3>5. \A q \in Runs : (OnWay(q, e)' <=> OnWay(q, e)) /\ (Passed(q, e)' <=> Passed(q, e))
        BY <2>1 DEF Rests, OnWay, Passed, InBatches, InEpics, Closing
      <3> QED BY <3>4, <3>5
    <2> QED BY <2>1, <2>2, <2>3 DEF ScriptInv
  <1>3. CASE UNCHANGED vars
    <2>1. /\ UNCHANGED <<issue, label, comments, pc, task, todo, part, seen, edits, failures>>
      BY <1>3 DEF vars
    <2>2. TypeOK' /\ IssuesFit' /\ Mild /\ \A q \in Runs : Rests(q)
      BY <2>1 DEF ScriptInv, TypeOK, IssuesFit, ClosedIsDone, EpicHasBatches, Untouched, Closed, Mild, Rests
    <2>3. \A q \in Runs : RunFits(q)'
      BY <2>2, OthersKeep
    <2>4. NotForgotten'
      BY <2>1 DEF ScriptInv, NotForgotten, Ready, Untouched, Closed, OnWay, Passed, InBatches, InEpics, Closing
    <2> QED BY <2>2, <2>3, <2>4 DEF ScriptInv
  <1> QED BY <1>1, <1>2, <1>3 DEF Next

LEMMA InvInit == Init => ScriptInv
  <1> SUFFICES ASSUME Init PROVE ScriptInv
    OBVIOUS
  <1>1. TypeOK
    <2>1. issue \in [Issues -> Issue]
      <3>1. {[state |-> "open", labels |-> {"type", "review"}],
             [state |-> "closed", labels |-> {"type", "done"}]} \subseteq Issue
        BY DEF Issue, LabelNames
      <3> QED BY <3>1 DEF Init
    <2>2. /\ label \in BOOLEAN /\ comments \in [Issues -> Seq(Runs)] /\ edits \in Seq(Issues)
          /\ todo \in [Runs -> Seq(Issues)] /\ part \in [Runs -> Seq(Batches)]
          /\ seen \in [Runs -> SUBSET LabelNames] /\ failures \in 0..MaxFailures
      BY ConstantsAssumption DEF Init
    <2>3. pc \in [Runs -> Labels] /\ task \in [Runs -> Task]
      BY DEF Init, Labels, Task
    <2> QED BY <2>1, <2>2, <2>3 DEF TypeOK
  <1>2. \A n \in Issues : "type" \in issue[n].labels /\
          (Closed(n) => "done" \in issue[n].labels /\ "review" \notin issue[n].labels)
    BY DEF Init, Closed
  <1>3. \A e \in Epics : ~Closed(e)
    BY DEF Init, Closed
  <1>4. IssuesFit
    BY <1>2, <1>3 DEF IssuesFit, ClosedIsDone, EpicHasBatches
  <1>5. ASSUME NEW r \in Runs
        PROVE  /\ pc[r] = "idle" /\ task[r].after = {} /\ task[r].refs = {}
               /\ \A n \in Issues : r \notin Range(comments[n])
               /\ ~InBatches(r) /\ ~InEpics(r) /\ ~Closing(r)
    BY ListNone DEF Init, InBatches, InEpics, Closing
  <1>6. \A r \in Runs : RunFits(r)
    BY <1>5 DEF RunFits, Placed, SeenFits, HasRead, Visited, Quiet
  <1>7. NotForgotten
    BY <1>5 DEF NotForgotten, Passed
  <1> QED BY <1>1, <1>4, <1>6, <1>7 DEF ScriptInv

LEMMA ScriptInvariant == Spec => []ScriptInv
  BY InvInit, InvStep, PTL DEF Spec

(* Issues and runs have their types, and what runs have closed is marked    *)
(* done: "type" is among the labels a run has read, so the labels that it   *)
(* writes are those GitHub had, without the review.                         *)
THEOREM ClosureInvAlways == Spec => []ClosureInv
  <1>1. ScriptInv => ClosureInv
    BY DEF ScriptInv, IssuesFit, ClosureInv
  <1> QED BY <1>1, ScriptInvariant, PTL

(* close_ready_epics closes an epic only when its batches are closed, even  *)
(* though it reads them one by one while other runs and people are at work. *)
THEOREM EpicHasBatchesAlways == Spec => []EpicHasBatches
  <1>1. ScriptInv => EpicHasBatches
    BY DEF ScriptInv, IssuesFit
  <1> QED BY <1>1, ScriptInvariant, PTL

(* A run that begins after another was done does not comment again on the   *)
(* batches which that one was for: it finds them closed.                    *)
THEOREM RerunIsQuietAlways == Spec => []RerunIsQuiet
  <1>1. ScriptInv => RerunIsQuiet
    BY DEF ScriptInv, RunFits, Quiet, RerunIsQuiet
  <1> QED BY <1>1, ScriptInvariant, PTL

(* When overlapping runs close the last batches of an epic, whichever       *)
(* closes the last one has the epic still ahead of it and finds all closed. *)
THEOREM EpicNotForgottenAlways == Spec => []EpicNotForgotten
  <1>1. ScriptInv => EpicNotForgotten
    <2> SUFFICES ASSUME ScriptInv,
                        NEW p \in Runs, pc[p] = "done",
                        \A r \in Runs : pc[r] \in {"idle", "done", "skipped"},
                        NEW e \in Epics, Ready(e)
                 PROVE  FALSE
      BY DEF EpicNotForgotten, Ready
    <2>1. \A r \in Runs : pc[r] # "failed" /\ ~OnWay(r, e)
      BY DEF OnWay, InBatches, InEpics, Closing
    <2>2. Passed(p, e)
      BY DEF Passed
    <2> QED BY <2>1, <2>2 DEF ScriptInv, NotForgotten
  <1> QED BY <1>1, ScriptInvariant, PTL

=================================================================================
