------------------------------- MODULE EditAdvice -------------------------------
(* What the factory says about the first on-screen text of a video: the      *)
(* validator that an export must pass, and the advice of the read-only tool   *)
(* recommend_next_edit on the same beats and on the retention of variants.    *)
(* backend/app/domain/services/narrative_validator.py and                     *)
(* agent_tool_registry.py.                                                    *)
(* Times are in units of 0.1 s, shares of retention in per cent.              *)
EXTENDS Arranging, Sequences, SequencesExt, FiniteSetsExt

CONSTANT None

HookDeadline == 3
RetentionFloor == 45

BeatIssue(code, beat) == [code |-> code, beat |-> beat]

BeatIssues(beats, i) ==
  (IF beats[i].end <= beats[i].start THEN {BeatIssue("INVALID_TEXT_BEAT_TIME", i)} ELSE {})
    \cup (IF beats[i].inside THEN {} ELSE {BeatIssue("TEXT_OUTSIDE_SAFE_AREA", i)})

HasHook(beats) == \E i \in DOMAIN beats : beats[i].start <= HookDeadline

(* validate_text_beats; 0 stands for an issue of the whole list. *)
ValidateTextBeats(beats, noTextExperiment) ==
  IF noTextExperiment THEN {}
  ELSE IF beats = <<>> THEN {BeatIssue("NO_TEXT_BEATS", 0)}
  ELSE (IF HasHook(beats) THEN {} ELSE {BeatIssue("NO_HOOK_TEXT", 0)})
         \cup UNION {BeatIssues(beats, i) : i \in DOMAIN beats}

(* _first_text_start. *)
FirstTextStart(beats) ==
  IF beats = <<>> THEN None ELSE Min({beats[i].start : i \in DOMAIN beats})

(* The first of the names under which a sidecar has a number. *)
FirstMetric(metrics, names) ==
  LET known == {i \in DOMAIN names : metrics[names[i]] # None}
  IN IF known = {} THEN None ELSE metrics[names[Min(known)]]

RetentionSignal(metrics) ==
  FirstMetric(metrics, <<"first_2s_retention", "first_two_second_retention", "retention_rate">>)
RankScore(metrics) ==
  FirstMetric(metrics, <<"retention_rate", "first_2s_retention", "first_two_second_retention">>)

(* _resolve_artifact for each id a tool is asked for, over the artifacts that  *)
(* the storage lists (sidecars are not listed): one that is not there fails   *)
(* the call. An id is the path of its file, so it names one artifact.         *)
Resolvable(library, ids) == ToSet(ids) \subseteq {v.id : v \in library}
Resolve(library, id) == CHOOSE v \in library : v.id = id

(* compare_variants: the first of the largest, and whether there is nothing   *)
(* else to go by. *)
CompareVariants(variants) ==
  LET largest == {i \in DOMAIN variants : \A k \in DOMAIN variants : variants[i].size >= variants[k].size}
  IN [largest |-> variants[Min(largest)].id,
      warned |-> \A i \in DOMAIN variants : \A n \in DOMAIN variants[i].metrics :
                   variants[i].metrics[n] = None]

(* _recommendations_for_artifact. *)
RecommendationsFor(variant) ==
  LET retention == RetentionSignal(variant.metrics)
      start == FirstTextStart(variant.beats)
  IN (IF retention # None /\ retention < RetentionFloor
      THEN <<[kind |-> "cut a clearer hook", artifacts |-> <<variant.id>>]>> ELSE <<>>)
     \o (IF start = None \/ start > HookDeadline
         THEN <<[kind |-> "add hook text", artifacts |-> <<variant.id>>]>> ELSE <<>>)

(* _rank_retention_winner: the positions of the variants that have a score,  *)
(* sorted by it in descending order; the sort is stable. Names repeat when a *)
(* caller names a variant twice.                                             *)
Scored(variants) == {i \in DOMAIN variants : RankScore(variants[i].metrics) # None}
(* Mutant: the sort loses its reverse=True. *)
RankedAscending(variants) ==
  LET score(i) == RankScore(variants[i].metrics)
  IN Arranged(Scored(variants),
              LAMBDA i, k : score(i) < score(k) \/ (score(i) = score(k) /\ i < k))

Ranked(variants) ==
  LET score(i) == RankScore(variants[i].metrics)
  IN Arranged(Scored(variants),
              LAMBDA i, k : score(i) > score(k) \/ (score(i) = score(k) /\ i < k))

RankRetentionWinner(variants) ==
  LET ranked == Ranked(variants)
      winner == variants[ranked[1]].id
      loser == variants[Last(ranked)].id
  IN IF Len(ranked) < 2 \/ winner = loser THEN <<>>
     ELSE <<[kind |-> "promote", artifacts |-> <<winner, loser>>]>>

(* recommend_next_edit, once the artifacts are resolved; their sidecars stay  *)
(* as they are while it reads them twice.                                     *)
RecommendNextEdit(variants) ==
  LET all == FlattenSeq([i \in DOMAIN variants |-> RecommendationsFor(variants[i])])
               \o RankRetentionWinner(variants)
  IN IF all = <<>> THEN <<[kind |-> "publish as control", artifacts |-> <<variants[1].id>>]>>
     ELSE all

===============================================================================
