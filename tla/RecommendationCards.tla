-------------------------- MODULE RecommendationCards --------------------------
(* The recommendation cards of a campaign: which exports get one, which     *)
(* snapshot each is judged by, how they rank against each other, and where  *)
(* their on-screen text comes from.                                         *)
(* backend/app/domain/services/recommendation_cards.py.                     *)
(* Texts are the names of the phrases chosen; scores are integers in units  *)
(* of the tolerance, 0.000001.                                              *)
EXTENDS Arranging, Sequences, SequencesExt, FiniteSetsExt

CONSTANT None

Tolerance == 1

(* _unique_ids. *)
UniqueIds(ids) ==
  FoldLeft(LAMBDA unique, id : IF id \in ToSet(unique) THEN unique ELSE Append(unique, id),
           <<>>, ids)

(* ORDER BY snapshot_at DESC, id DESC, and the first row of each export. *)
Later(s, t) == s.at > t.at \/ (s.at = t.at /\ s.id >= t.id)
LatestMetrics(snapshots, campaign, e) ==
  LET of == {s \in snapshots : s.campaign = campaign /\ s.export = e.id}
  IN IF of = {} THEN None ELSE CHOOSE s \in of : \A t \in of : Later(s, t)

(* NULL counts for nothing. *)
OrZero(v) == IF v = None THEN 0 ELSE v
MetricScore(m) == IF m = None THEN 0 ELSE OrZero(m.watch) + OrZero(m.full)

(* Mutant: scores are compared exactly. *)
NearExactly(x, y) == x = y

Near(x, y) == x - y <= Tolerance /\ y - x <= Tolerance

ScoreIsUnique(scores, target) ==
  Cardinality({i \in DOMAIN scores : Near(scores[i], target)}) = 1

(* The position of the best (worst) export, or 0 when that score is shared. *)
BestPosition(scores) ==
  LET best == Max(ToSet(scores))
  IN IF ScoreIsUnique(scores, best) THEN CHOOSE i \in DOMAIN scores : scores[i] = best ELSE 0
WorstPosition(scores) ==
  LET worst == Min(ToSet(scores))
  IN IF ScoreIsUnique(scores, worst) THEN CHOOSE i \in DOMAIN scores : scores[i] = worst ELSE 0

Verdict(scores, i) ==
  CASE scores[i] = 0 -> "insufficient"
    [] scores[i] # 0 /\ ~ScoreIsUnique(scores, scores[i]) -> "tied"
    [] OTHER -> IF i = BestPosition(scores) THEN "top"
                ELSE IF i = WorstPosition(scores) THEN "underperforming" ELSE "middle"

(* _extract_text_metadata: the export's own beats, the word that there are *)
(* none on purpose, the beats of its episode's scenes, or a warning.        *)
TextMetadata(e) ==
  [beats |-> e.beats \/ (~e.noText /\ e.sceneBeats),
   source |-> IF e.beats \/ e.noText THEN "export" ELSE IF e.sceneBeats THEN "episode" ELSE None,
   noText |-> e.noText,
   warned |-> ~(e.beats \/ e.noText \/ e.sceneBeats)]

Confidence(m, text) ==
  IF m = None THEN "low"
  ELSE IF ~text.warned /\ m.watch # None /\ m.full # None THEN "high" ELSE "medium"

SuggestHook(text, lead) ==
  IF text.noText THEN "visual action"
  ELSE IF text.beats THEN "iterate first beat"
  ELSE IF lead THEN "keep opening" ELSE "add hook beat"

Card(e, m, verdict) ==
  LET text == TextMetadata(e)
  IN [export |-> e.id, metrics |-> m, verdict |-> verdict, confidence |-> Confidence(m, text),
      hook |-> SuggestHook(text, verdict = "top"), text |-> text]

(* The exports of the cards: those asked for, in that order, or all. *)
Chosen(exports, campaign, ids) ==
  LET own == {e \in exports : e.campaign = campaign}
      byId(id) == CHOOSE e \in own : e.id = id
      order == IF ids = <<>> THEN Arranged({e.id : e \in own}, <) ELSE UniqueIds(ids)
  IN [i \in DOMAIN order |-> byId(order[i])]

Refused(exports, campaign, ids) ==
  \E i \in DOMAIN ids : ~\E e \in exports : e.campaign = campaign /\ e.id = ids[i]

(* build_recommendation_cards, once nothing is refused. *)
BuildRecommendationCards(exports, snapshots, campaign, ids) ==
  LET chosen == Chosen(exports, campaign, ids)
      metrics == [i \in DOMAIN chosen |-> LatestMetrics(snapshots, campaign, chosen[i])]
      scores == [i \in DOMAIN chosen |-> MetricScore(metrics[i])]
  IN [i \in DOMAIN chosen |-> Card(chosen[i], metrics[i], Verdict(scores, i))]

===============================================================================
