------------------------------ MODULE ContentRules ------------------------------
(* The pure functions of the factory, each asked one problem of a set, and   *)
(* what their answers promise. The answers are computed as the code does;    *)
(* the promises are stated without its order of steps, its sorts, counters   *)
(* and searches.                                                             *)
EXTENDS Integers, Sequences, FiniteSets, SequencesExt

CONSTANTS
  None,             \* Python's None
  Profiles,         \* profile keys the prompt registry knows
  CardProblems,     \* [exports, snapshots, campaign, ids]
  WorkflowProblems, \* [workflow, order]
  TurnProblems,     \* [settings, class, profile, prompt, other, network]
  AdviceProblems,   \* [library, ids, noText]
  ParseProblems,    \* [video, next, short]
  ToolProblems      \* [storage, calls]

(* What the tables let through: the primary keys are numbers and name one row *)
(* each, a number may be NULL, and a snapshot has the campaign of its export. *)
Numbers == Int \cup {None}
ASSUME CardsAssumption ==
  \A p \in CardProblems :
    /\ IsFiniteSet(p.exports) /\ IsFiniteSet(p.snapshots)
    /\ p.ids \in Seq(Nat)
    /\ \A e \in p.exports : e.id \in Nat /\ {e.beats, e.noText, e.sceneBeats} \subseteq BOOLEAN
    /\ \A e, f \in p.exports : e.id = f.id => e = f
    /\ \A s \in p.snapshots :
         /\ {s.id, s.at} \subseteq Int /\ {s.watch, s.full} \subseteq Numbers
         /\ \A e \in p.exports :
              s.export = e.id /\ e.campaign = p.campaign => s.campaign = p.campaign

(* Texts are strings, never None; the settings are numbers and flags from   *)
(* the environment; the network does something at every attempt that may be  *)
(* made.                                                                     *)
Wordings == Seq(Seq(STRING)) \ {<<>>}
PromptAssemblyInputs ==
  [rules : Seq(Wordings), objective : Wordings \cup {None}, context : Wordings \cup {None},
   user : Wordings]
AppSettings ==
  [retries : Int, base : Int, multiplier : Int, cap : Int,
   tools : BOOLEAN, structured : BOOLEAN, base_url : BOOLEAN]
NetworkEvents ==
  {"reply", "malformed", "read timeout", "connect timeout", "http error", "no object", "no JSON"}
ASSUME TurnsAssumption ==
  /\ None \notin Wordings /\ Profiles \subseteq STRING
  /\ \A p \in TurnProblems :
       /\ p.settings \in AppSettings /\ {p.prompt, p.other} \subseteq PromptAssemblyInputs
       /\ \A k \in 0..Max({0, p.settings.retries}) :
            k \in DOMAIN p.network /\ p.network[k] \in NetworkEvents

(* An artifact's id is its path, a text, and names one artifact; what is      *)
(* written of it are numbers, if anything; and no tool is asked for none.    *)
TextBeats == Seq([start : Int, end : Int, inside : BOOLEAN])
RetentionNames == {"retention_rate", "first_2s_retention", "first_two_second_retention"}
ASSUME AdviceAssumption ==
  /\ None \notin Int
  /\ \A p \in AdviceProblems :
       /\ p.ids \in Seq(STRING) /\ p.ids # <<>> /\ p.noText \in BOOLEAN
       /\ \A v \in p.library :
            /\ v.beats \in TextBeats /\ v.size \in Nat
            /\ \A n \in RetentionNames : v.metrics[n] \in Numbers
       /\ \A v, w \in p.library : v.id = w.id => v = w

VARIABLES kind, problem, answer
vars == <<kind, problem, answer>>

Cards == INSTANCE RecommendationCards
Validator == INSTANCE WorkflowValidator
Runtime == INSTANCE AgentRuntime
Advice == INSTANCE EditAdvice
Parsing == INSTANCE AnalyticsParsing
Tools == INSTANCE ArtifactTools

Init ==
  /\ answer = None
  /\ \/ kind = "cards" /\ problem \in CardProblems
     \/ kind = "workflow" /\ problem \in WorkflowProblems
     \/ kind = "turn" /\ problem \in TurnProblems
     \/ kind = "advice" /\ problem \in AdviceProblems
     \/ kind = "parse" /\ problem \in ParseProblems
     \/ kind = "tools" /\ problem \in ToolProblems

Ask(k) == kind = k /\ answer = None /\ UNCHANGED <<kind, problem>>

AskCards ==
  /\ Ask("cards")
  /\ answer' = IF Cards!Refused(problem.exports, problem.campaign, problem.ids) THEN "refused"
               ELSE Cards!BuildRecommendationCards(problem.exports, problem.snapshots,
                                                   problem.campaign, problem.ids)
AskWorkflow ==
  /\ Ask("workflow")
  /\ answer' = Validator!ValidateWorkflow(problem.workflow, problem.order)
AskTurn ==
  /\ Ask("turn")
  /\ answer' =
       LET turn(prompt) == Runtime!Respond(problem.settings, problem.class, problem.profile,
                                           prompt, problem.network)
       IN [turn |-> turn(problem.prompt), other |-> turn(problem.other)]
AskAdvice ==
  /\ Ask("advice")
  /\ answer' =
       LET v == [i \in DOMAIN problem.ids |-> Advice!Resolve(problem.library, problem.ids[i])]
       IN IF ~Advice!Resolvable(problem.library, problem.ids) THEN [refused |-> TRUE]
          ELSE [refused |-> FALSE,
                issues |-> [i \in DOMAIN v |-> Advice!ValidateTextBeats(v[i].beats, problem.noText)],
                advice |-> Advice!RecommendNextEdit(v),
                compared |-> Advice!CompareVariants(v)]

AskParse ==
  /\ Ask("parse")
  /\ answer' =
       LET row(video) == Parsing!ParseSummaryRow(video, problem.short)
       IN [json |-> Parsing!ParseVideoJson(problem.video, problem.short),
           row |-> row(problem.video),
           byId |-> Parsing!SnapshotsByVideoId(<<row(problem.video), row(problem.next)>>)]

AskTools ==
  /\ Ask("tools")
  /\ answer' = [tool \in DOMAIN problem.calls |->
                 Tools!Call(problem.storage, tool, problem.calls[tool])]

Next == AskCards \/ AskWorkflow \/ AskTurn \/ AskAdvice \/ AskParse \/ AskTools

Spec == Init /\ [][Next]_vars

Solved(k) == kind = k /\ answer # None
---------------------------------------------------------------------------
(* Cards: one for each export that was asked for, in the order of the first *)
(* mention; each judged by the latest snapshot of its own export; and the   *)
(* verdicts are what comparing the scores in pairs says. So no two cards     *)
(* are called best, and none is while another is within the tolerance.       *)
Score(card) == Cards!MetricScore(card.metrics)
Clear(i, k) == Score(answer[i]) - Score(answer[k]) > Cards!Tolerance
Others(i) == DOMAIN answer \ {i}
VerdictHolds(i) ==
  LET verdict == answer[i].verdict
      tied == \E k \in Others(i) : ~Clear(i, k) /\ ~Clear(k, i)
      best == \A k \in Others(i) : Clear(i, k)
      worst == \A k \in Others(i) : Clear(k, i)
  IN IF Score(answer[i]) = 0 THEN verdict = "insufficient"
     ELSE /\ verdict = "tied" <=> tied
          /\ verdict = "top" <=> best
          /\ verdict = "underperforming" <=> worst /\ ~best
JudgedByLatest(card) ==
  LET own == {s \in problem.snapshots : s.export = card.export}
  IN IF own = {} THEN card.metrics = None
     ELSE card.metrics \in own /\ \A s \in own : s.at <= card.metrics.at
OncePerExport ==
  LET position(id) == CHOOSE n \in DOMAIN problem.ids :
                        problem.ids[n] = id /\ \A m \in 1..(n - 1) : problem.ids[m] # id
  IN \A i, k \in DOMAIN answer : i < k =>
       IF problem.ids = <<>> THEN answer[i].export < answer[k].export
       ELSE position(answer[i].export) < position(answer[k].export)
TextRespected(card, e) ==
  /\ e.noText => card.hook = "visual action" /\ (card.text.beats <=> e.beats)
  /\ card.text.warned <=> ~(e.noText \/ e.beats \/ e.sceneBeats)
  /\ card.confidence = "high" => ~card.text.warned
CardsRight ==
  Solved("cards") =>
    LET own == {e \in problem.exports : e.campaign = problem.campaign}
        wanted == IF problem.ids = <<>> THEN {e.id : e \in own} ELSE ToSet(problem.ids)
    IN IF ~(wanted \subseteq {e.id : e \in own}) THEN answer = "refused"
       ELSE /\ {answer[i].export : i \in DOMAIN answer} = wanted
            /\ OncePerExport
            /\ \A i \in DOMAIN answer : VerdictHolds(i) /\ JudgedByLatest(answer[i])
            /\ \A i \in DOMAIN answer, e \in own :
                 e.id = answer[i].export => TextRespected(answer[i], e)

(* Workflow validator: whatever the order in which Python walks the set of  *)
(* a node's dependencies, a workflow is refused for its links exactly when  *)
(* they are broken or go round in a circle, each reported cycle ends in one, *)
(* and the search calls itself at most once per node and per link.           *)
Edge(w, n, m) == w[n].shape = "object" /\ m \in DOMAIN w /\ \E l \in w[n].links : l.to = m
Acyclic(w) ==
  ~\E S \in SUBSET DOMAIN w : S # {} /\ \A n \in S : \E m \in S : Edge(w, n, m)
WellFormed(w) ==
  \A n \in DOMAIN w :
    /\ w[n].shape = "object" /\ w[n].class = "known"
    /\ \A l \in w[n].links : l.index = "ok" /\ l.to \in DOMAIN w
IsWalk(w, path) == \A i \in 1..(Len(path) - 1) : Edge(w, path[i], path[i + 1])
WorkflowJudged ==
  Solved("workflow") =>
    LET w == problem.workflow
        links == {l \in (DOMAIN w) \X (DOMAIN w) : Edge(w, l[1], l[2])}
    IN /\ answer.valid <=> WellFormed(w) /\ Acyclic(w)
       /\ answer.cycles = {} <=> Acyclic(w)
       /\ \A path \in answer.cycles :
            IsWalk(w, path) /\ \E i \in 1..(Len(path) - 1) : path[i] = Last(path)
       /\ answer.calls <= Len(w) + Cardinality(links)

(* A turn: only a reply that is late is asked for again and never more often *)
(* than the settings say; the waits grow up to their cap; only a reply is    *)
(* answered, and every error of the transport has its code, a late reply its *)
(* own; for an unknown profile nothing is sent; what is offered and sent may *)
(* run without an approval, and only to a provider that calls tools. The     *)
(* person's words come last and alone under the person's name, and two turns *)
(* have one fingerprint only when they have the same prompt, unless a text   *)
(* imitates the start of a message. What becomes of a malformed reply is     *)
(* said by ErrorsNormalised.                                                 *)
Unfeigned(prompt) ==
  LET texts == ToSet(prompt.rules) \cup {prompt.objective, prompt.context, prompt.user}
  IN \A text \in texts \ {None} : \A i \in DOMAIN text :
       text[i] # <<>> => Head(text[i]) \notin {"system:", "user:"}
PromptTold(turn, other) ==
  /\ Last(turn.messages).text = problem.prompt.user
  /\ \A i \in DOMAIN turn.messages : turn.messages[i].role = "user:" <=> i = Len(turn.messages)
  /\ Unfeigned(problem.prompt) /\ Unfeigned(problem.other) /\ turn.fingerprint = other.fingerprint
       => turn.messages = other.messages
TurnAnswered ==
  Solved("turn") =>
    LET s == problem.settings
        turn == answer.turn
        allowed == IF s.retries < 0 THEN 1 ELSE s.retries + 1
        tried == {problem.network[k] : k \in 0..(turn.calls - 2)}
        end == problem.network[turn.calls - 1]
    IN \/ problem.profile \notin Profiles /\ turn.calls = 0 /\ turn.code # "answered"
       \/ /\ PromptTold(turn, answer.other)
          /\ IF s.base_url THEN /\ turn.calls \in 1..allowed /\ tried \subseteq {"read timeout"}
                                /\ end = "read timeout" => turn.calls = allowed
             ELSE turn.calls = 1 /\ turn.code = "provider_unavailable"
          /\ Len(turn.slept) = turn.calls - 1
          /\ \A k \in DOMAIN turn.slept :
               /\ turn.slept[k] \in 0..Max({0, s.cap})
               /\ k > 1 => turn.slept[k - 1] <= turn.slept[k]
          /\ turn.code = "answered" => end = "reply"
          /\ s.base_url /\ end # "malformed" =>
               turn.code = CASE end = "reply" -> "answered"
                             [] end = "read timeout" -> "provider_timeout"
                             [] OTHER -> "provider_unavailable"
          /\ turn.offered = turn.sent
          /\ turn.sent # {} => s.tools /\ turn.mode = "native_tool_calling"
          /\ \A t \in turn.sent : problem.class[t] = "read_only"

(* "Provider exceptions must be normalized to structured user-visible        *)
(* errors" (docs/agent-operational-hardening.md:33): once the provider was   *)
(* asked, the turn is answered or fails with a code.                          *)
ErrorsNormalised ==
  Solved("turn") /\ answer.turn.calls > 0 => answer.turn.code # "raw error"

(* The validator and the tool agree on the first text of a video: what is   *)
(* valid, and not an experiment without text, is never advised to add a hook *)
(* and what lacks one always is. The variant to promote scores as well as    *)
(* any, the one to archive no better than any, and a variant is published as *)
(* it is only when nothing is said against any of them. A variant that is    *)
(* not in the storage is refused, whatever the others are, and no variant is *)
(* larger than the one called the largest, nor as large and named before.    *)
Advised(what) == {i \in DOMAIN answer.advice : answer.advice[i].kind = what}
LacksHook(issues) == \E x \in issues : x.code \in {"NO_TEXT_BEATS", "NO_HOOK_TEXT"}
Known(v) == Advice!RankScore(v.metrics)
AdviceAgrees ==
  Solved("advice") =>
    LET v == [i \in DOMAIN problem.ids |-> CHOOSE a \in problem.library : a.id = problem.ids[i]]
        missing == \E i \in DOMAIN problem.ids : \A a \in problem.library : a.id # problem.ids[i]
    IN IF missing \/ answer.refused THEN missing /\ answer.refused
       ELSE
       /\ ~problem.noText =>
            \A i \in DOMAIN v :
              LacksHook(answer.issues[i])
                <=> \E a \in Advised("add hook text") : answer.advice[a].artifacts = <<v[i].id>>
       /\ \A a \in Advised("promote") :
            \E b, c \in DOMAIN v :
              /\ answer.advice[a].artifacts = <<v[b].id, v[c].id>> /\ v[b].id # v[c].id
              /\ \A i \in DOMAIN v :
                   Known(v[i]) # None => Known(v[c]) <= Known(v[i]) /\ Known(v[i]) <= Known(v[b])
       /\ Advised("publish as control") # {} =>
            /\ Len(answer.advice) = 1
            /\ \A i \in DOMAIN v :
                 \E k \in DOMAIN v[i].beats : v[i].beats[k].start <= Advice!HookDeadline
       /\ \E i \in DOMAIN v :
            /\ answer.compared.largest = v[i].id
            /\ \A k \in DOMAIN v : v[k].size <= v[i].size /\ (k < i => v[k].size < v[i].size)

(* Parsing: a video reads the same from its JSON file and from its row, but  *)
(* for views that only the file has; a number of views is exact only when it *)
(* is an integer written out, and an estimate never exceeds what is written  *)
(* nor misses it by more than one; two durations that show the same clock    *)
(* are as long, in whichever notation; and a summary loses a row only to a   *)
(* later row of the same video.                                              *)
Written(cell) == CASE cell[1].mark = "k" -> <<cell[1].n, 1>>
                   [] cell[1].mark = "m" -> <<cell[1].n * 1000, 1>>
                   [] OTHER -> <<cell[1].n, 1000>>
CountFits(count, cell) ==
  IF count.est = None THEN count.views = None
  ELSE /\ 0 <= Written(cell)[1] - count.est * Written(cell)[2]
       /\ Written(cell)[1] - count.est * Written(cell)[2] <= Written(cell)[2]
       /\ IF cell[1].mark = "" /\ cell[1].n % 1000 = 0 THEN count.views = count.est
          ELSE count.views = None
Clock(cell) ==
  LET place(i) == CASE cell[i].mark \in {"h", "h:"} -> 1
                    [] cell[i].mark \in {"m", "m:"} -> 2
                    [] cell[i].mark = ":" -> 4 - Len(cell) + i - 1
                    [] OTHER -> 3
  IN [p \in 1..3 |-> IF \E i \in DOMAIN cell : place(i) = p
                     THEN cell[CHOOSE i \in DOMAIN cell : place(i) = p].n ELSE 0]
ParsingAgrees ==
  Solved("parse") =>
    LET v == problem.video
        views == <<v.kpi_views, v.views, v.views_top>>
        known == {i \in 1..3 : views[i] \notin {None, <<>>}}
    IN /\ [answer.json EXCEPT !.count = answer.row.count] = answer.row
       /\ answer.json.count # answer.row.count => v.kpi_views \in {None, <<>>}
       /\ IF known = {} THEN answer.json.count.est = None
          ELSE CountFits(answer.json.count, views[CHOOSE i \in known : \A k \in known : i <= k])
       /\ answer.row.total_play # None /\ answer.row.avg_watch # None =>
            (Clock(v.total_play) = Clock(v.avg_watch) => answer.row.total_play = answer.row.avg_watch)
       /\ DOMAIN answer.byId = {v.id, problem.next.id}
       /\ v.id # problem.next.id => answer.byId[v.id] = answer.row
       /\ answer.byId[problem.next.id].video_id = problem.next.id
       /\ answer.byId[problem.next.id].snapshot_at = problem.next.snapshot_at.clock

(* Tools: what one of them says can be handed on to another. What is listed  *)
(* can be named by its path, and by its id unless it lies deeper or nearer   *)
(* than namespace and kind. All of them mean the same artifact by the same   *)
(* reference, never one above the root, and a video is one for all of them.  *)
(* Every frame of a video comes with it, none of another namespace, and no    *)
(* listed JSON is lost. The caption and the advice agree on what they say of  *)
(* the opening, tags are never repeated and name the platform, and two ids    *)
(* are the least that is compared.                                            *)
Answered(tool) == answer[tool].code = None
HandedOn(r) ==
  /\ Tools!ResolveArtifact(problem.storage, None, r.id, {}).code = None
  /\ Tools!ResolveArtifact(problem.storage, r.id, None, {}).code = None <=> Len(r.id.dirs) = 2
SameArtifact ==
  LET video == answer.inspect_video
      frames == answer.extract_keyframes
      caption == answer.prepare_caption_pack
  IN /\ caption.code = answer.recommend_next_edit.code
     /\ caption.code # None => video.code \in {caption.code, "invalid_artifact_kind"}
     /\ caption.code = None =>
          /\ \E f \in problem.storage : Tools!Place(f) = caption.artifact.id /\ ToSet(f.dirs) \cap {".."} = {}
          /\ IF caption.artifact.kind # "video" THEN video.code = "invalid_artifact_kind"
             ELSE video.artifact = caption.artifact /\ frames.artifact = caption.artifact
FramesOf(video, frames) ==
  /\ \A r \in frames : r.kind \in {"image", "screenshot"} /\ r.namespace = video.namespace /\ HandedOn(r)
  /\ \A f \in problem.storage :
       (f.dirs = <<video.namespace, "image">> /\ Front(f.stem) = video.id.stem) => Tools!Ref(f) \in frames
NothingLost ==
  LET wanted == Tools!Get(problem.calls.analyze_tiktok_stats, "artifact_id")
      json == {r \in answer.list_artifacts.artifacts : wanted \in {None, r.id}}
      content(r) == (CHOOSE f \in problem.storage : Tools!Place(f) = r.id).content
      stats == answer.analyze_tiktok_stats
  IN IF stats.code = None THEN stats.count + stats.skipped = Cardinality(json)
     ELSE \E r \in json : content(r).shape = "binary"
OpeningAgreed ==
  LET caption == answer.prepare_caption_pack
      advised(what) == \E i \in DOMAIN answer.recommend_next_edit.advice :
                         answer.recommend_next_edit.advice[i].kind = what
  IN /\ caption.hook # "own hook" => (caption.hook = "test the opening" <=> advised("cut a clearer hook"))
     /\ caption.policy # "met" <=> advised("add hook text")
TagsFit(tags, platform) ==
  /\ Len(tags) <= 6 /\ Cardinality(ToSet(tags)) = Len(tags)
  /\ {"contentfactory", CASE platform = "youtube_shorts" -> "shorts"
                          [] platform = "instagram_reels" -> "reels" [] OTHER -> "tiktok"} \subseteq ToSet(tags)
  /\ ToSet(tags) \cap Tools!Skipped = {}
ToolsAnswer ==
  Solved("tools") =>
    LET calls == problem.calls
        asked(tool, key) == Tools!Get(calls[tool], key)
    IN /\ Answered("list_artifacts") => \A r \in answer.list_artifacts.artifacts : HandedOn(r)
       /\ (/\ asked("list_artifacts", "kind") = "json"
           /\ asked("list_artifacts", "namespace") = asked("analyze_tiktok_stats", "namespace"))
          => NothingLost
       /\ (/\ "artifact_ids" \notin DOMAIN calls.recommend_next_edit
           /\ asked("prepare_caption_pack", "platform") \in {None} \cup Tools!Platforms)
          => SameArtifact
       /\ Answered("extract_keyframes") =>
            FramesOf(answer.extract_keyframes.artifact, answer.extract_keyframes.frames)
       /\ Answered("prepare_caption_pack") =>
            /\ TagsFit(answer.prepare_caption_pack.hashtags, asked("prepare_caption_pack", "platform"))
            /\ "artifact_ids" \notin DOMAIN calls.recommend_next_edit => OpeningAgreed
       /\ Answered("compare_variants") =>
            /\ Len(calls.compare_variants.artifact_ids.items) >= 2
            /\ \E i \in DOMAIN calls.compare_variants.artifact_ids.items :
                 calls.compare_variants.artifact_ids.items[i].text = answer.compare_variants.largest

===============================================================================
