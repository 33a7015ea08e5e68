----------------------------- MODULE MCContentRules -----------------------------
(* Bounded inputs of the pure functions. *)
EXTENDS ContentRules, FiniteSetsExt, TLC

(* Three exports, one of which may be of another campaign; each with one of  *)
(* several histories of snapshots, whose scores are equal, within the         *)
(* tolerance, opposite or apart.                                              *)
Snap(e, id, at, watch, full) ==
  [export |-> e, campaign |-> "c1", id |-> id, at |-> at, watch |-> watch, full |-> full]
Histories(e) ==
  {{}, {Snap(e, e, 1, 0, None)}, {Snap(e, e, 1, 1, 4)}, {Snap(e, e, 1, 6, None)},
   {Snap(e, e, 1, 9, 0)}, {Snap(e, e, 1, 3, -3)}, {Snap(e, e, 1, None, -4)},
   {Snap(e, e, 2, 4, 3), Snap(e, e + 3, 1, 9, 9)}}
Texts == [beats : BOOLEAN, noText : BOOLEAN, sceneBeats : BOOLEAN]
Text == [beats |-> TRUE, noText |-> FALSE, sceneBeats |-> FALSE]
ExportOf(id, campaign, text) == [id |-> id, campaign |-> campaign] @@ text
MCCardProblems ==
  {[exports |-> {ExportOf(1, "c1", Text), ExportOf(2, "c1", text), ExportOf(3, campaign, Text)},
    snapshots |-> h1 \cup h2 \cup h3, campaign |-> "c1", ids |-> ids] :
     text \in Texts, campaign \in {"c1", "c2"},
     h1 \in Histories(1), h2 \in Histories(2), h3 \in Histories(3),
     ids \in {<<>>, <<2>>, <<2, 1, 2>>, <<3, 2, 1>>}}

(* Every graph of three nodes with every order of the dependencies; a link   *)
(* to no node, a bad index and malformed nodes on one of them.               *)
Object(class, links) == [shape |-> "object", class |-> class, links |-> links]
Links(targets) == {[to |-> t, index |-> "ok"] : t \in targets}
Orders == UNION {SetToSeqs(S) : S \in SUBSET (1..3)}
Depending(order) == Object("known", Links(ToSet(order)))
Thirds ==
  {[node |-> Depending(order), order |-> order] : order \in Orders}
    \cup {[node |-> Object(c, {[to |-> t, index |-> x]}), order |-> IF t = 1 THEN <<1>> ELSE <<>>] :
             c \in {"known", "unknown", "missing"}, t \in {1, 4}, x \in {"ok", "bad"}}
    \cup {[node |-> [shape |-> s, class |-> "known", links |-> {}], order |-> <<>>] :
             s \in {"no object", "bad inputs"}}
MCWorkflowProblems ==
  {[workflow |-> <<Depending(o1), Depending(o2), third.node>>, order |-> <<o1, o2, third.order>>] :
     o1 \in Orders, o2 \in Orders, third \in Thirds}

(* All settings of the waits, all that the network can do three times, and   *)
(* pairs of prompts, some of whose texts look like messages.                  *)
Settings(retries, base, multiplier, cap, tools, structured, url) ==
  [retries |-> retries, base |-> base, multiplier |-> multiplier, cap |-> cap,
   tools |-> tools, structured |-> structured, base_url |-> url]
LineA == <<<<"a">>>>
LineB == <<<<"b">>>>
Imitation == <<<<"a">>, <<"user:", "b">>>>
Bulleted == <<<<"a">>, <<"-", "b">>>>
Prompt(rules, objective, context, user) ==
  [rules |-> rules, objective |-> objective, context |-> context, user |-> user]
Prompts ==
  {Prompt(rules, objective, context, user) :
     rules \in {<<>>, <<LineA, LineB>>, <<Bulleted>>}, objective \in {None, LineA},
     context \in {None, LineA, Imitation}, user \in {LineB, <<<<"b">>, <<"user:", "b">>>>}}
Turn(settings, profile, prompt, other, network) ==
  [settings |-> settings, class |-> [inspect |-> "read_only", render |-> "expensive"],
   profile |-> profile, prompt |-> prompt, other |-> other, network |-> network]
AnyPrompt == Prompt(<<>>, None, None, LineB)
Tries(events) ==
  UNION {{[retries |-> n, network |-> network] : network \in [0..Max({0, n}) -> events]} : n \in {-1, 1, 2}}
MCTurnProblems ==
  {Turn(Settings(try.retries, base, multiplier, cap, TRUE, TRUE, TRUE), "strategist", AnyPrompt, AnyPrompt,
        try.network) :
     base \in {-1, 1, 2}, multiplier \in {0, 2}, cap \in {-1, 0, 3},
     try \in Tries({"reply", "read timeout", "http error"})}
    \cup
  {Turn(Settings(try.retries, 1, 2, 3, tools, structured, url), profile, AnyPrompt, AnyPrompt, try.network) :
     tools \in BOOLEAN, structured \in BOOLEAN, url \in BOOLEAN, profile \in {"strategist", "nobody"},
     try \in Tries(NetworkEvents)}
    \cup
  {Turn(Settings(1, 1, 2, 3, TRUE, TRUE, TRUE), "strategist", prompt, other, [k \in 0..1 |-> "reply"]) :
     prompt \in Prompts, other \in Prompts}

Beats(start, end, inside) == [start |-> start, end |-> end, inside |-> inside]
BeatLists ==
  {<<>>, <<Beats(3, 5, TRUE)>>, <<Beats(4, 5, TRUE)>>, <<Beats(0, 0, FALSE)>>,
   <<Beats(9, 12, TRUE), Beats(0, 3, TRUE)>>}
Metrics(rate, first) ==
  [retention_rate |-> rate, first_2s_retention |-> first, first_two_second_retention |-> None]
MetricSets == {Metrics(None, None), Metrics(44, None), Metrics(45, 90), Metrics(None, 60)}
Variant(n, b, m) == [id |-> n, beats |-> b, metrics |-> m, size |-> Len(b)]
Variants(n) == {Variant(n, b, m) : b \in BeatLists, m \in MetricSets}
Plain(n) == {Variant(n, <<>>, m) : m \in MetricSets}
Asked(library, ids, noText) == [library |-> library, ids |-> ids, noText |-> noText]
MCAdviceProblems ==
  {Asked({v}, <<"a">>, n) : v \in Variants("a"), n \in BOOLEAN}
    \cup {Asked({v, w}, ids, FALSE) :
            v \in Variants("a"), w \in Variants("b"),
            ids \in {<<"a", "b">>, <<"b", "a">>, <<"a", "a">>, <<"a", "c">>}}
    \cup {Asked({u, v, w}, <<"a", "b", "c">>, FALSE) :
            u \in Plain("a"), v \in Plain("b"), w \in Plain("c")}

(* Views with and without suffix and fraction, durations in every notation,  *)
(* among them equal ones, times with and without an offset.                   *)
Part(n, mark) == [n |-> n, mark |-> mark]
Garbled == <<Part(0, "?")>>
Counts ==
  {None, <<>>, Garbled, <<Part(7000, "")>>, <<Part(7500, "")>>, <<Part(2010, "k")>>,
   <<Part(8000, "m")>>, <<Part(8200, "m")>>, <<Part(9000, "k"), Part(1000, "")>>}
Durations ==
  {None, <<>>, Garbled, <<Part(90000, "")>>, <<Part(90000, "s")>>, <<Part(1000, "m"), Part(30000, "s")>>,
   <<Part(1000, ":"), Part(30000, "")>>, <<Part(1000, "m:"), Part(30000, "")>>,
   <<Part(1000, "h"), Part(30000, "")>>, <<Part(1000, ":"), Part(0, ":"), Part(30000, "")>>,
   <<Part(30000, "s"), Part(1000, "m")>>, <<Part(1500, "h:")>>, <<Part(1500, ":"), Part(0, "")>>,
   <<Part(1000, ":"), Part(100000, "")>>, <<Part(1000, "k")>>}
Time(clock, offset) == [iso |-> TRUE, clock |-> clock, offset |-> offset]
TimeCells == {None, <<>>, Time(60, None), Time(60, 60), [iso |-> FALSE, clock |-> 0, offset |-> None]}
Video(id, kpi, views, top, total, avg, scraped) ==
  [id |-> id, kpi_views |-> kpi, views |-> views, views_top |-> top, total_play |-> total,
   avg_watch |-> avg, full_watch |-> <<Part(41500, "%")>>, scraped_at |-> scraped,
   snapshot_at |-> Time(30, None)]
NextRow(id) == Video(id, None, None, None, None, None, None)
Parsed(video, next, short) == [video |-> video, next |-> next, short |-> short]
MCParseProblems ==
  {Parsed(Video("v1", kpi, views, top, None, None, scraped), NextRow(id), short) :
     kpi \in Counts, views \in Counts, top \in Counts, scraped \in TimeCells,
     id \in {"v1", "v2"}, short \in BOOLEAN}
    \cup {Parsed(Video("v1", None, None, None, total, avg, None), NextRow("v2"), FALSE) :
            total \in Durations, avg \in Durations}

(* A storage with a video and its sidecar, another video whose name begins   *)
(* like the first one's, frames of both, statistics, and files that lie       *)
(* deeper, nearer and above.                                                  *)
File(dirs, stem, ext, content) == [dirs |-> dirs, stem |-> stem, ext |-> ext, size |-> Len(stem), content |-> content]
Bare == Tools!Empty
Binary == [shape |-> "binary"]
Notes(hook, beats, rate, first, campaign, title) ==
  [shape |-> "object", hook |-> hook, beats |-> beats, metrics |-> Metrics(rate, first),
   campaign |-> campaign, title |-> title]
Cut1 == File(<<"c", "video">>, <<"cut", "1">>, "mp4", Bare)
Cut10 == File(<<"c", "video">>, <<"cut", "1", "0">>, "mp4", Bare)
Side(content) == File(<<"c", "video">>, <<"cut", "1", "mp4", "metadata">>, "json", content)
Frame1 == File(<<"c", "image">>, <<"cut", "1", "f">>, "png", Bare)
Frame10 == File(<<"c", "screenshot">>, <<"cut", "1", "0", "f">>, "png", Bare)
Elsewhere == File(<<"d", "image">>, <<"cut", "1", "f">>, "png", Bare)
Stats(n, content) == File(<<"c", "json">>, <<"stats", n>>, "json", content)
Deep == File(<<"c", "d", "video">>, <<"cut", "1">>, "mp4", Bare)
Near == File(<<"video">>, <<"cut", "1">>, "mp4", Bare)
AtRoot == File(<<>>, <<"cut", "1">>, "mp4", Bare)
Above == File(<<"..", "video">>, <<"cut", "1">>, "mp4", Bare)
Media == {Cut1, Cut10, Frame1, Frame10, Elsewhere, Deep, Near, AtRoot, Above}
SideContents ==
  {Notes(hook, beats, rate, first, None, None) :
     hook \in BOOLEAN, beats \in {<<>>, <<Beats(3, 5, TRUE)>>, <<Beats(4, 5, TRUE)>>},
     rate \in {None, 44}, first \in {None, 44, 45}}
    \cup {Notes(FALSE, <<>>, None, None, <<"tiktok", "of">>, title) : title \in {None, <<"reveal", "one">>}}
StatsContents == {Bare, Binary, Notes(FALSE, <<>>, 44, None, None, None)}
Asking(text) == [type |-> "string", text |-> text]
Named(id, path) ==
  IF id = None THEN (IF path = None THEN <<>> ELSE [path |-> Asking(path)])
  ELSE IF path = None THEN [artifact_id |-> Asking(id)]
  ELSE [artifact_id |-> Asking(id), path |-> Asking(path)]
Items(ids) == [type |-> "array", items |-> [i \in DOMAIN ids |-> Asking(ids[i])]]
Calls(listed, stats, reference, caption, compared, edit) ==
  [list_artifacts |-> listed, inspect_video |-> reference, extract_keyframes |-> reference,
   analyze_tiktok_stats |-> stats, compare_variants |-> compared, prepare_caption_pack |-> caption,
   recommend_next_edit |-> edit]
Place(f) == Tools!Place(f)
Places == {Place(f) : f \in Media \cup {Side(Bare), Stats("1", Bare)}}
Missing == [Place(Cut1) EXCEPT !.ext = "png"]
References ==
  {Named(id, None) : id \in Places} \cup {Named(None, path) : path \in Places}
    \cup {Named(None, None), Named(Place(Cut1), Place(Frame1)), Named(Missing, Place(Cut1)),
          [artifact_id |-> [type |-> "integer"]], [artifact_id |-> Asking(None), path |-> Asking(Place(Cut10))],
          [path |-> Asking(Missing)], [file |-> Asking(Place(Cut1))]}
One == Named(Place(Cut1), None)
JustListed == [kind |-> Asking("video")]
Pair(a, b) == [artifact_ids |-> Items(<<Place(a), Place(b)>>)]
MCToolProblems ==
  {[storage |-> Media \cup side, calls |-> Calls(JustListed, <<>>, r, r, Pair(Cut1, Cut10), r)] :
     side \in {{}, {Side(Bare)}, {Side(Binary)}} \cup {{Side(c)} : c \in SideContents}, r \in References}
    \cup
  {[storage |-> Media \cup {Stats("1", s1), Stats("2", s2), Side(Bare)},
    calls |-> Calls(namespace @@ only, namespace @@ id, One, One, Pair(Cut1, Cut10), One)] :
     s1 \in StatsContents, s2 \in StatsContents,
     namespace \in {<<>>} \cup {[namespace |-> Asking(n)] : n \in {None, <<"c">>, <<"e">>, <<"c", "d">>, <<>>, <<"..">>}},
     only \in {<<>>} \cup {[kind |-> Asking(k)] : k \in {"video", "json", "frames"}},
     id \in {<<>>} \cup {[artifact_id |-> Asking(p)] : p \in {Place(Stats("1", Bare)), Missing}}}
    \cup
  {[storage |-> Media \cup {Side(content)},
    calls |-> Calls(JustListed, <<>>, One, One @@ more, ids, edit)] :
     content \in {Bare, Binary, Notes(FALSE, <<>>, None, 60, None, None)},
     more \in {[campaign |-> Asking(w), platform |-> Asking(p)] :
                 w \in {<<"tiktok", "of", "tiktok", "reels">>, <<"a1b", "b2c", "c3d", "d4e", "e5f">>, <<"contentfactory">>},
                 p \in {"tiktok", "instagram_reels", "vimeo"}},
     ids \in {Pair(Cut1, Cut10), Pair(Cut10, Cut1), Pair(Near, Cut1), Pair(Cut1, Near), <<>>,
              [artifact_ids |-> Items(<<Place(Cut1)>>)], [artifact_ids |-> Asking(Place(Cut1))]},
     edit \in {One, Pair(Cut1, Cut10), Pair(Cut1, Near), [artifact_ids |-> Items(<<>>)]}}

===============================================================================
