------------------------------ MODULE ArtifactTools ------------------------------
(* The read-only tools of the agent over the stored artifacts, with the      *)
(* schemas that their input must fit:                                         *)
(* backend/app/domain/services/agent_tool_registry.py.                        *)
(* A file has the directories it lies in under the artifact root (".." is     *)
(* above it), a stem and a suffix of symbols, a size and a content. A place   *)
(* without the last two is its id and its path. A value of an input has a     *)
(* type and a text (None when blank) or items. Replies are unordered.         *)
EXTENDS Integers, Sequences, FiniteSets, SequencesExt

CONSTANT None

Advice == INSTANCE EditAdvice

AssetKinds == {"image", "video", "audio", "workflow", "screenshot", "prompt", "log", "json"}

(* validate_json_object and _validate_value: a truth value is a number, and  *)
(* is not an integer.                                                         *)
Instances(type) == IF type = "number" THEN {"integer", "float", "boolean"} ELSE {type}
Fits(value, schema) ==
  /\ value.type \in Instances(schema.type)
  /\ schema.type = "array" =>
       /\ Len(value.items) >= schema.min
       /\ \A i \in DOMAIN value.items : value.items[i].type \in Instances(schema.item)
  /\ schema.enum # {} => value.text \in schema.enum
Accepts(input, schema) ==
  /\ schema.required \subseteq DOMAIN input
  /\ \A key \in DOMAIN input :
       key \in DOMAIN schema.properties /\ Fits(input[key], schema.properties[key])

String == [type |-> "string", enum |-> {}]
OneOf(texts) == [type |-> "string", enum |-> texts]
Strings(min) == [type |-> "array", item |-> "string", min |-> min, enum |-> {}]
Schema(required, properties) == [required |-> required, properties |-> properties]
Reference == [artifact_id |-> String, path |-> String]
Platforms == {"tiktok", "youtube_shorts", "instagram_reels"}
InputSchema ==
  [list_artifacts |-> Schema({}, [namespace |-> String, kind |-> OneOf(AssetKinds)]),
   inspect_video |-> Schema({}, Reference),
   extract_keyframes |-> Schema({}, Reference),
   analyze_tiktok_stats |-> Schema({}, [namespace |-> String, artifact_id |-> String]),
   compare_variants |-> Schema({"artifact_ids"}, [artifact_ids |-> Strings(2)]),
   prepare_caption_pack |->
     Schema({}, [artifact_id |-> String, path |-> String, campaign |-> String, episode_title |-> String,
                 objective |-> String, platform |-> OneOf(Platforms)]),
   recommend_next_edit |->
     Schema({}, [artifact_id |-> String, path |-> String, artifact_ids |-> Strings(1), objective |-> String])]

Get(input, key) == IF key \in DOMAIN input THEN input[key].text ELSE None
FirstGiven(texts) ==
  LET given == {i \in DOMAIN texts : texts[i] # None}
  IN texts[CHOOSE i \in given : \A k \in given : i <= k]
Failure(code) == [code |-> code]
Raised == Failure("tool_execution_failed")

(* _safe_artifact_path and _safe_namespace_path. *)
Safe(dirs) == dirs = <<>> \/ dirs[1] # ".."

Place(file) == [dirs |-> file.dirs, stem |-> file.stem, ext |-> file.ext]
(* _ref_for_path: the first two parts of the path, whatever was asked for. A *)
(* file nearer to the root has a name in their place, which is no kind.       *)
Ref(file) ==
  [id |-> Place(file), namespace |-> IF file.dirs = <<>> THEN None ELSE file.dirs[1],
   kind |-> IF Len(file.dirs) < 2 THEN None ELSE file.dirs[2]]

(* A sidecar's name is its artifact's with .metadata.json after it. *)
IsSidecar(file) == Last(file.stem) = "metadata" /\ file.ext = "json"
SidecarPlace(file) ==
  [dirs |-> file.dirs, stem |-> file.stem \o <<file.ext, "metadata">>, ext |-> "json"]

(* _iter_artifacts: a namespace may be several directories deep, or none.    *)
IterArtifacts(storage, namespace, kind) ==
  {f \in storage :
     /\ ~IsSidecar(f) /\ Safe(f.dirs)
     /\ IF namespace = None THEN Len(f.dirs) = 2
        ELSE Safe(namespace) /\ Len(f.dirs) = Len(namespace) + 1 /\ IsPrefix(namespace, f.dirs)
     /\ kind # None => Last(f.dirs) = kind}

(* _read_json and _read_json_sidecar: what is absent, malformed or no object *)
(* is an empty object; what is not text raises.                               *)
Empty ==
  [shape |-> "empty", hook |-> FALSE, beats |-> <<>>, campaign |-> None, title |-> None,
   metrics |-> [retention_rate |-> None, first_2s_retention |-> None, first_two_second_retention |-> None]]
Sidecar(storage, file) ==
  LET beside == {f \in storage : Place(f) = SidecarPlace(file)}
  IN IF beside = {} THEN Empty ELSE (CHOOSE f \in beside : TRUE).content
Unreadable(content) == content.shape = "binary"

(* _resolve_artifact: an id counts before a path, and is looked for in the   *)
(* whole listing; a path may name a sidecar.                                  *)
ResolveArtifact(storage, id, path, allowed) ==
  LET found == IF id # None THEN {f \in IterArtifacts(storage, None, None) : Place(f) = id}
               ELSE {f \in storage : Place(f) = path /\ Safe(f.dirs)}
      file == CHOOSE f \in found : TRUE
  IN IF id = None /\ path = None THEN Failure("missing_artifact_ref")
     ELSE IF found = {} THEN Failure("artifact_not_found")
     ELSE IF allowed # {} /\ Ref(file).kind \notin allowed THEN Failure("invalid_artifact_kind")
     ELSE [code |-> None, file |-> file]
Resolve(storage, input, allowed) ==
  ResolveArtifact(storage, Get(input, "artifact_id"), Get(input, "path"), allowed)

(* What a tool replies about one artifact and its sidecar. *)
Reply(storage, found, reply(_, _)) ==
  IF found.code # None THEN found
  ELSE LET content == Sidecar(storage, found.file)
       IN IF Unreadable(content) THEN Raised ELSE reply(found.file, content)

ListArtifacts(storage, input) ==
  [code |-> None,
   artifacts |-> {Ref(f) : f \in IterArtifacts(storage, Get(input, "namespace"), Get(input, "kind"))}]

InspectVideo(storage, input) ==
  Reply(storage, Resolve(storage, input, {"video"}),
        LAMBDA file, content :
          [code |-> None, artifact |-> Ref(file), warned |-> content.shape = "empty"])

(* Frames are known by the stem of their video. *)
ExtractKeyframes(storage, input) ==
  LET found == Resolve(storage, input, {"video"})
      of(kind) == IterArtifacts(storage, <<found.file.dirs[1]>>, kind)
      frames == {f \in of("image") \cup of("screenshot") : IsPrefix(found.file.stem, f.stem)}
  IN IF found.code # None THEN found
     ELSE [code |-> None, artifact |-> Ref(found.file), frames |-> {Ref(f) : f \in frames}]

(* An id that is not there leaves nothing to analyse. *)
AnalyzeTiktokStats(storage, input) ==
  LET id == Get(input, "artifact_id")
      refs == {f \in IterArtifacts(storage, Get(input, "namespace"), "json") : id # None => Place(f) = id}
      of(shape) == {f \in refs : f.content.shape = shape}
  IN IF of("binary") # {} THEN Raised
     ELSE [code |-> None, count |-> Cardinality(of("object")), skipped |-> Cardinality(of("empty"))]

(* A file as the advice of EditAdvice sees it. *)
Variant(storage, file) ==
  [id |-> Place(file), size |-> file.size, beats |-> Sidecar(storage, file).beats,
   metrics |-> Sidecar(storage, file).metrics]

(* compare_variants resolves an artifact and reads its sidecar before it     *)
(* goes on to the next one.                                                   *)
CompareVariants(storage, input) ==
  LET items == input["artifact_ids"].items
      found == [i \in DOMAIN items |-> ResolveArtifact(storage, items[i].text, None, {})]
      ends(i) == found[i].code # None \/ Unreadable(Sidecar(storage, found[i].file))
      last == {i \in DOMAIN found : ends(i) /\ \A k \in 1..(i - 1) : ~ends(k)}
  IN IF last = {}
     THEN [code |-> None] @@ Advice!CompareVariants([i \in DOMAIN found |-> Variant(storage, found[i].file)])
     ELSE LET i == CHOOSE n \in last : TRUE IN IF found[i].code # None THEN found[i] ELSE Raised

(* recommend_next_edit resolves all of them first. *)
RecommendNextEdit(storage, input) ==
  LET items == IF "artifact_ids" \in DOMAIN input THEN input["artifact_ids"].items ELSE <<>>
      found == IF items = <<>> THEN <<Resolve(storage, input, {})>>
               ELSE [i \in DOMAIN items |-> ResolveArtifact(storage, items[i].text, None, {})]
      failed == SelectSeq(found, LAMBDA f : f.code # None)
  IN IF failed # <<>> THEN Head(failed)
     ELSE IF \E i \in DOMAIN found : Unreadable(Sidecar(storage, found[i].file)) THEN Raised
     ELSE [code |-> None,
           advice |-> Advice!RecommendNextEdit([i \in DOMAIN found |-> Variant(storage, found[i].file)])]

(* _hashtags_for: the first four different words that are long enough and no *)
(* stop words, then the platform's own tags.                                  *)
Skipped == {"of", "the", "and", "for", "with"}
Hashtags(words, platform) ==
  LET tag(tags, word) ==
        IF Len(tags) >= 4 \/ word \in Skipped \cup ToSet(tags) THEN tags ELSE Append(tags, word)
      default(tags, word) == IF word \in ToSet(tags) THEN tags ELSE Append(tags, word)
      own == CASE platform = "youtube_shorts" -> "shorts"
               [] platform = "instagram_reels" -> "reels" [] OTHER -> "tiktok"
  IN FoldLeft(default, FoldLeft(tag, <<>>, words), <<own, "contentfactory">>)

(* Mutant: the overall retention is looked at first. *)
CaptionHookOverall(content) ==
  LET retention == Advice!RankScore(content.metrics)
  IN IF content.hook THEN "own hook"
     ELSE IF retention # None /\ retention < 45 THEN "test the opening" ELSE "ready"

(* _caption_hook. *)
CaptionHook(content) ==
  LET retention == Advice!RetentionSignal(content.metrics)
  IN IF content.hook THEN "own hook"
     ELSE IF retention # None /\ retention < 45 THEN "test the opening" ELSE "ready"

(* _text_beat_policy_note. *)
PolicyNote(content) ==
  LET start == Advice!FirstTextStart(content.beats)
  IN IF start = None THEN "no text" ELSE IF start > 3 THEN "late" ELSE "met"

PrepareCaptionPack(storage, input) ==
  Reply(storage, Resolve(storage, input, {}),
        LAMBDA file, content :
          LET title == FirstGiven(<<Get(input, "episode_title"), content.title, file.stem>>)
              area == IF file.dirs = <<>> THEN Append(file.stem, file.ext) ELSE <<file.dirs[1]>>
              campaign == FirstGiven(<<Get(input, "campaign"), content.campaign, area>>)
          IN [code |-> None, artifact |-> Ref(file), hook |-> CaptionHook(content),
              policy |-> PolicyNote(content), retention |-> Advice!RetentionSignal(content.metrics),
              hashtags |-> Hashtags(campaign \o title, Get(input, "platform")),
              warned |-> content.shape = "empty"])

(* A call as the registry makes it, when no timeout cuts it short. *)
Call(storage, tool, input) ==
  IF ~Accepts(input, InputSchema[tool]) THEN Failure("invalid_tool_input")
  ELSE CASE tool = "list_artifacts" -> ListArtifacts(storage, input)
         [] tool = "inspect_video" -> InspectVideo(storage, input)
         [] tool = "extract_keyframes" -> ExtractKeyframes(storage, input)
         [] tool = "analyze_tiktok_stats" -> AnalyzeTiktokStats(storage, input)
         [] tool = "compare_variants" -> CompareVariants(storage, input)
         [] tool = "prepare_caption_pack" -> PrepareCaptionPack(storage, input)
         [] tool = "recommend_next_edit" -> RecommendNextEdit(storage, input)

================================================================================
