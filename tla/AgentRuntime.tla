------------------------------ MODULE AgentRuntime ------------------------------
(* One turn of the agent: the prompt, the tools that are offered, and the    *)
(* request to the provider with its retries.                                 *)
(* backend/app/domain/services/agent_llm_runtime.py, agent_prompt_registry.py *)
(* and backend/app/providers/llm/.                                           *)
(* A turn keeps no state, so it is a function of the settings, of what it is  *)
(* about and of what the network does at each attempt.                        *)
(* A text is a sequence of lines, a line a sequence of words; None is blank.  *)
EXTENDS Integers, Sequences, SequencesExt, FiniteSetsExt

CONSTANTS
  None,
  Profiles \* the keys of AgentPromptRegistry's profiles

NoTools == {}

(* LLMCapabilities.response_mode, which names the fallback mode. *)
ResponseMode(settings) ==
  CASE settings.tools -> "native_tool_calling"
    [] ~settings.tools /\ settings.structured -> "structured_json_proposals"
    [] OTHER -> "advisor_only"

(* llm_tool_specs: what a model may call without an approval. *)
ToolSpecs(class) == {t \in DOMAIN class : class[t] = "read_only"}

Titled(title, text) == <<<<title>> \o Head(text)>> \o Tail(text)
Supplied(title, text) == IF text = None THEN <<<<title, "none supplied.">>>> ELSE Titled(title, text)
ProjectRules(rules) ==
  IF rules = <<>> THEN <<<<"Project rules: none supplied.">>>>
  ELSE <<<<"Project rules:">>>> \o FlattenSeq([i \in DOMAIN rules |-> Titled("-", rules[i])])

(* assemble, for a profile that is known. *)
Assemble(prompt, profile) ==
  LET system(text) == [role |-> "system:", text |-> text]
  IN <<system(<<<<"Global safety:">>>>), system(<<<<"Factory Agent:">>>>), system(<<<<profile>>>>),
       system(ProjectRules(prompt.rules)),
       system(Supplied("Experiment objective:", prompt.objective)),
       system(Supplied("Compact runtime context:", prompt.context)),
       [role |-> "user:", text |-> prompt.user]>>

(* _fingerprint: what is hashed, taking the hash to be without collisions.   *)
Fingerprint(messages, profile, mode) ==
  <<<<"profile=", profile>>, <<"mode=", mode>>>>
    \o FlattenSeq([i \in DOMAIN messages |-> Titled(messages[i].role, messages[i].text)])

(* UrlLibOpenAICompatibleTransport: it returns a reply, or a "malformed" one  *)
(* whose shape OpenAICompatibleProvider does not expect, or raises. A timeout *)
(* while connecting or sending is a URLError.                                 *)
Transport(settings, event) ==
  CASE ~settings.base_url -> "provider error"
    [] settings.base_url /\ event = "read timeout" -> "timeout"
    [] settings.base_url /\ event \in {"connect timeout", "http error", "no object"} -> "provider error"
    [] settings.base_url /\ event = "no JSON" -> "other error"
    [] OTHER -> event

MaxRetries(settings) == Max({0, settings.retries})

(* _retry_backoff_seconds: the base times a power of the multiplier. *)
Backoff(settings, attempt) ==
  LET growth[k \in 0..attempt] ==
        IF k = 0 THEN Max({0, settings.base}) ELSE growth[k - 1] * Max({1, settings.multiplier})
  IN Min({growth[attempt], Max({0, settings.cap})})

(* Mutant: any error is tried again. *)
RetriesErrors(settings, outcome, attempt) ==
  outcome \in {"timeout", "provider error"} /\ attempt < MaxRetries(settings)

(* Whether create_response makes another attempt after this one. *)
Retries(settings, outcome, attempt) ==
  outcome = "timeout" /\ attempt < MaxRetries(settings)

(* The attempt, counted from 0, that create_response ends with. *)
LastAttempt(settings, outcomes) ==
  Min({k \in 0..MaxRetries(settings) : ~Retries(settings, outcomes[k], k)})

(* create_response and _payload, for a request without vision, as all those *)
(* of respond are: how the request ends, the requests that                   *)
(* were sent, the seconds slept between them, and the tools in each.         *)
CreateResponse(settings, tools, outcomes) ==
  LET last == LastAttempt(settings, outcomes)
      ends == [reply |-> "response", malformed |-> "raw error", timeout |-> "LLMProviderTimeout"]
      end == outcomes[last]
  IN [end |-> IF end \in DOMAIN ends THEN ends[end] ELSE "LLMProviderError",
      calls |-> last + 1,
      slept |-> [k \in 1..last |-> Backoff(settings, k - 1)],
      sent |-> IF settings.tools THEN tools ELSE NoTools]

(* respond: an unknown profile is a ValueError before anything is sent, and  *)
(* only the provider's two errors are answered in a structured way.          *)
Respond(settings, class, profile, prompt, network) ==
  LET mode == ResponseMode(settings)
      messages == Assemble(prompt, profile)
      offered == IF mode = "native_tool_calling" THEN ToolSpecs(class) ELSE NoTools
      response == CreateResponse(settings, offered,
                                 [k \in DOMAIN network |-> Transport(settings, network[k])])
      codes == [response |-> "answered", LLMProviderTimeout |-> "provider_timeout",
                LLMProviderError |-> "provider_unavailable"]
  IN IF profile \notin Profiles
     THEN [code |-> "raw error", mode |-> mode, calls |-> 0, slept |-> <<>>, messages |-> <<>>,
           sent |-> NoTools, offered |-> NoTools, fingerprint |-> <<>>]
     ELSE [code |-> IF response.end \in DOMAIN codes THEN codes[response.end] ELSE "raw error",
           mode |-> mode, calls |-> response.calls, slept |-> response.slept, messages |-> messages,
           sent |-> response.sent, offered |-> offered, fingerprint |-> Fingerprint(messages, profile, mode)]

===============================================================================
