----------------------------- MODULE MCLlmCalls -----------------------------
(***************************************************************************)
(* The path of an LLM call on small instances: the batcher, the client,    *)
(* the wire interpreter and the adapters that build a request, the stream  *)
(* assembly and the moderation that turn the answer into events, the       *)
(* context guard and registry, and the providers' batch jobs.  No two of   *)
(* these share state here: a behaviour takes the steps of the part on turn *)
(* and leaves the others as they start.                                    *)
(***************************************************************************)
EXTENDS MCBatcher, MCLLMClient, ModeratedStream, MCWire, StreamAssembly,
        ContextGuard, ContextRegistry, Adapters, BatchJobs

VARIABLE turn

(* Turns with media before and after text, a media part and text in a      *)
(* tool's result, and two calls in one turn.                               *)
LmText(v) == AdPart("text", v, "none", "none", <<>>)
LmMedia(t, v, s) == AdPart(t, v, "none", s, <<>>)
LmCall(i, n) == AdPart("tool_call", i, n, "none", <<>>)
LmUserTurns ==
  {<<LmText(1)>>, <<LmMedia("image", 2, "base64"), LmText(1), LmMedia("document", 3, "base64")>>,
   <<LmMedia("audio", 4, "base64"), LmMedia("image", 2, "provider_ref"), LmText(1)>>}
LmAssistantTurns ==
  {<<LmText(5)>>,
   <<AdPart("text", 5, "commentary", "none", <<>>), AdPart("text", 6, "final", "none", <<>>), LmCall(11, "f"), LmCall(12, "g")>>,
   <<AdPart("program_call", 7, "none", "none", <<>>), LmCall(13, "h"), AdPart("program_result", 7, "none", "none", <<>>)>>}
LmResultBodies ==
  {<<LmText(8)>>, <<LmMedia("image", 9, "base64"), LmText(8)>>, <<LmMedia("image", 9, "url"), LmMedia("document", 10, "base64")>>}

(* One job per provider, with and without ids of the caller's, and one     *)
(* that is refused.                                                        *)
LmJob(i, p, v, ids) == [id |-> i, provider |-> p, via |-> v, ids |-> ids]
LmJobs ==
  {LmJob("openai", "openai", "helper", <<"x", "none">>), LmJob("google", "google", "helper", <<"y", "x">>),
   LmJob("refused", "xai", "helper", <<"x">>), LmJob("anthropic", "anthropic", "helper", <<"x", "none">>),
   LmJob("xai", "xai", "plugin", <<"y", "x">>)}

LlmParts == {"batcher", "client", "moderation", "wire", "stream", "guard", "registry", "adapters"}
LlmTurns == LlmParts \cup {j.id : j \in BjJobs}

(* A part that is not on turn starts in one state only.                    *)
LmAnswer == CHOOSE answer \in SaAnswers("messages") : Len(answer) = 1
LmRequest == CHOOSE request \in WiRequests : TRUE
LlmInit ==
  /\ turn \in LlmTurns
  /\ IF turn = "guard" THEN TRUE ELSE cgStrategy = "off"
  /\ IF turn = "stream" THEN TRUE ELSE saApi = "messages" /\ saAnswer = LmAnswer /\ saFinish = "stop"
  /\ IF turn = "moderation" THEN TRUE ELSE mdStrategy = "post" /\ mdRaw = [i \in 1 .. MdLength |-> "t"]
  /\ IF turn = "wire" THEN TRUE ELSE wiSpec = "openai/chat-completions" /\ wiFlavor = "openai" /\ wiReq = LmRequest
  /\ Init /\ LcInit /\ CgInit /\ CrInit /\ AdInit /\ BjInit /\ SaInit /\ MdInit /\ WiInit

LlmNext ==
  /\ \/ turn = "batcher" /\ Next /\ UNCHANGED <<lcVars, mdVars, wiVars, saVars, cgVars, crVars, adVars, bjVars>>
     \/ turn = "client" /\ LcNext /\ UNCHANGED <<vars, mdVars, wiVars, saVars, cgVars, crVars, adVars, bjVars>>
     \/ turn = "moderation" /\ MdNext /\ UNCHANGED <<vars, lcVars, wiVars, saVars, cgVars, crVars, adVars, bjVars>>
     \/ turn = "wire" /\ WiNext /\ UNCHANGED <<vars, lcVars, mdVars, saVars, cgVars, crVars, adVars, bjVars>>
     \/ turn = "stream" /\ SaNext /\ UNCHANGED <<vars, lcVars, mdVars, wiVars, cgVars, crVars, adVars, bjVars>>
     \/ turn = "guard" /\ CgNext_ /\ UNCHANGED <<vars, lcVars, mdVars, wiVars, saVars, crVars, adVars, bjVars>>
     \/ turn = "registry" /\ CrNext /\ UNCHANGED <<vars, lcVars, mdVars, wiVars, saVars, cgVars, adVars, bjVars>>
     \/ turn = "adapters" /\ AdNext /\ UNCHANGED <<vars, lcVars, mdVars, wiVars, saVars, cgVars, crVars, bjVars>>
     \/ /\ \E j \in BjJobs : turn = j.id /\ BjJobNext(j)
        /\ UNCHANGED <<vars, lcVars, mdVars, wiVars, saVars, cgVars, crVars, adVars>>
  /\ UNCHANGED turn

(* Fairness is the batcher's.                                              *)
LlmVars == <<turn, vars, lcVars, mdVars, wiVars, saVars, cgVars, crVars, adVars, bjVars>>
LlmSpec == LlmInit /\ [][LlmNext]_LlmVars /\ Fairness

-----------------------------------------------------------------------------
(* Every variable of the parts of a call keeps its type.                   *)
LlmTypeOK ==
  /\ turn \in LlmTurns
  /\ turn = "batcher" => TypeOK
  /\ turn = "client" => LcTypeOK
  /\ turn = "moderation" => MdTypeOK
  /\ turn = "wire" => WiTypeOK
  /\ turn = "stream" => SaTypeOK
  /\ turn = "guard" => CgTypeOK
  /\ turn = "registry" => CrTypeOK
  /\ turn = "adapters" => AdTypeOK
  /\ turn \notin LlmParts => BjTypeOK

(* A call of the client tells its provider the whole conversation, by what *)
(* the provider keeps and what is sent; every answer is told once to the   *)
(* hooks that account for it; and every option that is not sent is noted   *)
(* (client.ts complete, server-state.ts).                                  *)
CallsAreWhole == turn = "client" => LcToldEverything /\ LcAnswersAccounted /\ LcNoSilentDrop

(* A request body is what its spec and its adapter say: the last rule that *)
(* writes a path wins and a child inherits what it does not change         *)
(* (interpreter.ts, registry.ts), and a tool call, its result, text and    *)
(* images of the history arrive paired, named and in order (the adapters). *)
RequestsFaithful ==
  /\ turn = "wire" => WiFaithful
  /\ turn = "adapters" => AdFaithful

(* An answer reaches the caller as the provider gave it, whether streamed  *)
(* in pieces (stream registries, loop-internals.ts), moderated on the way  *)
(* (runner.ts) or read from a batch job (the providers' batch.ts), and     *)
(* whoever waits for one waits for a batch on record (batcher.ts).         *)
AnswersFaithful ==
  /\ turn = "batcher" => ResolversBelongToJobs
  /\ turn = "stream" => SaFaithful
  /\ turn = "moderation" => MdFaithful
  /\ turn \notin LlmParts => BjFaithful

(* The context that is sent is the history's: the guard's cuts keep a call *)
(* with its result and the estimate in step with the entries (guard.ts,    *)
(* history.ts), and the registry renders the nearest layer of each name    *)
(* and tells each subscriber once (registry.ts).                           *)
ContextFaithful ==
  /\ turn = "guard" => CgFaithful
  /\ turn = "registry" => CrFaithful
=============================================================================
