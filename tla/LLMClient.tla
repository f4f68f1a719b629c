------------------------------ MODULE LLMClient ------------------------------
(***************************************************************************)
(* One conversation held through LLM clients (llm/client.ts): the pipeline *)
(* of complete() and structuredComplete(), what it decides about server    *)
(* side state (llm/server-state.ts), the notes it leaves about options it  *)
(* did not send, the emulated moderation, the response shape checker; and  *)
(* streamed steps, whose message the agent loop stamps.                    *)
(*                                                                         *)
(* A message is who said it and, for an assistant, who served it.  The     *)
(* provider is external: it answers, fails, and keeps for LcRetention      *)
(* ticks what a stateful response knew.                                    *)
(***************************************************************************)
EXTENDS Integers, Sequences, FiniteSets, SequencesExt

CONSTANTS
  LcServers,    \* what a call may be served by: [provider, model, api]
  LcBound,      \* providers whose state is bound to the model
  LcRetention,  \* ticks a provider keeps state
  LcTurns,      \* bound: calls of the conversation
  LcClock,      \* bound: ticks
  LcRepairs     \* structured.repairAttempts

ASSUME LcAssumption ==
  /\ \A s \in LcServers : s.api \in {"responses", "interactions", "messages", "completions", "generate"}
  /\ {LcRetention, LcTurns, LcClock, LcRepairs} \subseteq Nat

VARIABLES
  lcHist,      \* the conversation, as the caller keeps it
  lcCall,      \* the call under way
  lcKept,      \* what providers keep: id |-> [of, born, knows]
  lcIds,       \* ids given out, by providers and by the SDK
  lcNow,       \* Date.now()
  lcTurns,     \* calls made
  lcTold,      \* onCompletion emitted, by all calls
  lcReported   \* ResponseShapeChecker.reported

lcVars == <<lcHist, lcCall, lcKept, lcIds, lcNow, lcTurns, lcTold, lcReported>>

LcNone == [by |-> "none", n |-> 0]   \* no id

(* The messages of a conversation (llm/types/messages.ts).                 *)
LcUser == [role |-> "user"]
LcStatefulApi(api) == api \in {"responses", "interactions"}

(* buildAssistantMessage: the id becomes server state on a stateful API.   *)
LcBuildAssistant(server, id) ==
  [role |-> "assistant", server |-> server, born |-> lcNow,
   state |-> IF LcStatefulApi(server.api) THEN id ELSE LcNone]

(* extractSystem and normalizeInput: a system message is no turn.          *)
LcExtractSystem(msgs) == SelectSeq(msgs, LAMBDA m : m.role # "system")

LcFresh(by) == [by |-> by, n |-> Cardinality(lcIds) + 1]

-----------------------------------------------------------------------------
(* Server side state.                                                      *)

(* supportsPreviousResponseId, getStateRetention, isStateModelBound.       *)
LcSupports(server) == LcStatefulApi(server.api)
LcExpired(m) == lcNow - m.born > LcRetention
LcModelMatches(m, server) ==
  server.provider \in LcBound => m.server.model = server.model

LcAnchors(msgs) == {i \in DOMAIN msgs : msgs[i].role = "assistant" /\ msgs[i].state # LcNone}

LcAnyModel(m, server) ==
  /\ m.server.provider = server.provider /\ LcSupports(server)
  /\ ~LcExpired(m)

LcContinuable(m, server) ==
  /\ m.server.provider = server.provider /\ LcSupports(server)
  /\ ~LcExpired(m) /\ LcModelMatches(m, server)

(* resolveServerState: only the last anchor is looked at.                  *)
LcResolveServerState(msgs, server) ==
  LET whole == [prev |-> LcNone, msgs |-> msgs]
      last == CHOOSE i \in LcAnchors(msgs) : \A j \in LcAnchors(msgs) : j <= i
      rest == SubSeq(msgs, last + 1, Len(msgs))
  IN  IF LcAnchors(msgs) = {} THEN whole
      ELSE IF LcContinuable(msgs[last], server) /\ rest # <<>>
           THEN [prev |-> msgs[last].state, msgs |-> rest]
           ELSE whole

-----------------------------------------------------------------------------
(* What the request may not carry, and the notes that say so.              *)

LcSampling == {"temperature", "topP", "topK"}

(* wouldLimitSamplingPair, limitSamplingPair.                              *)
LcPairFires(provider, asked) == provider = "anthropic" /\ {"temperature", "topP"} \subseteq asked
LcLimitPair(provider, asked) == IF LcPairFires(provider, asked) THEN asked \ {"topP"} ELSE asked

(* The pair note is left only if the temperature it speaks of was sent.    *)
LcPairApplied(provider, asked, body) ==
  LcPairFires(provider, asked) /\ "temperature" \in body

(* noteDroppedSampling looks for the options at the top of the body.       *)
LcDropped(asked, body) == {o \in asked : o \notin body}

(* The notes of a request whose spec accepts `accepted`: options named.    *)
LcNotes(provider, asked, accepted) ==
  LET body == LcLimitPair(provider, asked) \cap accepted
      paired == LcPairApplied(provider, asked, body)
  IN  LcDropped(IF paired THEN asked \ {"topP"} ELSE asked, body)
        \cup (IF paired THEN {"topP"} ELSE {})

(* limitThinking and limitBetweenTools: the modes a model does not take.   *)
LcLimitThinking(mode, canDisable, betweenTools) ==
  mode \in (IF betweenTools THEN {} ELSE {"between_tools"}) \cup (IF canDisable THEN {} ELSE {"off"})

(* noteUnsupportedCacheDiagnostics: asked for and no field for it.         *)
LcCacheNote(asked, takes) == asked /\ ~takes

(* reportBuildNotes: all that is warned about.                             *)
LcBuildNotes(provider, asked, accepted, think, cache) ==
  LcNotes(provider, asked, accepted)
    \cup (IF LcLimitThinking(think.mode, think.canDisable, think.betweenTools) THEN {"thinking"} ELSE {})
    \cup (IF LcCacheNote(cache.asked, cache.takes) THEN {"cacheDiagnostics"} ELSE {})

(* checkShape: what the response shows against what is declared.           *)
LcFindings(seen, known, expected) ==
  {<<"new", p>> : p \in seen \ known} \cup {<<"gone", p>> : p \in expected \ seen}

-----------------------------------------------------------------------------

LcIdle == [at |-> "idle"]

LcTypeOK ==
  /\ \A i \in DOMAIN lcHist : lcHist[i].role \in {"user", "assistant", "system"}
  /\ lcCall.at \in {"idle", "resolving", "building", "submitting", "sending", "answered", "returned", "streaming"}
  /\ lcTurns \in 0 .. LcTurns /\ lcNow \in 0 .. LcClock
  /\ \A i \in lcIds : i.by \in {"provider", "sdk"} /\ i.n \in Nat
  /\ \A k \in lcKept : k.id \in lcIds /\ k.knows \in Seq(Nat)

LcInit ==
  /\ lcHist = <<>> /\ lcCall = LcIdle /\ lcKept = {} /\ lcIds = {} /\ lcNow = 0
  /\ lcTurns = 0 /\ lcTold = 0 /\ lcReported = {}

(* A caller says something and asks for an answer, whole or streamed.      *)
LcAsk(server, kind) ==
  /\ lcCall.at = "idle" /\ lcTurns < LcTurns
  /\ lcHist' = Append(lcHist, LcUser)
  /\ lcTurns' = lcTurns + 1
  /\ lcCall' = [at |-> "resolving", server |-> server, kind |-> kind, repairs |-> 0]
  /\ UNCHANGED <<lcKept, lcIds, lcNow, lcTold, lcReported>>

(* onMessageResolve, awaited: a handler may abort the call.                *)
LcResolve(aborted) ==
  /\ lcCall.at = "resolving"
  /\ lcCall' = IF aborted THEN LcIdle ELSE [lcCall EXCEPT !.at = "building"]
  /\ UNCHANGED <<lcHist, lcKept, lcIds, lcNow, lcTurns, lcTold, lcReported>>

(* The request is built: a stream never continues from server state, and   *)
(* its request is sent at once; complete() submits it first.               *)
LcBuild ==
  /\ lcCall.at = "building"
  /\ LET msgs == LcExtractSystem(lcHist)
         req == IF lcCall.kind = "stream" THEN [prev |-> LcNone, msgs |-> msgs]
                ELSE LcResolveServerState(msgs, lcCall.server)
     IN  lcCall' = [at |-> IF lcCall.kind = "stream" THEN "streaming" ELSE "submitting",
                    server |-> lcCall.server, kind |-> lcCall.kind, repairs |-> lcCall.repairs,
                    req |-> req, sentAt |-> Len(lcHist)]
  /\ UNCHANGED <<lcHist, lcKept, lcIds, lcNow, lcTurns, lcTold, lcReported>>

(* onBeforeSubmit; then the moderation key is looked for, and the call     *)
(* fails without it although a handler may have intercepted the request.   *)
LcSubmit(keyed) ==
  /\ lcCall.at = "submitting"
  /\ lcCall' = IF keyed THEN [lcCall EXCEPT !.at = "sending"] ELSE LcIdle
  /\ UNCHANGED <<lcHist, lcKept, lcIds, lcNow, lcTurns, lcTold, lcReported>>

(* The provider's side of an answer: what it knew, and its new id.         *)
LcKnown(id) ==
  IF \E k \in lcKept : k.id = id THEN (CHOOSE k \in lcKept : k.id = id).knows ELSE <<>>

LcNumbers(from, to) == [i \in 1 .. to - from + 1 |-> from + i - 1]

LcToldOf(req, upto) == LcKnown(req.prev) \o LcNumbers(upto - Len(req.msgs) + 1, upto)

(* The response, or the result a handler promised; the shape is checked.   *)
(* A provider refuses to continue from an id it does not hold.             *)
LcAnswer(seen, known, expected) ==
  /\ lcCall.at = "sending"
  /\ lcCall.req.prev # LcNone => \E k \in lcKept : k.id = lcCall.req.prev
  /\ LET id == LcFresh("provider")
     IN  /\ lcIds' = lcIds \cup {id}
         /\ lcKept' = IF LcStatefulApi(lcCall.server.api)
                      THEN lcKept \cup {[id |-> id, server |-> lcCall.server, born |-> lcNow,
                                         knows |-> Append(LcToldOf(lcCall.req, lcCall.sentAt), lcCall.sentAt + 1)]}
                      ELSE lcKept
         /\ lcCall' = [lcCall EXCEPT !.at = "answered"] @@ [id |-> id]
  /\ lcReported' = lcReported \cup LcFindings(seen, known, expected)
  /\ UNCHANGED <<lcHist, lcNow, lcTurns, lcTold>>

(* The request fails, or a stream breaks or is left: no onCompletion.      *)
LcFail ==
  /\ lcCall.at \in {"sending", "streaming"}
  /\ lcCall' = LcIdle
  /\ UNCHANGED <<lcHist, lcKept, lcIds, lcNow, lcTurns, lcTold, lcReported>>

(* Moderation entries, onCompletion, and complete() returns.               *)
LcComplete ==
  /\ lcCall.at = "answered"
  /\ lcTold' = lcTold + 1
  /\ lcCall' = [lcCall EXCEPT !.at = "returned"]
  /\ UNCHANGED <<lcHist, lcKept, lcIds, lcNow, lcTurns, lcReported>>

(* The caller appends the message, stamped with who served it.             *)
LcKeep ==
  /\ lcCall.at = "returned"
  /\ lcHist' = Append(lcHist, LcBuildAssistant(lcCall.server, lcCall.id))
  /\ lcCall' = LcIdle
  /\ UNCHANGED <<lcKept, lcIds, lcNow, lcTurns, lcTold, lcReported>>

(* structuredComplete: the reply does not parse and is sent back, as a     *)
(* message nobody stamped, with a word about it.                           *)
LcRepair ==
  /\ lcCall.at = "returned" /\ lcCall.kind = "structured" /\ lcCall.repairs < LcRepairs
  /\ lcHist' = lcHist \o <<LcBuildAssistant(lcCall.server, LcNone), LcUser>>
  /\ lcCall' = [at |-> "resolving", server |-> lcCall.server, kind |-> "structured",
                repairs |-> lcCall.repairs + 1]
  /\ UNCHANGED <<lcKept, lcIds, lcNow, lcTurns, lcTold, lcReported>>

(* A stream ends: onCompletion, and the message is stamped with an id the  *)
(* SDK makes up (loop-internals.ts buildStepResponse).                     *)
LcStreamEnds ==
  /\ lcCall.at = "streaming"
  /\ lcIds' = lcIds \cup {LcFresh("sdk")}
  /\ lcTold' = lcTold + 1
  /\ lcHist' = Append(lcHist, LcBuildAssistant(lcCall.server, LcFresh("sdk")))
  /\ lcCall' = LcIdle
  /\ UNCHANGED <<lcKept, lcNow, lcTurns, lcReported>>

(* Time passes between calls: they are short beside the retention.         *)
LcTick ==
  /\ lcNow < LcClock /\ lcCall.at = "idle"
  /\ lcNow' = lcNow + 1
  /\ lcKept' = {k \in lcKept : lcNow' - k.born <= LcRetention}
  /\ UNCHANGED <<lcHist, lcCall, lcIds, lcTurns, lcTold, lcReported>>

LcNext ==
  \/ \E s \in LcServers, k \in {"complete", "structured", "stream"} : LcAsk(s, k)
  \/ \E b \in BOOLEAN : LcResolve(b) \/ LcSubmit(b)
  \/ LcBuild \/ LcFail \/ LcComplete \/ LcKeep \/ LcRepair \/ LcStreamEnds \/ LcTick
  \/ \E seen \in {{"id", "new"}, {"new"}} : LcAnswer(seen, {"id", "usage"}, {"id"})

LcSpec == LcInit /\ [][LcNext]_lcVars

-----------------------------------------------------------------------------

(* The provider is told the whole conversation, once and in order: what it *)
(* kept under the id the request continues from, and the messages sent.    *)
(* It was kept by the same provider, for the same model where state is     *)
(* bound to it, and has not expired.                                       *)
LcIssued(id) == id # LcNone /\ id.by = "provider"

LcToldEverything ==
  lcCall.at \in {"submitting", "sending"} =>
    \/ lcCall.req.prev # LcNone /\ ~LcIssued(lcCall.req.prev)
    \/ /\ LcToldOf(lcCall.req, lcCall.sentAt) = LcNumbers(1, lcCall.sentAt)
       /\ lcCall.req.prev # LcNone =>
            \E k \in lcKept : /\ k.id = lcCall.req.prev
                              /\ k.server.provider = lcCall.server.provider
                              /\ lcCall.server.provider \in LcBound => k.server.model = lcCall.server.model

(* Every answer of a provider, a repaired one too, is told to the hooks    *)
(* that account for it, once.                                              *)
LcAnswersAccounted == lcCall.at # "answered" => lcTold = Cardinality(lcIds)

(* Every option that was asked for and not sent is named in a note, and    *)
(* none that was sent at the top of the body.                              *)
LcNoSilentDrop ==
  \A provider \in {"anthropic", "openai"}, asked, accepted \in SUBSET LcSampling,
     think \in [mode : {"off", "between_tools", "on"}, canDisable : BOOLEAN, betweenTools : BOOLEAN],
     cache \in [asked : BOOLEAN, takes : BOOLEAN] :
    LET notes == LcBuildNotes(provider, asked, accepted, think, cache)
    IN  /\ asked \ (LcLimitPair(provider, asked) \cap accepted) \subseteq notes
        /\ notes \cap (LcLimitPair(provider, asked) \cap accepted) = {}
        /\ cache.asked => (cache.takes \/ "cacheDiagnostics" \in notes)

(* The id a request continues from is one that a provider gave out         *)
(* (messages.ts: "Server-side conversation id for stateful continuation    *)
(* (interaction_id / response_id)").                                       *)
LcStateIdsAreIssued ==
  lcCall.at \in {"submitting", "sending"} => (lcCall.req.prev = LcNone \/ LcIssued(lcCall.req.prev))
=============================================================================
