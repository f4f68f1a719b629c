---------------------------- MODULE StreamAssembly ----------------------------
(***************************************************************************)
(* A model's answer, streamed and assembled, and the same answer parsed    *)
(* whole: the stream registries (llm/providers/*/*stream-registry.ts) turn *)
(* wire events into StreamEvents, accumulateStreamEvent and                *)
(* buildStepResponse (agent/loop-internals.ts) turn those into a step, and *)
(* the response registries read the buffered answer.                       *)
(*                                                                         *)
(* An answer is a sequence of items.  The n-th piece of what item i says   *)
(* (text, thought, arguments, code) is <<i, n>>: arguments parse when all  *)
(* their pieces are there, in order.                                       *)
(***************************************************************************)
EXTENDS Integers, Sequences, FiniteSets, SequencesExt, Functions

CONSTANTS
  SaApis,     \* a subset of SaKinds' domain
  SaLength    \* bound: items of an answer, at most 3

SaKinds ==
  [completions  |-> {"text", "thinking", "call", "audio"},
   responses    |-> {"text", "commentary", "thinking", "call", "run", "ran", "image"},
   messages     |-> {"text", "thinking", "call", "run", "ran"},
   generate     |-> {"text", "thinking", "call", "run", "ran", "inline"},
   interactions |-> {"text", "thinking", "call"}]

SaPieces == 2   \* bound: pieces of an item

ASSUME SaAssumption == SaApis \subseteq DOMAIN SaKinds /\ SaLength \in 1 .. 3

VARIABLES
  saApi, saAnswer,
  saFinish,    \* the finish reason the provider gives
  saSent,      \* item |-> "no", the pieces sent, or "all"
  saOut,       \* the registry's own state (StreamOut)
  saStep,      \* StepState
  saTold,      \* builtin_tool_end and media events, as the consumer saw them
  saPhase      \* "streaming" | "cut" | "built"

saVars == <<saApi, saAnswer, saFinish, saSent, saOut, saStep, saTold, saPhase>>

(* An item: its kind, its id ("" where the wire has none), its pieces, and *)
(* for a result the run it belongs to.                                     *)
SaItem(k, id, n, of) == [k |-> k, id |-> id, n |-> n, of |-> of]
SaName == <<"a", "b", "c">>
SaFresh == <<"g1", "g2", "g3">>   \* crypto.randomUUID()

SaItems(api, i) ==
  {SaItem(k, SaName[i], SaPieces, 0) : k \in SaKinds[api] \ {"call", "ran"}}
  \cup {SaItem("call", id, n, 0) : id \in {SaName[i]} \cup (IF api = "messages" THEN {} ELSE {""}), n \in {0, SaPieces}}
  \cup {SaItem("ran", "", 1, r) : r \in IF "ran" \in SaKinds[api] THEN 1 .. i - 1 ELSE {}}

(* Results follow their runs, one for one; only messages interleaves them. *)
SaSensible(api, answer) ==
  /\ \A i \in DOMAIN answer : answer[i].k = "ran" =>
       /\ answer[answer[i].of].k = "run"
       /\ \A j \in DOMAIN answer : answer[j].k = "ran" /\ answer[j].of = answer[i].of => j = i
       /\ api # "messages" => answer[i].of = i - 1
  /\ api \in {"generate", "responses"} =>
       \A i \in DOMAIN answer : answer[i].k = "run" => i < Len(answer) /\ answer[i + 1].k = "ran"
  /\ api = "completions" => Cardinality({i \in DOMAIN answer : answer[i].k = "audio"}) <= 1

SaAnswers(api) ==
  {answer \in UNION {[1 .. n -> UNION {SaItems(api, i) : i \in 1 .. n}] : n \in 1 .. SaLength} :
     (\A i \in DOMAIN answer : answer[i] \in SaItems(api, i)) /\ SaSensible(api, answer)}

SaAll(i, it) == [n \in 1 .. it.n |-> <<i, n>>]

-----------------------------------------------------------------------------
(* The registries.  Each takes its state, what arrives ("open", "piece" or *)
(* "close" of item i) and the item, and gives its state and the events.    *)

SaOutInit ==
  [current |-> 0, json |-> <<>>, pending |-> <<>>, ids |-> <<>>, audioOpen |-> FALSE, phase |-> <<>>,
   shell |-> 0, codeExec |-> FALSE, code |-> 0, callId |-> ""]

SaEv(t, id, v) == [t |-> t, id |-> id, v |-> v]
SaNone(out) == [out |-> out, events |-> <<>>]
SaGives(out, events) == [out |-> out, events |-> events]

(* Completions: the id comes with the first fragment and is kept by index. *)
SaCompletions(out, w, i, it, n) ==
  LET id == IF i \in DOMAIN out.ids THEN out.ids[i] ELSE IF it.id # "" THEN it.id ELSE SaFresh[i]
      kept == [out EXCEPT !.ids = (i :> id) @@ @]
  IN  CASE it.k \in {"text", "thinking"} /\ w = "piece" -> SaGives(out, <<SaEv(it.k, "", <<i, n>>)>>)
        [] it.k = "call" /\ w = "open" -> SaGives(kept, <<SaEv("start", id, <<i, 0>>)>>)
        [] it.k = "call" /\ w = "piece" -> SaGives(kept, <<SaEv("delta", id, <<i, n>>)>>)
        [] it.k = "audio" /\ w = "piece" ->
             SaGives([out EXCEPT !.audioOpen = TRUE],
                     (IF out.audioOpen THEN <<>> ELSE <<SaEv("media_start", "", <<i, 0>>)>>)
                       \o <<SaEv("media_chunk", "", <<i, n>>)>>)
        [] it.k = "audio" /\ w = "close" /\ out.audioOpen ->
             SaGives([out EXCEPT !.audioOpen = FALSE], <<SaEv("media_end", "", <<i, 0>>), SaEv("done", "stop", <<i, 0>>)>>)
        [] OTHER -> SaNone(out)

(* Responses: deltas name no call, and the commands of a shell call wait   *)
(* for the item of its output.                                             *)
SaResponses(out, w, i, it, n) ==
  CASE it.k \in {"text", "commentary"} /\ w = "open" ->
         SaNone([out EXCEPT !.phase = (IF it.k = "commentary" THEN i :> "commentary" ELSE <<>>) @@ @])
    [] it.k \in {"text", "commentary"} /\ w = "piece" ->
         SaGives(out, <<SaEv(IF i \in DOMAIN out.phase THEN out.phase[i] ELSE "text", "", <<i, n>>)>>)
    [] it.k = "call" /\ w = "open" -> SaGives(out, <<SaEv("start", it.id, <<i, 0>>)>>)
    [] it.k = "call" /\ w = "piece" -> SaGives(out, <<SaEv("delta", "", <<i, n>>)>>)
    [] it.k = "call" /\ w = "close" -> SaGives(out, <<SaEv("end", it.id, <<i, 0>>)>>)
    [] it.k = "run" /\ w = "close" -> SaNone([out EXCEPT !.shell = i])
    [] it.k = "ran" /\ w = "close" -> SaGives([out EXCEPT !.shell = 0], <<SaEv("builtin_end", "", <<out.shell, i>>)>>)
    [] it.k = "image" /\ w = "open" -> SaGives(out, <<SaEv("media_start", "", <<i, 0>>)>>)
    [] it.k = "image" /\ w = "piece" -> SaGives(out, <<SaEv("media_chunk", "", <<i, n>>)>>)
    [] it.k = "image" /\ w = "close" -> SaGives(out, <<SaEv("media_end", "", <<i, 0>>)>>)
    [] it.k = "thinking" /\ w = "close" -> SaGives(out, [j \in 1 .. it.n |-> SaEv("thinking", "", <<i, j>>)])
    [] OTHER -> SaNone(out)

(* Messages: JSON fragments feed the open server tool, if there is one, or *)
(* are the arguments of the last call.                                     *)
SaJsonDelta(out, i, n) ==
  IF out.current # 0 THEN SaNone([out EXCEPT !.json = Append(@, <<i, n>>)])
  ELSE SaGives(out, <<SaEv("delta", "", <<i, n>>)>>)

SaBlockStart(out, i, it) ==
  CASE it.k = "call" -> SaGives([out EXCEPT !.current = 0], <<SaEv("start", it.id, <<i, 0>>)>>)
    [] it.k = "run" -> SaNone([out EXCEPT !.current = i, !.json = <<>>])
    [] it.k = "ran" -> SaGives([out EXCEPT !.pending = Restrict(@, DOMAIN @ \ {it.of})],
                               <<SaEv("builtin_end", "", <<IF it.of \in DOMAIN out.pending THEN out.pending[it.of] ELSE 0, i>>)>>)
    [] OTHER -> SaNone(out)

(* The input of a server tool is whole when its block stops.               *)
SaBlockStop(out) ==
  IF out.current = 0 THEN SaNone(out)
  ELSE SaNone([out EXCEPT !.pending = (out.current :> IF Len(out.json) = SaPieces THEN out.json[1][1] ELSE 0) @@ @,
                          !.current = 0])

SaMessages(out, w, i, it, n) ==
  CASE w = "open" -> SaBlockStart(out, i, it)
    [] w = "close" -> SaBlockStop(out)
    [] w = "piece" /\ it.k \in {"text", "thinking"} -> SaGives(out, <<SaEv(it.k, "", <<i, n>>)>>)
    [] w = "piece" /\ it.k \in {"call", "run"} -> SaJsonDelta(out, i, n)
    [] OTHER -> SaNone(out)

(* Generate: a part comes whole, and is dealt with when it opens.          *)
SaGenerate(out, w, i, it, n) ==
  LET pieces(t) == [j \in 1 .. it.n |-> SaEv(t, it.id, <<i, j>>)]
      latched == [out EXCEPT !.codeExec = @ \/ it.k \in {"run", "ran"}]
  IN  CASE w # "open" -> SaNone(out)
        [] it.k \in {"text", "thinking"} -> SaGives(latched, pieces(it.k))
        [] it.k = "call" -> SaGives(latched, <<SaEv("start", it.id, <<i, 0>>)>> \o pieces("delta") \o <<SaEv("end", it.id, <<i, 0>>)>>)
        [] it.k = "run" -> SaNone([latched EXCEPT !.code = i])
        [] it.k = "ran" -> SaGives([latched EXCEPT !.code = 0], <<SaEv("builtin_end", "", <<out.code, i>>)>>)
        [] it.k = "inline" /\ out.codeExec -> SaGives(latched, <<SaEv("file", "", <<i, 0>>)>>)
        [] it.k = "inline" /\ ~out.codeExec ->
             SaGives(latched, <<SaEv("media_start", "", <<i, 0>>)>> \o pieces("media_chunk") \o <<SaEv("media_end", "", <<i, 0>>)>>)

(* Interactions: the open call is remembered; closing one without an id is *)
(* not noticed.                                                            *)
SaInteractions(out, w, i, it, n) ==
  CASE it.k \in {"text", "thinking"} /\ w = "piece" -> SaGives(out, <<SaEv(it.k, "", <<i, n>>)>>)
    [] it.k = "call" /\ w = "open" -> SaGives([out EXCEPT !.callId = it.id], <<SaEv("start", it.id, <<i, 0>>)>>)
    [] it.k = "call" /\ w = "piece" -> SaGives(out, <<SaEv("delta", out.callId, <<i, n>>)>>)
    [] w = "close" /\ out.callId # "" -> SaGives([out EXCEPT !.callId = ""], <<SaEv("end", out.callId, <<i, 0>>)>>)
    [] OTHER -> SaNone(out)

SaRegistry(out, w, i, n) ==
  LET it == saAnswer[i]
  IN  CASE saApi = "completions" -> SaCompletions(out, w, i, it, n)
        [] saApi = "responses" -> SaResponses(out, w, i, it, n)
        [] saApi = "messages" -> SaMessages(out, w, i, it, n)
        [] saApi = "generate" -> SaGenerate(out, w, i, it, n)
        [] saApi = "interactions" -> SaInteractions(out, w, i, it, n)

-----------------------------------------------------------------------------
(* The accumulator.                                                        *)

SaStepInit ==
  [text |-> <<>>, commentary |-> <<>>, thinking |-> <<>>, calls |-> <<>>, accum |-> <<>>, finish |-> "stop"]

(* accumFor: the call of that id, or the last one started; 0 is none.      *)
SaLastCall(accum, id) == Len(accum)
SaAccumFor(accum, id) ==
  LET named == {x \in DOMAIN accum : id # "" /\ accum[x].id = id}
  IN  IF named # {} THEN CHOOSE x \in named : TRUE ELSE Len(accum)

(* parseAccumEntry: no arguments are no arguments; a part of them is       *)
(* malformed.                                                              *)
SaParse(acc) ==
  LET i == acc.item
      whole == acc.args = SaAll(i, saAnswer[i])
  IN  [id |-> acc.id, item |-> i, args |-> IF whole THEN acc.args ELSE <<>>, malformed |-> acc.args # <<>> /\ ~whole]

SaHasCall(calls, id) == \E x \in DOMAIN calls : calls[x].id = id

(* Starting a call of an id that is there replaces it where it stands.     *)
SaStart(accum, e) ==
  LET new == [id |-> e.id, item |-> e.v[1], args |-> <<>>]
      same == {x \in DOMAIN accum : accum[x].id = e.id}
  IN  IF same # {} THEN [accum EXCEPT ![CHOOSE x \in same : TRUE] = new] ELSE Append(accum, new)

SaAccumulate(step, e) ==
  LET x == SaAccumFor(step.accum, e.id)
  IN  CASE e.t \in {"text", "commentary", "thinking"} -> [step EXCEPT ![e.t] = Append(@, e.v)]
        [] e.t = "start" -> [step EXCEPT !.accum = SaStart(@, e)]
        [] e.t = "delta" /\ x # 0 -> [step EXCEPT !.accum[x].args = Append(@, e.v)]
        [] e.t = "end" /\ x # 0 /\ ~SaHasCall(step.calls, step.accum[x].id) ->
             [step EXCEPT !.calls = Append(@, SaParse(step.accum[x]))]
        [] e.t = "done" -> [step EXCEPT !.finish = e.id]
        [] OTHER -> step

(* finalizeUnendedToolCalls, in the order the calls started.               *)
SaFinalize(step) ==
  [step EXCEPT !.calls = FoldLeft(LAMBDA acc, a : IF SaHasCall(acc, a.id) THEN acc ELSE Append(acc, SaParse(a)), @, step.accum)]

(* buildStepResponse's finish reason.                                      *)
SaEffectiveFinish(step) ==
  IF \E x \in DOMAIN step.calls : step.calls[x].malformed THEN "malformed_tool_call"
  ELSE IF step.calls # <<>> THEN "tool_use" ELSE "stop"

-----------------------------------------------------------------------------

SaTypeOK ==
  /\ saApi \in SaApis /\ saPhase \in {"streaming", "cut", "built"}
  /\ saSent \in [DOMAIN saAnswer -> {"no", "all"} \cup {"0", "1", "2"}]
  /\ \A x \in DOMAIN saStep.calls : saStep.calls[x].malformed \in BOOLEAN
  /\ saStep.finish \in {"stop", "length", "tool_use", "malformed_tool_call"}

SaInit ==
  /\ saApi \in SaApis /\ saAnswer \in SaAnswers(saApi) /\ saFinish \in {"stop", "length"}
  /\ saSent = [i \in DOMAIN saAnswer |-> "no"]
  /\ saOut = SaOutInit /\ saStep = SaStepInit /\ saTold = <<>> /\ saPhase = "streaming"

(* createStreamBuilder: one wire event, its events accumulated in order.   *)
SaFeed(w, i, n) ==
  LET r == SaRegistry(saOut, w, i, n)
  IN  /\ saOut' = r.out
      /\ saStep' = FoldLeft(SaAccumulate, saStep, r.events)
      /\ saTold' = saTold \o SelectSeq(r.events, LAMBDA e : e.t \in {"builtin_end", "media_start", "media_chunk", "media_end", "file"})
      /\ UNCHANGED <<saApi, saAnswer, saFinish, saPhase>>

SaCount == <<"0", "1", "2">>

(* Items come one after the other; completions may interleave its calls.   *)
SaOpen(i) ==
  /\ saPhase = "streaming" /\ saSent[i] = "no"
  /\ \A j \in 1 .. i - 1 : 
       saSent[j] = "all" \/ (saApi = "completions" /\ saAnswer[j].k = "call" /\ saSent[j] # "no")
  /\ saSent' = [saSent EXCEPT ![i] = IF saApi = "generate" THEN "all" ELSE "0"]
  /\ SaFeed("open", i, 0)

SaPiece(i) ==
  /\ saPhase = "streaming"
  /\ \E n \in 1 .. saAnswer[i].n :
       /\ saSent[i] = SaCount[n] /\ saSent' = [saSent EXCEPT ![i] = SaCount[n + 1]]
       /\ SaFeed("piece", i, n)

SaClose(i) ==
  /\ saPhase = "streaming" /\ saSent[i] = SaCount[saAnswer[i].n + 1]
  /\ saSent' = [saSent EXCEPT ![i] = "all"]
  /\ SaFeed("close", i, 0)

(* The stream ends, with everything said or in the middle of it.           *)
SaEnd(cut) ==
  /\ saPhase = "streaming"
  /\ cut <=> \E i \in DOMAIN saAnswer : saSent[i] # "all"
  /\ saStep' = LET ended == IF saApi = "interactions" /\ saOut.callId # "" /\ ~cut
                            THEN SaAccumulate(saStep, SaEv("end", saOut.callId, <<0, 0>>)) ELSE saStep
                   done == IF cut THEN ended ELSE SaAccumulate(ended, SaEv("done", saFinish, <<0, 0>>))
               IN  [SaFinalize(done) EXCEPT !.finish = SaEffectiveFinish(SaFinalize(done))]
  /\ saPhase' = IF cut THEN "cut" ELSE "built"
  /\ UNCHANGED <<saApi, saAnswer, saFinish, saSent, saOut, saTold>>

SaNext ==
  \/ \E i \in DOMAIN saAnswer : SaOpen(i) \/ SaPiece(i) \/ SaClose(i)
  \/ \E cut \in BOOLEAN : SaEnd(cut)

SaSpec == SaInit /\ [][SaNext]_saVars

-----------------------------------------------------------------------------
(* The buffered answer: buildResponse over the response registries.        *)

SaOfKind(ks) == SelectSeq([i \in DOMAIN saAnswer |-> i], LAMBDA i : saAnswer[i].k \in ks)
SaSayings(ks) == FlattenSeq([x \in DOMAIN SaOfKind(ks) |-> SaAll(SaOfKind(ks)[x], saAnswer[SaOfKind(ks)[x]])])

(* The text of every message, the commentary too.                          *)
SaBufferedText == SaSayings({"text", "commentary"})

SaBufferedCalls ==
  LET c == SaOfKind({"call"})
  IN  [x \in DOMAIN c |-> [id |-> saAnswer[c[x]].id, item |-> c[x], args |-> SaAll(c[x], saAnswer[c[x]]), malformed |-> FALSE]]

(* A run and its result: by id, or the n-th code with the n-th output.     *)
SaBufferedRuns ==
  LET runs == SaOfKind({"run"})
      rans == SaOfKind({"ran"})
  IN  IF saApi = "messages" THEN {<<saAnswer[r].of, r>> : r \in Range(rans)}
      ELSE {<<runs[x], rans[x]>> : x \in DOMAIN rans}

-----------------------------------------------------------------------------

SaIdsGiven == \A i \in DOMAIN saAnswer : saAnswer[i].k = "call" => saAnswer[i].id # "" \/ saApi = "completions"

(* A streamed step is the buffered answer: the same calls, in the order    *)
(* the model made them, each with its own arguments, the same text, and    *)
(* each server-run tool with its own input and output.                     *)
SaStreamIsTheAnswer ==
  saPhase = "built" =>
    /\ SaIdsGiven =>
         /\ Len(saStep.calls) = Len(SaBufferedCalls)
         /\ \A x \in DOMAIN saStep.calls :
              LET b == SaBufferedCalls[x]
              IN  saStep.calls[x] = [b EXCEPT !.id = IF b.id = "" THEN SaFresh[b.item] ELSE b.id]
    /\ saStep.text = SaSayings({"text"}) /\ saStep.commentary = SaSayings({"commentary"})
    /\ {e.v : e \in {saTold[x] : x \in DOMAIN saTold} \cap {SaEv("builtin_end", "", v) : v \in (0 .. 3) \X (0 .. 3)}} = SaBufferedRuns
    /\ SaIdsGiven => saStep.finish # "malformed_tool_call"

(* A stream that breaks off never passes a part of a call's arguments off  *)
(* as the whole: a call has all of them, none, or is malformed, and then   *)
(* the step says so.                                                       *)
SaCutIsSeen ==
  saPhase \in {"cut", "built"} /\ SaIdsGiven =>
    /\ \A x \in DOMAIN saStep.calls :
         LET c == saStep.calls[x]
         IN  c.malformed <=> saSent[c.item] = "1"
    /\ (\E x \in DOMAIN saStep.calls : saStep.calls[x].malformed) <=> saStep.finish = "malformed_tool_call"

(* Media come in brackets: a start, its chunks, an end.                    *)
SaMediaBracketed ==
  \A x \in DOMAIN saTold : saTold[x].t \in {"media_chunk", "media_end"} =>
    \E y \in 1 .. x - 1 :
      /\ saTold[y].t = "media_start" /\ saTold[y].v[1] = saTold[x].v[1]
      /\ \A z \in y + 1 .. x - 1 : saTold[z].t = "media_chunk"

SaFaithful == SaStreamIsTheAnswer /\ SaCutIsSeen /\ SaMediaBracketed
=============================================================================
