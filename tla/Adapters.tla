------------------------------ MODULE Adapters ------------------------------
(***************************************************************************)
(* What a conversation becomes on each of the five chat APIs               *)
(* (llm/providers/*: the message builders of the adapters, the builders of *)
(* llm/wire-transforms.ts that call them, and splitToolResult): the same   *)
(* messages go out as Responses items, Chat Completions messages,          *)
(* Anthropic messages, Google contents, or Interactions steps.             *)
(*                                                                         *)
(* A part is [t, v, k, s, body]: its type, what it carries (a text, a      *)
(* call's id, a medium), a name or a phase, the type of its source, and    *)
(* the content of a tool result.                                           *)
(***************************************************************************)
EXTENDS Integers, Sequences, SequencesExt, FiniteSets, FiniteSetsExt

CONSTANTS
  AdUserTurns,       \* contents a user message can have
  AdAssistantTurns,  \* contents an assistant message can have
  AdResultBodies,    \* contents a tool result can have
  AdLength           \* bound: messages of the conversation

ASSUME AdAssumption == AdLength \in Nat

AdApis == {"responses", "completions", "messages", "generate", "interactions"}
AdPart(t, v, k, s, body) == [t |-> t, v |-> v, k |-> k, s |-> s, body |-> body]
AdIds == {p.v : p \in {p \in UNION {ToSet(c) : c \in AdAssistantTurns} : p.t = "tool_call"}}

VARIABLES
  adHistory,   \* messages: [role, parts, streamed, google]
  adNames,     \* toolCallNames of the Google adapters: id -> name, or ""
  adSent       \* the request of the conversation as it stands: [api, from, items]

adVars == <<adHistory, adNames, adSent>>

AdNoNames == [i \in AdIds |-> ""]
AdNothing == [api |-> "responses", from |-> 1, items |-> <<>>]
AdInit == adHistory = <<>> /\ adNames = [a \in {"generate", "interactions"} |-> AdNoNames] /\ adSent = AdNothing

---------------------------------------------------------------------------
(* What goes out: items [role, pieces], a piece [t, v, k].                 *)
AdPiece(t, v, k) == [t |-> t, v |-> v, k |-> k]
AdItem(role, pieces) == [role |-> role, pieces |-> pieces]
AdItemIf(role, pieces) == IF pieces = <<>> THEN <<>> ELSE <<AdItem(role, pieces)>>
AdOnly(parts, types) == SelectSeq(parts, LAMBDA p : p.t \in types)
AdMap(f(_), parts) == [i \in DOMAIN parts |-> f(parts[i])]
AdEach(f(_), parts) == FlattenSeq(AdMap(f, parts))
AdMediaTypes == {"image", "document", "audio", "video"}

(* splitToolResult: the text half and the media half; a part that is       *)
(* neither is written into the text.                                       *)
AdSplit(body) ==
  [text |-> AdMap(LAMBDA p : AdPiece("text", p.v, ""), SelectSeq(body, LAMBDA p : p.t \notin AdMediaTypes)),
   media |-> AdOnly(body, AdMediaTypes)]

(* The names of the calls a message makes.                                 *)
AdLearn(names, parts) ==
  [i \in AdIds |-> LET own == {p \in ToSet(parts) : p.t = "tool_call" /\ p.v = i}
                   IN IF own = {} THEN names[i] ELSE (CHOOSE p \in own : TRUE).k]

(* OpenAI Responses: inputContent and buildInputItems.                     *)
AdInputPiece(p) ==
  CASE p.t = "text" -> <<AdPiece("text", p.v, "")>>
    [] p.t = "image" /\ p.s \in {"base64", "url"} -> <<AdPiece("image", p.v, "")>>
    [] (p.t = "image" /\ p.s = "provider_ref") \/ (p.t = "document" /\ p.s # "file") -> <<AdPiece("file", p.v, "")>>
    [] OTHER -> <<>>
AdPhaseRuns(texts) ==
  FoldLeft(LAMBDA runs, p : IF runs # <<>> /\ Last(runs).pieces[1].k = p.k
                            THEN Append(Front(runs), AdItem("assistant", Append(Last(runs).pieces, AdPiece("text", p.v, p.k))))
                            ELSE Append(runs, AdItem("assistant", <<AdPiece("text", p.v, p.k)>>)), <<>>, texts)
AdConfiguration(parts) == AdMap(LAMBDA p : AdItem("config", <<AdPiece("config", p.v, "")>>), AdOnly(parts, {"configuration_update"}))
AdCallItems(parts) == AdMap(LAMBDA p : AdItem("call", <<AdPiece("call", p.v, p.k)>>), AdOnly(parts, {"tool_call"}))
AdProgramItems(parts, t) == AdMap(LAMBDA p : AdItem("program", <<AdPiece(t, p.v, "")>>), AdOnly(parts, {t}))
AdResponsesItems(m, names) ==
  AdConfiguration(m.parts) \o
  CASE m.role = "user" -> AdItemIf("user", AdEach(AdInputPiece, m.parts))
    [] m.role = "assistant" ->
         AdPhaseRuns(AdOnly(m.parts, {"text"})) \o AdProgramItems(m.parts, "program_call")
           \o AdCallItems(m.parts) \o AdProgramItems(m.parts, "program_result")
    [] m.role = "tool" ->
         AdMap(LAMBDA p : AdItem("result", <<AdPiece("result", p.v, names[p.v])>> \o AdEach(AdInputPiece, p.body)),
               AdOnly(m.parts, {"tool_result"}))

(* OpenAI Chat Completions: buildMessage and buildMessages.  Sound goes    *)
(* last; what a tool returned that is not text follows every result, in a  *)
(* user message.                                                           *)
AdChatPiece(p) ==
  CASE p.t = "text" -> AdPiece("text", p.v, "")
    [] p.t = "image" -> AdPiece(IF p.s \in {"base64", "url"} THEN "image" ELSE "blank", p.v, "")
    [] p.t = "audio" /\ p.s = "base64" -> AdPiece("audio", p.v, "")
    [] p.t = "document" /\ p.s \in {"provider_ref", "base64"} -> AdPiece("file", p.v, "")
    [] OTHER -> AdPiece("note", p.v, "")
AdSoundLast(pieces) ==
  SelectSeq(pieces, LAMBDA x : x.t # "audio") \o SelectSeq(pieces, LAMBDA x : x.t = "audio")
AdChatContent(parts) == AdSoundLast(AdMap(AdChatPiece, parts))
AdTextsOf(parts) == AdMap(LAMBDA p : AdPiece("text", p.v, ""), AdOnly(parts, {"text"}))
AdCallsOf(parts) == AdMap(LAMBDA p : AdPiece("call", p.v, p.k), AdOnly(parts, {"tool_call"}))

AdChatToolInterleaved(results) ==
  AdEach(LAMBDA p : <<AdItem("result", <<AdPiece("result", p.v, "")>> \o AdSplit(p.body).text)>>
                      \o AdItemIf("user", AdChatContent(AdSplit(p.body).media)), results)
AdChatTool(results) ==
  AdMap(LAMBDA p : AdItem("result", <<AdPiece("result", p.v, "")>> \o AdSplit(p.body).text), results)
    \o AdItemIf("user", AdChatContent(AdEach(LAMBDA p : AdSplit(p.body).media, results)))
AdChatMessages(m) ==
  CASE m.role = "tool" /\ AdOnly(m.parts, {"tool_result"}) # <<>> -> AdChatTool(AdOnly(m.parts, {"tool_result"}))
    [] m.role = "assistant" /\ AdOnly(m.parts, {"tool_call"}) # <<>> ->
         <<AdItem("assistant", AdTextsOf(m.parts) \o AdCallsOf(m.parts))>>
    [] OTHER -> <<AdItem(m.role, AdChatContent(m.parts))>>

(* Anthropic Messages: buildMessage and buildContentPart.  A result's      *)
(* content is built part by part inside it.                                *)
AdBlock(p) ==
  CASE p.t = "text" -> AdPiece("text", p.v, "")
    [] p.t = "image" -> AdPiece("image", p.v, p.s)
    [] p.t = "document" -> AdPiece("file", p.v, p.s)
    [] p.t = "tool_call" -> AdPiece("call", p.v, p.k)
    [] OTHER -> AdPiece("note", p.v, "")
AdBlocks(p) ==
  IF p.t = "tool_result" THEN <<AdPiece("result", p.v, "")>> \o AdMap(AdBlock, p.body) ELSE <<AdBlock(p)>>
AdAnthropicMessage(m) == <<AdItem(IF m.role = "tool" THEN "user" ELSE m.role, AdEach(AdBlocks, m.parts))>>

(* hasFileRef: the beta the files API needs is asked for when a part of a  *)
(* message has such a source; a result's content is not looked at.         *)
AdHasFileRef(messages) ==
  \E m \in ToSet(messages) : \E p \in ToSet(m.parts) : p.s \in {"provider_ref", "file"}

(* Google generateContent: buildContent.  A function response takes inline *)
(* bytes; other media leave a note.                                        *)
AdGooglePieces(p, names) ==
  CASE p.t = "text" -> <<AdPiece("text", p.v, "")>>
    [] p.t \in AdMediaTypes -> <<AdPiece(p.t, p.v, "")>>
    [] p.t = "tool_call" -> <<AdPiece("call", p.v, p.k)>>
    [] p.t = "tool_result" ->
         <<AdPiece("result", p.v, names[p.v])>> \o AdSplit(p.body).text
           \o AdMap(LAMBDA x : AdPiece(IF x.s = "base64" THEN x.t ELSE "note", x.v, ""), AdSplit(p.body).media)
    [] OTHER -> <<>>
AdGoogleContent(m, names) ==
  <<AdItem(IF m.role = "assistant" THEN "assistant" ELSE "user", AdEach(LAMBDA p : AdGooglePieces(p, names), m.parts))>>

(* Google Interactions: userContent and buildInputItems.  Signed steps of  *)
(* its own turns go back first.                                            *)
AdStepPiece(p) ==
  CASE p.t = "text" -> <<AdPiece("text", p.v, "")>>
    [] (p.t = "image" /\ p.s \in {"base64", "url"}) \/ (p.t = "audio" /\ p.s = "base64") \/ (p.t = "video" /\ p.s = "url") ->
         <<AdPiece(p.t, p.v, "")>>
    [] OTHER -> <<>>
AdStepResults(results, names) ==
  AdMap(LAMBDA p : AdItem("result", <<AdPiece("result", p.v, names[p.v])>> \o AdSplit(p.body).text), results)
    \o AdItemIf("user", AdEach(AdStepPiece, AdEach(LAMBDA p : AdSplit(p.body).media, results)))
AdInteractionsItems(m, names) ==
  CASE m.role = "user" -> AdItemIf("user", AdEach(AdStepPiece, m.parts))
    [] m.role = "assistant" ->
         (IF m.google THEN <<AdItem("signature", <<AdPiece("signature", 0, "")>>)>> ELSE <<>>)
           \o AdItemIf("assistant", AdEach(LAMBDA p : CASE p.t = "text" -> <<AdPiece("text", p.v, "")>>
                                                        [] p.t = "tool_call" -> <<AdPiece("call", p.v, p.k)>>
                                                        [] OTHER -> <<>>, m.parts))
    [] m.role = "tool" -> AdStepResults(AdOnly(m.parts, {"tool_result"}), names)

(* One message of a request, and the request: names of calls are learnt on *)
(* the way, afresh for Responses, and for good by the Google adapters.     *)
AdItemsOf(api, m, names) ==
  CASE api = "responses" -> AdResponsesItems(m, names)
    [] api = "completions" -> AdChatMessages(m)
    [] api = "messages" -> AdAnthropicMessage(m)
    [] api = "generate" -> AdGoogleContent(m, names)
    [] api = "interactions" -> AdInteractionsItems(m, names)
AdRequest(api, messages, names) ==
  FoldLeft(LAMBDA acc, m : [names |-> AdLearn(acc.names, m.parts),
                            items |-> acc.items \o AdItemsOf(api, m, AdLearn(acc.names, m.parts))],
           [names |-> names, items |-> <<>>], messages)

---------------------------------------------------------------------------
AdMessage(role, parts, streamed, google) == [role |-> role, parts |-> parts, streamed |-> streamed, google |-> google]
AdPending == IF adHistory # <<>> /\ Last(adHistory).role = "assistant" THEN AdOnly(Last(adHistory).parts, {"tool_call"}) ELSE <<>>

AdSay(c) ==
  /\ Len(adHistory) < AdLength /\ AdPending = <<>>
  /\ adHistory' = Append(adHistory, AdMessage("user", c, FALSE, FALSE))
  /\ adSent' = AdNothing /\ UNCHANGED adNames

(* The model answers; parseResponse of the Interactions adapter records    *)
(* the names of its calls, its stream parser does not.                     *)
AdAnswer(c, streamed, google) ==
  /\ Len(adHistory) < AdLength /\ adHistory # <<>> /\ Last(adHistory).role # "assistant"
  /\ \A m \in ToSet(adHistory) : AdOnly(m.parts, {"tool_call"}) = <<>> \/ AdOnly(c, {"tool_call"}) = <<>>   \* ids are not reused
  /\ adHistory' = Append(adHistory, AdMessage("assistant", c, streamed, google))
  /\ adNames' = IF google /\ ~streamed THEN [adNames EXCEPT !["interactions"] = AdLearn(@, c)] ELSE adNames
  /\ adSent' = AdNothing

(* Every call is answered, in one tool message.                            *)
AdRunTools(body) ==
  /\ Len(adHistory) < AdLength /\ AdPending # <<>>
  /\ adHistory' = Append(adHistory, AdMessage("tool",
                    AdMap(LAMBDA p : AdPart("tool_result", p.v, "", "none", body), AdPending), FALSE, FALSE))
  /\ adSent' = AdNothing /\ UNCHANGED adNames

(* buildRequest: the whole conversation, or where the server keeps it only *)
(* what came after the last answer.                                        *)
AdBuild(api, from) ==
  /\ adHistory # <<>> /\ Last(adHistory).role # "assistant"
  /\ LET names == IF api \in DOMAIN adNames THEN adNames[api] ELSE AdNoNames
         built == AdRequest(api, SubSeq(adHistory, from, Len(adHistory)), names)
     IN /\ adSent' = [api |-> api, from |-> from, items |-> built.items]
        /\ adNames' = IF api \in DOMAIN adNames THEN [adNames EXCEPT ![api] = built.names] ELSE adNames
  /\ UNCHANGED adHistory
AdTail == Max({0} \cup {i \in DOMAIN adHistory : adHistory[i].role = "assistant"}) + 1

AdNext ==
  \/ \E c \in AdUserTurns : AdSay(c)
  \/ \E c \in AdAssistantTurns, streamed, google \in BOOLEAN : AdAnswer(c, streamed, google)
  \/ \E b \in AdResultBodies : AdRunTools(b)
  \/ \E api \in AdApis : AdBuild(api, 1)
  \/ \E api \in {"responses", "interactions"} : AdBuild(api, AdTail)

---------------------------------------------------------------------------
AdTypeOK ==
  /\ Len(adHistory) <= AdLength /\ adSent.api \in AdApis
  /\ \A m \in ToSet(adHistory) : m.role \in {"user", "assistant", "tool"}

(* The part of the conversation the last request is about.                *)
AdFresh == adSent.items # <<>>
AdCovered == SubSeq(adHistory, adSent.from, Len(adHistory))
AdPieces == FlattenSeq([i \in DOMAIN adSent.items |-> adSent.items[i].pieces])
AdParts == FlattenSeq([i \in DOMAIN AdCovered |-> AdCovered[i].parts])

(* On every API the calls and the results of the conversation go out, each *)
(* once, in the order they have there.                                     *)
AdPairsTravel ==
  AdFresh =>
    LET told == SelectSeq(AdPieces, LAMBDA x : x.t \in {"call", "result"})
        said == AdOnly(AdParts, {"tool_call", "tool_result"})
    IN Len(told) = Len(said) /\ \A i \in DOMAIN said : told[i].v = said[i].v /\ (told[i].t = "call" <=> said[i].t = "tool_call")

(* Between a call and its result no user message comes                     *)
(* ("so no tool call is left unanswered in between").                      *)
AdAnsweredAtOnce ==
  AdFresh /\ adSent.api \in {"responses", "completions", "interactions"} =>
    \A i, j, k \in DOMAIN adSent.items :
      (/\ i < j /\ j < k
       /\ \E x \in ToSet(adSent.items[i].pieces), y \in ToSet(adSent.items[k].pieces) : x.t = "call" /\ y.t = "result" /\ x.v = y.v)
      => adSent.items[j].role # "user"

(* A result names the function it answers, on the APIs that say it; only   *)
(* the tail of a conversation whose call was streamed, or made elsewhere,  *)
(* leaves the name out.                                                    *)
AdResultsNamed ==
  AdFresh /\ adSent.api \in {"responses", "generate", "interactions"} =>
    \A x \in ToSet(AdPieces) : x.t = "result" =>
      \E m \in ToSet(adHistory) : \E p \in ToSet(m.parts) :
        /\ p.t = "tool_call" /\ p.v = x.v
        /\ \/ x.k = p.k
           \/ x.k = "" /\ adSent.from > 1 /\ (adSent.api = "responses" \/ m.streamed \/ ~m.google)

(* What is said is said: every text of the conversation goes out, in       *)
(* order within its message's role, and so does every image that has bytes *)
(* or an address, be it the user's or a tool's.                            *)
AdSaidIsSent ==
  AdFresh =>
    /\ AdMap(LAMBDA x : x.v, SelectSeq(AdPieces, LAMBDA x : x.t = "text")) =
       AdMap(LAMBDA p : p.v, AdOnly(AdEach(LAMBDA p : IF p.t = "tool_result" THEN AdOnly(p.body, {"text"}) ELSE <<p>>, AdParts), {"text"}))
    /\ \A p \in ToSet(AdEach(LAMBDA p : IF p.t = "tool_result" THEN p.body ELSE <<p>>, AdParts)) :
         p.t = "image" /\ p.s \in {"base64", "url"} => \E x \in ToSet(AdPieces) : x.v = p.v /\ x.t \in {"image", "note"}

AdFaithful == AdPairsTravel /\ AdAnsweredAtOnce /\ AdResultsNamed /\ AdSaidIsSent
=============================================================================
