----------------------------- MODULE Telemetry -----------------------------
(***************************************************************************)
(* The telemetry adapter (plugins/telemetry/telemetry.ts): the spans it    *)
(* opens and closes on the hooks of the SDK, the tree they form, what a    *)
(* filtered subscriber sees of it, and the gauges.  The hooks come in the  *)
(* orders queue-state.ts, client.ts and loop.ts emit them.                 *)
(*                                                                         *)
(* A span id is the number spanSeq gave it; times, names and attributes    *)
(* are left out.                                                           *)
(***************************************************************************)
EXTENDS Integers, Sequences, FiniteSets, SequencesExt

CONSTANTS
  TlTraces,      \* traces
  TlRuns, TlTools, TlRequests,  \* agent runs, tool calls, HTTP requests
  TlLlmCalls,    \* bound: LLM calls under way at once on a trace
  TlSpans,       \* bound: spans opened
  TlAttempts,    \* bound: attempts of a request
  TlMaxLineage,  \* maxLineage
  TlTypes        \* the types the filtered subscriber asks for

ASSUME TlAssumption ==
  /\ {TlLlmCalls, TlSpans, TlAttempts, TlMaxLineage} \subseteq Nat \ {0}
  /\ TlTypes \subseteq {"agent", "tool", "llm", "http", "media", "mcp", "message"}

VARIABLES
  tlOpen,        \* open, by key
  tlContainers,  \* containers
  tlApp,         \* traces with an appParent
  tlSeq,         \* spanSeq
  tlLineage,     \* lineage, oldest first
  tlAll,         \* every span there was: id, parent, type, trace
  tlDone,        \* ids recorded
  tlTwice,       \* whether an id was recorded twice
  tlSunk,        \* what the filtered subscriber was told: an id and its parent
  tlUsage,       \* runUsage
  tlSpent, tlReported,  \* tokens of completions, and those told on agent spans
  tlRun,         \* each run: new, open, over
  tlTool,        \* the ids of tool calls under way
  tlLlm,         \* LLM calls under way on each trace
  tlHttp,        \* each request: whether an attempt is under way, which one
  tlInFlight     \* metrics.inFlight

tlWork == <<tlRun, tlTool, tlLlm, tlHttp>>
tlTree == <<tlOpen, tlContainers, tlSeq, tlLineage, tlAll, tlDone, tlTwice, tlSunk>>
tlTokens == <<tlUsage, tlSpent, tlReported>>
tlVars == <<tlTree, tlApp, tlTokens, tlWork, tlInFlight>>

TlNone == -1      \* no parent
TlAppSpan == 0    \* the application's own span
TlBare == -2      \* a completion recorded without an open span: its id is its key

TlKind == {"agent", "tool", "llm", "http", "media", "mcp"}

TlTypeOK ==
  /\ \A s \in tlOpen : s.kind \in TlKind /\ s.trace \in TlTraces /\ s.id \in 1 .. tlSeq
  /\ tlContainers \in [TlTraces -> Seq(1 .. tlSeq)]
  /\ tlApp \subseteq TlTraces /\ tlSeq \in 0 .. TlSpans + 1
  /\ Len(tlLineage) <= TlMaxLineage /\ tlTwice \in BOOLEAN
  /\ tlDone \subseteq {TlBare} \cup 1 .. tlSeq
  /\ tlUsage \in [TlTraces -> Nat] /\ tlSpent \in Nat /\ tlReported \in Nat
  /\ tlRun \in [TlRuns -> {"new", "open", "over"}] /\ tlTool \subseteq TlTools
  /\ tlLlm \in [TlTraces -> 0 .. TlLlmCalls] /\ tlInFlight \in Nat
  /\ tlHttp \in [TlRequests -> [on : BOOLEAN, attempt : 0 .. TlAttempts]]

TlInit ==
  /\ tlOpen = {} /\ tlContainers = [t \in TlTraces |-> <<>>] /\ tlApp = {}
  /\ tlSeq = 0 /\ tlLineage = <<>> /\ tlAll = {} /\ tlDone = {} /\ tlTwice = FALSE /\ tlSunk = {}
  /\ tlUsage = [t \in TlTraces |-> 0] /\ tlSpent = 0 /\ tlReported = 0
  /\ tlRun = [r \in TlRuns |-> "new"] /\ tlTool = {}
  /\ tlLlm = [t \in TlTraces |-> 0]
  /\ tlHttp = [q \in TlRequests |-> [on |-> FALSE, attempt |-> 0]]
  /\ tlInFlight = 0

-----------------------------------------------------------------------------

(* remember: the oldest entry goes when there is one too many.             *)
TlRemember(lineage, node) ==
  IF \E i \in DOMAIN lineage : lineage[i].id = node.id THEN lineage
  ELSE LET more == Append(lineage, node)
       IN  IF Len(more) > TlMaxLineage THEN Tail(more) ELSE more

(* survivingParent: up the lineage to the first span of a type asked for.  *)
TlSurviving(lineage, parent) ==
  LET node(i) == {lineage[n] : n \in {n \in DOMAIN lineage : lineage[n].id = i}}
      up[i \in TlBare .. TlSpans + 1] ==
        IF node(i) = {} THEN TlNone
        ELSE LET n == CHOOSE n \in node(i) : TRUE
             IN  IF n.kind \in TlTypes THEN i ELSE up[n.parent]
  IN  up[parent]

(* dispatch to the subscriber, of spans and of their messages.             *)
TlDispatch(lineage, span, messages) ==
  tlSunk' = tlSunk
    \cup (IF span.kind \in TlTypes /\ span.id \in tlDone'
          THEN {[of |-> span.id, parent |-> TlSurviving(lineage, span.parent)]} ELSE {})
    \cup (IF messages /\ "message" \in TlTypes
          THEN {[of |-> TlNone, parent |-> TlSurviving(lineage, span.id)]} ELSE {})

(* parentFor: the innermost open container, else the application's span.   *)
TlParentFor(t) ==
  IF tlContainers[t] # <<>> THEN Last(tlContainers[t])
  ELSE IF t \in tlApp' THEN TlAppSpan ELSE TlNone

(* handle: a traceparent names the application's span, whatever the event. *)
TlHears(t) == tlApp' \in {tlApp, tlApp \cup {t}}

TlContainer(kind) == kind \in {"agent", "tool"}

TlOpenUnremembered(kind, of, t, messages) ==
  LET span == [key |-> <<kind, of>>, kind |-> kind, trace |-> t, id |-> tlSeq + 1, parent |-> TlParentFor(t)]
  IN  /\ tlSeq < TlSpans
      /\ tlSeq' = tlSeq + 1
      /\ tlOpen' = {s \in tlOpen : s.key # span.key} \cup {span}
      /\ tlAll' = tlAll \cup {span}
      /\ tlContainers' = IF TlContainer(kind) THEN [tlContainers EXCEPT ![t] = Append(@, tlSeq + 1)]
                         ELSE tlContainers
      /\ UNCHANGED <<tlDone, tlTwice, tlLineage>>
      /\ TlDispatch(tlLineage', span, messages)

(* openSpan.  Opening a key again forgets the span that held it.           *)
TlOpenSpan(kind, of, t, messages) ==
  LET span == [key |-> <<kind, of>>, kind |-> kind, trace |-> t, id |-> tlSeq + 1, parent |-> TlParentFor(t)]
  IN  /\ tlSeq < TlSpans
      /\ tlSeq' = tlSeq + 1
      /\ tlOpen' = {s \in tlOpen : s.key # span.key} \cup {span}
      /\ tlAll' = tlAll \cup {span}
      /\ tlLineage' = TlRemember(tlLineage, span)
      /\ tlContainers' = IF TlContainer(kind) THEN [tlContainers EXCEPT ![t] = Append(@, tlSeq + 1)]
                         ELSE tlContainers
      /\ UNCHANGED <<tlDone, tlTwice>>
      /\ TlDispatch(tlLineage', span, messages)

(* recordSpan.                                                             *)
TlRecord(span, messages) ==
  /\ tlDone' = tlDone \cup {span.id} /\ tlTwice' = (tlTwice \/ span.id \in tlDone)
  /\ tlLineage' = TlRemember(tlLineage, span)
  /\ TlDispatch(tlLineage', span, messages)

TlPop(stack, id) == IF stack = <<>> THEN stack ELSE Front(stack)

(* A container leaves the stack by its id: they close in any order.        *)
TlRemove(stack, id) == SelectSeq(stack, LAMBDA i : i # id)

(* closeSpan.                                                              *)
TlCloseSpan(kind, of, heard, messages) ==
  IF \E s \in tlOpen : s.key = <<kind, of>>
  THEN LET span == CHOOSE s \in tlOpen : s.key = <<kind, of>>
           stack == TlRemove(tlContainers[span.trace], span.id)
       IN  /\ tlOpen' = tlOpen \ {span}
           /\ tlContainers' = [tlContainers EXCEPT ![span.trace] = stack]
           /\ tlApp' = IF tlContainers[span.trace] # <<>> /\ stack = <<>>
                       THEN heard \ {span.trace} ELSE heard
           /\ TlRecord(span, messages)
           /\ UNCHANGED <<tlSeq, tlAll>>
  ELSE tlApp' = heard /\ UNCHANGED tlTree

TlHeard(t) == {tlApp, tlApp \cup {t}}

-----------------------------------------------------------------------------

(* onRunStart, with the message of the user.                               *)
TlRunStart(r, t) ==
  /\ tlRun[r] = "new" /\ tlRun' = [tlRun EXCEPT ![r] = "open"]
  /\ TlHears(t) /\ TlOpenSpan("agent", r, t, TRUE)
  /\ UNCHANGED <<tlTokens, tlTool, tlLlm, tlHttp, tlInFlight>>

(* onRunComplete, onRunError: runUsageAttrs tells the tokens of the trace  *)
(* and forgets them.                                                       *)
TlRunEnds(r) ==
  LET of == {s \in tlOpen : s.key = <<"agent", r>>}
  IN  /\ tlRun[r] = "open" /\ tlRun' = [tlRun EXCEPT ![r] = "over"]
      /\ \E s \in of : \E heard \in TlHeard(s.trace) :
           /\ TlCloseSpan("agent", r, heard, FALSE)
           /\ tlReported' = tlReported + tlUsage[s.trace]
           /\ tlUsage' = [tlUsage EXCEPT ![s.trace] = 0]
      /\ UNCHANGED <<tlSpent, tlTool, tlLlm, tlHttp, tlInFlight>>

(* onToolCallStart.  A call may bear the id of an earlier one: a resumed    *)
(* run repeats the ids of the calls that were waiting.                      *)
TlToolStart(k, t) ==
  /\ k \notin tlTool /\ tlTool' = tlTool \cup {k}
  /\ TlHears(t) /\ TlOpenSpan("tool", k, t, FALSE)
  /\ UNCHANGED <<tlTokens, tlRun, tlLlm, tlHttp, tlInFlight>>

(* onToolCallComplete, onToolCallError.                                    *)
TlToolEnds(k) ==
  /\ k \in tlTool /\ tlTool' = tlTool \ {k}
  /\ \E t \in TlTraces : \E heard \in TlHeard(t) : TlCloseSpan("tool", k, heard, FALSE)
  /\ UNCHANGED <<tlTokens, tlRun, tlLlm, tlHttp, tlInFlight>>

(* A call that is skipped, denied or answered by a hook, or whose approver *)
(* throws, ends with neither (runToolCall, runApprovalGate): its span      *)
(* stays as it is.                                                         *)
TlToolLeft(k) ==
  /\ k \in tlTool /\ tlTool' = tlTool \ {k}
  /\ UNCHANGED <<tlTree, tlApp, tlTokens, tlRun, tlLlm, tlHttp, tlInFlight>>

(* onBeforeSubmit: the key of an LLM call is its trace.                    *)
TlBeforeSubmit(t) ==
  /\ tlLlm[t] < TlLlmCalls /\ tlLlm' = [tlLlm EXCEPT ![t] = @ + 1]
  /\ TlHears(t) /\ TlOpenSpan("llm", t, t, FALSE)
  /\ UNCHANGED <<tlTokens, tlRun, tlTool, tlHttp, tlInFlight>>

(* onCompletion: closes the span of the trace, or records one after the    *)
(* fact under the bare key; addRunUsage.                                   *)
TlCompletion(t) ==
  /\ tlLlm[t] > 0 /\ tlLlm' = [tlLlm EXCEPT ![t] = @ - 1]
  /\ tlSpent' = tlSpent + 1 /\ tlUsage' = [tlUsage EXCEPT ![t] = @ + 1]
  /\ IF \E s \in tlOpen : s.key = <<"llm", t>>
     THEN \E heard \in TlHeard(t) : TlCloseSpan("llm", t, heard, TRUE)
     ELSE /\ TlHears(t)
          /\ TlRecord([kind |-> "llm", trace |-> t, id |-> TlBare, parent |-> TlNone], TRUE)
          /\ UNCHANGED <<tlOpen, tlContainers, tlSeq, tlAll>>
  /\ UNCHANGED <<tlReported, tlRun, tlTool, tlHttp, tlInFlight>>

(* onMcpConnect, onMcpToolCall and onMediaGenerated record a span of a     *)
(* moment, without a parent.                                               *)
TlMoment(kind, t) == [key |-> <<kind, tlSeq>>, kind |-> kind, trace |-> t, id |-> tlSeq + 1, parent |-> TlNone]

TlPoint(kind, t) ==
  /\ tlSeq < TlSpans /\ tlSeq' = tlSeq + 1
  /\ TlHears(t)
  /\ tlAll' = tlAll \cup {TlMoment(kind, t)} /\ TlRecord(TlMoment(kind, t), FALSE)
  /\ UNCHANGED <<tlOpen, tlContainers, tlTokens, tlWork, tlInFlight>>

-----------------------------------------------------------------------------

(* Requests, as executeWithRetry emits their hooks.                        *)
TlLess(n) == IF n > 0 THEN n - 1 ELSE 0

TlRequestStart(q, t) ==
  /\ ~tlHttp[q].on /\ tlHttp[q].attempt < TlAttempts
  /\ tlHttp' = [tlHttp EXCEPT ![q] = [on |-> TRUE, attempt |-> @.attempt + 1]]
  /\ tlInFlight' = tlInFlight + 1
  /\ TlHears(t) /\ TlOpenSpan("http", <<t, tlHttp[q].attempt>>, t, FALSE)
  /\ UNCHANGED <<tlTokens, tlRun, tlTool, tlLlm>>

(* A response: onRequestComplete, and onModelError after it when the       *)
(* response is not ok.  Each lowers the gauge.                             *)
TlResponse(q, t, ok) ==
  /\ tlHttp[q].on
  /\ tlHttp' = [tlHttp EXCEPT ![q].on = FALSE]
  /\ tlInFlight' = IF ok THEN TlLess(tlInFlight) ELSE TlLess(TlLess(tlInFlight))
  /\ \E heard \in TlHeard(t) : TlCloseSpan("http", <<t, tlHttp[q].attempt - 1>>, heard, FALSE)
  /\ UNCHANGED <<tlTokens, tlRun, tlTool, tlLlm>>

(* The network fails: onModelError alone, and the span stays open.         *)
TlNetworkFails(q) ==
  /\ tlHttp[q].on
  /\ tlHttp' = [tlHttp EXCEPT ![q].on = FALSE]
  /\ tlInFlight' = TlLess(tlInFlight)
  /\ UNCHANGED <<tlTree, tlApp, tlTokens, tlRun, tlTool, tlLlm>>

TlNext ==
  \E t \in TlTraces :
    \/ \E r \in TlRuns : TlRunStart(r, t) \/ TlRunEnds(r)
    \/ \E k \in TlTools : TlToolStart(k, t) \/ TlToolEnds(k) \/ TlToolLeft(k)
    \/ TlBeforeSubmit(t) \/ TlCompletion(t) \/ \E kind \in {"media", "mcp"} : TlPoint(kind, t)
    \/ \E q \in TlRequests : \/ TlRequestStart(q, t) \/ TlNetworkFails(q)
                             \/ \E ok \in BOOLEAN : TlResponse(q, t, ok)

TlSpec == TlInit /\ [][TlNext]_tlVars

(* The containers of a trace are exactly the runs and tool calls started   *)
(* on it whose spans are not recorded yet, the older first, however they    *)
(* overlap and in whatever order they close (closeSpan): so a new span      *)
(* hangs under none that is recorded.  Of those spans "open" has the last   *)
(* under each key; one whose call was left, and its key opened again, stays *)
(* a container that nothing will close.                                     *)
TlUnrecorded(t) == {s \in tlAll : s.trace = t /\ TlContainer(s.kind) /\ s.id \notin tlDone}
TlStackIsWhatIsOpen ==
  \A t \in TlTraces :
    /\ Range(tlContainers[t]) = {s.id : s \in TlUnrecorded(t)}
    /\ \A i, j \in DOMAIN tlContainers[t] : i < j => tlContainers[t][i] < tlContainers[t][j]
    /\ {s \in tlOpen : s.trace = t /\ TlContainer(s.kind)}
         = {s \in TlUnrecorded(t) : \A u \in tlAll : u.key = s.key => u.id <= s.id}

TlAncestor(a, d) ==
  \E chain \in UNION {[1 .. n -> tlAll] : n \in 1 .. 3} :
    /\ chain[1].id = d /\ chain[Len(chain)].parent = a
    /\ \A i \in 1 .. Len(chain) - 1 : chain[i].parent = chain[i + 1].id

(* A subscriber that asked for some types gets a tree of those alone: the  *)
(* parent it is told is an ancestor of a type it asked for, the nearest    *)
(* one, unless the lineage had to forget a span (survivingParent, remember *)
(* on open and not on close).                                              *)
TlFilteredTreeHolds ==
  \A e \in tlSunk :
    e.of # TlNone /\ e.of # TlBare =>
      /\ e.parent # TlNone => /\ TlAncestor(e.parent, e.of)
                              /\ \E s \in tlAll : s.id = e.parent /\ s.kind \in TlTypes
      /\ (\A s \in tlAll : s \in Range(tlLineage)) =>
           \A s \in tlAll : s.kind \in TlTypes /\ TlAncestor(s.id, e.of) => e.parent >= s.id

(* Every token of a completion is told on one run at most, and none is     *)
(* made up (addRunUsage, runUsageAttrs).                                   *)
TlTokensToldOnce ==
  LET waiting == FoldSet(LAMBDA t, n : n + tlUsage[t], 0, TlTraces)
  IN  tlReported + waiting = tlSpent

(* The gauge counts the attempts under way ("An attempt that failed is no  *)
(* longer in flight ... a failed attempt emits onModelError INSTEAD").     *)
TlGaugeIsExact == tlInFlight = Cardinality({q \in TlRequests : tlHttp[q].on})

(* "The KEY pairs open with close; the SPAN ID must be unique."            *)
TlSpanIdsUnique == ~tlTwice

=============================================================================
