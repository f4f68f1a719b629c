------------------------------- MODULE Tools -------------------------------
(***************************************************************************)
(* The agent bus (bus/agent-bus.ts), the tool catalog that reports its     *)
(* calls on it (plugins/tool-catalog), the permission policy a running     *)
(* tool asks (plugins/permissions), and the search among lazy tools        *)
(* (agent/lazy-tools.ts).                                                  *)
(***************************************************************************)
EXTENDS Integers, Sequences, SequencesExt, FiniteSets, FiniteSetsExt

CONSTANTS
  ToCalls,       \* calls: [id, agent, tool]
  ToNames,       \* names of tools
  ToExternal,    \* the external ones among them
  ToScopes,      \* scopes an agent can have: [names, external, policy]
  ToChanges,     \* bound: registrations and scope changes
  AbOrder,       \* subscriptions [name, pattern], wildcards first, then prefixes, then exact kinds
  AbTroubles,    \* bound: handlers that throw or emit, and emits of detached work
  LzTools,       \* lazy tools: [name, words, nameWords], in the order they are registered
  LzQueries,     \* queries: sets of words
  LzLimit,       \* limit
  LzMaxSearches  \* maxSearches

ASSUME ToAssumption ==
  /\ ToExternal \subseteq ToNames /\ ToChanges \in Nat /\ AbTroubles \in Nat
  /\ LzLimit \in Nat \ {0} /\ LzMaxSearches \in Nat
  /\ AbOrder \in Seq(ToSet(AbOrder)) /\ IsInjective(AbOrder)
  /\ \A c, d \in ToCalls : c.id = d.id => c = d

VARIABLES
  toTools,       \* tools
  toScope,       \* scopes: agent -> scope, or none
  toPhase,       \* where each call is
  toContext,     \* the policy its ToolContext closed over
  toRan,         \* calls whose tool was executed: [id, allowed], the scope as it was then
  toTouched,     \* <<call, action>>: actions checkAccess let through
  toChanges,
  abOn,          \* subscriptions that are on
  abQueue,       \* queue: events of top-level emits
  abStack,       \* frames being processed, by thread: the drain, and work a handler left behind
  abHeard,       \* events each subscription was called with
  abTroubles,
  lzSearches,    \* searches of this run
  lzFound        \* what the last search returned

abVars == <<abOn, abQueue, abStack, abHeard, abTroubles>>
toOwnVars == <<toTools, toScope, toPhase, toContext, toRan, toTouched, toChanges>>
lzVars == <<lzSearches, lzFound>>
toVars == <<toOwnVars, abVars, lzVars>>

ToAgents == {c.agent : c \in ToCalls}
ToNone == [names |-> {}, external |-> FALSE, policy |-> <<>>, none |-> TRUE]

ToInit ==
  /\ toTools = ToNames /\ toScope \in [ToAgents -> ToScopes \cup {ToNone}] /\ toChanges = 0
  /\ toPhase = [c \in ToCalls |-> "idle"] /\ toContext = [c \in ToCalls |-> <<>>]
  /\ toRan = {} /\ toTouched = {}
  /\ abOn = {} /\ abQueue = <<>> /\ abStack = [t \in {"drain", "detached"} |-> <<>>]
  /\ abHeard = [s \in ToSet(AbOrder) |-> <<>>] /\ abTroubles = 0
  /\ lzSearches = 0 /\ lzFound = <<>>

---------------------------------------------------------------------------
(* The bus.  An event is [kind, of, end]: end is what happens when its     *)
(* emit resolves: the call's next phase, or none.                          *)
AbEvent(kind, of, end) == [kind |-> kind, of |-> of, end |-> end]

(* Does a pattern take a kind: the kind itself, tool.*, or all.            *)
AbMatches(s, e) ==
  \/ s.pattern = "*" \/ s.pattern = e.kind
  \/ s.pattern = "tool.*" /\ e.kind \in {"started", "completed", "failed"}
(* processEvent collects the subscriptions that are on and take it.        *)
AbTakers(e) ==
  LET take[n \in 0 .. Len(AbOrder)] ==
        IF n = 0 THEN <<>>
        ELSE IF AbOrder[n] \in abOn /\ AbMatches(AbOrder[n], e) THEN Append(take[n - 1], AbOrder[n]) ELSE take[n - 1]
  IN take[Len(AbOrder)]
AbFrame(e) == [event |-> e, left |-> AbTakers(e)]

AbSubscribe(s) ==
  /\ s \notin abOn /\ abOn' = abOn \cup {s}
  /\ UNCHANGED <<abQueue, abStack, abHeard, abTroubles, toOwnVars, lzVars>>
(* A handler that is taken off is still called for an event whose frame    *)
(* has been collected.                                                     *)
AbUnsubscribe(s) ==
  /\ s \in abOn /\ abTroubles < AbTroubles /\ abTroubles' = abTroubles + 1 /\ abOn' = abOn \ {s}
  /\ UNCHANGED <<abQueue, abStack, abHeard, toOwnVars, lzVars>>

AbDrainAtOnce ==
  /\ abQueue # <<>>
  /\ abQueue' = Tail(abQueue)
  /\ abStack' = [abStack EXCEPT !["drain"] = Append(@, AbFrame(Head(abQueue)))]
  /\ UNCHANGED <<abOn, abHeard, abTroubles, toOwnVars, lzVars>>
(* drain: the next event once the last one is through.                     *)
AbDrain ==
  /\ abStack["drain"] = <<>> /\ abQueue # <<>>
  /\ abQueue' = Tail(abQueue)
  /\ abStack' = [abStack EXCEPT !["drain"] = <<AbFrame(Head(abQueue))>>]
  /\ UNCHANGED <<abOn, abHeard, abTroubles, toOwnVars, lzVars>>

(* processEvent calls the next handler of the top frame.  The handler      *)
(* returns; or throws, and the error is emitted as an event of its own,    *)
(* whose handlers' errors are swallowed; or emits, and the nested event is *)
(* handled before the next handler of this one.                            *)
AbHandle(t) ==
  /\ abStack[t] # <<>> /\ Last(abStack[t]).left # <<>>
  /\ LET top == Last(abStack[t])
         rest == Append(Front(abStack[t]), [event |-> top.event, left |-> Tail(top.left)])
         more(kind) == Append(rest, AbFrame(AbEvent(kind, top.event.of, "none")))
     IN /\ abHeard' = [abHeard EXCEPT ![Head(top.left)] = Append(@, top.event)]
        /\ \/ abStack' = [abStack EXCEPT ![t] = rest] /\ UNCHANGED abTroubles
           \/ /\ abTroubles < AbTroubles /\ abTroubles' = abTroubles + 1
              /\ \E kind \in (IF top.event.kind = "error" THEN {} ELSE {"error"}) \cup {"other"} :
                   abStack' = [abStack EXCEPT ![t] = more(kind)]
  /\ UNCHANGED <<abOn, abQueue, toOwnVars, lzVars>>

(* A frame that has no handler left.  The last one of the drain resolves   *)
(* the emit, and its call goes on.                                         *)
AbReturn(t) ==
  /\ abStack[t] # <<>> /\ Last(abStack[t]).left = <<>>
  /\ abStack' = [abStack EXCEPT ![t] = Front(@)]
  /\ LET e == Last(abStack[t]).event IN
       toPhase' = [c \in ToCalls |-> IF c.id = e.of /\ e.end # "none" THEN e.end ELSE toPhase[c]]
  /\ UNCHANGED <<abOn, abQueue, abHeard, abTroubles, lzVars, toTools, toScope, toContext, toRan, toTouched, toChanges>>

(* Work a handler started and did not await still runs in its async        *)
(* context: its emit is taken for a nested one and does not queue.         *)
AbDetached ==
  /\ abStack["detached"] = <<>> /\ abTroubles < AbTroubles /\ abTroubles' = abTroubles + 1
  /\ \E s \in ToSet(AbOrder) : abHeard[s] # <<>>
  /\ abStack' = [abStack EXCEPT !["detached"] = <<AbFrame(AbEvent("other", 0, "none"))>>]
  /\ UNCHANGED <<abOn, abQueue, abHeard, toOwnVars, lzVars>>

AbNext ==
  \/ \E s \in ToSet(AbOrder) : AbSubscribe(s) \/ AbUnsubscribe(s)
  \/ \E t \in {"drain", "detached"} : AbHandle(t) \/ AbReturn(t)
  \/ AbDrain \/ AbDetached

---------------------------------------------------------------------------
(* The permission policy: the first rule that fits decides, and nothing    *)
(* is allowed that no rule fits.  A rule is [source, action, effect].      *)
PpFits(rule, source, action) == rule.source \in {"*", source} /\ rule.action \in {"*", action}
PpCheck(rules, source, action) ==
  LET fit == {i \in DOMAIN rules : PpFits(rules[i], source, action)}
  IN fit # {} /\ rules[Min(fit)].effect = "allow"

(* The catalog: what it has, and what an agent's scope takes.              *)
ToIn(scope, name) == "none" \notin DOMAIN scope /\ (scope.names = {"*"} \/ name \in scope.names)
ToScopeAllows(scope, name) == (name \in ToExternal => scope.external) /\ ToIn(scope, name)
ToVisibleTo(a) == {n \in toTools : ToScopeAllows(toScope[a], n)}

ToRegister(n) ==
  /\ n \notin toTools /\ toTools' = toTools \cup {n}
  /\ UNCHANGED <<toScope, toPhase, toContext, toRan, toTouched, toChanges, abVars, lzVars>>
ToUnregister(n) ==
  /\ toChanges < ToChanges /\ toChanges' = toChanges + 1
  /\ n \in toTools /\ toTools' = toTools \ {n}
  /\ UNCHANGED <<toScope, toPhase, toContext, toRan, toTouched, abVars, lzVars>>
ToSetAgentScope(a, s) ==
  /\ toChanges < ToChanges /\ toChanges' = toChanges + 1
  /\ toScope' = [toScope EXCEPT ![a] = s]
  /\ UNCHANGED <<toTools, toPhase, toContext, toRan, toTouched, abVars, lzVars>>

(* emitEvent: a top-level emit waits its turn.                             *)
ToEmit(c, kind, end) == abQueue' = Append(abQueue, AbEvent(kind, c.id, end))

ToStart(c) ==
  /\ toPhase[c] = "idle" /\ toPhase' = [toPhase EXCEPT ![c] = "starting"]
  /\ ToEmit(c, "started", "check")
  /\ UNCHANGED <<toTools, toScope, toContext, toRan, toTouched, toChanges, abOn, abStack, abHeard, abTroubles, lzVars>>

(* call, when its started event has been heard: the tool, the scope and    *)
(* the policy are looked up now, and the tool runs or the call fails.      *)
ToMayRun(c) ==
  /\ c.tool \in toTools
  /\ ToIn(toScope[c.agent], c.tool)
  /\ c.tool \in ToExternal => toScope[c.agent].external

ToLookUp(c) ==
  /\ toPhase[c] = "check"
  /\ \/ /\ ToMayRun(c)
        /\ toPhase' = [toPhase EXCEPT ![c] = "run"]
        /\ toContext' = [toContext EXCEPT ![c] = toScope[c.agent].policy]
        /\ toRan' = toRan \cup {[id |-> c.id, visible |-> c.tool \in ToVisibleTo(c.agent)]}
        /\ UNCHANGED abQueue
     \/ /\ ~ToMayRun(c)
        /\ toPhase' = [toPhase EXCEPT ![c] = "ending"] /\ ToEmit(c, "failed", "threw")
        /\ UNCHANGED <<toContext, toRan>>
  /\ UNCHANGED <<toTools, toScope, toTouched, toChanges, abOn, abStack, abHeard, abTroubles, lzVars>>

(* The tool asks its context before it touches something; a refusal throws *)
(* through the tool.                                                       *)
ToTouch(c, action) ==
  /\ toPhase[c] = "run"
  /\ \/ /\ PpCheck(toContext[c], c.agent, action)
        /\ toTouched' = toTouched \cup {<<c, action>>} /\ UNCHANGED <<toPhase, abQueue>>
     \/ /\ ~PpCheck(toContext[c], c.agent, action)
        /\ toPhase' = [toPhase EXCEPT ![c] = "ending"] /\ ToEmit(c, "failed", "threw") /\ UNCHANGED toTouched
  /\ UNCHANGED <<toTools, toScope, toContext, toRan, toChanges, abOn, abStack, abHeard, abTroubles, lzVars>>

ToFinish(c) ==
  /\ toPhase[c] = "run" /\ toPhase' = [toPhase EXCEPT ![c] = "ending"]
  /\ ToEmit(c, "completed", "returned") \/ ToEmit(c, "failed", "threw")
  /\ UNCHANGED <<toTools, toScope, toContext, toRan, toTouched, toChanges, abOn, abStack, abHeard, abTroubles, lzVars>>

ToCatalogNext ==
  \/ \E n \in ToNames : ToRegister(n) \/ ToUnregister(n)
  \/ \E a \in ToAgents, s \in ToScopes : ToSetAgentScope(a, s)
  \/ \E c \in ToCalls : ToStart(c) \/ ToLookUp(c) \/ ToFinish(c) \/ ToTouch(c, "read") \/ ToTouch(c, "write")
  \/ AbNext

---------------------------------------------------------------------------
(* The search among lazy tools.  A word of the name counts three times: as *)
(* a word of the text, and twice more.                                     *)
LzScore(t, q) == Cardinality(t.words \cap q) + 2 * Cardinality(t.nameWords \cap q)

LzOldestFirst(x, y) == x.at < y.at
LzBefore(x, y) == x.score > y.score \/ (x.score = y.score /\ x.at < y.at)
(* rankTools: those that score, best first and in the order they were      *)
(* registered among equals, as many as the limit.                          *)
LzRankTools(q) ==
  LET found == {[at |-> i, score |-> LzScore(LzTools[i], q)] : i \in {i \in DOMAIN LzTools : LzScore(LzTools[i], q) > 0}}
      ranked == SetToSortSeq(found, LzBefore)
  IN [i \in 1 .. Min({LzLimit, Len(ranked)}) |-> ranked[i].at]

(* tool_search: the hits of every query, each once, in the order they were *)
(* first found; a search past the budget of the run finds nothing.         *)
LzSearch(qs) ==
  /\ lzSearches' = lzSearches + 1
  /\ lzFound' = IF lzSearches' > LzMaxSearches THEN <<>>
                ELSE FoldLeft(LAMBDA hits, q : hits \o SelectSeq(LzRankTools(q), LAMBDA i : i \notin ToSet(hits)), <<>>, qs)
  /\ UNCHANGED <<toOwnVars, abVars>>
LzNewRun ==
  /\ lzSearches # 0 /\ lzSearches' = 0 /\ lzFound' = <<>> /\ UNCHANGED <<toOwnVars, abVars>>
LzNext ==
  \/ \E q, r \in LzQueries : lzSearches <= LzMaxSearches /\ LzSearch(<<q, r>>)
  \/ LzNewRun

---------------------------------------------------------------------------
ToTypeOK ==
  /\ toTools \subseteq ToNames /\ toChanges \in 0 .. ToChanges
  /\ \A c \in ToCalls : toPhase[c] \in {"idle", "starting", "check", "run", "ending", "returned", "threw"}
  /\ abOn \subseteq ToSet(AbOrder) /\ abTroubles \in 0 .. AbTroubles
  /\ lzSearches \in 0 .. LzMaxSearches + 1

(* Whoever listens hears a call's story in order: of two events of a call  *)
(* the first is its start and the second its end, so no more than two      *)
(* (catalog.call awaits each emit, and the bus delivers top-level events   *)
(* one at a time; who came late may have heard an end only).               *)
ToTellsOf(e, c) == e.of = c.id /\ e.end # "none"
ToStoriesInOrder ==
  \A s \in ToSet(AbOrder), c \in ToCalls : \A i, j \in DOMAIN abHeard[s] :
    i < j /\ ToTellsOf(abHeard[s][i], c) /\ ToTellsOf(abHeard[s][j], c)
      => abHeard[s][i].kind = "started" /\ abHeard[s][j].kind \in {"completed", "failed"}

(* A tool has run only after everyone listening at the time heard that the *)
(* call had started, and for an agent that could see it then; what it      *)
(* touched the policy it was given allows.                                 *)
ToRunsWithinScope ==
  /\ \A r \in toRan : r.visible
  /\ \A x \in toTouched : PpCheck(toContext[x[1]], x[1].agent, x[2])
  /\ \A n \in DOMAIN abQueue, c \in ToCalls : abQueue[n] = AbEvent("started", c.id, "check") => toPhase[c] = "starting"

(* Two subscriptions never hear two top-level events in opposite orders,   *)
(* and none hears one of them twice ("Two parallel emit(A) and emit(B)     *)
(* complete in submission order").                                         *)
AbSameOrder ==
  \A s, u \in ToSet(AbOrder) : \A i, j \in DOMAIN abHeard[s] :
    i < j /\ abHeard[s][i].end # "none" /\ abHeard[s][j].end # "none"
      => \A k, l \in DOMAIN abHeard[u] : abHeard[u][k] = abHeard[s][i] /\ abHeard[u][l] = abHeard[s][j] => k < l

(* What each call reports agrees with what it did: it completes only if    *)
(* its tool ran.                                                           *)
ToReportsTrue ==
  \A c \in ToCalls : toPhase[c] = "returned" => \E r \in toRan : r.id = c.id

(* rankTools returns the best: no tool it leaves out beats one it returns, *)
(* each is returned once, and none without a match.                        *)
LzReturnsTheBest ==
  \A q \in LzQueries :
    LET ranked == LzRankTools(q) IN
      /\ IsInjective(ranked) /\ \A i \in ToSet(ranked) : LzScore(LzTools[i], q) > 0
      /\ \A i \in ToSet(ranked), j \in DOMAIN LzTools \ ToSet(ranked) :
           \/ LzScore(LzTools[i], q) >= LzScore(LzTools[j], q) /\ Len(ranked) = LzLimit
           \/ LzScore(LzTools[j], q) = 0
      /\ \A i, j \in DOMAIN ranked : i < j => LzScore(LzTools[ranked[i]], q) >= LzScore(LzTools[ranked[j]], q)

ToFaithful == ToStoriesInOrder /\ AbSameOrder /\ ToRunsWithinScope /\ ToReportsTrue
=============================================================================
