--------------------------- MODULE ContextGuard ---------------------------
(***************************************************************************)
(* A conversation (agent/history.ts) and what keeps it inside the model's  *)
(* window: the measurer counts a request, the guard compares the count     *)
(* with the ladder of triggers of the conversation's strategy, and the     *)
(* strategy rewrites the history in place until the request fits, or the   *)
(* request is aborted.                                                     *)
(*                                                                         *)
(* A message is its kind, the id of its call (a call and its result share  *)
(* it) and its size in tokens: counters agree on a size here, and what a   *)
(* summariser returns is a size and whether facts came with it.            *)
(***************************************************************************)
EXTENDS Integers, Sequences, SequencesExt, FiniteSets

CONSTANTS
  CgStrategies,   \* strategies to consider: "truncate", "anchored", "layered", "off"
  CgWindow,       \* the model's context window, in tokens
  CgRecent,       \* keepRecent, recentCount
  CgMaxRetries,   \* maxCompactRetries
  CgSizes,        \* sizes of messages
  CgSystem,       \* sizes of the system text
  CgTurns         \* bound: messages of a conversation

ASSUME CgAssumption ==
  /\ CgStrategies \subseteq {"truncate", "anchored", "layered", "off"}
  /\ CgWindow \in Nat \ {0} /\ CgRecent \in Nat \ {0} /\ CgMaxRetries \in Nat
  /\ CgSizes \subseteq Nat /\ CgSystem \subseteq Nat /\ CgTurns \in Nat

VARIABLES
  hiEntries,    \* ConversationHistory.entries, as messages
  hiActual, hiIndex,  \* _lastActualTotal, _lastActualEntryIndex
  hiFacts,      \* the facts layer of the history's registry is set
  cgStrategy,   \* metadata.contextStrategy, resolved
  cgSystem,     \* size of the system text without the facts
  cgLevel, cgCurrent,  \* GuardConversationState: lastLevelIdx, lastCurrent
  cgPc,         \* idle, guard (inside handleMeasure), sent
  cgReq,        \* the request being measured
  cgCuts,       \* kinds of cut this history has seen
  cgNext        \* id of the next message

hiVars == <<hiEntries, hiActual, hiIndex, hiFacts>>
cgVars == <<hiVars, cgStrategy, cgSystem, cgLevel, cgCurrent, cgPc, cgReq, cgCuts, cgNext>>

-----------------------------------------------------------------------------
(* The history.                                                            *)

CgSum(es) == FoldLeft(LAMBDA n, e : n + e.size, 0, es)
HiMessage(kind, id, size) == [kind |-> kind, id |-> id, size |-> size]

(* A result whose call is not in the entries from its own on.              *)
HiOrphanAt(es, i) ==
  es[i].kind = "result" /\ ~\E j \in i .. Len(es) : es[j].kind = "call" /\ es[j].id = es[i].id

(* truncate: the cut moves on past results whose call it removes.          *)
HiTruncate(es, keepLast) ==
  LET first == Len(es) - keepLast + 1
      cut == CHOOSE c \in first .. Len(es) + 1 :
               /\ c = Len(es) + 1 \/ ~HiOrphanAt(es, c)
               /\ \A d \in first .. c - 1 : HiOrphanAt(es, d)
  IN  IF keepLast >= Len(es) THEN es ELSE SubSeq(es, cut, Len(es))

(* spliceRange(from, to), 0-based and half open as in the code.            *)
HiSplice(es, from, to, m) ==
  IF from < 0 \/ to > Len(es) \/ from >= to THEN es
  ELSE SubSeq(es, 1, from) \o <<m>> \o SubSeq(es, to + 1, Len(es))

HiForgetsNothing(from) == UNCHANGED <<hiActual, hiIndex>>

(* A provider's count that covers a replaced entry is not kept.            *)
HiSpliceCount(from) ==
  IF hiIndex >= from THEN hiActual' = 0 /\ hiIndex' = -1 ELSE UNCHANGED <<hiActual, hiIndex>>

(* append of an assistant message with a usage: the count is the one of    *)
(* the prompt, so it stands for the entries before this one.               *)
HiAppendAnswer(m, inputTokens) ==
  /\ hiEntries' = Append(hiEntries, m)
  /\ IF inputTokens > 0
     THEN hiActual' = inputTokens /\ hiIndex' = Len(hiEntries) - 1
     ELSE UNCHANGED <<hiActual, hiIndex>>

HiAppend(m) == hiEntries' = Append(hiEntries, m) /\ UNCHANGED <<hiActual, hiIndex>>

HiSystem == cgSystem + (IF hiFacts THEN 1 ELSE 0)

(* estimatedTokens: a provider's count and what came after it.             *)
HiEstimated ==
  IF hiIndex >= 0 /\ hiIndex < Len(hiEntries)
  THEN hiActual + CgSum(SubSeq(hiEntries, hiIndex + 2, Len(hiEntries)))
  ELSE HiSystem + CgSum(hiEntries)

-----------------------------------------------------------------------------
(* The guard.                                                              *)

(* Each strategy's ladder, in hundredths of the window.                    *)
CgTriggers ==
  CASE cgStrategy = "layered"  -> <<50, 70, 85, 95>>
    [] cgStrategy = "anchored" -> <<70>>
    [] cgStrategy = "truncate" -> <<85>>
    [] cgStrategy = "off"      -> <<>>
CgLevels == <<"healthy", "pressure", "urgent", "critical">>
CgCriticalFloor == 95
CgCeiling == IF cgStrategy = "layered" THEN 90 ELSE 95

CgAtLeast(tokens, hundredths) == tokens * 100 >= hundredths * CgWindow
CgAbove(tokens) == Cardinality({i \in DOMAIN CgTriggers : CgAtLeast(tokens, CgTriggers[i])})

CgIdleReq == [messages |-> <<>>, system |-> 0, level |-> 0, delta |-> 0, attempt |-> 0,
              tokens |-> 0, ended |-> "none"]

CgInit ==
  /\ hiEntries = <<>> /\ hiActual = 0 /\ hiIndex = -1 /\ hiFacts = FALSE
  /\ cgStrategy \in CgStrategies /\ cgSystem \in CgSystem
  /\ cgLevel = 0 /\ cgCurrent = 0
  /\ cgPc = "idle" /\ cgReq = CgIdleReq /\ cgCuts = {} /\ cgNext = 1

(* The caller's message, and the result of a call.                         *)
CgUser(size) ==
  /\ cgPc = "idle" /\ cgNext <= CgTurns
  /\ hiEntries # <<>> => Last(hiEntries).kind # "call"
  /\ HiAppend(HiMessage("user", 0, size))
  /\ cgNext' = cgNext + 1
  /\ UNCHANGED <<hiFacts, cgStrategy, cgSystem, cgLevel, cgCurrent, cgPc, cgReq, cgCuts>>

CgResult(size) ==
  /\ cgPc = "idle" /\ hiEntries # <<>> /\ Last(hiEntries).kind = "call"
  /\ HiAppend(HiMessage("result", Last(hiEntries).id, size))
  /\ UNCHANGED <<hiFacts, cgStrategy, cgSystem, cgLevel, cgCurrent, cgPc, cgReq, cgCuts, cgNext>>

(* handleMeasure up to the strategy: the guard reacts to a level above the *)
(* last one, or to growth on the same level.                               *)
CgFires(crossed, total) ==
  crossed > cgLevel \/ (crossed > 0 /\ crossed = cgLevel /\ total > cgCurrent)

(* measureAndEmit counts the request and tells the guard.                  *)
CgMeasure ==
  LET total == HiSystem + CgSum(hiEntries)
      crossed == CgAbove(total)
      fires == CgFires(crossed, total)
  IN  /\ cgPc = "idle" /\ hiEntries # <<>> /\ Last(hiEntries).kind \in {"user", "result"}
      /\ cgReq' = [CgIdleReq EXCEPT !.messages = hiEntries, !.system = HiSystem,
                     !.level = crossed, !.delta = total - cgCurrent, !.tokens = total]
      /\ IF cgStrategy = "off"
         THEN cgPc' = "sent" /\ UNCHANGED <<cgLevel, cgCurrent>>
         ELSE /\ cgPc' = IF fires THEN "guard" ELSE "sent"
              /\ cgLevel' = IF fires \/ crossed > cgLevel THEN crossed ELSE cgLevel
              /\ cgCurrent' = total
      /\ UNCHANGED <<hiVars, cgStrategy, cgSystem, cgCuts, cgNext>>

(* segment({recentCount}): how many entries are old and how many middle.   *)
CgSegment(es, recent) ==
  LET rest == IF Len(es) > recent THEN Len(es) - recent ELSE 0
  IN  [old |-> rest \div 2, middle |-> rest - (rest \div 2)]

(* What takes the place of a range; without a summary it says so.          *)
CgSummary(size) == HiMessage("summary", 0, IF size = 0 THEN 1 ELSE size)
CgDecision(action, es, from, facts) ==
  [action |-> action, entries |-> es, from |-> from, facts |-> facts]

CgHalf == LET h == CgRecent \div 2 IN IF h > 2 THEN h ELSE 2

CgCompactOldLayer(es, size, facts) ==
  LET seg == CgSegment(es, CgRecent)
  IN  IF seg.old = 0 THEN CgDecision("none", es, Len(es), FALSE)
      ELSE CgDecision("compacted", HiSplice(es, 0, seg.old, CgSummary(size)), 0, facts)

CgCompactOldAndMiddle(es, size, facts) ==
  LET seg == CgSegment(es, CgRecent)
      old == IF seg.old > 0 THEN HiSplice(es, 0, seg.old, CgSummary(size)) ELSE es
      at == IF seg.old > 0 THEN 1 ELSE 0
      both == IF seg.middle > 0 THEN HiSplice(old, at, at + seg.middle, CgSummary(size)) ELSE old
  IN  CgDecision("compacted", both, IF seg.old + seg.middle > 0 THEN 0 ELSE Len(es),
                 facts /\ seg.old + seg.middle > 0)

CgCompactAll(es, size, facts) ==
  LET first == CgCompactOldAndMiddle(es, size, facts)
      n == Len(first.entries)
  IN  IF n > CgHalf
      THEN CgDecision("compacted", HiSplice(first.entries, 0, n - CgHalf, CgSummary(size)), 0, facts)
      ELSE first

CgCompactAggressive(es, size, facts) ==
  IF Len(es) <= 2 THEN CgDecision("decline", es, Len(es), FALSE)
  ELSE CgDecision("compacted", HiSplice(es, 0, Len(es) - 2, CgSummary(size)), 0, facts)

(* applyJumpEscalation: a jump of three tenths of the window is one level. *)
CgEscalated ==
  IF CgAtLeast(cgReq.delta, 30) /\ cgReq.level < Len(CgTriggers) THEN cgReq.level + 1 ELSE cgReq.level

CgLayered(size, facts) ==
  IF CgAtLeast(cgReq.tokens, CgCeiling) /\ cgReq.attempt >= 1
  THEN CgDecision("decline", hiEntries, Len(hiEntries), FALSE)
  ELSE CASE CgLevels[CgEscalated] = "healthy"  -> CgCompactOldLayer(hiEntries, size, facts)
         [] CgLevels[CgEscalated] = "pressure" -> CgCompactOldAndMiddle(hiEntries, size, facts)
         [] CgLevels[CgEscalated] = "urgent"   -> CgCompactAll(hiEntries, size, facts)
         [] CgLevels[CgEscalated] = "critical" -> CgCompactAggressive(hiEntries, size, facts)

(* How a strategy judges its own cut: by what the request is now.          *)
CgJudge(es, from) ==
  CgDecision(IF CgAtLeast(CgSum(es), CgCeiling) THEN "decline" ELSE "compacted", es, from, FALSE)

CgRetainAny(es) == LET n == Len(es) IN IF n > CgRecent THEN n - CgRecent ELSE 0

(* calculateRetainStartIndex: the cut goes back to the call of a result.   *)
CgRetainStart(es) ==
  LET start == IF Len(es) > CgRecent THEN Len(es) - CgRecent ELSE 0
      pair(i) == i > 0 /\ i < Len(es) /\ es[i + 1].kind = "result" /\ es[i].kind = "call"
  IN  CHOOSE s \in 0 .. start : ~pair(s) /\ \A k \in s + 1 .. start : pair(k)

(* The anchor is a message of role system that marks itself; mergeAnchor   *)
(* keeps its size under a cap.  A summary of nothing is refused.           *)
CgAnchored(size) ==
  LET anchor == hiEntries[1].kind = "anchor"
      start == CgRetainStart(hiEntries)
      merged == IF anchor /\ size = 1 THEN hiEntries[1].size ELSE size
  IN  CASE Len(hiEntries) <= CgRecent + 1 \/ start <= (IF anchor THEN 1 ELSE 0) ->
             CgDecision("none", hiEntries, Len(hiEntries), FALSE)
        [] Len(hiEntries) > CgRecent + 1 /\ start > (IF anchor THEN 1 ELSE 0) /\ size = 0 ->
             CgDecision("decline", hiEntries, Len(hiEntries), FALSE)
        [] OTHER -> CgJudge(HiSplice(hiEntries, 0, start, HiMessage("anchor", 0, merged)), 0)

(* dropOldest(total - keepRecent) goes through truncate.                   *)
CgTruncate ==
  IF Len(hiEntries) <= CgRecent THEN CgDecision("none", hiEntries, Len(hiEntries), FALSE)
  ELSE CgJudge(HiTruncate(hiEntries, CgRecent), 0)

CgDecide(size, facts) ==
  CASE cgStrategy = "truncate" -> CgTruncate
    [] cgStrategy = "anchored" -> CgAnchored(size)
    [] cgStrategy = "layered"  -> CgLayered(size, facts)

(* After a compaction the guard counts the messages again and is content   *)
(* below the floor and below the trigger.                                  *)
CgTryAgain(tokens) ==
  CgAtLeast(tokens, CgCriticalFloor) \/ CgAtLeast(tokens, CgTriggers[cgReq.level])

(* injectFacts: facts go to a layer of the history's registry, and the     *)
(* next extraction starts from them.                                       *)
CgFacts(facts) == hiFacts \/ facts

(* One turn of the loop in handleMeasure.  Whatever replaceRange and       *)
(* dropOldest do to the history, the request's messages are rebuilt from   *)
(* it in place.                                                            *)
CgReact(size, facts) ==
  LET d == CgDecide(size, facts)
      cut == d.entries # hiEntries \/ d.from < Len(hiEntries)
      tokens == CgSum(d.entries)
      again == d.action = "compacted" /\ CgTryAgain(tokens)
  IN  /\ cgPc = "guard"
      /\ hiEntries' = d.entries
      /\ IF cut /\ cgStrategy # "truncate" THEN HiSpliceCount(d.from) ELSE UNCHANGED <<hiActual, hiIndex>>
      /\ hiFacts' = CgFacts(d.facts)
      /\ cgCuts' = IF cut THEN cgCuts \cup {cgStrategy} ELSE cgCuts
      /\ cgReq' = [cgReq EXCEPT
                     !.messages = IF cut THEN d.entries ELSE @,
                     !.tokens = IF d.action = "compacted" THEN tokens ELSE @,
                     !.attempt = IF again THEN @ + 1 ELSE @,
                     !.ended = CASE d.action = "decline" -> "declined"
                                 [] d.action = "none" -> "passed"
                                 [] d.action = "compacted" /\ ~again -> "fits"
                                 [] again /\ cgReq.attempt = CgMaxRetries -> "exhausted"
                                 [] again /\ cgReq.attempt < CgMaxRetries -> "none"]
      /\ cgPc' = CASE cgReq'.ended = "none" -> "guard"
                   [] cgReq'.ended \in {"declined", "exhausted"} -> "idle"
                   [] cgReq'.ended \in {"passed", "fits"} -> "sent"
      /\ UNCHANGED <<cgStrategy, cgSystem, cgLevel, cgCurrent, cgNext>>

(* The model answers, with a text or with a call, and says what the prompt *)
(* cost.                                                                   *)
CgAnswer(kind, size) ==
  /\ cgPc = "sent" /\ cgNext <= CgTurns
  /\ HiAppendAnswer(HiMessage(kind, IF kind = "call" THEN cgNext ELSE 0, size), cgReq.system + CgSum(cgReq.messages))
  /\ cgNext' = cgNext + 1 /\ cgPc' = "idle" /\ cgReq' = CgIdleReq
  /\ UNCHANGED <<hiFacts, cgStrategy, cgSystem, cgLevel, cgCurrent, cgCuts>>

(* The application cuts the history itself, between two turns.             *)
CgAppTruncate(keep) ==
  /\ cgPc = "idle" /\ keep < Len(hiEntries) /\ Last(hiEntries).kind # "call"
  /\ hiEntries' = HiTruncate(hiEntries, keep) /\ cgCuts' = cgCuts \cup {"app"}
  /\ UNCHANGED <<hiActual, hiIndex, hiFacts, cgStrategy, cgSystem, cgLevel, cgCurrent, cgPc, cgReq, cgNext>>

CgAppClear ==
  /\ cgPc = "idle" /\ hiEntries # <<>>
  /\ hiEntries' = <<>> /\ cgCuts' = cgCuts \cup {"app"}
  /\ UNCHANGED <<hiActual, hiIndex, hiFacts, cgStrategy, cgSystem, cgLevel, cgCurrent, cgPc, cgReq, cgNext>>

(* export and import, or fork: entries, layers and metadata travel, the    *)
(* provider's count does not.                                              *)
CgReload ==
  /\ cgPc = "idle" /\ hiIndex # -1
  /\ hiActual' = 0 /\ hiIndex' = -1
  /\ UNCHANGED <<hiEntries, hiFacts, cgStrategy, cgSystem, cgLevel, cgCurrent, cgPc, cgReq, cgCuts, cgNext>>

CgNext_ ==
  \/ \E size \in CgSizes : CgUser(size) \/ CgResult(size)
  \/ CgMeasure \/ CgAppClear \/ CgReload
  \/ \E size \in 0 .. 2, facts \in BOOLEAN : CgReact(size, facts)
  \/ \E kind \in {"text", "call"}, size \in CgSizes : CgAnswer(kind, size)
  \/ \E keep \in 1 .. CgRecent : CgAppTruncate(keep)

CgSpec == CgInit /\ [][CgNext_]_cgVars

-----------------------------------------------------------------------------
CgKinds == {"user", "text", "call", "result", "summary", "anchor"}
CgTypeOK ==
  /\ \A i \in DOMAIN hiEntries : hiEntries[i].kind \in CgKinds /\ hiEntries[i].size \in Nat
  /\ hiActual \in Nat /\ hiIndex \in -1 .. CgTurns * 2 /\ hiFacts \in BOOLEAN
  /\ cgStrategy \in CgStrategies /\ cgSystem \in CgSystem
  /\ cgLevel \in 0 .. 4 /\ cgCurrent \in Nat
  /\ cgPc \in {"idle", "guard", "sent"}
  /\ cgReq.attempt \in 0 .. CgMaxRetries + 1 /\ cgCuts \subseteq {"app"} \cup CgStrategies
  /\ cgNext \in 1 .. CgTurns + 1

(* A result answers a call that is still in the history, and a call has    *)
(* its result unless it is the last message.                               *)
CgPairsComplete ==
  \A i \in DOMAIN hiEntries :
    /\ hiEntries[i].kind = "result" =>
         \E j \in 1 .. i - 1 : hiEntries[j].kind = "call" /\ hiEntries[j].id = hiEntries[i].id
    /\ hiEntries[i].kind = "call" /\ i < Len(hiEntries) =>
         \E j \in i + 1 .. Len(hiEntries) :
           hiEntries[j].kind = "result" /\ hiEntries[j].id = hiEntries[i].id

(* truncate and the anchored strategy never separate a call and its result *)
(* (HiTruncate, CgRetainStart), however cuts of the guard and of the       *)
(* application follow each other.  The layered strategy does: see          *)
(* CgPairsComplete.                                                        *)
CgPairsKept == "layered" \notin cgCuts => CgPairsComplete

(* The guard lets a request through after a compaction only when its       *)
(* messages are below the floor and the trigger, tries no more often than  *)
(* it may, and leaves a request that says what the history says, its last  *)
(* message included.                                                       *)
CgRequestIsHistory ==
  /\ cgReq.attempt <= CgMaxRetries + 1
  /\ cgPc \in {"guard", "sent"} =>
       /\ cgReq.messages = hiEntries
       /\ hiEntries # <<>> /\ Last(hiEntries).kind \in {"user", "result"}
  /\ cgPc = "sent" /\ cgReq.ended = "fits" => ~CgTryAgain(CgSum(hiEntries))

(* estimatedTokens is the size of the conversation after every splice,     *)
(* append and reload: the provider's count is never kept for entries that  *)
(* are gone.  Facts written since that count come with the next one.       *)
(* truncate and clear keep the count, so histories cut by them are left    *)
(* out.                                                                    *)
CgEstimateIsExact ==
  cgCuts \cap {"app", "truncate"} = {} =>
    HiEstimated \in {HiSystem + CgSum(hiEntries), cgSystem + CgSum(hiEntries)}

CgFaithful == CgPairsKept /\ CgRequestIsHistory /\ CgEstimateIsExact
=============================================================================
