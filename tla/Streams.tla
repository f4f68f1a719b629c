------------------------------ MODULE Streams ------------------------------
(***************************************************************************)
(* The two streams of the SDK: server-sent events (network/sse.ts) and     *)
(* realtime sessions over a socket (network/realtime-connection.ts,        *)
(* llm/realtime/session.ts, the openai and google sessions and             *)
(* helpers/realtime.ts).                                                   *)
(*                                                                         *)
(* A line of text is told apart by its first letter: "d" a data: field,    *)
(* "z" a data: field that says [DONE], "e" an event: or id: field, "c" a   *)
(* comment.  "cr" and "lf" end lines.                                      *)
(***************************************************************************)
EXTENDS Integers, Sequences, SequencesExt

CONSTANTS
  StLetters,   \* letters of the texts, of "d", "z", "e", "c"
  StLength,    \* bound: length of a text
  RtCalls,     \* calls of RealtimeSession.send
  RtKinds,     \* sessions to consider, of "openai", "google"
  RtFrames     \* bound: frames the provider sends

ASSUME StAssumption ==
  /\ StLetters \subseteq {"d", "z", "e", "c"} /\ StLength \in Nat
  /\ RtKinds \subseteq {"openai", "google"} /\ RtFrames \in Nat

VARIABLES
  stText,     \* what the server sends
  stAt,       \* how much of it has been read
  stPc,       \* the generator: reading, done, or returned early
  stBuffer, stPending,  \* the line decoder: buffer and pendingLineFeed
  stEvent,    \* the event accumulator
  stOut       \* events yielded

stVars == <<stText, stAt, stPc, stBuffer, stPending, stEvent, stOut>>

StNothing == [named |-> FALSE, data |-> <<>>, some |-> FALSE]
StTexts == UNION {[1 .. n -> StLetters \cup {"cr", "lf"}] : n \in 0 .. StLength}

StInit ==
  /\ stText \in StTexts
  /\ stAt = 0 /\ stPc = "reading"
  /\ stBuffer = <<>> /\ stPending = FALSE
  /\ stEvent = StNothing /\ stOut = <<>>

(* One character of the scan: a "lf" right after the "cr" that ended the   *)
(* line is passed over.                                                    *)
StScan(acc, ch) ==
  CASE ch = "lf" /\ acc.cr -> [acc EXCEPT !.cr = FALSE]
    [] ch \in {"lf", "cr"} /\ ~(ch = "lf" /\ acc.cr) ->
         [line |-> <<>>, lines |-> Append(acc.lines, acc.line), cr |-> ch = "cr"]
    [] OTHER -> [acc EXCEPT !.line = Append(@, ch), !.cr = FALSE]

StKeepLineFeed(chunk) == chunk

(* A line feed at the head of a chunk belongs to the "cr" before it.       *)
StSkipLineFeed(chunk) ==
  IF stPending /\ chunk # <<>> /\ Head(chunk) = "lf" THEN Tail(chunk) ELSE chunk

(* dispatch: an event without data, or one that says [DONE], is no event.  *)
StDispatch(acc) ==
  [event |-> StNothing,
   out |-> IF ~acc.event.some \/ acc.event.data = <<<<"z">>>> THEN acc.out
           ELSE Append(acc.out, [named |-> acc.event.named, data |-> acc.event.data])]

(* EventAccumulator.push.                                                  *)
StPushLine(acc, line) ==
  CASE line = <<>> -> StDispatch(acc)
    [] line # <<>> /\ Head(line) \in {"d", "z"} ->
         [acc EXCEPT !.event.data = Append(@, line), !.event.some = TRUE]
    [] line # <<>> /\ Head(line) = "e" -> [acc EXCEPT !.event.named = TRUE]
    [] OTHER -> acc

(* The next chunk is read: TextDecoder gives a text that is not empty.     *)
StRead(n) ==
  LET scan == FoldLeft(StScan, [line |-> stBuffer, lines |-> <<>>, cr |-> FALSE],
                       StSkipLineFeed(SubSeq(stText, stAt + 1, stAt + n)))
      acc == FoldLeft(StPushLine, [event |-> stEvent, out |-> stOut], scan.lines)
  IN  /\ stPc = "reading" /\ stAt + n <= Len(stText)
      /\ stAt' = stAt + n
      /\ stBuffer' = scan.line /\ stPending' = scan.cr
      /\ stEvent' = acc.event /\ stOut' = acc.out
      /\ UNCHANGED <<stText, stPc>>

(* The end of the body: flush, and a last event without its blank line.    *)
StTail(acc, rest) == IF rest = <<>> THEN acc ELSE StPushLine(acc, rest)

StEnd ==
  LET acc == StTail([event |-> stEvent, out |-> stOut], stBuffer)
  IN  /\ stPc = "reading" /\ stAt = Len(stText)
      /\ stPc' = "done"
      /\ stOut' = StDispatch(acc).out /\ stEvent' = StNothing /\ stBuffer' = <<>>
      /\ UNCHANGED <<stText, stAt, stPending>>

(* The consumer returns early, or the body fails: the reader is cancelled. *)
StReturn ==
  /\ stPc = "reading"
  /\ stPc' = "returned"
  /\ UNCHANGED <<stText, stAt, stBuffer, stPending, stEvent, stOut>>

StNext == StEnd \/ StReturn \/ \E n \in 1 .. StLength : StRead(n)

(* The lines of a whole text: it ends one at every "cr", and at every "lf" *)
(* that does not follow one.                                               *)
StEnds(t) == {i \in 1 .. Len(t) : t[i] = "cr" \/ (t[i] = "lf" /\ (i = 1 \/ t[i - 1] # "cr"))}
StLetter(ch) == ch \notin {"cr", "lf"}
StLinesOf(t) ==
  LET ends == <<0>> \o SetToSortSeq(StEnds(t), <)
  IN  [k \in 1 .. Len(ends) - 1 |-> SelectSeq(SubSeq(t, ends[k] + 1, ends[k + 1] - 1), StLetter)]
StRestOf(t) == LET last == FoldLeft(LAMBDA m, i : IF i \in StEnds(t) THEN i ELSE m, 0, [i \in 1 .. Len(t) |-> i])
               IN  SelectSeq(SubSeq(t, last + 1, Len(t)), StLetter)
StEventsOf(t) ==
  StDispatch(StTail(FoldLeft(StPushLine, [event |-> StNothing, out |-> <<>>], StLinesOf(t)), StRestOf(t))).out

(* Where the network cuts the text never shows (makeLineDecoder): what the *)
(* generator yields is what the whole text says, in order, and a "cr" "lf" *)
(* cut in two does not end an event early.                                 *)
StChunksDoNotShow ==
  /\ IsPrefix(stOut, StEventsOf(stText))
  /\ stPc = "done" => stOut = StEventsOf(stText)

-----------------------------------------------------------------------------

VARIABLES
  rtKind,     \* the provider
  rtSock,     \* the socket: connecting, open, closing, closed
  rtReady, rtOutbox,  \* BaseRealtimeSession
  rtCalled,   \* the calls of send, in order
  rtWire,     \* frames written to the open socket
  rtIn,       \* frames received
  rtHeard,    \* events emitted to the application
  rtBilled    \* onCompletion hooks with a usage

rtVars == <<rtKind, rtSock, rtReady, rtOutbox, rtCalled, rtWire, rtIn, rtHeard, rtBilled>>

(* What the provider may send; "void" stands for frames that say nothing.  *)
RtFrame == {"setupComplete", "text", "audio", "usage", "done", "doneUsage", "error", "void"}

RtInit ==
  /\ rtKind \in RtKinds
  /\ rtSock = "connecting" /\ rtReady = FALSE
  /\ rtOutbox = <<>> /\ rtCalled = <<>> /\ rtWire = <<>>
  /\ rtIn = <<>> /\ rtHeard = <<>> /\ rtBilled = 0

(* sendJSON over RealtimeConnectionImpl.send: a socket past open takes the *)
(* frames and drops them.                                                  *)
RtWrite(frames) == IF rtSock' = "open" THEN rtWire \o frames ELSE rtWire

(* markReady, given what was written before it in the same turn.           *)
RtMarkReady(before) ==
  IF rtReady
  THEN rtWire' = RtWrite(before) /\ UNCHANGED <<rtReady, rtOutbox, rtHeard>>
  ELSE /\ rtReady' = TRUE
       /\ rtWire' = RtWrite(before \o rtOutbox) /\ rtOutbox' = <<>>
       /\ rtHeard' = Append(rtHeard, "open")

(* handleOpen, then onOpen of the session: openai is ready once its setup  *)
(* is out, google when the server says so.                                 *)
RtOpens ==
  /\ rtSock = "connecting"
  /\ rtSock' = "open"
  /\ IF rtKind = "openai" THEN RtMarkReady(<<"setup">>)
     ELSE rtWire' = RtWrite(<<"setup">>) /\ UNCHANGED <<rtReady, rtOutbox, rtHeard>>
  /\ UNCHANGED <<rtKind, rtCalled, rtIn, rtBilled>>

RtSendAtOnce(c) ==
  /\ c \notin Range(rtCalled)
  /\ rtSock' = rtSock /\ rtCalled' = Append(rtCalled, c)
  /\ rtWire' = RtWrite(<<c>>) /\ UNCHANGED rtOutbox
  /\ UNCHANGED <<rtKind, rtReady, rtIn, rtHeard, rtBilled>>

(* send, through whenReady.                                                *)
RtSend(c) ==
  /\ c \notin Range(rtCalled)
  /\ rtSock' = rtSock /\ rtCalled' = Append(rtCalled, c)
  /\ IF rtReady THEN rtWire' = RtWrite(<<c>>) /\ UNCHANGED rtOutbox
     ELSE rtOutbox' = Append(rtOutbox, c) /\ UNCHANGED rtWire
  /\ UNCHANGED <<rtKind, rtReady, rtIn, rtHeard, rtBilled>>

(* What onFrame of each session emits for a frame.                         *)
RtEmits(f) ==
  CASE f \in {"text", "audio"} -> <<f>>
    [] f = "usage" -> IF rtKind = "google" THEN <<"usage">> ELSE <<>>
    [] f = "done" -> <<"turnComplete">>
    [] f = "doneUsage" -> <<"usage", "turnComplete">>
    [] f = "error" -> IF rtKind = "openai" THEN <<"error">> ELSE <<>>
    [] OTHER -> <<>>

RtReceive(f) ==
  /\ rtSock \in {"open", "closing"} /\ Len(rtIn) < RtFrames
  /\ rtSock' = rtSock
  /\ rtIn' = Append(rtIn, f)
  /\ IF f = "setupComplete" /\ rtKind = "google"
     THEN RtMarkReady(<<>>) /\ UNCHANGED rtBilled
     ELSE /\ rtHeard' = rtHeard \o RtEmits(f)
          /\ rtBilled' = rtBilled + Len(SelectSeq(RtEmits(f), LAMBDA e : e = "usage"))
          /\ UNCHANGED <<rtReady, rtOutbox, rtWire>>
  /\ UNCHANGED <<rtKind, rtCalled>>

RtClose ==
  /\ rtSock \in {"connecting", "open"}
  /\ rtSock' = "closing"
  /\ UNCHANGED <<rtKind, rtReady, rtOutbox, rtCalled, rtWire, rtIn, rtHeard, rtBilled>>

(* handleError and handleClose: an error is always followed by a close.    *)
RtClosed(failed) ==
  /\ rtSock # "closed"
  /\ rtSock' = "closed"
  /\ rtHeard' = rtHeard \o (IF failed THEN <<"error", "close">> ELSE <<"close">>)
  /\ UNCHANGED <<rtKind, rtReady, rtOutbox, rtCalled, rtWire, rtIn, rtBilled>>

RtNext ==
  \/ RtOpens \/ RtClose
  \/ \E c \in RtCalls : RtSend(c)
  \/ \E f \in RtFrame : RtReceive(f)
  \/ \E failed \in BOOLEAN : RtClosed(failed)

StTypeOK ==
  /\ stPc \in {"reading", "done", "returned"} /\ stAt \in 0 .. Len(stText) /\ stPending \in BOOLEAN
  /\ rtKind \in RtKinds /\ rtSock \in {"connecting", "open", "closing", "closed"}
  /\ rtReady \in BOOLEAN /\ Range(rtOutbox) \cup Range(rtCalled) \subseteq RtCalls
  /\ rtBilled \in Nat

(* Nothing leaves before the setup frame, what was sent before the session *)
(* was ready leaves after it and in the order of the calls, and no call of *)
(* an open session is lost or written twice (onOpen, markReady,            *)
(* whenReady); "open" is announced after that, once.                       *)
RtFramesInCallOrder ==
  LET sent == IF rtWire = <<>> THEN <<>> ELSE Tail(rtWire)
  IN  /\ rtWire # <<>> => Head(rtWire) = "setup"
      /\ IF rtSock \in {"connecting", "open"} THEN sent \o rtOutbox = rtCalled
         ELSE IsPrefix(sent, rtCalled)
      /\ Len(SelectSeq(rtHeard, LAMBDA e : e = "open")) = IF rtReady THEN 1 ELSE 0

=============================================================================
