---------------------------- MODULE McpTransport ----------------------------
(***************************************************************************)
(* The JSON-RPC transports of the MCP client (plugins/mcp): the shared     *)
(* dispatch of base-transport.ts, the pipe of transport-stdio.ts, the      *)
(* socket of transport-ws.ts, the long-lived streams of transport-http.ts, *)
(* and the subscriptions (subscriptions.ts) client.ts opens over them.     *)
(*                                                                         *)
(* A message is its id.  The server may answer late, twice, or never; a    *)
(* timer may fire in any turn after it was armed.                          *)
(***************************************************************************)
EXTENDS Integers, FiniteSets

CONSTANTS
  TpCalls,    \* calls of request
  TpSubs,     \* calls of McpClient.listen
  TpAsks,     \* requests the server sends
  TpKinds,    \* transports to consider, of "stdio", "ws", "http"
  MAX_RESUME_ATTEMPTS

ASSUME TpAssumption ==
  /\ TpCalls \cap TpSubs = {}
  /\ TpKinds \subseteq {"stdio", "ws", "http"}
  /\ MAX_RESUME_ATTEMPTS \in Nat \ {0}

VARIABLES
  tpKind,     \* the transport in use
  tpConn,     \* proc or conn: null before "new" and after "closed"
  tpNext,     \* nextId
  tpId,       \* the id each call and each subscription was sent under
  tpCall,     \* what became of each call, and whose answer settled it
  tpPending,  \* calls with an entry and a timer in pending
  tpLong,     \* subscriptions with an entry in longLived
  tpHeld,     \* messages that reached the server, which it may answer
  tpSub,      \* each McpSubscription: none, opening, open, ended
  tpSubs,     \* the client's map subscriptions
  tpStream,   \* HTTP: the background reader of each subscription
  tpAsk       \* requests of the server: none, handling, answered, unsent

tpVars == <<tpKind, tpConn, tpNext, tpId, tpCall, tpPending, tpLong, tpHeld,
            tpSub, tpSubs, tpStream, tpAsk>>

TpOutcome == {"new", "waiting", "ok", "error", "timeout", "closed"}
TpIdle == [at |-> "off", cursor |-> FALSE, attempt |-> 0, got |-> FALSE, abort |-> FALSE]
TpNoId == -1

TpTypeOK ==
  /\ tpKind \in TpKinds
  /\ tpConn \in {"new", "opening", "up", "dead", "closed"}
  /\ tpNext \in Nat
  /\ tpId \in [TpCalls \cup TpSubs -> {TpNoId} \cup 0 .. tpNext - 1]
  /\ tpCall \in [TpCalls -> [is : TpOutcome, by : TpCalls \cup TpSubs \cup {TpNoId}]]
  /\ tpPending \subseteq TpCalls
  /\ tpLong \subseteq TpSubs
  /\ tpHeld \subseteq TpCalls \cup TpSubs
  /\ tpSub \in [TpSubs -> {"none", "opening", "open", "ended"}]
  /\ tpSubs \subseteq TpSubs
  /\ tpStream \in [TpSubs -> [at : {"off", "draining", "backoff", "resuming", "done"},
                              cursor : BOOLEAN, attempt : 0 .. MAX_RESUME_ATTEMPTS,
                              got : BOOLEAN, abort : BOOLEAN]]
  /\ tpAsk \in [TpAsks -> {"none", "handling", "answered", "unsent"}]

TpInit ==
  /\ tpKind \in TpKinds
  /\ tpConn = "new" /\ tpNext = 0
  /\ tpId = [x \in TpCalls \cup TpSubs |-> TpNoId]
  /\ tpCall = [c \in TpCalls |-> [is |-> "new", by |-> TpNoId]]
  /\ tpPending = {} /\ tpLong = {} /\ tpHeld = {}
  /\ tpSub = [s \in TpSubs |-> "none"] /\ tpSubs = {}
  /\ tpStream = [s \in TpSubs |-> TpIdle]
  /\ tpAsk = [q \in TpAsks |-> "none"]

-----------------------------------------------------------------------------

(* A promise keeps its first outcome: settling it again does nothing.      *)
TpSettle(cs, what, who) ==
  tpCall' = [c \in TpCalls |-> IF c \in cs /\ tpCall[c].is = "waiting"
                               THEN [is |-> what, by |-> who] ELSE tpCall[c]]

(* McpSubscription.markEnded and close, with the onClose the client gave.  *)
TpMarkEnded(ss) ==
  /\ tpSub' = [s \in TpSubs |-> IF s \in ss /\ tpSub[s] = "open" THEN "ended" ELSE tpSub[s]]
  /\ tpSubs' = tpSubs \ {s \in ss : tpSub[s] = "open"}

TpAllocateSame(x) == /\ tpId' = [tpId EXCEPT ![x] = tpNext]
                     /\ tpNext' = IF x \in TpSubs THEN tpNext + 1 ELSE 1

TpAllocateId(x) ==
  /\ tpId' = [tpId EXCEPT ![x] = tpNext]
  /\ tpNext' = tpNext + 1

(* Whether a message written now reaches the server.                       *)
TpReaches == tpConn = "up"

TpFailAllForgets ==
  /\ TpSettle(tpPending, "closed", TpNoId)
  /\ tpPending' = {}
  /\ tpLong' = {}
  /\ UNCHANGED <<tpSub, tpSubs>>

TpFailAll ==
  /\ TpSettle(tpPending, "closed", TpNoId)
  /\ tpPending' = {}
  /\ TpMarkEnded(tpLong)
  /\ tpLong' = {}

(* start: the pipe is up at once, the socket opens, fails to or is late.   *)
TpStart ==
  /\ tpKind # "http" /\ tpConn = "new"
  /\ tpConn' = IF tpKind = "ws" THEN "opening" ELSE "up"
  /\ UNCHANGED <<tpKind, tpNext, tpId, tpCall, tpPending, tpLong, tpHeld, tpSub, tpSubs, tpStream, tpAsk>>

TpOpen ==
  /\ tpConn = "opening"
  /\ tpConn' = "up"
  /\ UNCHANGED <<tpKind, tpNext, tpId, tpCall, tpPending, tpLong, tpHeld, tpSub, tpSubs, tpStream, tpAsk>>

(* The exit of the process, an error or the close of the socket.  The      *)
(* field proc or conn stays set.                                           *)
TpLost ==
  /\ tpConn \in {"opening", "up"}
  /\ tpConn' = "dead"
  /\ TpFailAll
  /\ UNCHANGED <<tpKind, tpNext, tpId, tpHeld, tpStream, tpAsk>>

(* close, and onData of the pipe when a line without end outgrows the      *)
(* buffer: both fail everything and give the process up.                   *)
TpClose ==
  /\ tpKind # "http" /\ tpConn # "closed"
  /\ TpFailAll
  /\ tpConn' = "closed"
  /\ UNCHANGED <<tpKind, tpNext, tpId, tpHeld, tpStream, tpAsk>>

(* A socket that is not open may throw from send inside the promise's      *)
(* executor: the call fails and its entry and timer stay.                  *)
TpRequest(c) ==
  /\ tpKind # "http" /\ tpCall[c].is = "new"
  /\ IF tpConn \in {"new", "closed"}
     THEN /\ tpCall' = [tpCall EXCEPT ![c].is = "closed"]
          /\ UNCHANGED <<tpId, tpNext, tpPending, tpHeld>>
     ELSE /\ TpAllocateId(c)
          /\ tpPending' = tpPending \cup {c}
          /\ tpHeld' = IF TpReaches THEN tpHeld \cup {c} ELSE tpHeld
          /\ \E s \in IF tpKind = "ws" /\ ~TpReaches THEN {"waiting", "error"} ELSE {"waiting"} :
               tpCall' = [tpCall EXCEPT ![c].is = s]
  /\ UNCHANGED <<tpKind, tpConn, tpLong, tpSub, tpSubs, tpStream, tpAsk>>

(* The callback of stdin.write with an error.                              *)
TpWriteFails(c) ==
  /\ tpKind = "stdio" /\ tpConn = "dead" /\ tpCall[c].is = "waiting"
  /\ tpPending' = tpPending \ {c}
  /\ TpSettle({c}, "error", TpNoId)
  /\ UNCHANGED <<tpKind, tpConn, tpNext, tpId, tpLong, tpHeld, tpSub, tpSubs, tpStream, tpAsk>>

(* The timer of registerPending.                                           *)
TpTimeout(c) ==
  /\ c \in tpPending
  /\ tpPending' = tpPending \ {c}
  /\ TpSettle({c}, "timeout", TpNoId)
  /\ UNCHANGED <<tpKind, tpConn, tpNext, tpId, tpLong, tpHeld, tpSub, tpSubs, tpStream, tpAsk>>

TpResolveLongLived(id) ==
  LET ss == {s \in tpLong : tpId[s] = id}
  IN  /\ tpLong' = tpLong \ ss
      /\ TpMarkEnded(ss)

(* resolveResponse: the entry of that id, else the long-lived request of   *)
(* that id, else nobody.                                                   *)
TpResolveResponse(id, who, what) ==
  LET cs == {c \in tpPending : tpId[c] = id}
  IN  IF cs # {}
      THEN /\ TpSettle(cs, what, who)
           /\ tpPending' = tpPending \ cs
           /\ UNCHANGED <<tpLong, tpSub, tpSubs>>
      ELSE /\ TpResolveLongLived(id)
           /\ UNCHANGED <<tpCall, tpPending>>

(* An answer of the server, routed by routeIncoming.  Output of a process  *)
(* that has exited is still read.                                          *)
TpAnswer(x, what) ==
  /\ tpKind # "http" /\ tpConn \in {"up", "dead"}
  /\ x \in tpHeld
  /\ TpResolveResponse(tpId[x], x, what)
  /\ UNCHANGED <<tpKind, tpConn, tpNext, tpId, tpHeld, tpStream, tpAsk>>

(* handleRequest: the handler is awaited and its result or error sent.     *)
TpServerAsks(q) ==
  /\ tpKind # "http" /\ tpConn = "up" /\ tpAsk[q] = "none"
  /\ tpAsk' = [tpAsk EXCEPT ![q] = "handling"]
  /\ UNCHANGED <<tpKind, tpConn, tpNext, tpId, tpCall, tpPending, tpLong, tpHeld, tpSub, tpSubs, tpStream>>

TpHandled(q) ==
  /\ tpAsk[q] = "handling"
  /\ tpAsk' = [tpAsk EXCEPT ![q] = IF TpReaches THEN "answered" ELSE "unsent"]
  /\ UNCHANGED <<tpKind, tpConn, tpNext, tpId, tpCall, tpPending, tpLong, tpHeld, tpSub, tpSubs, tpStream>>

-----------------------------------------------------------------------------

(* McpClient.listen up to the await of sendLongLivedRequest.  On HTTP the  *)
(* reader of the stream starts in the background.  A socket that is not    *)
(* open may throw: the entry in longLived stays, without a subscription.   *)
TpListen(s) ==
  /\ tpSub[s] = "none" /\ tpConn # "closed"
  /\ TpAllocateId(s)
  /\ \E is \in IF tpKind = "ws" /\ ~TpReaches THEN {"opening", "ended"} ELSE {"opening"} :
       tpSub' = [tpSub EXCEPT ![s] = is]
  /\ IF tpKind = "http"
     THEN /\ tpStream' = [tpStream EXCEPT ![s].at = "draining"]
          /\ UNCHANGED <<tpLong, tpHeld>>
     ELSE /\ tpLong' = tpLong \cup {s}
          /\ tpHeld' = IF TpReaches THEN tpHeld \cup {s} ELSE tpHeld
          /\ UNCHANGED tpStream
  /\ UNCHANGED <<tpKind, tpConn, tpCall, tpPending, tpSubs, tpAsk>>

(* The subscription exists once the id is back: the turn after, before any *)
(* event of the connection.                                                *)
TpOpening == \E s \in TpSubs : tpSub[s] = "opening"

TpListenReturns(s) ==
  /\ tpSub[s] = "opening"
  /\ tpSub' = [tpSub EXCEPT ![s] = "open"]
  /\ tpSubs' = tpSubs \cup {s}
  /\ UNCHANGED <<tpKind, tpConn, tpNext, tpId, tpCall, tpPending, tpLong, tpHeld, tpStream, tpAsk>>

(* McpSubscription.close by its owner: the transport is not told.          *)
TpSubClose(s) ==
  /\ tpSub[s] = "open"
  /\ TpMarkEnded({s})
  /\ UNCHANGED <<tpKind, tpConn, tpNext, tpId, tpCall, tpPending, tpLong, tpHeld, tpStream, tpAsk>>

(* drain of a stream: a frame with an id moves the cursor.                 *)
TpStreamFrame(s) ==
  /\ tpStream[s].at \in {"draining", "resuming"} /\ ~tpStream[s].abort
  /\ \E hasId \in BOOLEAN :
       tpStream' = [tpStream EXCEPT ![s].got = TRUE, ![s].cursor = @ \/ hasId]
  /\ UNCHANGED <<tpKind, tpConn, tpNext, tpId, tpCall, tpPending, tpLong, tpHeld, tpSub, tpSubs, tpAsk>>

(* The loop's condition, once the attempts are counted.                    *)
TpMayResume(s, attempt) ==
  tpStream[s].cursor /\ ~tpStream[s].abort /\ attempt < MAX_RESUME_ATTEMPTS

(* The stream is over, or failed: a resumed stream that delivered frames   *)
(* starts the count again.  The first stream's failure ends the loop.      *)
TpStreamOver(s, failed) ==
  LET st == tpStream[s]
      attempt == IF st.at = "draining" \/ (st.got /\ ~failed) THEN 0
                 ELSE IF st.attempt < MAX_RESUME_ATTEMPTS THEN st.attempt + 1 ELSE st.attempt
      on == TpMayResume(s, attempt) /\ ~(failed /\ st.at = "draining")
  IN  /\ st.at \in {"draining", "resuming"}
      /\ tpStream' = [tpStream EXCEPT ![s].at = IF on THEN "backoff" ELSE "done",
                                      ![s].attempt = attempt, ![s].got = FALSE]
      /\ IF on THEN UNCHANGED <<tpSub, tpSubs>> ELSE TpMarkEnded({s})
      /\ UNCHANGED <<tpKind, tpConn, tpNext, tpId, tpCall, tpPending, tpLong, tpHeld, tpAsk>>

(* After the backoff: reconnect with the cursor, unless aborted meanwhile. *)
TpResume(s) ==
  /\ tpStream[s].at = "backoff"
  /\ IF tpStream[s].abort
     THEN /\ tpStream' = [tpStream EXCEPT ![s].at = "done"]
          /\ TpMarkEnded({s})
     ELSE /\ tpStream' = [tpStream EXCEPT ![s].at = "resuming"]
          /\ UNCHANGED <<tpSub, tpSubs>>
  /\ UNCHANGED <<tpKind, tpConn, tpNext, tpId, tpCall, tpPending, tpLong, tpHeld, tpAsk>>

TpHttpCloseReading ==
  /\ tpKind = "http" /\ tpConn # "closed" /\ tpConn' = "closed"
  /\ UNCHANGED <<tpKind, tpNext, tpId, tpCall, tpPending, tpLong, tpHeld, tpSub, tpSubs, tpAsk, tpStream>>

(* HttpTransport.close aborts every stream that is still open.             *)
TpHttpClose ==
  /\ tpKind = "http" /\ tpConn # "closed"
  /\ tpConn' = "closed"
  /\ tpStream' = [s \in TpSubs |-> IF tpStream[s].at \in {"off", "done"} THEN tpStream[s]
                                   ELSE [tpStream[s] EXCEPT !.abort = TRUE]]
  /\ UNCHANGED <<tpKind, tpNext, tpId, tpCall, tpPending, tpLong, tpHeld, tpSub, tpSubs, tpAsk>>

-----------------------------------------------------------------------------

TpEvents ==
  \/ TpStart \/ TpOpen \/ TpLost \/ TpClose \/ TpHttpClose
  \/ \E c \in TpCalls : TpRequest(c) \/ TpWriteFails(c) \/ TpTimeout(c)
  \/ \E x \in TpCalls \cup TpSubs, what \in {"ok", "error"} : TpAnswer(x, what)
  \/ \E q \in TpAsks : TpServerAsks(q) \/ TpHandled(q)
  \/ \E s \in TpSubs : TpListen(s) \/ TpSubClose(s) \/ TpStreamFrame(s) \/ TpResume(s)
  \/ \E s \in TpSubs, failed \in BOOLEAN : TpStreamOver(s, failed)

TpNext ==
  \/ ~TpOpening /\ TpEvents
  \/ \E s \in TpSubs : TpListenReturns(s)

(* Timers fire, and a reader that is aborted or out of data goes on.       *)
TpFair ==
  \/ \E c \in TpCalls : TpTimeout(c)
  \/ \E s \in TpSubs : TpListenReturns(s) \/ TpResume(s)
  \/ \E s \in TpSubs : tpStream[s].abort /\ TpStreamOver(s, FALSE)

TpSpec == TpInit /\ [][TpNext]_tpVars

(* A call that waits has an entry with a timer, so that some later turn    *)
(* settles it, and it is settled only by the answer to its own request: a  *)
(* late, second or foreign answer (base-transport.ts resolveResponse)      *)
(* never reaches another caller.                                           *)
TpAnswersReachTheirCallers ==
  \A c \in TpCalls :
    /\ tpCall[c].is = "waiting" => c \in tpPending
    /\ tpCall[c].by # TpNoId => tpCall[c].by = c

(* The client's map holds exactly the open subscriptions, and whoever must *)
(* report the end of one still knows of it: the transport's longLived      *)
(* table, or the reader of its stream.  A subscription nobody tends would  *)
(* stay open after the connection is gone.                                 *)
TpSubscriptionsTended ==
  /\ tpSubs = {s \in TpSubs : tpSub[s] = "open"}
  /\ \A s \in tpSubs : IF tpKind = "http" THEN tpStream[s].at \notin {"off", "done"}
                       ELSE s \in tpLong

(* After the transport is closed every call is settled and every           *)
(* subscription comes to its end (failAll, the aborted streams).           *)
TpCloseEndsAll ==
  tpConn = "closed" ~> /\ \A c \in TpCalls : tpCall[c].is # "waiting"
                       /\ \A s \in TpSubs : tpSub[s] \notin {"opening", "open"}

=============================================================================
