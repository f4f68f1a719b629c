---------------------------- MODULE NetworkProofs ----------------------------
(***************************************************************************)
(* Proofs about the network layer of MCNetwork.  First the three state     *)
(* machines of the MCP plugin: the transports of McpTransport, the client  *)
(* of McpClient and the grants of McpOauth, each with its inductive        *)
(* invariant and lemmas that end in one that says a step, or a stutter, of *)
(* the part keeps it.  Then the buckets and the named queues of            *)
(* NetworkEngine, and the safety properties of the composition, whose      *)
(* steps are steps of one part or stutters of it.                          *)
(***************************************************************************)
EXTENDS MCNetwork, QueueStateProofs

(* An id is sent once, so an answer has one addressee; and a call is       *)
(* entered in pending under the id it was sent with.                       *)
TpIdsUnique ==
  \A x, y \in TpCalls \cup TpSubs : tpId[x] = tpId[y] /\ tpId[x] # TpNoId => x = y
TpPendingSent == \A c \in tpPending : tpId[c] # TpNoId

(* Whoever must report the end of a subscription knows of it from the      *)
(* moment it is asked for, before the client has it in its map.            *)
TpTended(s) == IF tpKind = "http" THEN tpStream[s].at \notin {"off", "done"}
               ELSE s \in tpLong
TpOpeningTended == \A s \in TpSubs : tpSub[s] \in {"opening", "open"} => TpTended(s)

TpCallsKept == TpIdsUnique /\ TpPendingSent /\ TpAnswersReachTheirCallers
TpSubsKept == TpOpeningTended /\ TpSubscriptionsTended
TpInv == TpTypeOK /\ TpCallsKept /\ TpSubsKept

(* The record TpTypeOK gives a stream's reader.                            *)
TpReader == [at : {"off", "draining", "backoff", "resuming", "done"}, cursor : BOOLEAN,
             attempt : 0 .. MAX_RESUME_ATTEMPTS, got : BOOLEAN, abort : BOOLEAN]

LEMMA TpInvInit == TpInit => TpInv
  <1> SUFFICES ASSUME TpInit PROVE TpInv
    OBVIOUS
  <1> USE TpAssumption DEF TpInit
  <1>1. TpTypeOK
    BY DEF TpTypeOK, TpNoId, TpIdle, TpOutcome
  <1>2. TpCallsKept
    BY DEF TpCallsKept, TpIdsUnique, TpPendingSent, TpAnswersReachTheirCallers, TpNoId
  <1>3. TpSubsKept
    BY DEF TpSubsKept, TpOpeningTended, TpSubscriptionsTended
  <1> QED
    BY <1>1, <1>2, <1>3 DEF TpInv

(* Settling promises keeps their type, and so does ending subscriptions.   *)
LEMMA TpSettleTyped ==
  ASSUME TpTypeOK, NEW cs, NEW what \in TpOutcome, NEW who \in TpCalls \cup TpSubs \cup {TpNoId},
         TpSettle(cs, what, who)
  PROVE  tpCall' \in [TpCalls -> [is : TpOutcome, by : TpCalls \cup TpSubs \cup {TpNoId}]]
  BY DEF TpTypeOK, TpSettle

LEMMA TpMarkEndedTyped ==
  ASSUME TpTypeOK, NEW ss, TpMarkEnded(ss)
  PROVE  /\ tpSub' \in [TpSubs -> {"none", "opening", "open", "ended"}]
         /\ tpSubs' \subseteq TpSubs
  BY DEF TpTypeOK, TpMarkEnded

LEMMA TpAllocateTyped ==
  ASSUME TpTypeOK, NEW x \in TpCalls \cup TpSubs, TpAllocateId(x)
  PROVE  /\ tpNext' \in Nat
         /\ tpId' \in [TpCalls \cup TpSubs -> {TpNoId} \cup 0 .. tpNext' - 1]
  <1>1. tpNext \in Nat /\ tpNext' = tpNext + 1
    BY DEF TpTypeOK, TpAllocateId
  <1>2. {TpNoId} \cup 0 .. tpNext - 1 \subseteq {TpNoId} \cup 0 .. tpNext' - 1
    BY <1>1
  <1>3. tpNext \in 0 .. tpNext' - 1
    BY <1>1
  <1> QED
    BY <1>1, <1>2, <1>3 DEF TpTypeOK, TpAllocateId

LEMMA TpFailAllTyped ==
  ASSUME TpTypeOK, TpFailAll
  PROVE  /\ tpCall' \in [TpCalls -> [is : TpOutcome, by : TpCalls \cup TpSubs \cup {TpNoId}]]
         /\ tpPending' = {} /\ tpLong' = {}
         /\ tpSub' \in [TpSubs -> {"none", "opening", "open", "ended"}]
         /\ tpSubs' \subseteq TpSubs
  <1>1. TpSettle(tpPending, "closed", TpNoId) /\ TpMarkEnded(tpLong) /\ tpPending' = {} /\ tpLong' = {}
    BY DEF TpFailAll
  <1>2. "closed" \in TpOutcome
    BY DEF TpOutcome
  <1> QED
    BY <1>1, <1>2, TpSettleTyped, TpMarkEndedTyped

(* Every event of a connection keeps the types.                            *)
LEMMA TpTypeStep == TpTypeOK /\ [TpNext]_tpVars => TpTypeOK'
  <1> SUFFICES ASSUME TpTypeOK, [TpNext]_tpVars PROVE TpTypeOK'
    OBVIOUS
  <1>1. CASE TpStart \/ TpOpen
    BY <1>1 DEF TpStart, TpOpen, TpTypeOK
  <1>2. CASE TpLost \/ TpClose
    <2>1. TpFailAll /\ tpConn' \in {"dead", "closed"}
          /\ UNCHANGED <<tpKind, tpNext, tpId, tpHeld, tpStream, tpAsk>>
      BY <1>2 DEF TpLost, TpClose
    <2> QED
      BY <2>1, TpFailAllTyped DEF TpTypeOK
  <1>3. CASE TpHttpClose
    BY <1>3 DEF TpHttpClose, TpTypeOK
  <1>4. ASSUME NEW c \in TpCalls, TpRequest(c) PROVE TpTypeOK'
    <2>1. CASE tpConn \in {"new", "closed"}
      BY <1>4, <2>1 DEF TpRequest, TpTypeOK, TpOutcome
    <2>2. CASE tpConn \notin {"new", "closed"}
      <3>1. TpAllocateId(c) /\ tpPending' = tpPending \cup {c}
            /\ tpHeld' \in {tpHeld, tpHeld \cup {c}}
            /\ UNCHANGED <<tpKind, tpConn, tpLong, tpSub, tpSubs, tpStream, tpAsk>>
        BY <1>4, <2>2 DEF TpRequest
      <3>2. PICK s \in {"waiting", "error"} : tpCall' = [tpCall EXCEPT ![c].is = s]
        BY <1>4, <2>2 DEF TpRequest
      <3>3. tpCall' \in [TpCalls -> [is : TpOutcome, by : TpCalls \cup TpSubs \cup {TpNoId}]]
        BY <3>2 DEF TpTypeOK, TpOutcome
      <3> QED
        BY <3>1, <3>3, TpAllocateTyped DEF TpTypeOK
    <2> QED
      BY <2>1, <2>2
  <1>5. ASSUME NEW c \in TpCalls, TpWriteFails(c) \/ TpTimeout(c) PROVE TpTypeOK'
    <2>1. \E what \in {"error", "timeout"} : TpSettle({c}, what, TpNoId)
      BY <1>5 DEF TpWriteFails, TpTimeout
    <2>2. tpCall' \in [TpCalls -> [is : TpOutcome, by : TpCalls \cup TpSubs \cup {TpNoId}]]
      BY <2>1, TpSettleTyped DEF TpOutcome
    <2>3. tpPending' = tpPending \ {c}
          /\ UNCHANGED <<tpKind, tpConn, tpNext, tpId, tpLong, tpHeld, tpSub, tpSubs, tpStream, tpAsk>>
      BY <1>5 DEF TpWriteFails, TpTimeout
    <2> QED
      BY <2>2, <2>3 DEF TpTypeOK
  <1>6. ASSUME NEW x \in TpCalls \cup TpSubs, NEW what \in {"ok", "error"}, TpAnswer(x, what)
        PROVE TpTypeOK'
    <2>1. TpResolveResponse(tpId[x], x, what)
          /\ UNCHANGED <<tpKind, tpConn, tpNext, tpId, tpHeld, tpStream, tpAsk>>
      BY <1>6 DEF TpAnswer
    <2>2. what \in TpOutcome
      BY DEF TpOutcome
    <2> DEFINE cs == {c \in tpPending : tpId[c] = tpId[x]}
               ss == {s \in tpLong : tpId[s] = tpId[x]}
    <2>3. CASE cs # {}
      <3>1. TpSettle(cs, what, x) /\ tpPending' = tpPending \ cs /\ UNCHANGED <<tpLong, tpSub, tpSubs>>
        BY <2>1, <2>3 DEF TpResolveResponse
      <3> HIDE DEF cs
      <3> QED
        BY <2>1, <2>2, <3>1, TpSettleTyped DEF TpTypeOK
    <2>4. CASE cs = {}
      <3>1. tpLong' = tpLong \ ss /\ TpMarkEnded(ss) /\ UNCHANGED <<tpCall, tpPending>>
        BY <2>1, <2>4 DEF TpResolveResponse, TpResolveLongLived
      <3> HIDE DEF ss
      <3> QED
        BY <2>1, <3>1, TpMarkEndedTyped DEF TpTypeOK
    <2> QED
      BY <2>3, <2>4
  <1>7. ASSUME NEW q \in TpAsks, TpServerAsks(q) \/ TpHandled(q) PROVE TpTypeOK'
    BY <1>7 DEF TpServerAsks, TpHandled, TpTypeOK
  <1>8. ASSUME NEW s \in TpSubs, TpListen(s) PROVE TpTypeOK'
    <2>1. TpAllocateId(s) /\ tpLong' \in {tpLong, tpLong \cup {s}} /\ tpHeld' \in {tpHeld, tpHeld \cup {s}}
          /\ UNCHANGED <<tpKind, tpConn, tpCall, tpPending, tpSubs, tpAsk>>
      BY <1>8 DEF TpListen
    <2>2. tpSub' \in [TpSubs -> {"none", "opening", "open", "ended"}]
      BY <1>8 DEF TpListen, TpTypeOK
    <2>3. tpStream' = tpStream \/ tpStream' = [tpStream EXCEPT ![s].at = "draining"]
      BY <1>8 DEF TpListen
    <2>4. tpStream' \in [TpSubs -> [at : {"off", "draining", "backoff", "resuming", "done"},
                              cursor : BOOLEAN, attempt : 0 .. MAX_RESUME_ATTEMPTS,
                              got : BOOLEAN, abort : BOOLEAN]]
      BY <2>3 DEF TpTypeOK
    <2> QED
      BY <2>1, <2>2, <2>4, TpAllocateTyped DEF TpTypeOK
  <1>9. ASSUME NEW s \in TpSubs, TpSubClose(s) \/ TpListenReturns(s) PROVE TpTypeOK'
    <2>1. CASE TpSubClose(s)
      BY <2>1, TpMarkEndedTyped DEF TpSubClose, TpTypeOK
    <2>2. CASE TpListenReturns(s)
      BY <2>2 DEF TpListenReturns, TpTypeOK
    <2> QED
      BY <1>9, <2>1, <2>2
  <1>10. ASSUME NEW s \in TpSubs, TpStreamFrame(s) PROVE TpTypeOK'
    <2>1. PICK hasId \in BOOLEAN :
            tpStream' = [tpStream EXCEPT ![s].got = TRUE, ![s].cursor = @ \/ hasId]
      BY <1>10 DEF TpStreamFrame
    <2> DEFINE r == [tpStream[s] EXCEPT !.got = TRUE, !.cursor = @ \/ hasId]
    <2>a. tpStream[s] \in TpReader /\ tpStream \in [TpSubs -> TpReader]
      BY DEF TpTypeOK, TpReader
    <2>b. (tpStream[s].cursor \/ hasId) \in BOOLEAN
      OBVIOUS
    <2>c. r \in TpReader
      BY <2>a, <2>b DEF TpReader
    <2>d. tpStream' = [tpStream EXCEPT ![s] = r]
      BY <2>1, <2>a
    <2>2. tpStream' \in [TpSubs -> TpReader]
      BY <2>a, <2>c, <2>d
    <2> QED
      BY <1>10, <2>2 DEF TpStreamFrame, TpTypeOK, TpReader
  <1>11. ASSUME NEW s \in TpSubs, TpResume(s) PROVE TpTypeOK'
    <2>1. \E where \in {"done", "resuming"} : tpStream' = [tpStream EXCEPT ![s].at = where]
      BY <1>11 DEF TpResume
    <2>2. TpMarkEnded({s}) \/ UNCHANGED <<tpSub, tpSubs>>
      BY <1>11 DEF TpResume
    <2>3. tpSub' \in [TpSubs -> {"none", "opening", "open", "ended"}] /\ tpSubs' \subseteq TpSubs
      BY <2>2, TpMarkEndedTyped DEF TpTypeOK
    <2>4. tpStream' \in [TpSubs -> TpReader]
      BY <2>1 DEF TpTypeOK, TpReader
    <2>5. UNCHANGED <<tpKind, tpConn, tpNext, tpId, tpCall, tpPending, tpLong, tpHeld, tpAsk>>
      BY <1>11 DEF TpResume
    <2> QED
      BY <2>3, <2>4, <2>5 DEF TpTypeOK, TpReader
  <1>12. ASSUME NEW s \in TpSubs, NEW failed \in BOOLEAN, TpStreamOver(s, failed) PROVE TpTypeOK'
    <2>1. UNCHANGED <<tpKind, tpConn, tpNext, tpId, tpCall, tpPending, tpLong, tpHeld, tpAsk>>
      BY <1>12 DEF TpStreamOver
    <2>2. tpStream[s].attempt \in 0 .. MAX_RESUME_ATTEMPTS
      BY DEF TpTypeOK
    <2>3. PICK where \in {"backoff", "done"}, n \in {0, tpStream[s].attempt, tpStream[s].attempt + 1} :
            /\ n = tpStream[s].attempt + 1 => tpStream[s].attempt < MAX_RESUME_ATTEMPTS
            /\ tpStream' = [tpStream EXCEPT ![s].at = where, ![s].attempt = n, ![s].got = FALSE]
      <3> DEFINE st == tpStream[s]
                 again == IF st.at = "draining" \/ (st.got /\ ~failed) THEN 0
                          ELSE IF st.attempt < MAX_RESUME_ATTEMPTS THEN st.attempt + 1 ELSE st.attempt
                 on == TpMayResume(s, again) /\ ~(failed /\ st.at = "draining")
      <3>1. tpStream' = [tpStream EXCEPT ![s].at = IF on THEN "backoff" ELSE "done",
                                         ![s].attempt = again, ![s].got = FALSE]
        BY <1>12 DEF TpStreamOver
      <3>2. again \in {0, tpStream[s].attempt, tpStream[s].attempt + 1}
            /\ (again = tpStream[s].attempt + 1 => tpStream[s].attempt < MAX_RESUME_ATTEMPTS)
        BY <2>2, TpAssumption
      <3> HIDE DEF again, on
      <3> QED
        BY <3>1, <3>2
    <2>4. n \in 0 .. MAX_RESUME_ATTEMPTS
      BY <2>2, <2>3, TpAssumption
    <2> DEFINE r == [tpStream[s] EXCEPT !.at = where, !.attempt = n, !.got = FALSE]
    <2>a. tpStream[s] \in TpReader /\ tpStream \in [TpSubs -> TpReader]
      BY DEF TpTypeOK, TpReader
    <2>c. r \in TpReader
      BY <2>a, <2>4 DEF TpReader
    <2>d. tpStream' = [tpStream EXCEPT ![s] = r]
      BY <2>3, <2>a
    <2>5. tpStream' \in [TpSubs -> TpReader]
      BY <2>a, <2>c, <2>d
    <2>6. TpMarkEnded({s}) \/ UNCHANGED <<tpSub, tpSubs>>
      BY <1>12 DEF TpStreamOver
    <2>7. tpSub' \in [TpSubs -> {"none", "opening", "open", "ended"}] /\ tpSubs' \subseteq TpSubs
      BY <2>6, TpMarkEndedTyped DEF TpTypeOK
    <2> QED
      BY <2>1, <2>5, <2>7 DEF TpTypeOK, TpReader
  <1>13. CASE UNCHANGED tpVars
    BY <1>13 DEF tpVars, TpTypeOK
  <1> QED
    BY <1>1, <1>2, <1>3, <1>4, <1>5, <1>6, <1>7, <1>8, <1>9, <1>10, <1>11, <1>12, <1>13
       DEF TpNext, TpEvents

(* What settles the waiting calls of cs, and takes them out of pending,    *)
(* leaves the other calls as they were.                                    *)
LEMMA TpSettleKeeps ==
  ASSUME TpTypeOK, TpCallsKept, NEW cs, NEW what \in {"ok", "error", "timeout", "closed"}, NEW who,
         TpSettle(cs, what, who), \A c \in TpCalls \cap cs : who \in {TpNoId, c},
         tpPending' = tpPending \ cs, UNCHANGED tpId
  PROVE  TpCallsKept'
  <1>1. \A c \in TpCalls : tpCall'[c] = IF c \in cs /\ tpCall[c].is = "waiting"
                                         THEN [is |-> what, by |-> who] ELSE tpCall[c]
    BY DEF TpSettle
  <1>2. TpAnswersReachTheirCallers'
    BY <1>1 DEF TpAnswersReachTheirCallers, TpCallsKept
  <1> QED
    BY <1>2 DEF TpCallsKept, TpIdsUnique, TpPendingSent

(* A fresh id is nobody else's.                                            *)
LEMMA TpAllocateKeeps ==
  ASSUME TpTypeOK, TpIdsUnique, NEW x \in TpCalls \cup TpSubs, TpAllocateId(x)
  PROVE  TpIdsUnique' /\ tpId'[x] # TpNoId /\ \A y \in TpCalls \cup TpSubs : y # x => tpId'[y] = tpId[y]
  <1>1. tpNext \in Nat /\ tpId' = [tpId EXCEPT ![x] = tpNext]
        /\ tpId \in [TpCalls \cup TpSubs -> {TpNoId} \cup 0 .. tpNext - 1]
    BY DEF TpTypeOK, TpAllocateId
  <1>2. tpNext # TpNoId
    BY <1>1 DEF TpNoId
  <1>3. \A y \in TpCalls \cup TpSubs : tpId[y] # tpNext
    BY <1>1, <1>2
  <1>4. tpId'[x] = tpNext /\ \A y \in TpCalls \cup TpSubs : y # x => tpId'[y] = tpId[y]
    BY <1>1
  <1>5. TpIdsUnique'
    BY <1>3, <1>4 DEF TpIdsUnique
  <1> QED
    BY <1>2, <1>4, <1>5

LEMMA TpCallsStep == TpTypeOK /\ TpCallsKept /\ [TpNext]_tpVars => TpCallsKept'
  <1> SUFFICES ASSUME TpTypeOK, TpCallsKept, [TpNext]_tpVars PROVE TpCallsKept'
    OBVIOUS
  <1> DEFINE Apart == UNCHANGED <<tpId, tpCall, tpPending>>
  <1>a. Apart => TpCallsKept'
    BY DEF TpCallsKept, TpIdsUnique, TpPendingSent, TpAnswersReachTheirCallers
  <1>1. CASE TpStart \/ TpOpen \/ TpHttpClose
    BY <1>1, <1>a DEF TpStart, TpOpen, TpHttpClose
  <1>2. CASE TpLost \/ TpClose
    <2>1. TpSettle(tpPending, "closed", TpNoId) /\ tpPending' = {} /\ UNCHANGED tpId
      BY <1>2 DEF TpLost, TpClose, TpFailAll
    <2>2. tpPending' = tpPending \ tpPending
      BY <2>1
    <2> QED
      BY <2>1, <2>2, TpSettleKeeps
  <1>4. ASSUME NEW c \in TpCalls, TpRequest(c) PROVE TpCallsKept'
    <2>1. tpCall[c].is = "new" /\ tpCall \in [TpCalls -> [is : TpOutcome, by : TpCalls \cup TpSubs \cup {TpNoId}]]
      BY <1>4 DEF TpRequest, TpTypeOK
    <2>2. CASE tpConn \in {"new", "closed"}
      <3>1. tpCall' = [tpCall EXCEPT ![c].is = "closed"] /\ UNCHANGED <<tpId, tpPending>>
        BY <1>4, <2>2 DEF TpRequest
      <3>2. TpAnswersReachTheirCallers'
        BY <2>1, <3>1 DEF TpAnswersReachTheirCallers, TpCallsKept
      <3> QED
        BY <3>1, <3>2 DEF TpCallsKept, TpIdsUnique, TpPendingSent
    <2>3. CASE tpConn \notin {"new", "closed"}
      <3>1. TpAllocateId(c) /\ tpPending' = tpPending \cup {c}
        BY <1>4, <2>3 DEF TpRequest
      <3>2. PICK s \in {"waiting", "error"} : tpCall' = [tpCall EXCEPT ![c].is = s]
        BY <1>4, <2>3 DEF TpRequest
      <3>3. TpAnswersReachTheirCallers'
        BY <2>1, <3>1, <3>2 DEF TpAnswersReachTheirCallers, TpCallsKept
      <3>4. TpIdsUnique' /\ tpId'[c] # TpNoId /\ \A y \in TpCalls \cup TpSubs : y # c => tpId'[y] = tpId[y]
        BY <3>1, TpAllocateKeeps DEF TpCallsKept
      <3>5. TpPendingSent'
        BY <3>1, <3>4 DEF TpPendingSent, TpCallsKept, TpTypeOK
      <3> QED
        BY <3>3, <3>4, <3>5 DEF TpCallsKept
    <2> QED
      BY <2>2, <2>3
  <1>5. ASSUME NEW c \in TpCalls, TpWriteFails(c) \/ TpTimeout(c) PROVE TpCallsKept'
    <2>1. PICK what \in {"error", "timeout"} : TpSettle({c}, what, TpNoId)
      BY <1>5 DEF TpWriteFails, TpTimeout
    <2>2. tpPending' = tpPending \ {c} /\ UNCHANGED tpId
      BY <1>5 DEF TpWriteFails, TpTimeout
    <2> QED
      BY <2>1, <2>2, TpSettleKeeps
  <1>6. ASSUME NEW x \in TpCalls \cup TpSubs, NEW what \in {"ok", "error"}, TpAnswer(x, what)
        PROVE TpCallsKept'
    <2> DEFINE cs == {c \in tpPending : tpId[c] = tpId[x]}
    <2>1. TpResolveResponse(tpId[x], x, what) /\ UNCHANGED tpId
      BY <1>6 DEF TpAnswer
    <2>2. CASE cs # {}
      <3>1. TpSettle(cs, what, x) /\ tpPending' = tpPending \ cs
        BY <2>1, <2>2 DEF TpResolveResponse
      <3>2. \A c \in cs : c = x
        BY DEF TpCallsKept, TpIdsUnique, TpPendingSent, TpTypeOK
      <3> HIDE DEF cs
      <3> QED
        BY <2>1, <3>1, <3>2, TpSettleKeeps
    <2>3. CASE cs = {}
      BY <2>1, <2>3, <1>a DEF TpResolveResponse
    <2> QED
      BY <2>2, <2>3
  <1>7. ASSUME NEW q \in TpAsks, TpServerAsks(q) \/ TpHandled(q) PROVE TpCallsKept'
    BY <1>7, <1>a DEF TpServerAsks, TpHandled
  <1>8. ASSUME NEW s \in TpSubs, TpListen(s) PROVE TpCallsKept'
    <2>1. TpAllocateId(s) /\ UNCHANGED <<tpCall, tpPending>>
      BY <1>8 DEF TpListen
    <2>2. TpIdsUnique' /\ \A y \in TpCalls \cup TpSubs : y # s => tpId'[y] = tpId[y]
      BY <2>1, TpAllocateKeeps DEF TpCallsKept
    <2>3. TpPendingSent'
      BY <2>1, <2>2, TpAssumption DEF TpPendingSent, TpCallsKept, TpTypeOK
    <2> QED
      BY <2>1, <2>2, <2>3 DEF TpCallsKept, TpAnswersReachTheirCallers
  <1>9. ASSUME NEW s \in TpSubs, TpSubClose(s) \/ TpListenReturns(s) \/ TpStreamFrame(s) \/ TpResume(s)
        PROVE TpCallsKept'
    BY <1>9, <1>a DEF TpSubClose, TpListenReturns, TpStreamFrame, TpResume
  <1>10. ASSUME NEW s \in TpSubs, NEW failed \in BOOLEAN, TpStreamOver(s, failed) PROVE TpCallsKept'
    BY <1>10, <1>a DEF TpStreamOver
  <1>11. CASE UNCHANGED tpVars
    BY <1>11, <1>a DEF tpVars
  <1> QED
    BY <1>1, <1>2, <1>4, <1>5, <1>6, <1>7, <1>8, <1>9, <1>10, <1>11 DEF TpNext, TpEvents

(* Ending open subscriptions leaves the map with those still open.         *)
LEMMA TpMarkEndedKeeps ==
  ASSUME TpTypeOK, TpSubsKept, ~TpOpening, NEW ss, TpMarkEnded(ss),
         \A s \in TpSubs \ ss : TpTended(s) => TpTended(s)'
  PROVE  TpSubsKept'
  <1>1. \A s \in TpSubs : tpSub'[s] = IF s \in ss /\ tpSub[s] = "open" THEN "ended" ELSE tpSub[s]
    BY DEF TpMarkEnded
  <1>2. \A s \in TpSubs : tpSub[s] # "opening"
    BY DEF TpOpening
  <1>3. TpOpeningTended'
    BY <1>1, <1>2 DEF TpOpeningTended, TpSubsKept
  <1>4. tpSubs' = {s \in TpSubs : tpSub'[s] = "open"}
    BY <1>1 DEF TpSubsKept, TpSubscriptionsTended, TpMarkEnded
  <1> QED
    BY <1>3, <1>4 DEF TpSubsKept, TpSubscriptionsTended, TpOpeningTended, TpTended

LEMMA TpSubsStep == TpTypeOK /\ TpSubsKept /\ [TpNext]_tpVars => TpSubsKept'
  <1> SUFFICES ASSUME TpTypeOK, TpSubsKept, [TpNext]_tpVars PROVE TpSubsKept'
    OBVIOUS
  <1> DEFINE Apart == UNCHANGED <<tpKind, tpSub, tpSubs>> /\ \A s \in TpSubs : TpTended(s) => TpTended(s)'
  <1>a. Apart => TpSubsKept'
    BY DEF TpSubsKept, TpOpeningTended, TpSubscriptionsTended, TpTended
  <1>b. UNCHANGED <<tpKind, tpLong, tpStream>> => \A s \in TpSubs : TpTended(s) => TpTended(s)'
    BY DEF TpTended
  <1> HIDE DEF Apart
  <1>c. UNCHANGED <<tpKind, tpLong, tpStream, tpSub, tpSubs>> => TpSubsKept'
    BY <1>a, <1>b DEF Apart
  <1>1. CASE TpStart \/ TpOpen
    BY <1>1, <1>c DEF TpStart, TpOpen
  <1>2. CASE ~TpOpening /\ (TpLost \/ TpClose)
    <2>1. TpMarkEnded(tpLong) /\ UNCHANGED <<tpKind, tpStream>>
      BY <1>2 DEF TpLost, TpClose, TpFailAll
    <2>2. \A s \in TpSubs \ tpLong : TpTended(s) => TpTended(s)'
      BY <2>1 DEF TpTended
    <2> QED
      BY <1>2, <2>1, <2>2, TpMarkEndedKeeps
  <1>3. CASE TpHttpClose
    <2>1. \A s \in TpSubs : tpStream'[s].at = tpStream[s].at
      BY <1>3 DEF TpHttpClose, TpTypeOK
    <2> QED
      BY <1>3, <2>1, <1>a DEF TpHttpClose, TpTended, Apart
  <1>4. ASSUME NEW c \in TpCalls, TpRequest(c) \/ TpWriteFails(c) \/ TpTimeout(c) PROVE TpSubsKept'
    BY <1>4, <1>c DEF TpRequest, TpWriteFails, TpTimeout
  <1>6. ASSUME ~TpOpening, NEW x \in TpCalls \cup TpSubs, NEW what \in {"ok", "error"}, TpAnswer(x, what)
        PROVE TpSubsKept'
    <2>1. TpResolveResponse(tpId[x], x, what) /\ UNCHANGED <<tpKind, tpStream>>
      BY <1>6 DEF TpAnswer
    <2> DEFINE cs == {c \in tpPending : tpId[c] = tpId[x]}
               ss == {s \in tpLong : tpId[s] = tpId[x]}
    <2>2. CASE cs # {}
      BY <2>1, <2>2, <1>c DEF TpResolveResponse
    <2>3. CASE cs = {}
      <3>1. tpLong' = tpLong \ ss /\ TpMarkEnded(ss)
        BY <2>1, <2>3 DEF TpResolveResponse, TpResolveLongLived
      <3> HIDE DEF ss
      <3>2. \A s \in TpSubs \ ss : TpTended(s) => TpTended(s)'
        BY <2>1, <3>1 DEF TpTended
      <3> QED
        BY <1>6, <3>1, <3>2, TpMarkEndedKeeps
    <2> QED
      BY <2>2, <2>3
  <1>7. ASSUME NEW q \in TpAsks, TpServerAsks(q) \/ TpHandled(q) PROVE TpSubsKept'
    BY <1>7, <1>c DEF TpServerAsks, TpHandled
  <1>8. ASSUME NEW s \in TpSubs, TpListen(s) PROVE TpSubsKept'
    <2>1. PICK is \in {"opening", "ended"} : tpSub' = [tpSub EXCEPT ![s] = is]
      BY <1>8 DEF TpListen
    <2>2. tpSub[s] = "none" /\ UNCHANGED <<tpKind, tpSubs>>
      BY <1>8 DEF TpListen
    <2>3. \A t \in TpSubs : t = s \/ TpTended(t) => TpTended(t)'
      <3>1. CASE tpKind = "http"
        <4>1. tpStream' = [tpStream EXCEPT ![s].at = "draining"]
          BY <1>8, <3>1 DEF TpListen
        <4>2. tpStream'[s].at = "draining" /\ \A t \in TpSubs : t # s => tpStream'[t] = tpStream[t]
          BY <4>1 DEF TpTypeOK
        <4> QED
          BY <2>2, <3>1, <4>2 DEF TpTended
      <3>2. CASE tpKind # "http"
        BY <1>8, <2>2, <3>2 DEF TpListen, TpTended
      <3> QED
        BY <3>1, <3>2
    <2>4. TpOpeningTended'
      BY <2>1, <2>3 DEF TpOpeningTended, TpSubsKept, TpTypeOK
    <2>5. tpSubs' = {t \in TpSubs : tpSub'[t] = "open"}
      BY <2>1, <2>2 DEF TpSubsKept, TpSubscriptionsTended, TpTypeOK
    <2> QED
      BY <2>4, <2>5 DEF TpSubsKept, TpSubscriptionsTended, TpOpeningTended, TpTended
  <1>9. ASSUME NEW s \in TpSubs, TpListenReturns(s) PROVE TpSubsKept'
    <2>1. tpSub[s] = "opening" /\ tpSub' = [tpSub EXCEPT ![s] = "open"] /\ tpSubs' = tpSubs \cup {s}
          /\ UNCHANGED <<tpKind, tpLong, tpStream>>
      BY <1>9 DEF TpListenReturns
    <2>2. TpOpeningTended'
      BY <2>1, <1>b DEF TpOpeningTended, TpSubsKept, TpTypeOK
    <2>3. tpSubs' = {t \in TpSubs : tpSub'[t] = "open"}
      BY <2>1 DEF TpSubsKept, TpSubscriptionsTended, TpTypeOK
    <2> QED
      BY <2>2, <2>3 DEF TpSubsKept, TpSubscriptionsTended, TpOpeningTended, TpTended
  <1>10. ASSUME ~TpOpening, NEW s \in TpSubs, TpSubClose(s) PROVE TpSubsKept'
    <2>1. TpMarkEnded({s}) /\ UNCHANGED <<tpKind, tpLong, tpStream>>
      BY <1>10 DEF TpSubClose
    <2> QED
      BY <1>10, <1>b, <2>1, TpMarkEndedKeeps
  <1>11. ASSUME NEW s \in TpSubs, TpStreamFrame(s) PROVE TpSubsKept'
    <2>1. PICK hasId \in BOOLEAN :
            tpStream' = [tpStream EXCEPT ![s].got = TRUE, ![s].cursor = @ \/ hasId]
      BY <1>11 DEF TpStreamFrame
    <2>2. \A t \in TpSubs : tpStream'[t].at = tpStream[t].at
      BY <2>1 DEF TpTypeOK
    <2> QED
      BY <1>11, <1>a, <2>2 DEF TpStreamFrame, TpTended, Apart
  <1>12. ASSUME ~TpOpening, NEW s \in TpSubs, TpResume(s) PROVE TpSubsKept'
    <2>1. UNCHANGED <<tpKind, tpLong>>
      BY <1>12 DEF TpResume
    <2>2. CASE tpStream[s].abort
      <3>1. tpStream' = [tpStream EXCEPT ![s].at = "done"] /\ TpMarkEnded({s})
        BY <1>12, <2>2 DEF TpResume
      <3>2. \A t \in TpSubs \ {s} : TpTended(t) => TpTended(t)'
        BY <2>1, <3>1 DEF TpTended, TpTypeOK
      <3> QED
        BY <1>12, <3>1, <3>2, TpMarkEndedKeeps
    <2>3. CASE ~tpStream[s].abort
      <3>1. tpStream' = [tpStream EXCEPT ![s].at = "resuming"] /\ UNCHANGED <<tpSub, tpSubs>>
        BY <1>12, <2>3 DEF TpResume
      <3>2. \A t \in TpSubs : tpStream'[t] = IF t = s THEN [tpStream[t] EXCEPT !.at = "resuming"] ELSE tpStream[t]
        BY <3>1 DEF TpTypeOK
      <3>3. \A t \in TpSubs : TpTended(t) => TpTended(t)'
        BY <2>1, <3>2 DEF TpTended, TpTypeOK
      <3> QED
        BY <1>a, <2>1, <3>1, <3>3 DEF Apart
    <2> QED
      BY <2>2, <2>3
  <1>13. ASSUME ~TpOpening, NEW s \in TpSubs, NEW failed \in BOOLEAN, TpStreamOver(s, failed)
         PROVE TpSubsKept'
    <2>1. UNCHANGED <<tpKind, tpLong>>
      BY <1>13 DEF TpStreamOver
    <2>2. \A t \in TpSubs \ {s} : tpStream'[t] = tpStream[t]
      BY <1>13 DEF TpStreamOver, TpTypeOK
    <2>3. \A t \in TpSubs \ {s} : TpTended(t) => TpTended(t)'
      BY <2>1, <2>2 DEF TpTended
    <2>4. CASE TpMarkEnded({s})
      BY <1>13, <2>3, <2>4, TpMarkEndedKeeps
    <2>5. CASE ~TpMarkEnded({s})
      <3>1. UNCHANGED <<tpSub, tpSubs>> /\ tpStream'[s].at = "backoff"
        BY <1>13, <2>5 DEF TpStreamOver, TpTypeOK
      <3>2. TpTended(s) => TpTended(s)'
        BY <2>1, <3>1 DEF TpTended
      <3> QED
        BY <1>a, <2>1, <2>3, <3>1, <3>2 DEF Apart
    <2> QED
      BY <2>4, <2>5
  <1>14. CASE UNCHANGED tpVars
    BY <1>14, <1>c DEF tpVars
  <1> QED
    BY <1>1, <1>2, <1>3, <1>4, <1>6, <1>7, <1>8, <1>9, <1>10, <1>11, <1>12, <1>13, <1>14
       DEF TpNext, TpEvents

LEMMA TpInvStep == TpInv /\ [TpNext]_tpVars => TpInv'
  BY TpTypeStep, TpCallsStep, TpSubsStep DEF TpInv

-----------------------------------------------------------------------------

(* The era: what negotiateAuto has learnt of the server by its attempts,   *)
(* and that the transport speaks the old era until a modern one is chosen. *)
McErasTyped ==
  /\ mcSrv \in McServer /\ mcFetch \in McFetches
  /\ mcMode \in {"auto", "legacy", "modern"} /\ mcFocus \in {"connect", "calls", "lists"}
  /\ mcPc \in {"start", "discover", "initialize", "up", "failed"}
  /\ mcAttempt \in 0 .. 2 /\ mcOutage \in BOOLEAN
  /\ mcVersion \in {"hand", "modern"} /\ mcWireEra \in {"hand", "modern"}
McLearnt ==
  mcMode = "auto" =>
    /\ mcPc \in {"start", "discover", "initialize"} => mcWireEra = "hand"
    /\ mcAttempt = 1 => "modern" \in mcSrv.speaks /\ (mcPc = "initialize" => mcOutage)
    /\ mcAttempt = 2 => "modern" \notin mcSrv.speaks
    /\ mcSrv.locked => "modern" \in mcSrv.speaks
McErasKept == McErasTyped /\ McLearnt /\ McAutoAgrees

(* The sessions: calls that rebuild one, and rounds of input left.         *)
McRebuilding == {c \in McCalls : mcCall[c].at \in {"initialize", "initialized"}}
McPost == [at : McAt, post : 0 .. 3, sent : {0} \cup mcIssued, rounds : 0 .. McMaxRounds + 1,
           tried : BOOLEAN]
McSessionsTyped ==
  /\ mcSession \in {0} \cup mcIssued
  /\ mcLive \subseteq mcIssued /\ mcIssued \subseteq Nat \ {0} /\ IsFiniteSet(mcIssued)
  /\ mcRecovering \in BOOLEAN /\ mcForgot \in 0 .. McRestarts
  /\ mcCall \in [McCalls -> McPost]
McRoundsLeft == \A c \in McCalls : mcCall[c].at # "failed" => mcCall[c].rounds <= McMaxRounds
McOneRebuilds ==
  /\ mcRecovering <=> McRebuilding # {}
  /\ \A c, d \in McRebuilding : c = d
McSessionsKept == McSessionsTyped /\ McRoundsLeft /\ McOneRebuilds

(* The listings: one that no notification overtook has seen a page at      *)
(* least as late as the last one announced.                                *)
McPages == (0 .. McChanges + 1) \X (0 .. McChanges + 1)
McListsTyped ==
  /\ mcListed \in 1 .. McChanges + 1 /\ mcNotes \subseteq 1 .. McChanges + 1
  /\ mcNoted \in 0 .. McChanges + 1
  /\ mcCache \in [by : McLists \cup {McNone}, pages : McPages] /\ mcRaced \subseteq McLists
  /\ mcList \in [McLists -> [at : {"new", "first", "second", "done"}, page : 0 .. McChanges + 1]]
McListsFresh ==
  /\ mcNoted <= mcListed
  /\ \A v \in mcNotes : v <= mcListed
  /\ \A l \in McLists \ mcRaced : mcList[l].at = "second" => mcList[l].page >= mcNoted
McListsKept == McListsTyped /\ McListsFresh /\ McOnlyRacedListsAreStale

McInv == McErasKept /\ McSessionsKept /\ McListsKept

LEMMA McInvInit == McInit => McInv
  <1> SUFFICES ASSUME McInit PROVE McInv
    OBVIOUS
  <1> USE McAssumption DEF McInit
  <1>1. McErasKept
    <2>1. mcSrv \in McServer /\ ~mcSrv.locked
      OBVIOUS
    <2>b. mcOutage \in BOOLEAN
      OBVIOUS
    <2>2. McErasTyped
      BY <2>1, <2>b DEF McErasTyped
    <2>3. McLearnt /\ McAutoAgrees
      BY <2>1 DEF McLearnt, McAutoAgrees
    <2> QED
      BY <2>2, <2>3 DEF McErasKept
  <1>2. McSessionsKept
    <2>1. IsFiniteSet(mcIssued)
      BY FS_EmptySet
    <2>2. mcCall \in [McCalls -> McPost]
      BY DEF McPost, McAt
    <2>3. McRebuilding = {}
      BY DEF McRebuilding
    <2>b. mcRecovering \in BOOLEAN
      OBVIOUS
    <2>4. McSessionsTyped
      BY <2>1, <2>2, <2>b DEF McSessionsTyped
    <2>5. McRoundsLeft /\ McOneRebuilds
      BY <2>3 DEF McRoundsLeft, McOneRebuilds
    <2> QED
      BY <2>4, <2>5 DEF McSessionsKept
  <1>3. McListsKept
    BY DEF McListsKept, McListsTyped, McListsFresh, McOnlyRacedListsAreStale, McPages, McNone
  <1> QED
    BY <1>1, <1>2, <1>3 DEF McInv

LEMMA McErasStep == McErasKept /\ [McNext]_mcVars => McErasKept'
  <1> SUFFICES ASSUME McErasKept, [McNext]_mcVars PROVE McErasKept'
    OBVIOUS
  <1> USE DEF McErasKept, McErasTyped, McLearnt, McAutoAgrees
  <1>a. UNCHANGED <<mcSetup, mcConnect>> => McErasKept'
    BY DEF mcSetup, mcConnect
  <1>1. CASE McConnect
    BY <1>1 DEF McConnect, mcSetup
  <1>2. CASE McConnectOutage
    BY <1>2 DEF McConnectOutage, mcSetup
  <1>3. CASE McDiscoverAnswered
    <2>1. CASE "modern" \in mcSrv.speaks
      BY <1>3, <2>1 DEF McDiscoverAnswered, McAdoptModern, mcSetup
    <2>2. CASE "modern" \notin mcSrv.speaks
      BY <1>3, <2>2 DEF McDiscoverAnswered, McAdoptModern, McSupported, mcSetup
    <2> QED
      BY <2>1, <2>2
  <1>4. CASE McProbeTimesOut
    <2>1. mcSrv' = [mcSrv EXCEPT !.locked = TRUE] /\ mcSrv \in McServer
      BY <1>4 DEF McProbeTimesOut
    <2>2. mcSrv' \in McServer /\ mcSrv'.speaks = mcSrv.speaks /\ mcSrv'.locked
      BY <2>1 DEF McServer
    <2> QED
      BY <1>4, <2>2 DEF McProbeTimesOut
  <1>5. CASE McInitializeAnswered
    <2>1. CASE "hand" \in mcSrv.speaks /\ ~mcSrv.locked
      BY <1>5, <2>1 DEF McInitializeAnswered, mcSetup
    <2>2. CASE ~("hand" \in mcSrv.speaks /\ ~mcSrv.locked)
      BY <1>5, <2>2 DEF McInitializeAnswered, McSupported, mcSetup
    <2> QED
      BY <2>1, <2>2
  <1>6. ASSUME NEW c \in McCalls,
               \/ McSend(c) \/ McAnswered(c) \/ McInput(c) \/ McForgotten(c)
               \/ McUnauthorized(c) \/ McReauthorized(c) \/ McReinitialized(c) \/ McRecovered(c)
        PROVE McErasKept'
    <2>1. UNCHANGED <<mcSetup, mcConnect>>
      BY <1>6 DEF McSend, McAnswered, McInput, McForgotten, McUnauthorized, McReauthorized,
                  McReinitialized, McRecovered
    <2> QED
      BY <1>a, <2>1
  <1>7. CASE McServerForgets \/ McListChanges \/ McExpires
    BY <1>7, <1>a DEF McServerForgets, McListChanges, McExpires
  <1>8. ASSUME NEW v \in mcNotes, McNotified(v) PROVE McErasKept'
    BY <1>8, <1>a DEF McNotified
  <1>9. ASSUME NEW l \in McLists, McListStarts(l) \/ McFirstPage(l) \/ McLastPage(l) PROVE McErasKept'
    BY <1>9, <1>a DEF McListStarts, McFirstPage, McLastPage
  <1>10. CASE UNCHANGED mcVars
    BY <1>10, <1>a DEF mcVars
  <1> QED
    BY <1>1, <1>2, <1>3, <1>4, <1>5, <1>6, <1>7, <1>8, <1>9, <1>10 DEF McNext

(* There is always a session id that the server has not issued.            *)
LEMMA McFreshIsNew ==
  ASSUME mcIssued \subseteq Nat \ {0}, IsFiniteSet(mcIssued)
  PROVE  McFresh \in Nat \ {0} /\ McFresh \notin mcIssued
  <1> DEFINE k == Cardinality(mcIssued)
  <1>1. k \in Nat
    BY FS_CardinalityType
  <1>2. IsFiniteSet(1 .. k + 1) /\ Cardinality(1 .. k + 1) = k + 1
    BY <1>1, FS_Interval
  <1>3. \E n \in 1 .. k + 1 : n \notin mcIssued
    <2>1. SUFFICES ASSUME 1 .. k + 1 \subseteq mcIssued PROVE FALSE
      OBVIOUS
    <2>2. Cardinality(1 .. k + 1) <= k
      BY <2>1, FS_Subset
    <2> QED
      BY <1>1, <1>2, <2>2
  <1>4. McFresh \in 1 .. k + 1 /\ McFresh \notin mcIssued
    BY <1>3 DEF McFresh
  <1> QED
    BY <1>1, <1>4

LEMMA McOpenSessionTyped ==
  ASSUME mcIssued \subseteq Nat \ {0}, IsFiniteSet(mcIssued), mcLive \subseteq mcIssued,
         mcSession \in {0} \cup mcIssued, McOpenSession
  PROVE  /\ mcIssued' \subseteq Nat \ {0} /\ IsFiniteSet(mcIssued') /\ mcLive' \subseteq mcIssued'
         /\ mcSession' \in {0} \cup mcIssued' /\ mcIssued \subseteq mcIssued'
  <1>1. CASE mcSrv.keeps
    <2>1. mcIssued' = mcIssued \cup {McFresh} /\ mcLive' = mcLive \cup {McFresh} /\ mcSession' = McFresh
      BY <1>1 DEF McOpenSession
    <2>2. IsFiniteSet(mcIssued')
      BY <2>1, FS_AddElement
    <2> QED
      BY <2>1, <2>2, McFreshIsNew
  <1>2. CASE ~mcSrv.keeps
    BY <1>2 DEF McOpenSession
  <1> QED
    BY <1>1, <1>2

(* A call that moves to another post leaves the other calls alone.         *)
LEMMA McCallMoves ==
  ASSUME McSessionsKept, NEW c \in McCalls, NEW r \in McPost,
         r.at # "failed" => r.rounds <= McMaxRounds,
         mcCall' = [mcCall EXCEPT ![c] = r], UNCHANGED mcIssued
  PROVE  /\ mcCall' \in [McCalls -> McPost]' /\ McRoundsLeft'
         /\ McRebuilding' = IF r.at \in {"initialize", "initialized"} THEN McRebuilding \cup {c}
                            ELSE McRebuilding \ {c}
  <1>1. \A d \in McCalls : mcCall'[d] = IF d = c THEN r ELSE mcCall[d]
    BY DEF McSessionsKept, McSessionsTyped
  <1>2. mcCall' \in [McCalls -> McPost] /\ McPost' = McPost
    BY DEF McSessionsKept, McSessionsTyped, McPost
  <1>3. McRoundsLeft'
    BY <1>1 DEF McSessionsKept, McRoundsLeft
  <1> QED
    BY <1>1, <1>2, <1>3 DEF McRebuilding

(* A call that moves while nobody's part in a recovery changes.            *)
LEMMA McMovesApart ==
  ASSUME McSessionsKept, NEW c \in McCalls, NEW r \in McPost,
         r.at \notin {"initialize", "initialized"}, mcCall[c].at \notin {"initialize", "initialized"},
         r.at # "failed" => r.rounds <= McMaxRounds, mcCall' = [mcCall EXCEPT ![c] = r],
         UNCHANGED <<mcSession, mcLive, mcIssued, mcRecovering, mcForgot>>
  PROVE  McSessionsKept'
  <1>1. mcCall' \in [McCalls -> McPost]' /\ McRoundsLeft' /\ McRebuilding' = McRebuilding
    BY McCallMoves DEF McRebuilding
  <1> QED
    BY <1>1 DEF McSessionsKept, McSessionsTyped, McOneRebuilds

LEMMA McPostedTyped ==
  ASSUME McSessionsKept, NEW c \in McCalls, mcCall[c].at # "failed", NEW n \in 0 .. 3
  PROVE  /\ McPosted(c, n) \in McPost /\ McPosted(c, n).at = "posted"
         /\ McPosted(c, n).rounds = mcCall[c].rounds /\ mcCall[c].rounds \in 0 .. McMaxRounds
  <1>1. mcCall[c] \in McPost /\ mcSession \in {0} \cup mcIssued
    BY DEF McSessionsKept, McSessionsTyped
  <1>2. mcCall[c].rounds \in 0 .. McMaxRounds
    BY <1>1, McAssumption DEF McSessionsKept, McRoundsLeft, McPost
  <1> QED
    BY <1>1, <1>2 DEF McPosted, McPost, McAt

LEMMA McSessionsStep == McSessionsKept /\ [McNext]_mcVars => McSessionsKept'
  <1> SUFFICES ASSUME McSessionsKept, [McNext]_mcVars PROVE McSessionsKept'
    OBVIOUS
  <1>a. UNCHANGED mcHttp => McSessionsKept'
    BY DEF mcHttp, McSessionsKept, McSessionsTyped, McRoundsLeft, McOneRebuilds, McRebuilding, McPost
  <1>b. \A c \in McCalls : mcCall[c] \in McPost
    BY DEF McSessionsKept, McSessionsTyped
  <1>c. \A c \in McCalls : mcCall[c].at # "failed" => mcCall[c].rounds <= McMaxRounds
    BY DEF McSessionsKept, McRoundsLeft
  <1>d. /\ mcIssued \subseteq Nat \ {0} /\ IsFiniteSet(mcIssued) /\ mcLive \subseteq mcIssued
        /\ mcSession \in {0} \cup mcIssued
    BY DEF McSessionsKept, McSessionsTyped
  <1>1. CASE McConnect \/ McConnectOutage \/ McDiscoverAnswered \/ McProbeTimesOut
    BY <1>1, <1>a DEF McConnect, McConnectOutage, McDiscoverAnswered, McProbeTimesOut
  <1>2. CASE McInitializeAnswered
    <2>1. UNCHANGED <<mcRecovering, mcCall, mcForgot>> /\ (McOpenSession \/ UNCHANGED <<mcSession, mcLive, mcIssued>>)
      BY <1>2 DEF McInitializeAnswered
    <2>2. /\ mcIssued' \subseteq Nat \ {0} /\ IsFiniteSet(mcIssued') /\ mcLive' \subseteq mcIssued'
          /\ mcSession' \in {0} \cup mcIssued' /\ mcIssued \subseteq mcIssued'
      BY <1>d, <2>1, McOpenSessionTyped
    <2>3. mcCall' \in [McCalls -> McPost]'
      BY <2>1, <2>2 DEF McSessionsKept, McSessionsTyped, McPost
    <2> QED
      BY <2>1, <2>2, <2>3 DEF McSessionsKept, McSessionsTyped, McRoundsLeft, McOneRebuilds, McRebuilding
  <1>3. ASSUME NEW c \in McCalls, McSend(c) PROVE McSessionsKept'
    <2>1. mcCall' = [mcCall EXCEPT ![c] = McPosted(c, 1)] /\ mcCall[c].at = "new"
          /\ UNCHANGED <<mcSession, mcLive, mcIssued, mcRecovering, mcForgot>>
      BY <1>3 DEF McSend
    <2>2. McPosted(c, 1) \in McPost /\ McPosted(c, 1).at = "posted" /\ McPosted(c, 1).rounds <= McMaxRounds
      BY <1>c, <2>1, McPostedTyped
    <2> QED
      BY <2>1, <2>2, McMovesApart
  <1>4. ASSUME NEW c \in McCalls, McAnswered(c) \/ McUnauthorized(c) PROVE McSessionsKept'
    <2>1. PICK where \in {"input", "done", "reauth", "failed"} : mcCall' = [mcCall EXCEPT ![c].at = where]
      BY <1>4 DEF McAnswered, McUnauthorized
    <2>2. mcCall[c].at = "posted" /\ UNCHANGED <<mcSession, mcLive, mcIssued, mcRecovering, mcForgot>>
      BY <1>4 DEF McAnswered, McUnauthorized
    <2> DEFINE r == [mcCall[c] EXCEPT !.at = where]
    <2>3. r \in McPost /\ r.at = where /\ r.rounds <= McMaxRounds
      BY <1>b, <1>c, <2>2 DEF McPost, McAt
    <2>4. mcCall' = [mcCall EXCEPT ![c] = r]
      BY <2>1
    <2> HIDE DEF r
    <2> QED
      BY <2>2, <2>3, <2>4, McMovesApart
  <1>5. ASSUME NEW c \in McCalls, McInput(c) PROVE McSessionsKept'
    <2>1. mcCall[c].at = "input" /\ UNCHANGED <<mcSession, mcLive, mcIssued, mcRecovering, mcForgot>>
      BY <1>5 DEF McInput
    <2>2. mcCall[c].rounds \in 0 .. McMaxRounds /\ mcCall[c].rounds + 1 \in 0 .. McMaxRounds + 1
      BY <2>1, McPostedTyped, McAssumption
    <2>3. PICK r : mcCall' = [mcCall EXCEPT ![c] = r]
                   /\ \/ r = [McPosted(c, 1) EXCEPT !.rounds = @ + 1] /\ mcCall[c].rounds < McMaxRounds
                      \/ r = [mcCall[c] EXCEPT !.at = "failed", !.rounds = @ + 1]
      BY <1>5 DEF McInput
    <2>4. CASE r = [McPosted(c, 1) EXCEPT !.rounds = @ + 1] /\ mcCall[c].rounds < McMaxRounds
      <3>1. McPosted(c, 1) \in McPost /\ McPosted(c, 1).at = "posted"
            /\ McPosted(c, 1).rounds = mcCall[c].rounds
        BY <2>1, McPostedTyped
      <3>2. r \in McPost /\ r.at = "posted" /\ r.rounds <= McMaxRounds
        BY <2>2, <2>4, <3>1, McAssumption DEF McPost
      <3> QED
        BY <2>1, <2>3, <3>2, McMovesApart
    <2>5. CASE r = [mcCall[c] EXCEPT !.at = "failed", !.rounds = @ + 1]
      <3>1. r \in McPost /\ r.at = "failed"
        BY <1>b, <2>2, <2>5 DEF McPost, McAt
      <3> QED
        BY <2>1, <2>3, <3>1, McMovesApart
    <2> QED
      BY <2>3, <2>4, <2>5
  <1>6. ASSUME NEW c \in McCalls, McReauthorized(c) PROVE McSessionsKept'
    <2>1. mcCall[c].at = "reauth" /\ UNCHANGED <<mcSession, mcLive, mcIssued, mcRecovering, mcForgot>>
      BY <1>6 DEF McReauthorized
    <2>2. PICK r \in {McPosted(c, 2), [mcCall[c] EXCEPT !.at = "failed"]} : mcCall' = [mcCall EXCEPT ![c] = r]
      BY <1>6 DEF McReauthorized
    <2>3. McPosted(c, 2) \in McPost /\ McPosted(c, 2).at = "posted" /\ McPosted(c, 2).rounds <= McMaxRounds
      BY <1>c, <2>1, McPostedTyped
    <2>4. [mcCall[c] EXCEPT !.at = "failed"] \in McPost /\ [mcCall[c] EXCEPT !.at = "failed"].at = "failed"
      BY <1>b DEF McPost, McAt
    <2>5. r \in McPost /\ r.at \in {"posted", "failed"} /\ (r.at # "failed" => r.rounds <= McMaxRounds)
      BY <2>2, <2>3, <2>4
    <2> QED
      BY <2>1, <2>2, <2>5, McMovesApart
  <1>7. ASSUME NEW c \in McCalls, McForgotten(c) PROVE McSessionsKept'
    <2>1. mcCall[c].at = "posted" /\ UNCHANGED <<mcLive, mcIssued, mcForgot>>
      BY <1>7 DEF McForgotten
    <2>2. CASE McMayRecover(c)
      <3> DEFINE r == [mcCall[c] EXCEPT !.at = "initialize", !.tried = TRUE]
      <3>1. mcSession' = 0 /\ mcRecovering' = TRUE /\ mcRecovering = FALSE
        BY <1>7, <2>2 DEF McForgotten, McMayRecover, McSessionsKept, McSessionsTyped
      <3>2. mcCall' = [mcCall EXCEPT ![c] = r]
        BY <1>7, <1>b, <2>2 DEF McForgotten
      <3>3. r \in McPost /\ r.at = "initialize" /\ r.rounds <= McMaxRounds
        BY <1>b, <1>c, <2>1 DEF McPost, McAt
      <3> HIDE DEF r
      <3>4. mcCall' \in [McCalls -> McPost]' /\ McRoundsLeft' /\ McRebuilding' = McRebuilding \cup {c}
        BY <2>1, <3>2, <3>3, McCallMoves
      <3>5. McRebuilding = {}
        BY <3>1 DEF McSessionsKept, McOneRebuilds
      <3>6. McOneRebuilds'
        BY <3>1, <3>4, <3>5 DEF McOneRebuilds
      <3> QED
        BY <2>1, <3>1, <3>4, <3>6 DEF McSessionsKept, McSessionsTyped
    <2>3. CASE ~McMayRecover(c)
      <3> DEFINE r == [mcCall[c] EXCEPT !.at = "failed"]
      <3>1. mcCall' = [mcCall EXCEPT ![c] = r] /\ UNCHANGED <<mcSession, mcRecovering>>
        BY <1>7, <2>3 DEF McForgotten
      <3>2. r \in McPost /\ r.at = "failed"
        BY <1>b DEF McPost, McAt
      <3> HIDE DEF r
      <3> QED
        BY <2>1, <3>1, <3>2, McMovesApart
    <2> QED
      BY <2>2, <2>3
  <1>8. ASSUME NEW c \in McCalls, McReinitialized(c) PROVE McSessionsKept'
    <2>1. mcCall[c].at = "initialize" /\ mcCall' = [mcCall EXCEPT ![c].at = "initialized"]
          /\ McOpenSession /\ UNCHANGED <<mcRecovering, mcForgot>>
      BY <1>8 DEF McReinitialized
    <2>2. /\ mcIssued' \subseteq Nat \ {0} /\ IsFiniteSet(mcIssued') /\ mcLive' \subseteq mcIssued'
          /\ mcSession' \in {0} \cup mcIssued' /\ mcIssued \subseteq mcIssued'
      BY <1>d, <2>1, McOpenSessionTyped
    <2>3. \A d \in McCalls : mcCall'[d] = IF d = c THEN [mcCall[d] EXCEPT !.at = "initialized"] ELSE mcCall[d]
      BY <2>1 DEF McSessionsKept, McSessionsTyped
    <2>4. mcCall' \in [McCalls -> McPost]'
      <3>1. mcCall' \in [McCalls -> McPost]
        BY <2>1 DEF McSessionsKept, McSessionsTyped, McPost, McAt
      <3>2. McPost \subseteq McPost'
        BY <2>2 DEF McPost
      <3> QED
        BY <3>1, <3>2
    <2>5. McRebuilding' = McRebuilding /\ McRoundsLeft'
      BY <1>b, <1>c, <2>1, <2>3 DEF McRebuilding, McRoundsLeft, McPost
    <2> QED
      BY <2>1, <2>2, <2>4, <2>5 DEF McSessionsKept, McSessionsTyped, McOneRebuilds
  <1>9. ASSUME NEW c \in McCalls, McRecovered(c) PROVE McSessionsKept'
    <2>1. mcCall[c].at \in {"initialize", "initialized"} /\ mcRecovering' = FALSE
          /\ UNCHANGED <<mcSession, mcLive, mcIssued, mcForgot>>
      BY <1>9 DEF McRecovered
    <2>2. PICK r \in {McPosted(c, 3), [mcCall[c] EXCEPT !.at = "failed"]} : mcCall' = [mcCall EXCEPT ![c] = r]
      BY <1>9 DEF McRecovered
    <2>3. McPosted(c, 3) \in McPost /\ McPosted(c, 3).at = "posted" /\ McPosted(c, 3).rounds <= McMaxRounds
      BY <1>c, <2>1, McPostedTyped
    <2>4. [mcCall[c] EXCEPT !.at = "failed"] \in McPost /\ [mcCall[c] EXCEPT !.at = "failed"].at = "failed"
      BY <1>b DEF McPost, McAt
    <2>5. r \in McPost /\ r.at \in {"posted", "failed"} /\ (r.at # "failed" => r.rounds <= McMaxRounds)
      BY <2>2, <2>3, <2>4
    <2>6. mcCall' \in [McCalls -> McPost]' /\ McRoundsLeft' /\ McRebuilding' = McRebuilding \ {c}
      BY <2>1, <2>2, <2>5, McCallMoves
    <2>7. McRebuilding = {c}
      BY <2>1 DEF McSessionsKept, McOneRebuilds, McRebuilding
    <2>8. McOneRebuilds'
      BY <2>1, <2>6, <2>7 DEF McOneRebuilds
    <2>9. mcRecovering' \in BOOLEAN
      BY <2>1
    <2> QED
      BY <2>1, <2>6, <2>8, <2>9 DEF McSessionsKept, McSessionsTyped
  <1>10. CASE McServerForgets
    <2>1. mcLive' = {} /\ mcForgot' = mcForgot + 1 /\ mcForgot < McRestarts
          /\ UNCHANGED <<mcSession, mcIssued, mcRecovering, mcCall>>
      BY <1>10 DEF McServerForgets
    <2>2. mcForgot' \in 0 .. McRestarts
      BY <2>1, McAssumption DEF McSessionsKept, McSessionsTyped
    <2> QED
      BY <2>1, <2>2 DEF McSessionsKept, McSessionsTyped, McRoundsLeft, McOneRebuilds, McRebuilding, McPost
  <1>11. CASE McListChanges \/ McExpires
    BY <1>11, <1>a DEF McListChanges, McExpires
  <1>12. ASSUME NEW v \in mcNotes, McNotified(v) PROVE McSessionsKept'
    BY <1>12, <1>a DEF McNotified
  <1>13. ASSUME NEW l \in McLists, McListStarts(l) \/ McFirstPage(l) \/ McLastPage(l) PROVE McSessionsKept'
    BY <1>13, <1>a DEF McListStarts, McFirstPage, McLastPage
  <1>14. CASE UNCHANGED mcVars
    BY <1>14, <1>a DEF mcVars
  <1> QED
    BY <1>1, <1>2, <1>3, <1>4, <1>5, <1>6, <1>7, <1>8, <1>9, <1>10, <1>11, <1>12, <1>13, <1>14 DEF McNext

LEMMA McListsStep == McListsKept /\ [McNext]_mcVars => McListsKept'
  <1> SUFFICES ASSUME McListsKept, [McNext]_mcVars PROVE McListsKept'
    OBVIOUS
  <1> USE McAssumption DEF McListsKept, McListsTyped, McListsFresh, McOnlyRacedListsAreStale, McPages
  <1>a. UNCHANGED mcLists => McListsKept'
    BY DEF mcLists
  <1>b. McNoEntry \in [by : McLists \cup {McNone}, pages : McPages] /\ McNoEntry.by = McNone
    BY DEF McNoEntry
  <1>1. CASE \/ McConnect \/ McConnectOutage \/ McDiscoverAnswered \/ McProbeTimesOut
             \/ McInitializeAnswered \/ McServerForgets
    <2>1. UNCHANGED mcLists
      BY <1>1 DEF McConnect, McConnectOutage, McDiscoverAnswered, McProbeTimesOut, McInitializeAnswered,
                  McServerForgets
    <2> QED
      BY <1>a, <2>1
  <1>2. ASSUME NEW c \in McCalls,
               \/ McSend(c) \/ McAnswered(c) \/ McInput(c) \/ McForgotten(c)
               \/ McUnauthorized(c) \/ McReauthorized(c) \/ McReinitialized(c) \/ McRecovered(c)
        PROVE McListsKept'
    <2>1. UNCHANGED mcLists
      BY <1>2 DEF McSend, McAnswered, McInput, McForgotten, McUnauthorized, McReauthorized,
                  McReinitialized, McRecovered
    <2> QED
      BY <1>a, <2>1
  <1>3. CASE McListChanges
    BY <1>3 DEF McListChanges
  <1>4. CASE McExpires
    BY <1>4, <1>b DEF McExpires
  <1>5. ASSUME NEW v \in mcNotes, McNotified(v) PROVE McListsKept'
    <2>1. mcCache' = McNoEntry /\ mcRaced' = {l \in McLists : mcList[l].at # "new"}
          /\ mcNotes' = mcNotes \ {v} /\ mcNoted' \in {v, mcNoted} /\ UNCHANGED <<mcListed, mcList>>
      BY <1>5 DEF McNotified, McInvalidate
    <2> QED
      BY <1>b, <2>1
  <1>6. ASSUME NEW l \in McLists, McListStarts(l) PROVE McListsKept'
    <2>1. UNCHANGED <<mcListed, mcNotes, mcNoted, mcCache, mcRaced>>
      BY <1>6 DEF McListStarts
    <2>2. PICK where \in {"done", "first"} : mcList' = [mcList EXCEPT ![l].at = where]
      BY <1>6 DEF McListStarts
    <2>3. \A k \in McLists : mcList'[k] = IF k = l THEN [mcList[k] EXCEPT !.at = where] ELSE mcList[k]
      BY <2>2
    <2> QED
      BY <2>1, <2>2, <2>3
  <1>7. ASSUME NEW l \in McLists, McFirstPage(l) PROVE McListsKept'
    <2>1. mcList' = [mcList EXCEPT ![l] = [at |-> "second", page |-> mcListed]]
          /\ UNCHANGED <<mcListed, mcNotes, mcNoted, mcCache, mcRaced>>
      BY <1>7 DEF McFirstPage
    <2>2. \A k \in McLists : mcList'[k] = IF k = l THEN [at |-> "second", page |-> mcListed] ELSE mcList[k]
      BY <2>1
    <2> QED
      BY <2>1, <2>2
  <1>8. ASSUME NEW l \in McLists, McLastPage(l) PROVE McListsKept'
    <2> DEFINE pages == <<mcList[l].page, mcListed>>
    <2>1. mcList[l].at = "second" /\ mcList' = [mcList EXCEPT ![l].at = "done"]
          /\ UNCHANGED <<mcListed, mcNotes, mcNoted, mcRaced>>
      BY <1>8 DEF McLastPage
    <2>2. mcCache' \in {McNoEntry, [by |-> l, pages |-> pages], mcCache}
      BY <1>8 DEF McLastPage, McStore
    <2>3. \A k \in McLists : mcList'[k] = IF k = l THEN [mcList[k] EXCEPT !.at = "done"] ELSE mcList[k]
      BY <2>1
    <2>4. mcList' \in [McLists -> [at : {"new", "first", "second", "done"}, page : 0 .. McChanges + 1]]
      BY <2>1
    <2>5. pages \in McPages /\ pages[1] = mcList[l].page /\ pages[2] = mcListed
      OBVIOUS
    <2>6. McListsTyped' /\ McListsFresh'
      <3> HIDE DEF pages
      <3> QED
        BY <1>b, <2>1, <2>2, <2>3, <2>4, <2>5
    <2>7. McOnlyRacedListsAreStale'
      <3> HIDE DEF pages
      <3> QED
        BY <1>b, <2>1, <2>2, <2>5
    <2> QED
      BY <2>6, <2>7
  <1>9. CASE UNCHANGED mcVars
    BY <1>9, <1>a DEF mcVars
  <1> QED
    BY <1>1, <1>2, <1>3, <1>4, <1>5, <1>6, <1>7, <1>8, <1>9 DEF McNext

LEMMA McInvStep == McInv /\ [McNext]_mcVars => McInv'
  BY McErasStep, McSessionsStep, McListsStep DEF McInv

(* The invariant is what the runs check of the client, and its types.      *)
LEMMA McInvSays == McInv => McTypeOK /\ McAutoAgrees /\ McOneRecovery /\ McOnlyRacedListsAreStale
  <1> SUFFICES ASSUME McInv PROVE McTypeOK /\ McAutoAgrees /\ McOneRecovery /\ McOnlyRacedListsAreStale
    OBVIOUS
  <1>1. McTypeOK
    BY DEF McInv, McErasKept, McErasTyped, McSessionsKept, McSessionsTyped, McPost, McListsKept,
           McListsTyped, McTypeOK
  <1>2. McOneRecovery
    <2>1. McOneRebuilds
      BY DEF McInv, McSessionsKept
    <2>2. Cardinality(McRebuilding) <= 1
      <3>1. CASE McRebuilding = {}
        BY <3>1, FS_EmptySet
      <3>2. CASE McRebuilding # {}
        <4>1. PICK c : McRebuilding = {c}
          BY <2>1, <3>2 DEF McOneRebuilds
        <4> QED
          BY <4>1, FS_Singleton
      <3> QED
        BY <3>1, <3>2
    <2> QED
      BY <2>1, <2>2 DEF McOneRecovery, McOneRebuilds, McRebuilding
  <1> QED
    BY <1>1, <1>2 DEF McInv, McErasKept, McListsKept

-----------------------------------------------------------------------------

(* The grants: one that waits to be saved is accepted by the server, is    *)
(* not in the store yet, and is in no other hand that could use it up.     *)
(* And a user whose state is about to be saved has a redirect.             *)
OaHolding == {u \in OaUsers : oaUser[u].at \in {"client", "refresh", "save"}}
OaSaving == {u \in OaUsers : oaUser[u].at = "save"}
OaUserRec == [at : OaAt, has : 0 .. oaGranted, for : {"header", "challenge"}, redirect : 0 .. oaStarted]
OaFresh(g) == g \in oaLive /\ g # oaTokens
OaSavesFresh == \A u \in OaSaving : OaFresh(oaUser[u].has)
OaSavesApart == \A u \in OaSaving, w \in OaHolding : oaUser[w].has = oaUser[u].has => w = u
OaFinishFresh ==
  oaFinish.at = "save" => /\ OaFresh(oaFinish.has)
                          /\ \A w \in OaHolding : oaUser[w].has # oaFinish.has
OaSentAway == \A u \in OaUsers : oaUser[u].at = "state" => oaUser[u].redirect # 0
OaGrantsOwned == OaSavesFresh /\ OaSavesApart /\ OaFinishFresh /\ OaSentAway
OaInv == OaTypeOK /\ OaGrantsOwned /\ OaGrantKept

LEMMA OaInvInit == OaInit => OaInv
  <1> SUFFICES ASSUME OaInit PROVE OaInv
    OBVIOUS
  <1> USE OaAssumption DEF OaInit
  <1>1. OaTypeOK
    <2>1. oaTokens \in {0, 1} /\ oaGranted = oaTokens /\ oaGranted \in 0 .. OaGrants
      OBVIOUS
    <2>2. oaLive \subseteq 1 .. oaGranted
      BY <2>1
    <2>3. oaForeign \in BOOLEAN
      OBVIOUS
    <2>4. oaUser \in [OaUsers -> [at : OaAt, has : 0 .. oaGranted, for : {"header", "challenge"},
                                  redirect : 0 .. oaStarted]]
      BY <2>1 DEF OaAt
    <2>5. oaFinish \in [at : {"idle", "exchange", "save"}, of : 0 .. oaStarted, has : 0 .. oaGranted]
      BY <2>1
    <2> QED
      BY <2>1, <2>2, <2>3, <2>4, <2>5 DEF OaTypeOK
  <1>2. OaGrantsOwned
    BY DEF OaGrantsOwned, OaSavesFresh, OaSavesApart, OaFinishFresh, OaSentAway, OaSaving, OaHolding
  <1>3. OaGrantKept
    BY DEF OaGrantKept
  <1> QED
    BY <1>1, <1>2, <1>3 DEF OaInv

(* A user that moves on without a new grant, holding what it held or what  *)
(* is in the store, disturbs nobody.                                       *)
LEMMA OaMovesOn ==
  ASSUME OaInv, NEW u \in OaUsers, NEW r,
         oaUser' = [oaUser EXCEPT ![u] = r], r.at # "save", oaUser[u].at # "save",
         r.at = "state" => r.redirect # 0,
         r.at \in {"client", "refresh"} =>
           r.has \in {0, oaTokens} \/ (u \in OaHolding /\ r.has = oaUser[u].has),
         UNCHANGED <<oaTokens, oaForeign, oaLive, oaLost, oaFinish>>
  PROVE  OaGrantsOwned' /\ OaGrantKept'
  <1>1. \A w \in OaUsers : oaUser'[w] = IF w = u THEN r ELSE oaUser[w]
    BY DEF OaInv, OaTypeOK
  <1>2. OaSaving' = OaSaving /\ u \notin OaSaving /\ \A w \in OaSaving : oaUser'[w] = oaUser[w]
    BY <1>1 DEF OaSaving
  <1>3. OaSavesFresh'
    BY <1>2 DEF OaInv, OaGrantsOwned, OaSavesFresh, OaFresh
  <1>4. \A g \in oaLive : g # 0
    BY DEF OaInv, OaTypeOK
  <1>5. \A w \in OaHolding' : w # u => w \in OaHolding /\ oaUser'[w] = oaUser[w]
    BY <1>1 DEF OaHolding
  <1>6. u \in OaHolding' => r.has \in {0, oaTokens} \/ (u \in OaHolding /\ r.has = oaUser[u].has)
    BY <1>1 DEF OaHolding
  <1>7. OaSavesApart'
    BY <1>1, <1>2, <1>4, <1>5, <1>6 DEF OaInv, OaGrantsOwned, OaSavesFresh, OaSavesApart, OaFresh
  <1>8. OaFinishFresh'
    BY <1>1, <1>4, <1>5, <1>6 DEF OaInv, OaGrantsOwned, OaFinishFresh, OaFresh
  <1>9. OaGrantKept'
    BY <1>2 DEF OaInv, OaGrantKept, OaSaving
  <1>10. OaSentAway'
    BY <1>1 DEF OaInv, OaGrantsOwned, OaSentAway
  <1> QED
    BY <1>3, <1>7, <1>8, <1>9, <1>10 DEF OaGrantsOwned

LEMMA OaInvStep == OaInv /\ [OaNext]_oaVars => OaInv'
  <1> SUFFICES ASSUME OaInv, [OaNext]_oaVars PROVE OaInv'
    OBVIOUS
  <1> USE OaAssumption
  <1>t. /\ oaClient \in {"absent", "unbound", "bound", "foreign"}
        /\ oaTokens \in 0 .. oaGranted /\ oaGranted \in 0 .. OaGrants /\ oaStarted \in 0 .. OaRedirects
        /\ oaExpired \subseteq 1 .. oaGranted /\ oaLive \subseteq 1 .. oaGranted
        /\ oaLost \subseteq 1 .. oaGranted
        /\ oaUser \in [OaUsers -> OaUserRec] /\ \A u \in OaUsers : oaUser[u] \in OaUserRec
    BY DEF OaInv, OaTypeOK, OaUserRec
  <1>k. OaBound \in {0, oaTokens}
    BY DEF OaBound
  <1>r. \A r \in BOOLEAN : OaClientFor(r) \in {"absent", "unbound", "bound", "foreign"}
    BY <1>t DEF OaClientFor
  <1> DEFINE UsersOnly == UNCHANGED <<oaTokens, oaForeign, OaServer, OaStores, oaFinish>>
  <1>u. ASSUME UsersOnly, oaUser' \in [OaUsers -> OaUserRec],
               oaClient' \in {"absent", "unbound", "bound", "foreign"}
        PROVE  OaTypeOK'
    BY <1>u DEF OaInv, OaTypeOK, OaUserRec, OaServer, OaStores
  <1>n. ASSUME NEW u \in OaUsers
        PROVE  /\ OaNoRefresh(u) \in OaUserRec /\ OaNoRefresh(u).at \in {"verifier", "ready"}
    BY <1>t DEF OaNoRefresh, OaUserRec, OaAt
  <1>1. ASSUME NEW u \in OaUsers, OaAuthHeader(u) PROVE OaInv'
    <2> DEFINE r == [at |-> IF OaBound \in oaExpired THEN "client" ELSE "ready",
                     has |-> OaBound, for |-> "header", redirect |-> 0]
    <2>1. oaUser[u].at = "idle" /\ oaUser' = [oaUser EXCEPT ![u] = r] /\ UsersOnly /\ UNCHANGED oaClient
      BY <1>1 DEF OaAuthHeader, OaUse
    <2>2. r.at \in {"client", "ready"} /\ r.has = OaBound
      OBVIOUS
    <2>3. r \in OaUserRec
      BY <1>t, <1>k DEF OaUserRec, OaAt
    <2> HIDE DEF r
    <2>4. OaGrantsOwned' /\ OaGrantKept'
      BY <1>k, <2>1, <2>2, OaMovesOn DEF OaServer
    <2>5. OaTypeOK'
      BY <1>t, <1>u, <2>1, <2>3
    <2> QED
      BY <2>4, <2>5 DEF OaInv
  <1>2. ASSUME NEW u \in OaUsers, NEW scoped \in BOOLEAN, OaReauthorize(u, scoped) PROVE OaInv'
    <2> DEFINE r == [at |-> IF ~scoped /\ OaBound # 0 THEN "client" ELSE "verifier",
                     has |-> OaBound, for |-> "challenge", redirect |-> 0]
    <2>1. oaUser[u].at = "idle" /\ oaUser' = [oaUser EXCEPT ![u] = r] /\ UsersOnly /\ UNCHANGED oaClient
      BY <1>2 DEF OaReauthorize, OaUse
    <2>2. r.at \in {"client", "verifier"} /\ r.has = OaBound
      OBVIOUS
    <2>3. r \in OaUserRec
      BY <1>t, <1>k DEF OaUserRec, OaAt
    <2> HIDE DEF r
    <2>4. OaGrantsOwned' /\ OaGrantKept'
      BY <1>k, <2>1, <2>2, OaMovesOn DEF OaServer
    <2>5. OaTypeOK'
      BY <1>t, <1>u, <2>1, <2>3
    <2> QED
      BY <2>4, <2>5 DEF OaInv
  <1>3. ASSUME NEW u \in OaUsers, NEW registers \in BOOLEAN, OaEnsureClient(u, registers) PROVE OaInv'
    <2>1. oaUser[u].at = "client" /\ UsersOnly /\ oaClient' = OaClientFor(registers)
      BY <1>3 DEF OaEnsureClient
    <2>2. PICK r \in {[oaUser[u] EXCEPT !.at = "refresh"], OaNoRefresh(u)} : oaUser' = [oaUser EXCEPT ![u] = r]
      BY <1>3 DEF OaEnsureClient, OaUse
    <2>3. r \in OaUserRec /\ r.at \in {"refresh", "verifier", "ready"}
          /\ (r.at = "refresh" => r.has = oaUser[u].has)
      BY <1>t, <1>n, <2>2 DEF OaUserRec, OaAt
    <2>4. u \in OaHolding
      BY <2>1 DEF OaHolding
    <2>5. OaGrantsOwned' /\ OaGrantKept'
      BY <2>1, <2>2, <2>3, <2>4, OaMovesOn DEF OaServer
    <2>6. OaTypeOK'
      BY <1>t, <1>r, <1>u, <2>1, <2>2, <2>3
    <2> QED
      BY <2>5, <2>6 DEF OaInv
  <1>4. ASSUME NEW u \in OaUsers, NEW lost \in BOOLEAN, OaRefresh(u, lost) PROVE OaInv'
    <2>1. oaUser[u].at = "refresh" /\ UNCHANGED <<oaClient, oaTokens, oaForeign, oaExpired, OaStores, oaFinish>>
      BY <1>4 DEF OaRefresh
    <2>2. u \in OaHolding /\ u \notin OaSaving
      BY <2>1 DEF OaHolding, OaSaving
    <2>3. CASE ~(oaUser[u].has \in oaLive /\ oaGranted < OaGrants)
      <3>1. oaUser' = [oaUser EXCEPT ![u] = OaNoRefresh(u)] /\ UNCHANGED <<oaLive, oaGranted, oaLost>>
        BY <1>4, <2>3 DEF OaRefresh, OaUse
      <3>2. OaGrantsOwned' /\ OaGrantKept'
        BY <1>n, <2>1, <3>1, OaMovesOn
      <3>3. OaTypeOK'
        BY <1>t, <1>n, <1>u, <2>1, <3>1 DEF OaServer
      <3> QED
        BY <3>2, <3>3 DEF OaInv
    <2>4. CASE oaUser[u].has \in oaLive /\ oaGranted < OaGrants
      <3> DEFINE g == oaGranted + 1
                 used == oaUser[u].has
      <3>1. /\ oaGranted' = g /\ oaLive' = (oaLive \ {used}) \cup {g}
            /\ oaLost' = IF lost THEN oaLost \cup {g} ELSE oaLost
        BY <1>4, <2>4 DEF OaRefresh
      <3>2. g \in 1 .. g /\ g \in 0 .. OaGrants /\ 0 .. oaGranted \subseteq 0 .. g /\ 1 .. oaGranted \subseteq 1 .. g
            /\ g \notin 0 .. oaGranted
        BY <1>t, <2>4
      <3>3. PICK r : /\ oaUser' = [oaUser EXCEPT ![u] = r]
                     /\ r = IF lost THEN OaNoRefresh(u) ELSE [oaUser[u] EXCEPT !.at = "save", !.has = g]
        BY <1>4, <2>4 DEF OaRefresh, OaUse
      <3>4. \A w \in OaUsers : oaUser'[w] = IF w = u THEN r ELSE oaUser[w]
        BY <1>t, <3>3
      <3>5. OaUserRec \subseteq OaUserRec' /\ (lost => r \in OaUserRec) /\ (~lost => r \in OaUserRec')
        <4>1. OaUserRec \subseteq OaUserRec'
          BY <2>1, <3>1, <3>2 DEF OaUserRec, OaStores
        <4>2. ~lost => r \in OaUserRec'
          <5>1. oaUser[u] \in OaUserRec /\ oaStarted' = oaStarted /\ oaGranted' = g /\ g \in 0 .. g
            BY <1>t, <2>1, <3>1, <3>2 DEF OaStores
          <5>2. ~lost => r = [oaUser[u] EXCEPT !.at = "save", !.has = g]
            BY <3>3
          <5> HIDE DEF g
          <5> QED
            BY <5>1, <5>2 DEF OaUserRec, OaAt
        <4> QED
          BY <1>n, <3>3, <4>1, <4>2
      <3>6. OaTypeOK'
        <4>1. oaUser' \in [OaUsers -> OaUserRec']
          BY <1>t, <3>3, <3>5
        <4>2. oaFinish' \in [at : {"idle", "exchange", "save"}, of : 0 .. oaStarted', has : 0 .. oaGranted']
          BY <2>1, <3>1, <3>2 DEF OaInv, OaTypeOK, OaStores
        <4>3. oaLive' \subseteq 1 .. oaGranted' /\ oaLost' \subseteq 1 .. oaGranted'
              /\ oaExpired' \subseteq 1 .. oaGranted' /\ oaTokens' \in 0 .. oaGranted' /\ oaGranted' \in 0 .. OaGrants
          BY <1>t, <2>1, <3>1, <3>2
        <4>4. UNCHANGED <<oaClient, oaForeign, oaVerifier, oaState, oaStarted, oaOpen>>
          BY <2>1 DEF OaStores
        <4> QED
          BY <4>1, <4>2, <4>3, <4>4 DEF OaInv, OaTypeOK, OaUserRec
      <3>7. \A w \in OaUsers \ {u} : oaUser'[w] = oaUser[w] /\ oaUser[w].has \in 0 .. oaGranted
        BY <1>t, <3>4 DEF OaUserRec
      <3>8. \A w \in OaSaving : w # u /\ oaUser[w].has # used
        BY <2>2 DEF OaInv, OaGrantsOwned, OaSavesApart
      <3>9. (lost => r.at \notin {"client", "refresh", "save"}) /\ (~lost => r.at = "save" /\ r.has = g)
        BY <1>n, <1>t, <3>3 DEF OaUserRec
      <3>10. OaSavesFresh'
        BY <1>t, <2>1, <3>1, <3>2, <3>4, <3>7, <3>8, <3>9
           DEF OaInv, OaGrantsOwned, OaSavesFresh, OaFresh, OaSaving
      <3>11. OaSavesApart'
        BY <2>2, <3>2, <3>4, <3>7, <3>9 DEF OaInv, OaGrantsOwned, OaSavesApart, OaSaving, OaHolding
      <3>12. OaFinishFresh'
        <4>1. oaFinish.at = "save" => oaFinish.has # used /\ oaFinish.has # g
          BY <2>2, <3>2 DEF OaInv, OaTypeOK, OaGrantsOwned, OaFinishFresh
        <4> QED
          BY <2>1, <3>1, <3>4, <3>9, <4>1 DEF OaInv, OaGrantsOwned, OaFinishFresh, OaFresh, OaHolding
      <3>13. OaGrantKept'
        <4>1. CASE lost
          BY <3>1, <4>1 DEF OaGrantKept
        <4>2. CASE ~lost
          BY <3>1, <3>4, <3>9, <4>2 DEF OaGrantKept
        <4> QED
          BY <4>1, <4>2
      <3>14. OaSentAway'
        BY <1>n, <3>3, <3>4 , <3>9 DEF OaInv, OaGrantsOwned, OaSentAway
      <3> QED
        BY <3>6, <3>10, <3>11, <3>12, <3>13, <3>14 DEF OaInv, OaGrantsOwned
    <2> QED
      BY <2>3, <2>4
  <1>5. ASSUME NEW u \in OaUsers, OaSave(u) PROVE OaInv'
    <2> DEFINE r == [oaUser[u] EXCEPT !.at = "ready"]
    <2>1. oaUser[u].at = "save" /\ oaTokens' = oaUser[u].has /\ oaForeign' = FALSE
          /\ oaUser' = [oaUser EXCEPT ![u] = r] /\ UNCHANGED <<oaClient, OaServer, OaStores, oaFinish>>
      BY <1>5 DEF OaSave, OaUse
    <2>2. r \in OaUserRec /\ r.at = "ready"
      BY <1>t DEF OaUserRec, OaAt
    <2> HIDE DEF r
    <2>3. \A w \in OaUsers : oaUser'[w] = IF w = u THEN r ELSE oaUser[w]
      BY <1>t, <2>1
    <2>4. u \in OaSaving /\ oaUser[u].has \in oaLive
      BY <2>1 DEF OaSaving, OaInv, OaGrantsOwned, OaSavesFresh, OaFresh
    <2>5. OaTypeOK'
      <3>1. oaUser' \in [OaUsers -> OaUserRec] /\ oaTokens' \in 0 .. oaGranted
        BY <1>t, <2>1, <2>2 DEF OaUserRec
      <3>2. oaForeign' \in BOOLEAN
        BY <2>1
      <3> QED
        BY <2>1, <3>1, <3>2 DEF OaInv, OaTypeOK, OaUserRec, OaServer, OaStores
    <2>6. OaSaving' = OaSaving \ {u} /\ OaHolding' = OaHolding \ {u} /\ OaSaving \subseteq OaHolding
      BY <2>2, <2>3 DEF OaSaving, OaHolding
    <2>7. OaSavesFresh' /\ OaSavesApart'
      BY <2>1, <2>3, <2>4, <2>6 DEF OaInv, OaGrantsOwned, OaSavesFresh, OaSavesApart, OaFresh, OaServer, OaSaving, OaHolding
    <2>8. OaFinishFresh'
      BY <2>1, <2>3, <2>4, <2>6 DEF OaInv, OaGrantsOwned, OaFinishFresh, OaFresh, OaServer, OaSaving, OaHolding
    <2>9. OaGrantKept'
      BY <2>1, <2>4 DEF OaGrantKept, OaServer
    <2>10. OaSentAway'
      BY <2>2, <2>3 DEF OaInv, OaGrantsOwned, OaSentAway
    <2> QED
      BY <2>5, <2>7, <2>8, <2>9, <2>10 DEF OaInv, OaGrantsOwned
  <1>6. ASSUME NEW u \in OaUsers, OaSaveVerifier(u) PROVE OaInv'
    <2>1. oaUser[u].at = "verifier" /\ oaClient' = OaClientFor(TRUE)
          /\ UNCHANGED <<oaTokens, oaForeign, OaServer, oaState, oaOpen, oaFinish>>
      BY <1>6 DEF OaSaveVerifier
    <2>2. CASE oaClient' = "bound" /\ oaStarted < OaRedirects
      <3> DEFINE n == oaStarted + 1
                 r == [oaUser[u] EXCEPT !.at = "state", !.redirect = n]
      <3>1. oaStarted' = n /\ oaVerifier' = n /\ oaUser' = [oaUser EXCEPT ![u] = r]
        BY <1>6, <2>2 DEF OaSaveVerifier, OaUse
      <3>2. n \in 0 .. OaRedirects /\ n \in 0 .. n /\ 0 .. oaStarted \subseteq 0 .. n /\ 1 .. oaStarted \subseteq 1 .. n
        BY <1>t, <2>2
      <3>3. r \in OaUserRec' /\ r.at = "state" /\ r.redirect = n /\ n # 0 /\ OaUserRec \subseteq OaUserRec'
        <4>1. oaUser[u] \in OaUserRec /\ oaGranted' = oaGranted /\ oaStarted' = n /\ n # 0
          BY <1>t, <2>1, <3>1, <3>2 DEF OaServer
        <4>2. OaUserRec \subseteq OaUserRec'
          BY <3>2, <4>1 DEF OaUserRec
        <4> HIDE DEF n
        <4> QED
          BY <3>2, <4>1, <4>2 DEF OaUserRec, OaAt
      <3> HIDE DEF r, n
      <3>4. OaGrantsOwned' /\ OaGrantKept'
        BY <2>1, <3>1, <3>3, OaMovesOn DEF OaServer
      <3>5. oaUser' \in [OaUsers -> OaUserRec']
        BY <1>t, <3>1, <3>3
      <3>6. oaFinish' \in [at : {"idle", "exchange", "save"}, of : 0 .. oaStarted', has : 0 .. oaGranted']
        BY <2>1, <3>1, <3>2 DEF OaInv, OaTypeOK, OaServer
      <3>7. oaState' \in 0 .. oaStarted' /\ oaOpen' \subseteq 1 .. oaStarted'
        BY <2>1, <3>1, <3>2 DEF OaInv, OaTypeOK
      <3>8. OaTypeOK'
        BY <1>r, <2>1, <3>1, <3>2, <3>5, <3>6, <3>7 DEF OaInv, OaTypeOK, OaUserRec, OaServer
      <3> QED
        BY <3>4, <3>8 DEF OaInv
    <2>3. CASE ~(oaClient' = "bound" /\ oaStarted < OaRedirects)
      <3> DEFINE r == [oaUser[u] EXCEPT !.at = "failed"]
      <3>1. UNCHANGED <<oaStarted, oaVerifier>> /\ oaUser' = [oaUser EXCEPT ![u] = r]
        BY <1>6, <2>3 DEF OaSaveVerifier, OaUse
      <3>2. r \in OaUserRec /\ r.at = "failed"
        BY <1>t DEF OaUserRec, OaAt
      <3> HIDE DEF r
      <3>3. OaGrantsOwned' /\ OaGrantKept'
        BY <2>1, <3>1, <3>2, OaMovesOn DEF OaServer
      <3>4. OaTypeOK'
        BY <1>r, <1>t, <1>u, <2>1, <3>1, <3>2 DEF OaStores
      <3> QED
        BY <3>3, <3>4 DEF OaInv
    <2> QED
      BY <2>2, <2>3
  <1>7. ASSUME NEW u \in OaUsers, OaSaveState(u) PROVE OaInv'
    <2> DEFINE r == [oaUser[u] EXCEPT !.at = "failed"]
    <2>1. oaUser[u].at = "state" /\ oaState' = oaUser[u].redirect /\ oaOpen' = oaOpen \cup {oaUser[u].redirect}
          /\ oaUser' = [oaUser EXCEPT ![u] = r]
          /\ UNCHANGED <<oaClient, oaTokens, oaForeign, OaServer, oaVerifier, oaStarted, oaFinish>>
      BY <1>7 DEF OaSaveState, OaUse
    <2>2. r \in OaUserRec /\ r.at = "failed"
      BY <1>t DEF OaUserRec, OaAt
    <2> HIDE DEF r
    <2>3. OaGrantsOwned' /\ OaGrantKept'
      BY <2>1, <2>2, OaMovesOn DEF OaServer
    <2>4. oaUser[u].redirect \in 1 .. oaStarted
      BY <1>t, <2>1 DEF OaInv, OaGrantsOwned, OaSentAway, OaUserRec
    <2>5. oaUser' \in [OaUsers -> OaUserRec]
      BY <1>t, <2>1, <2>2
    <2>6. oaState' \in 0 .. oaStarted /\ oaOpen' \subseteq 1 .. oaStarted
      BY <1>t, <2>1, <2>4 DEF OaInv, OaTypeOK
    <2>7. OaTypeOK'
      BY <2>1, <2>5, <2>6 DEF OaInv, OaTypeOK, OaUserRec, OaServer
    <2> QED
      BY <2>3, <2>7 DEF OaInv
  <1>8. ASSUME NEW u \in OaUsers, OaRest(u) PROVE OaInv'
    <2> DEFINE r == [at |-> "idle", has |-> 0, for |-> "header", redirect |-> 0]
    <2>1. oaUser[u].at \in {"ready", "failed"} /\ oaUser' = [oaUser EXCEPT ![u] = r] /\ UsersOnly /\ UNCHANGED oaClient
      BY <1>8 DEF OaRest, OaUse
    <2>2. r \in OaUserRec /\ r.at = "idle"
      BY <1>t DEF OaUserRec, OaAt
    <2> HIDE DEF r
    <2>3. OaGrantsOwned' /\ OaGrantKept'
      BY <2>1, <2>2, OaMovesOn DEF OaServer
    <2>4. OaTypeOK'
      BY <1>t, <1>u, <2>1, <2>2
    <2> QED
      BY <2>3, <2>4 DEF OaInv
  <1>9. ASSUME NEW back \in oaOpen, OaFinishStarts(back) PROVE OaInv'
    <2>1. oaFinish' = [oaFinish EXCEPT !.at = "exchange", !.of = back]
          /\ UNCHANGED <<oaClient, oaTokens, oaForeign, OaServer, OaStores, oaUser>>
      BY <1>9 DEF OaFinishStarts
    <2>2. oaFinish \in [at : {"idle", "exchange", "save"}, of : 0 .. oaStarted, has : 0 .. oaGranted]
          /\ back \in 0 .. oaStarted
      BY DEF OaInv, OaTypeOK
    <2>3. oaFinish' \in [at : {"idle", "exchange", "save"}, of : 0 .. oaStarted, has : 0 .. oaGranted]
          /\ oaFinish'.at = "exchange" /\ oaFinish.at = "idle"
      BY <1>9, <2>1, <2>2 DEF OaFinishStarts
    <2>4. OaTypeOK'
      BY <2>1, <2>3 DEF OaInv, OaTypeOK, OaServer, OaStores
    <2> QED
      BY <2>1, <2>3, <2>4 DEF OaInv, OaGrantsOwned, OaSavesFresh, OaSavesApart, OaFinishFresh, OaSentAway, OaSaving,
         OaHolding, OaFresh, OaGrantKept, OaServer
  <1>10. CASE OaExchange
    <2>1. oaFinish.at = "exchange" /\ oaOpen' = oaOpen \ {oaFinish.of}
          /\ UNCHANGED <<oaClient, oaTokens, oaForeign, oaExpired, oaLost, oaVerifier, oaState, oaStarted, oaUser>>
      BY <1>10 DEF OaExchange
    <2>2. oaFinish \in [at : {"idle", "exchange", "save"}, of : 0 .. oaStarted, has : 0 .. oaGranted]
      BY DEF OaInv, OaTypeOK
    <2>3. CASE ~(oaVerifier = oaFinish.of /\ oaGranted < OaGrants)
      <3>1. oaFinish' = [at |-> "idle", of |-> 0, has |-> 0] /\ UNCHANGED <<oaGranted, oaLive>>
        BY <1>10, <2>3 DEF OaExchange
      <3>2. oaFinish' \in [at : {"idle", "exchange", "save"}, of : 0 .. oaStarted, has : 0 .. oaGranted]
            /\ oaFinish'.at = "idle"
        BY <1>t, <3>1
      <3>3. OaTypeOK'
        BY <2>1, <3>1, <3>2 DEF OaInv, OaTypeOK
      <3> QED
        BY <2>1, <3>1, <3>2, <3>3 DEF OaInv, OaGrantsOwned, OaSavesFresh, OaSavesApart, OaFinishFresh, OaSentAway, OaSaving,
           OaHolding, OaFresh, OaGrantKept
    <2>4. CASE oaVerifier = oaFinish.of /\ oaGranted < OaGrants
      <3> DEFINE g == oaGranted + 1
      <3>1. oaGranted' = g /\ oaLive' = oaLive \cup {g}
            /\ oaFinish' = [oaFinish EXCEPT !.at = "save", !.has = g]
        BY <1>10, <2>4 DEF OaExchange
      <3>2. g \in 1 .. g /\ g \in 0 .. OaGrants /\ 0 .. oaGranted \subseteq 0 .. g /\ 1 .. oaGranted \subseteq 1 .. g
            /\ g \notin 0 .. oaGranted
        BY <1>t, <2>4
      <3>3. oaFinish' \in [at : {"idle", "exchange", "save"}, of : 0 .. oaStarted, has : 0 .. g]
            /\ oaFinish'.at = "save" /\ oaFinish'.has = g
        <4>1. g \in 0 .. g
          BY <3>2
        <4> HIDE DEF g
        <4> QED
          BY <2>2, <3>1, <4>1
      <3>4. OaUserRec \subseteq OaUserRec'
        BY <2>1, <3>1, <3>2 DEF OaUserRec
      <3>5. OaTypeOK'
        <4>1. oaUser' \in [OaUsers -> OaUserRec']
          BY <1>t, <2>1, <3>4
        <4>2. oaLive' \subseteq 1 .. oaGranted' /\ oaLost' \subseteq 1 .. oaGranted'
              /\ oaExpired' \subseteq 1 .. oaGranted' /\ oaTokens' \in 0 .. oaGranted' /\ oaGranted' \in 0 .. OaGrants
          BY <1>t, <2>1, <3>1, <3>2
        <4> QED
          BY <2>1, <3>1, <3>3, <4>1, <4>2 DEF OaInv, OaTypeOK, OaUserRec
      <3>6. OaSavesFresh' /\ OaSavesApart'
        BY <2>1, <3>1 DEF OaInv, OaGrantsOwned, OaSavesFresh, OaSavesApart, OaSaving, OaHolding, OaFresh
      <3>10. OaSentAway'
        BY <2>1 DEF OaInv, OaGrantsOwned, OaSentAway
      <3>7. \A w \in OaUsers : oaUser[w].has \in 0 .. oaGranted
        BY <1>t DEF OaUserRec
      <3>8. OaFinishFresh'
        BY <1>t, <2>1, <3>1, <3>2, <3>3, <3>7 DEF OaFinishFresh, OaFresh, OaHolding
      <3>9. OaGrantKept'
        BY <3>1, <3>3 DEF OaGrantKept
      <3> QED
        BY <3>5, <3>6, <3>8, <3>9, <3>10 DEF OaInv, OaGrantsOwned
    <2> QED
      BY <2>3, <2>4
  <1>11. CASE OaFinishSaves
    <2>1. oaFinish.at = "save" /\ oaTokens' = oaFinish.has /\ oaForeign' = FALSE
          /\ oaFinish' = [at |-> "idle", of |-> 0, has |-> 0]
          /\ UNCHANGED <<oaClient, OaServer, OaStores, oaUser>>
      BY <1>11 DEF OaFinishSaves
    <2>2. oaFinish.has \in oaLive /\ \A w \in OaHolding : oaUser[w].has # oaFinish.has
      BY <2>1 DEF OaInv, OaGrantsOwned, OaFinishFresh, OaFresh
    <2>3. OaTypeOK'
      <3>1. oaTokens' \in 0 .. oaGranted
        <4>1. oaLive \subseteq 1 .. oaGranted /\ oaGranted \in 0 .. OaGrants
          BY <1>t
        <4>2. oaFinish.has \in 1 .. oaGranted
          BY <2>2, <4>1, Zenon
        <4>3. oaTokens' \in 1 .. oaGranted
          BY <2>1, <4>2, Zenon
        <4>4. \A g \in 1 .. oaGranted : g \in 0 .. oaGranted
          BY <4>1
        <4> QED
          BY <4>3, <4>4, Zenon
      <3>2. oaForeign' \in BOOLEAN
        BY <2>1
      <3>3. oaFinish' \in [at : {"idle", "exchange", "save"}, of : 0 .. oaStarted, has : 0 .. oaGranted]
        BY <1>t, <2>1
      <3> QED
        BY <2>1, <3>1, <3>2, <3>3 DEF OaInv, OaTypeOK, OaServer, OaStores
    <2>4. OaSavesFresh' /\ OaSavesApart'
      BY <2>1, <2>2 DEF OaInv, OaGrantsOwned, OaSavesFresh, OaSavesApart, OaSaving, OaHolding, OaFresh, OaServer
    <2>5. OaFinishFresh' /\ OaGrantKept' /\ OaSentAway'
      BY <2>1, <2>2 DEF OaInv, OaGrantsOwned, OaSentAway, OaFinishFresh, OaGrantKept, OaServer
    <2> QED
      BY <2>3, <2>4, <2>5 DEF OaInv, OaGrantsOwned
  <1>12. CASE OaExpires
    <2>1. oaTokens # 0 /\ oaExpired' = oaExpired \cup {oaTokens}
          /\ UNCHANGED <<oaClient, oaTokens, oaForeign, oaLive, oaGranted, oaLost, OaStores, oaUser, oaFinish>>
      BY <1>12 DEF OaExpires
    <2>2. oaExpired' \subseteq 1 .. oaGranted
      BY <1>t, <2>1
    <2> QED
      BY <2>1, <2>2 DEF OaInv, OaTypeOK, OaStores, OaGrantsOwned, OaSavesFresh, OaSavesApart, OaFinishFresh,
         OaSentAway, OaSaving, OaHolding, OaFresh, OaGrantKept
  <1>13. CASE UNCHANGED oaVars
    BY <1>13 DEF oaVars, OaInv, OaTypeOK, OaGrantsOwned, OaSavesFresh, OaSavesApart, OaFinishFresh,
       OaSentAway, OaSaving, OaHolding, OaFresh, OaGrantKept
  <1> QED
    BY <1>1, <1>2, <1>3, <1>4, <1>5, <1>6, <1>7, <1>8, <1>9, <1>10, <1>11, <1>12, <1>13 DEF OaNext


(* Facts of arithmetic that the buckets need.                              *)
LEMMA ProductIsNat == ASSUME NEW a \in Nat, NEW b \in Nat PROVE a * b \in Nat
  OBVIOUS

LEMMA ProductGrows ==
  ASSUME NEW a \in Nat, NEW b \in Nat, NEW c \in Nat, a <= b PROVE a * c <= b * c
  OBVIOUS

LEMMA QuotientFits ==
  ASSUME NEW x \in Nat, NEW c \in Nat \ {0}
  PROVE  x \div c \in Nat /\ c * (x \div c) <= x /\ x < c * (x \div c) + c
  OBVIOUS

LEMMA QuotientRoundsUp ==
  ASSUME NEW x \in Nat \ {0}, NEW c \in Nat \ {0}
  PROVE  (x + c - 1) \div c \in Nat \ {0} /\ x <= c * ((x + c - 1) \div c)
  <1> DEFINE y == x + c - 1
  <1>1. y \in Nat
    OBVIOUS
  <1>2. y \div c \in Nat /\ c * (y \div c) <= y /\ y < c * (y \div c) + c
    BY <1>1, QuotientFits
  <1> QED
    BY <1>2

-----------------------------------------------------------------------------

(* A bucket holds no more than its capacity.                               *)
NeBucketRec == [tokens : Nat, last : 0 .. NeEnd + NePause, capacity : 1 .. NeCapacity]
NeBucketOK(k) == k \in NeBucketRec /\ k.tokens <= k.capacity * NeMinute
NeBucketsOK == /\ neBucket \in [NeBuckets -> NeBucketRec]
               /\ \A b \in NeBuckets : NeBucketOK(neBucket[b])

(* What the wait promised: a bucket nothing upset since will have its      *)
(* share at the latest when the sender wakes.                              *)
NeGain(k, t) == IF t > k.last THEN (t - k.last) * k.capacity ELSE 0
NeWillHave(k, until, n) == n <= k.capacity => n * NeMinute <= k.tokens + NeGain(k, until)
NeSleeperWaits(c) ==
  neSleep[c].at = "asleep" =>
    \A b \in NeAsked(neSleep[c].tokens) \ neUpset[c] :
      NeWillHave(neBucket[b], neSleep[c].until, NeShare(b, neSleep[c].tokens))
NeWaitsEnough == \A c \in NeSenders : NeSleeperWaits(c)

NeSleepRec == [at : {"idle", "asleep"}, until : 0 .. NeEnd, tokens : 0 .. NeCapacity]
NeClockTyped ==
  /\ neNow \in 0 .. NeEnd /\ neBare \in BOOLEAN
  /\ neSleep \in [NeSenders -> NeSleepRec] /\ neUpset \in [NeSenders -> SUBSET NeBuckets]
NeClockKept == NeClockTyped /\ NeBucketsOK /\ NeWaitsEnough /\ NeSendsAreCovered

NeMapTyped ==
  /\ neQueue \in 0 .. neLives /\ neLives \in 0 .. NeQueueLives
  /\ neSettings \in 0 .. 1 /\ neMade \in [1 .. NeQueueLives -> 0 .. 1]
  /\ neFlight \in [NeRequests -> 0 .. neLives]
NeMapKept == NeMapTyped /\ NeQueueObeysSettings
NeInv == NeClockKept /\ NeMapKept

LEMMA NePositive ==
  /\ NeCapacity \in Nat \ {0} /\ NeMinute \in Nat \ {0} /\ NeEnd \in Nat \ {0}
  /\ NePause \in Nat \ {0} /\ NeQueueLives \in Nat \ {0}
  BY NeAssumption

LEMMA NeInvInit == NeInit => NeInv
  <1> SUFFICES ASSUME NeInit PROVE NeInv
    OBVIOUS
  <1> USE NePositive DEF NeInit
  <1>1. NeCapacity * NeMinute \in Nat
    BY ProductIsNat
  <1>2. NeFull(NeCapacity) \in NeBucketRec /\ NeBucketOK(NeFull(NeCapacity))
    BY <1>1 DEF NeFull, NeBucketRec, NeBucketOK
  <1>3. NeBucketsOK
    BY <1>2 DEF NeBucketsOK
  <1>4. NeAwake \in NeSleepRec /\ NeAwake.at = "idle"
    BY DEF NeAwake, NeSleepRec
  <1>5. NeClockTyped
    <2>1. neNow \in 0 .. NeEnd
      BY SMT
    <2>3. neBare \in BOOLEAN
      BY Zenon
    <2>2. neSleep \in [NeSenders -> NeSleepRec] /\ neUpset \in [NeSenders -> SUBSET NeBuckets]
      BY <1>4
    <2> QED
      BY <2>1, <2>2, <2>3 DEF NeClockTyped
  <1>c. NeWaitsEnough /\ NeSendsAreCovered
    BY <1>4 DEF NeWaitsEnough, NeSleeperWaits, NeSendsAreCovered
  <1>7. NeClockKept
    BY <1>3, <1>5, <1>c DEF NeClockKept
  <1>6. NeMapKept
    BY DEF NeMapKept, NeMapTyped, NeQueueObeysSettings
  <1> QED
    BY <1>6, <1>7 DEF NeInv

(* Every operation of a TokenBucket leaves it a bucket.                    *)
LEMMA NeRefillOK ==
  ASSUME NEW k, NeBucketOK(k), neNow \in 0 .. NeEnd
  PROVE  /\ NeBucketOK(NeRefill(k)) /\ NeRefill(k).capacity = k.capacity
         /\ neNow > k.last => NeRefill(k).tokens =
              NeLeast(k.capacity * NeMinute, k.tokens + (neNow - k.last) * k.capacity)
         /\ neNow <= k.last => NeRefill(k).tokens = k.tokens
  <1> USE NePositive
  <1>1. k \in NeBucketRec /\ k.capacity * NeMinute \in Nat /\ k.tokens <= k.capacity * NeMinute
    BY ProductIsNat DEF NeBucketOK, NeBucketRec
  <1>2. CASE neNow <= k.last
    BY <1>1, <1>2 DEF NeRefill, NeBucketRec
  <1>3. CASE neNow > k.last
    <2>1. neNow - k.last \in Nat /\ k.capacity \in Nat /\ k.tokens \in Nat
      BY <1>1, <1>3 DEF NeBucketRec
    <2>2. (neNow - k.last) * k.capacity \in Nat
      BY <2>1, ProductIsNat
    <2> DEFINE t == NeLeast(k.capacity * NeMinute, k.tokens + (neNow - k.last) * k.capacity)
    <2>3. t \in Nat /\ t <= k.capacity * NeMinute
      BY <1>1, <2>1, <2>2 DEF NeLeast
    <2>4. neNow \in 0 .. NeEnd + NePause
      OBVIOUS
    <2>5. NeRefill(k) = [k EXCEPT !.tokens = t, !.last = neNow]
      BY <1>1, <1>3 DEF NeRefill, NeBucketRec
    <2> HIDE DEF t
    <2>6. NeRefill(k) \in NeBucketRec /\ NeRefill(k).capacity = k.capacity /\ NeRefill(k).tokens = t
      BY <1>1, <2>3, <2>4, <2>5 DEF NeBucketRec
    <2>7. NeBucketOK(NeRefill(k))
      BY <2>3, <2>6 DEF NeBucketOK
    <2>8. NeRefill(k).tokens = NeLeast(k.capacity * NeMinute, k.tokens + (neNow - k.last) * k.capacity)
      BY <2>6 DEF t
    <2> QED
      BY <1>1, <1>3, <2>6, <2>7, <2>8 DEF NeBucketRec
  <1> QED
    BY <1>1, <1>2, <1>3 DEF NeBucketRec

LEMMA NeConsumeOK ==
  ASSUME NEW k, NeBucketOK(k), neNow \in 0 .. NeEnd, NEW n \in Nat
  PROVE  NeBucketOK(NeConsume(k, n))
  <1> DEFINE r == NeRefill(k)
  <1>1. NeBucketOK(r)
    BY NeRefillOK
  <1>2. n * NeMinute \in Nat /\ r \in NeBucketRec /\ r.capacity * NeMinute \in Nat
        /\ r.tokens <= r.capacity * NeMinute
    BY <1>1, NePositive, ProductIsNat DEF NeBucketOK, NeBucketRec
  <1> HIDE DEF r
  <1>3. CASE r.tokens >= n * NeMinute
    <2>1. r.tokens - n * NeMinute \in Nat /\ r.tokens - n * NeMinute <= r.capacity * NeMinute
      BY <1>2, <1>3 DEF NeBucketRec
    <2>2. NeConsume(k, n) = [r EXCEPT !.tokens = r.tokens - n * NeMinute]
      BY <1>2, <1>3 DEF NeConsume, NeHas, r, NeBucketRec
    <2> QED
      BY <1>2, <2>1, <2>2 DEF NeBucketOK, NeBucketRec
  <1>4. CASE ~(r.tokens >= n * NeMinute)
    BY <1>1, <1>4 DEF NeConsume, NeHas, r
  <1> QED
    BY <1>3, <1>4

LEMMA NeUpdateOK ==
  ASSUME NeClockTyped, NEW b \in NeBuckets, NeBucketOK(neBucket[b]),
         NEW limit \in {-1} \cup 1 .. NeCapacity, NEW remaining \in {-1} \cup 0 .. NeCapacity
  PROVE  NeBucketOK(NeUpdate(b, limit, remaining))
  <1> USE NePositive
  <1> DEFINE k == neBucket[b]
             h == IF limit = -1 THEN k ELSE NeSetCapacity(k, limit)
  <1>1. neNow \in 0 .. NeEnd + NePause
    BY DEF NeClockTyped
  <1>2. NeBucketOK(h)
    <2>1. CASE limit # -1
      <3>1. limit \in 1 .. NeCapacity /\ limit * NeMinute \in Nat
        BY <2>1, ProductIsNat
      <3>2. k \in NeBucketRec
        BY DEF NeBucketOK
      <3>3. NeLeast(k.tokens, limit * NeMinute) \in Nat
            /\ NeLeast(k.tokens, limit * NeMinute) <= limit * NeMinute
        BY <3>1, <3>2 DEF NeLeast, NeBucketRec
      <3>4. h = [k EXCEPT !.capacity = limit, !.tokens = NeLeast(k.tokens, limit * NeMinute)]
        BY <2>1, <3>2 DEF NeSetCapacity, NeBucketRec
      <3> HIDE DEF h, k
      <3> QED
        BY <3>1, <3>2, <3>3, <3>4 DEF NeBucketOK, NeBucketRec
    <2> QED
      BY <2>1
  <1>3. CASE remaining = -1
    BY <1>2, <1>3 DEF NeUpdate
  <1>4. CASE remaining # -1
    <2>1. NeUpdate(b, limit, remaining) = NeSetRemaining(h, remaining) /\ remaining \in Nat
      BY <1>4 DEF NeUpdate
    <2> HIDE DEF h
    <2>2. h \in NeBucketRec /\ h.capacity \in Nat
      BY <1>2 DEF NeBucketOK, NeBucketRec
    <2> DEFINE n == NeLeast(remaining, h.capacity)
    <2>3. n \in Nat /\ n <= h.capacity
      BY <2>1, <2>2 DEF NeLeast
    <2>4. n * NeMinute \in Nat /\ n * NeMinute <= h.capacity * NeMinute
      BY <2>2, <2>3, ProductIsNat, ProductGrows
    <2>5. NeSetRemaining(h, remaining) = [h EXCEPT !.tokens = n * NeMinute, !.last = neNow]
      BY DEF NeSetRemaining
    <2> HIDE DEF n
    <2> QED
      BY <1>1, <2>1, <2>2, <2>4, <2>5 DEF NeBucketOK, NeBucketRec
  <1> QED
    BY <1>3, <1>4

LEMMA NeDrainOK ==
  ASSUME NeClockTyped, NEW k, NeBucketOK(k), NEW d \in 0 .. NePause
  PROVE  NeBucketOK(NeDrainUntil(k, neNow + d))
  <1>1. neNow + d \in 0 .. NeEnd + NePause
    BY NePositive DEF NeClockTyped
  <1>2. k \in NeBucketRec /\ 0 <= k.capacity * NeMinute
    BY NePositive, ProductIsNat DEF NeBucketOK, NeBucketRec
  <1> QED
    BY <1>1, <1>2 DEF NeDrainUntil, NeBucketOK, NeBucketRec

-----------------------------------------------------------------------------

LEMMA ProductSplits ==
  ASSUME NEW a \in Nat, NEW b \in Nat, NEW c \in Nat PROVE (a + b) * c = a * c + b * c
  OBVIOUS

(* What a bucket gains until a time is a number, and grows with it.        *)
LEMMA NeGainGrows ==
  ASSUME NEW k, NeBucketOK(k), NEW t \in Nat, NEW u \in Nat, t <= u
  PROVE  NeGain(k, t) \in Nat /\ NeGain(k, u) \in Nat /\ NeGain(k, t) <= NeGain(k, u)
  <1>1. k.last \in Nat /\ k.capacity \in Nat
    BY NePositive DEF NeBucketOK, NeBucketRec
  <1>2. ASSUME NEW v \in Nat PROVE NeGain(k, v) \in Nat
    <2>1. CASE v > k.last
      <3>1. v - k.last \in Nat
        BY <1>1, <2>1
      <3> QED
        BY <1>1, <2>1, <3>1, ProductIsNat DEF NeGain
    <2> QED
      BY <2>1 DEF NeGain
  <1>3. CASE t > k.last
    <2>1. t - k.last \in Nat /\ u - k.last \in Nat /\ t - k.last <= u - k.last /\ u > k.last
      BY <1>1, <1>3
    <2>2. (t - k.last) * k.capacity <= (u - k.last) * k.capacity
      BY <1>1, <2>1, ProductGrows
    <2> QED
      BY <1>2, <1>3, <2>1, <2>2 DEF NeGain
  <1>4. CASE ~(t > k.last)
    <2>1. NeGain(k, t) = 0
      BY <1>4 DEF NeGain
    <2>2. NeGain(k, t) \in Nat /\ NeGain(k, u) \in Nat
      BY <1>2
    <2> QED
      BY <2>1, <2>2
  <1> QED
    BY <1>3, <1>4

(* A bucket has refilled what it gained by now, up to its capacity.        *)
LEMMA NeRefilled ==
  ASSUME NEW k, NeBucketOK(k), neNow \in 0 .. NeEnd
  PROVE  NeRefill(k).tokens = NeLeast(k.capacity * NeMinute, k.tokens + NeGain(k, neNow))
  <1>1. k \in NeBucketRec /\ k.capacity * NeMinute \in Nat /\ k.tokens <= k.capacity * NeMinute
    BY NePositive, ProductIsNat DEF NeBucketOK, NeBucketRec
  <1>2. k.tokens \in Nat /\ k.last \in Nat /\ neNow \in Nat
    BY <1>1, NePositive DEF NeBucketRec
  <1>3. CASE neNow > k.last
    BY <1>3, NeRefillOK DEF NeGain
  <1>4. CASE ~(neNow > k.last)
    <2>1. NeRefill(k).tokens = k.tokens /\ NeGain(k, neNow) = 0
      BY <1>2, <1>4, NeRefillOK DEF NeGain
    <2> QED
      BY <1>1, <1>2, <2>1 DEF NeLeast
  <1> QED
    BY <1>3, <1>4

(* waitTimeMs: a bucket that has not enough makes a sender wait, and long  *)
(* enough, but for a pause in force that outlasts the wait.                *)
LEMMA NeWaitIsRound ==
  ASSUME NEW k, NeBucketOK(k), neNow \in 0 .. NeEnd, NEW n \in Nat
  PROVE  /\ NeWait(k, n) \in Nat /\ (NeHas(k, n) => NeWait(k, n) = 0)
         /\ ~NeHas(k, n) => NeWait(k, n) # 0 /\ n * NeMinute - NeRefill(k).tokens <= NeWait(k, n) * k.capacity
  <1> DEFINE r == NeRefill(k).tokens
             need == n * NeMinute
             cap == k.capacity
  <1>1. cap \in Nat \ {0} /\ need \in Nat /\ r \in Nat
    BY NePositive, NeRefillOK, ProductIsNat DEF NeBucketOK, NeBucketRec
  <1>2. NeHas(k, n) => NeWait(k, n) = 0
    BY DEF NeWait
  <1>3. ASSUME ~NeHas(k, n) PROVE NeWait(k, n) \in Nat \ {0} /\ need - r <= NeWait(k, n) * cap
    <2>1. r < need
      BY <1>1, <1>3 DEF NeHas
    <2>2. need - r \in Nat \ {0}
      BY <1>1, <2>1
    <2>3. NeWait(k, n) = (need - r + cap - 1) \div cap
      BY <1>3 DEF NeWait
    <2> HIDE DEF need, r, cap
    <2>4. NeWait(k, n) \in Nat \ {0} /\ need - r <= cap * NeWait(k, n)
      BY <1>1, <2>2, <2>3, QuotientRoundsUp
    <2>5. cap * NeWait(k, n) = NeWait(k, n) * cap
      BY <1>1, <2>4
    <2> QED
      BY <2>4, <2>5
  <1> QED
    BY <1>2, <1>3

LEMMA NeGainIs ==
  ASSUME NEW k, NeBucketOK(k), NEW t \in Nat, k.last <= t
  PROVE  NeGain(k, t) = (t - k.last) * k.capacity
  <1>1. k.last \in Nat /\ k.capacity \in Nat
    BY NePositive DEF NeBucketOK, NeBucketRec
  <1>2. CASE t > k.last
    BY <1>2 DEF NeGain
  <1>3. CASE t = k.last
    <2>1. t - k.last = 0 /\ NeGain(k, t) = 0
      BY <1>1, <1>3 DEF NeGain
    <2>2. 0 * k.capacity = 0
      BY <1>1
    <2> QED
      BY <2>1, <2>2
  <1> QED
    BY <1>1, <1>2, <1>3

LEMMA NeFullCovers ==
  ASSUME NEW k, NeBucketOK(k), NEW n \in Nat, n <= k.capacity
  PROVE  n * NeMinute <= k.capacity * NeMinute
  <1>1. k.capacity \in Nat /\ NeMinute \in Nat
    BY NePositive DEF NeBucketOK, NeBucketRec
  <1> QED
    BY <1>1, ProductGrows

LEMMA NeWaitIsEnough ==
  ASSUME NEW k, NeBucketOK(k), neNow \in 0 .. NeEnd, NEW n \in Nat, NEW w \in Nat, NeWait(k, n) <= w,
         k.last > neNow => k.last + NeWait(k, n) <= neNow + w
  PROVE  NeWillHave(k, neNow + w, n)
  <1> DEFINE r == NeRefill(k).tokens
             need == n * NeMinute
             cap == k.capacity
             full == cap * NeMinute
             wait == NeWait(k, n)
             now == NeGain(k, neNow)
             then == NeGain(k, neNow + w)
  <1> SUFFICES ASSUME n <= cap PROVE need <= k.tokens + then
    BY DEF NeWillHave
  <1>1. cap \in Nat \ {0} /\ need \in Nat /\ k.tokens \in Nat /\ k.last \in Nat /\ full \in Nat
    BY NePositive, ProductIsNat DEF NeBucketOK, NeBucketRec
  <1>2. neNow \in Nat /\ neNow + w \in Nat /\ neNow <= neNow + w
    BY NePositive
  <1>3. now \in Nat /\ then \in Nat /\ now <= then
    BY <1>2, NeGainGrows
  <1>4. r = NeLeast(full, k.tokens + now) /\ need <= full
    BY <1>1, NePositive, NeRefilled, ProductGrows
  <1>5. wait \in Nat /\ (~NeHas(k, n) => need - r <= wait * cap)
    BY NeWaitIsRound
  <1>6. CASE NeHas(k, n)
    <2>1. need <= r
      BY <1>1, <1>4, <1>6, NeRefillOK DEF NeHas, NeBucketOK, NeBucketRec
    <2> HIDE DEF need, r, full, now, then
    <2> QED
      BY <1>1, <1>3, <1>4, <2>1 DEF NeLeast
  <1>7. CASE ~NeHas(k, n)
    <2>1. r \in Nat /\ r < need
      BY <1>1, <1>7, NeRefillOK DEF NeHas, NeBucketOK, NeBucketRec
    <2>2. r = k.tokens + now
      <3> HIDE DEF need, r, full, now
      <3> QED
        BY <1>1, <1>3, <1>4, <2>1 DEF NeLeast
    <2>3. now + wait * cap <= then /\ wait * cap \in Nat
      <3>1. wait * cap \in Nat
        BY <1>1, <1>5, ProductIsNat
      <3>2. CASE k.last > neNow
        <4>1. now = 0
          BY <1>1, <1>2, <3>2 DEF NeGain
        <4>2. (neNow + w) - k.last \in Nat /\ wait <= (neNow + w) - k.last
          BY <1>1, <1>2, <1>5, <3>2
        <4>3. wait * cap <= ((neNow + w) - k.last) * cap
          BY <1>1, <1>5, <4>2, ProductGrows
        <4>4. then = ((neNow + w) - k.last) * cap \/ (neNow + w) - k.last = 0
          BY <1>1, <1>2, <4>2 DEF NeGain
        <4>5. (neNow + w) - k.last = 0 => wait = 0 /\ 0 * cap = 0
          BY <1>1, <1>5, <4>2
        <4> HIDE DEF now, then, wait, cap
        <4> QED
          BY <1>3, <3>1, <4>1, <4>3, <4>4, <4>5
      <3>3. CASE k.last <= neNow
        <4> DEFINE gone == neNow - k.last
        <4>1. gone \in Nat /\ (neNow + w) - k.last = gone + w
          BY <1>1, <1>2, <3>3
        <4>2. (gone + w) * cap = gone * cap + w * cap /\ gone * cap \in Nat /\ w * cap \in Nat
          <5> HIDE DEF gone, cap
          <5> QED
            BY <1>1, <4>1, ProductSplits, ProductIsNat
        <4>3. wait * cap <= w * cap
          BY <1>1, <1>5, ProductGrows
        <4>4. now = gone * cap
          BY <1>2, <3>3, NeGainIs
        <4>5. then = (gone + w) * cap
          <5>1. k.last <= neNow + w
            BY <1>1, <1>2, <3>3
          <5>2. then = ((neNow + w) - k.last) * cap
            BY <1>2, <5>1, NeGainIs
          <5> HIDE DEF gone, then, cap
          <5> QED
            BY <4>1, <5>2
        <4> HIDE DEF gone, now, then, wait, cap
        <4> QED
          BY <3>1, <4>2, <4>3, <4>4, <4>5
      <3> QED
        BY <1>1, <1>2, <3>1, <3>2, <3>3
    <2> HIDE DEF need, r, now, then, wait, cap
    <2> QED
      BY <1>1, <1>3, <1>5, <1>7, <2>1, <2>2, <2>3
  <1> QED
    BY <1>6, <1>7

LEMMA NeHasByThen ==
  ASSUME NEW k, NeBucketOK(k), neNow \in 0 .. NeEnd, NEW n \in Nat, NEW until \in Nat,
         until <= neNow, n <= k.capacity, NeWillHave(k, until, n)
  PROVE  NeHas(k, n)
  <1> DEFINE need == n * NeMinute
             full == k.capacity * NeMinute
             by == NeGain(k, until)
             now == NeGain(k, neNow)
             r == NeRefill(k).tokens
  <1>1. need \in Nat /\ k.tokens \in Nat /\ full \in Nat /\ neNow \in Nat /\ k.capacity \in Nat
    BY NePositive, ProductIsNat DEF NeBucketOK, NeBucketRec
  <1>2. need <= full
    BY NeFullCovers
  <1>3. by \in Nat /\ now \in Nat /\ by <= now
    BY <1>1, NeGainGrows
  <1>4. need <= k.tokens + by
    BY DEF NeWillHave
  <1>5. r = NeLeast(full, k.tokens + now)
    BY NeRefilled
  <1>6. r \in Nat /\ need <= r
    <2> HIDE DEF need, full, by, now, r
    <2> QED
      BY <1>1, <1>2, <1>3, <1>4, <1>5 DEF NeLeast
  <1> QED
    BY <1>1, <1>6 DEF NeHas

(* To be asked in between, and refilled for it, costs nobody tokens.       *)
LEMMA NeRefillKeeps ==
  ASSUME NEW k, NeBucketOK(k), neNow \in 0 .. NeEnd, NEW n \in Nat, NEW until \in Nat, NeWillHave(k, until, n)
  PROVE  NeWillHave(NeRefill(k), until, n)
  <1> DEFINE need == n * NeMinute
             cap == k.capacity
             full == cap * NeMinute
             by == NeGain(k, until)
             now == NeGain(k, neNow)
             after == NeGain(NeRefill(k), until)
             r == NeRefill(k).tokens
  <1>1. need \in Nat /\ k.tokens \in Nat /\ full \in Nat /\ neNow \in Nat /\ cap \in Nat /\ k.last \in Nat
    BY NePositive, ProductIsNat DEF NeBucketOK, NeBucketRec
  <1>2. CASE ~(neNow > k.last)
    <2>1. NeRefill(k) = k
      BY <1>1, <1>2 DEF NeRefill
    <2> QED
      BY <2>1
  <1>3. CASE neNow > k.last
    <2> SUFFICES ASSUME n <= cap PROVE need <= r + after
      BY NeRefillOK DEF NeWillHave
    <2>1. need <= full
      BY NeFullCovers
    <2>2. need <= k.tokens + by
      BY DEF NeWillHave
    <2>3. r = NeLeast(full, k.tokens + now)
      BY NeRefilled
    <2>4. NeRefill(k).last = neNow /\ NeRefill(k).capacity = cap
      <3> DEFINE filled == NeLeast(full, k.tokens + (neNow - k.last) * cap)
      <3>1. NeRefill(k) = [k EXCEPT !.tokens = filled, !.last = neNow]
        BY <1>1, <1>3 DEF NeRefill
      <3> HIDE DEF filled
      <3> QED
        BY <3>1 DEF NeBucketOK, NeBucketRec
    <2>5. after \in Nat /\ by \in Nat /\ now \in Nat
      BY <1>1, NeGainGrows, NeRefillOK
    <2>6. by <= now + after
      <3>1. CASE until <= neNow
        <4>1. by <= now
          BY <1>1, <3>1, NeGainGrows
        <4> HIDE DEF by, now, after
        <4> QED
          BY <2>5, <4>1
      <3>2. CASE until > neNow
        <4> DEFINE a == until - neNow
                   b == neNow - k.last
        <4>1. a \in Nat /\ b \in Nat /\ until - k.last = b + a /\ until > k.last
          BY <1>1, <1>3, <3>2
        <4>2. by = (b + a) * cap
          BY <4>1 DEF NeGain
        <4>3. now = b * cap
          BY <1>3 DEF NeGain
        <4>4. after = a * cap
          BY <2>4, <3>2 DEF NeGain
        <4> HIDE DEF a, b, by, now, after, cap
        <4>5. (b + a) * cap = b * cap + a * cap
          BY <1>1, <4>1, ProductSplits
        <4> QED
          BY <2>5, <4>2, <4>3, <4>4, <4>5
      <3> QED
        BY <1>1, <3>1, <3>2
    <2> HIDE DEF need, full, by, now, after, r
    <2> QED
      BY <1>1, <2>1, <2>2, <2>3, <2>5, <2>6 DEF NeLeast
  <1> QED
    BY <1>2, <1>3

LEMMA NeShareTyped == \A tokens \in Nat : \A b \in NeBuckets : NeShare(b, tokens) \in Nat
  BY DEF NeShare

(* The longest wait there is: of three buckets at most, one has it.        *)
LEMMA NeWaitTimeIsLongest ==
  ASSUME NeClockTyped, NeBucketsOK, NEW tokens \in Nat
  PROVE  /\ NeWaitTime(tokens) \in Nat
         /\ \A b \in NeAsked(tokens) : NeWait(neBucket[b], NeShare(b, tokens)) <= NeWaitTime(tokens)
  <1> DEFINE A == NeAsked(tokens)
             S == {0} \cup {NeWait(neBucket[b], NeShare(b, tokens)) : b \in A}
             w(b) == IF b \in A THEN NeWait(neBucket[b], NeShare(b, tokens)) ELSE 0
  <1>1. A \subseteq NeBuckets /\ A \subseteq {"rpm", "tpm", "rpd"}
    BY NeAssumption DEF NeAsked
  <1>2. \A b \in A : NeWait(neBucket[b], NeShare(b, tokens)) \in Nat
    BY <1>1, NeShareTyped, NeWaitIsRound DEF NeClockTyped, NeBucketsOK
  <1>3. S = {0, w("rpm"), w("tpm"), w("rpd")}
    BY <1>1
  <1>4. w("rpm") \in Nat /\ w("tpm") \in Nat /\ w("rpd") \in Nat
    BY <1>2
  <1>5. \E m \in S : \A n \in S : n <= m
    <2> HIDE DEF w, S
    <2>1. \A x, y, z \in Nat : \E m \in {0, x, y, z} : \A n \in {0, x, y, z} : n <= m
      OBVIOUS
    <2> QED
      BY <1>3, <1>4, <2>1
  <1>6. NeMost(S) \in S /\ \A n \in S : n <= NeMost(S)
    <2> HIDE DEF S
    <2> QED
      BY <1>5 DEF NeMost
  <1>7. NeWaitTime(tokens) = NeMost(S)
    BY DEF NeWaitTime
  <1> QED
    BY <1>2, <1>6, <1>7

(* One who sleeps on, whatever others do: what is not upset was refilled   *)
(* at most.                                                                *)
LEMMA NeSleepsOn ==
  ASSUME NeClockTyped, NeBucketsOK, NeWaitsEnough, NEW d \in NeSenders, neSleep'[d] = neSleep[d],
         neSleep[d].at = "asleep" => \A b \in NeBuckets \ neUpset'[d] :
           b \notin neUpset[d] /\ neBucket'[b] \in {neBucket[b], NeRefill(neBucket[b])}
  PROVE  NeSleeperWaits(d)'
  <1> DEFINE until == neSleep[d].until
             tokens == neSleep[d].tokens
  <1>1. neNow \in 0 .. NeEnd /\ until \in Nat /\ tokens \in Nat
    BY NePositive DEF NeClockTyped, NeSleepRec
  <1>2. ASSUME neSleep[d].at = "asleep", NEW b \in NeAsked(tokens), b \notin neUpset'[d]
        PROVE  NeWillHave(neBucket'[b], until, NeShare(b, tokens))
    <2>1. b \in NeBuckets /\ b \notin neUpset[d] /\ neBucket'[b] \in {neBucket[b], NeRefill(neBucket[b])}
      BY <1>2 DEF NeAsked
    <2>2. NeWillHave(neBucket[b], until, NeShare(b, tokens))
      BY <1>2, <2>1 DEF NeWaitsEnough, NeSleeperWaits
    <2>3. NeBucketOK(neBucket[b]) /\ NeShare(b, tokens) \in Nat
      BY <1>1, <2>1, NeShareTyped DEF NeBucketsOK
    <2>4. NeWillHave(NeRefill(neBucket[b]), until, NeShare(b, tokens))
      BY <1>1, <2>2, <2>3, NeRefillKeeps
    <2> QED
      BY <2>1, <2>2, <2>4
  <1> QED
    BY <1>2 DEF NeSleeperWaits, NeWillHave, NeGain, NeAsked, NeShare

(* A bucket is kept by being asked, and by being charged.                  *)
LEMMA NeAskedOK ==
  ASSUME NeClockTyped, NeBucketsOK, NEW tokens, neBucket' = NeAskedAt(tokens)
  PROVE  NeBucketsOK'
  <1>1. \A b \in NeBuckets : NeBucketOK(neBucket[b]) /\ NeBucketOK(NeRefill(neBucket[b]))
    BY NeRefillOK DEF NeClockTyped, NeBucketsOK
  <1>2. \A b \in NeBuckets : neBucket'[b] \in {neBucket[b], NeRefill(neBucket[b])}
    BY DEF NeAskedAt
  <1>3. \A b \in NeBuckets : NeBucketOK(neBucket'[b])
    BY <1>1, <1>2
  <1>4. neBucket' = [b \in NeBuckets |-> neBucket'[b]]
    BY DEF NeAskedAt
  <1> QED
    BY <1>3, <1>4 DEF NeBucketsOK, NeBucketOK, NeBucketRec

LEMMA NeSendOK ==
  ASSUME NeClockKept, NEW c \in NeSenders, NEW tokens \in Nat, NeSend(c, tokens), UNCHANGED neNow,
         \A b \in NeBuckets \ neUpset[c] :
           NeRefuses(b, tokens) => ~(NeShare(b, tokens) <= neBucket[b].capacity)
  PROVE  NeClockKept'
  <1> DEFINE charged == {b \in NeReached(tokens) : ~NeRefuses(b, tokens)}
  <1>k. NeClockTyped /\ NeBucketsOK /\ NeWaitsEnough /\ NeSendsAreCovered
    BY DEF NeClockKept
  <1>s. /\ neBucket' = [b \in NeBuckets |-> IF b \in NeReached(tokens)
                                            THEN NeConsume(neBucket[b], NeShare(b, tokens)) ELSE neBucket[b]]
        /\ neSleep' = [neSleep EXCEPT ![c] = NeAwake]
        /\ neUpset' = [d \in NeSenders |-> IF d \in {c} \/ neSleep[d].at = "idle" THEN {}
                                            ELSE neUpset[d] \cup (charged \cap NeBuckets)]
    BY DEF NeSend, NeCanProceed, NeUpsets
  <1>1. \A b \in NeBuckets : NeBucketOK(neBucket[b]) /\ NeBucketOK(NeConsume(neBucket[b], NeShare(b, tokens)))
    BY <1>k, NeConsumeOK, NeShareTyped DEF NeClockTyped, NeBucketsOK
  <1>2. NeBucketsOK'
    <2>1. \A b \in NeBuckets : NeBucketOK(neBucket'[b])
      BY <1>s, <1>1
    <2>2. neBucket' = [b \in NeBuckets |-> neBucket'[b]]
      BY <1>s
    <2> QED
      BY <2>1, <2>2 DEF NeBucketsOK, NeBucketOK, NeBucketRec
  <1>3. ~neBare' /\ neBare' \in BOOLEAN
    BY <1>k DEF NeSend, NeSendsAreCovered
  <1>4. NeAwake \in NeSleepRec /\ NeAwake.at = "idle"
    BY NePositive DEF NeAwake, NeSleepRec
  <1>5. NeClockTyped'
    <2>1. neSleep' \in [NeSenders -> NeSleepRec]
      BY <1>k, <1>s, <1>4 DEF NeClockTyped
    <2>2. neUpset' \in [NeSenders -> SUBSET NeBuckets]
      BY <1>k, <1>s DEF NeClockTyped
    <2> QED
      BY <1>k, <1>3, <2>1, <2>2 DEF NeClockTyped, NeSleepRec
  <1>6. ASSUME NEW d \in NeSenders PROVE NeSleeperWaits(d)'
    <2>1. CASE d = c
      <3>1. neSleep'[d].at = "idle"
        BY <1>k, <1>s, <1>4, <2>1 DEF NeClockTyped
      <3> QED
        BY <3>1 DEF NeSleeperWaits
    <2>2. CASE d # c
      <3>1. neSleep'[d] = neSleep[d]
        BY <1>k, <1>s, <2>2 DEF NeClockTyped
      <3>2. ASSUME neSleep[d].at = "asleep", NEW b \in NeBuckets, b \notin neUpset'[d]
            PROVE  b \notin neUpset[d] /\ neBucket'[b] \in {neBucket[b], NeRefill(neBucket[b])}
        <4>1. b \notin neUpset[d] /\ b \notin charged
          BY <1>s, <2>2, <3>2
        <4>2. CASE b \notin NeReached(tokens)
          BY <1>s, <4>1, <4>2
        <4>3. CASE b \in NeReached(tokens)
          <5>1. ~NeHas(neBucket[b], NeShare(b, tokens))
            BY <4>1, <4>3 DEF NeRefuses
          <5>2. NeConsume(neBucket[b], NeShare(b, tokens)) = NeRefill(neBucket[b])
            BY <5>1 DEF NeConsume
          <5> QED
            BY <1>s, <4>1, <4>3, <5>2
        <4> QED
          BY <4>2, <4>3
      <3> QED
        BY <1>k, <3>1, <3>2, NeSleepsOn
    <2> QED
      BY <2>1, <2>2
  <1>7. NeWaitsEnough'
    BY <1>6 DEF NeWaitsEnough
  <1> QED
    BY <1>2, <1>3, <1>5, <1>7 DEF NeClockKept, NeSendsAreCovered

(* A header or a pause: everyone asleep is told of the buckets it changes. *)
LEMMA NeChangeOK ==
  ASSUME NeClockKept, NEW B, NeUpsets(B, {}), UNCHANGED <<neNow, neSleep, neBare>>,
         neBucket' = [b \in NeBuckets |-> neBucket'[b]], \A b \in NeBuckets : NeBucketOK(neBucket'[b]),
         \A b \in NeBuckets : b \notin B => neBucket'[b] = neBucket[b]
  PROVE  NeClockKept'
  <1>k. NeClockTyped /\ NeBucketsOK /\ NeWaitsEnough /\ NeSendsAreCovered
    BY DEF NeClockKept
  <1>1. NeBucketsOK'
    BY DEF NeBucketsOK, NeBucketOK, NeBucketRec
  <1>2. neUpset' = [d \in NeSenders |-> IF neSleep[d].at = "idle" THEN {} ELSE neUpset[d] \cup (B \cap NeBuckets)]
    BY DEF NeUpsets
  <1>3. NeClockTyped'
    <2>1. neUpset' \in [NeSenders -> SUBSET NeBuckets]
      BY <1>k, <1>2 DEF NeClockTyped
    <2> QED
      BY <1>k, <2>1 DEF NeClockTyped, NeSleepRec
  <1>4. ASSUME NEW d \in NeSenders PROVE NeSleeperWaits(d)'
    <2>1. ASSUME neSleep[d].at = "asleep", NEW b \in NeBuckets, b \notin neUpset'[d]
          PROVE  b \notin neUpset[d] /\ neBucket'[b] \in {neBucket[b], NeRefill(neBucket[b])}
      BY <1>2, <2>1
    <2> QED
      BY <1>k, <2>1, NeSleepsOn
  <1>5. NeWaitsEnough' /\ NeSendsAreCovered'
    BY <1>k, <1>4 DEF NeWaitsEnough, NeSendsAreCovered
  <1> QED
    BY <1>1, <1>3, <1>5 DEF NeClockKept

LEMMA NeTakeOK ==
  ASSUME NeClockKept, NEW c \in NeSenders, NEW tokens \in 0 .. NeCapacity, NeTake(c, tokens)
  PROVE  NeClockKept'
  <1> DEFINE W == NeWaitTime(tokens)
  <1>k. NeClockTyped /\ NeBucketsOK /\ NeWaitsEnough /\ NeSendsAreCovered
    BY DEF NeClockKept
  <1>n. neNow \in 0 .. NeEnd /\ UNCHANGED neNow /\ neNow + W <= NeEnd
    BY <1>k DEF NeClockTyped, NeTake
  <1>1. tokens \in Nat /\ W \in Nat
        /\ \A b \in NeAsked(tokens) : NeWait(neBucket[b], NeShare(b, tokens)) <= W
    BY <1>k, NePositive, NeWaitTimeIsLongest
  <1>2. \A b \in NeAsked(tokens) : b \in NeBuckets /\ NeBucketOK(neBucket[b]) /\ NeShare(b, tokens) \in Nat
    BY <1>k, <1>1, NeShareTyped DEF NeAsked, NeBucketsOK
  <1>3. CASE W = 0
    <2>1. NeSend(c, tokens)
      BY <1>3 DEF NeTake
    <2>2. ASSUME NEW b \in NeBuckets, NeRefuses(b, tokens) PROVE FALSE
      <3>1. b \in NeAsked(tokens) /\ ~NeHas(neBucket[b], NeShare(b, tokens))
        BY <2>2 DEF NeRefuses
      <3>2. NeWait(neBucket[b], NeShare(b, tokens)) \in Nat \ {0}
        BY <1>n, <1>2, <3>1, NeWaitIsRound
      <3> QED
        BY <1>1, <1>3, <3>1, <3>2
    <2> QED
      BY <1>1, <1>n, <2>1, <2>2, NeSendOK
  <1>4. CASE W # 0
    <2> DEFINE late == {b \in NeAsked(tokens) : NePausedBeyond(b, tokens)}
    <2>1. /\ neSleep' = [neSleep EXCEPT ![c] = [at |-> "asleep", until |-> neNow + W, tokens |-> tokens]]
          /\ neUpset' = [neUpset EXCEPT ![c] = late]
          /\ neBucket' = NeAskedAt(tokens) /\ UNCHANGED neBare
      BY <1>4 DEF NeTake
    <2>2. neNow + W \in 0 .. NeEnd /\ W \in Nat
      BY <1>n, <1>1, NePositive
    <2>3. late \subseteq NeBuckets
      BY <1>2
    <2>4. NeBucketsOK'
      BY <1>k, <2>1, NeAskedOK
    <2>5. NeClockTyped'
      <3>1. [at |-> "asleep", until |-> neNow + W, tokens |-> tokens] \in NeSleepRec
        BY <2>2 DEF NeSleepRec
      <3> HIDE DEF W, late
      <3>2. neSleep' \in [NeSenders -> NeSleepRec] /\ neUpset' \in [NeSenders -> SUBSET NeBuckets]
        BY <1>k, <2>1, <2>3, <3>1 DEF NeClockTyped
      <3> QED
        BY <1>k, <1>n, <2>1, <3>2 DEF NeClockTyped, NeSleepRec
    <2>6. \A b \in NeBuckets : neBucket'[b] \in {neBucket[b], NeRefill(neBucket[b])}
      BY <2>1 DEF NeAskedAt
    <2>7. ASSUME NEW d \in NeSenders, d # c PROVE NeSleeperWaits(d)'
      <3>1. neSleep'[d] = neSleep[d] /\ neUpset'[d] = neUpset[d]
        BY <1>k, <2>1, <2>7 DEF NeClockTyped
      <3> QED
        BY <1>k, <2>6, <3>1, NeSleepsOn
    <2>8. NeSleeperWaits(c)'
      <3>1. neSleep'[c].tokens = tokens /\ neSleep'[c].until = neNow + W /\ neUpset'[c] = late
        BY <1>k, <2>1 DEF NeClockTyped
      <3>2. ASSUME NEW b \in NeAsked(tokens), b \notin late
            PROVE  NeWillHave(neBucket'[b], neNow + W, NeShare(b, tokens))
        <4> DEFINE k == neBucket[b]
                   n == NeShare(b, tokens)
        <4>1. NeBucketOK(k) /\ n \in Nat /\ NeWait(k, n) <= W /\ NeWait(k, n) \in Nat
          BY <1>1, <1>2, <1>n, NeWaitIsRound
        <4>2. k.last > neNow => ~(neNow + W < k.last + NeWait(k, n))
          BY <3>2 DEF NePausedBeyond
        <4>3. k.last \in Nat
          BY <4>1, NePositive DEF NeBucketOK, NeBucketRec
        <4>4. k.last > neNow => k.last + NeWait(k, n) <= neNow + W
          BY <1>n, <2>2, <4>1, <4>2, <4>3
        <4>5. NeWillHave(k, neNow + W, n)
          BY <1>n, <2>2, <4>1, <4>4, NeWaitIsEnough
        <4>6. NeWillHave(NeRefill(k), neNow + W, n)
          BY <1>n, <2>2, <4>1, <4>5, NeRefillKeeps
        <4>7. neBucket'[b] = NeRefill(k)
          BY <1>2, <2>1 DEF NeAskedAt
        <4> QED
          BY <4>6, <4>7
      <3> HIDE DEF W, late
      <3> QED
        BY <3>1, <3>2 DEF NeSleeperWaits, NeWillHave, NeGain, NeAsked, NeShare
    <2>9. NeWaitsEnough'
      BY <2>7, <2>8 DEF NeWaitsEnough
    <2> QED
      BY <1>k, <2>1, <2>4, <2>5, <2>9 DEF NeClockKept, NeSendsAreCovered
  <1> QED
    BY <1>3, <1>4

LEMMA NeClockStep == NeClockKept /\ NeClockNext => NeClockKept'
  <1> SUFFICES ASSUME NeClockKept, NeClockNext PROVE NeClockKept'
    OBVIOUS
  <1>k. NeClockTyped /\ NeBucketsOK /\ NeWaitsEnough /\ NeSendsAreCovered
    BY DEF NeClockKept
  <1>t. neNow \in 0 .. NeEnd /\ neSleep \in [NeSenders -> NeSleepRec]
    BY <1>k DEF NeClockTyped
  <1>1. CASE NeTick
    <2>1. neNow' \in 0 .. NeEnd /\ UNCHANGED <<neBucket, neSleep, neUpset, neBare>>
      BY <1>t, <1>1, NePositive DEF NeTick
    <2>2. NeBucketsOK' /\ NeSendsAreCovered' /\ NeClockTyped'
      BY <1>k, <2>1 DEF NeClockTyped, NeSleepRec, NeBucketsOK, NeBucketOK, NeBucketRec, NeSendsAreCovered
    <2>3. \A d \in NeSenders : NeSleeperWaits(d)'
      BY <1>k, <2>1, NeSleepsOn
    <2> QED
      BY <2>2, <2>3 DEF NeClockKept, NeWaitsEnough
  <1>2. ASSUME NEW c \in NeSenders, NeWake(c) PROVE NeClockKept'
    <2> DEFINE tokens == neSleep[c].tokens
               until == neSleep[c].until
    <2>1. neSleep[c].at = "asleep" /\ until <= neNow /\ NeSend(c, tokens) /\ UNCHANGED neNow
          /\ tokens \in Nat /\ until \in Nat
      BY <1>t, <1>2, NePositive DEF NeWake, NeSleepRec
    <2>2. ASSUME NEW b \in NeBuckets, b \notin neUpset[c], NeRefuses(b, tokens),
                 NeShare(b, tokens) <= neBucket[b].capacity
          PROVE  FALSE
      <3>1. b \in NeAsked(tokens) /\ ~NeHas(neBucket[b], NeShare(b, tokens))
        BY <2>2 DEF NeRefuses
      <3>2. NeWillHave(neBucket[b], until, NeShare(b, tokens))
        BY <1>k, <2>1, <2>2, <3>1 DEF NeWaitsEnough, NeSleeperWaits
      <3>3. NeBucketOK(neBucket[b]) /\ NeShare(b, tokens) \in Nat
        BY <1>k, <2>1, NeShareTyped DEF NeBucketsOK
      <3>4. NeHas(neBucket[b], NeShare(b, tokens))
        BY <1>t, <2>1, <2>2, <3>2, <3>3, NeHasByThen
      <3> QED
        BY <3>1, <3>4
    <2> HIDE DEF tokens, until
    <2> QED
      BY <2>1, <2>2, NeSendOK
  <1>3. ASSUME NEW c \in NeSenders, NEW tokens \in 0 .. NeCapacity, NeTake(c, tokens) PROVE NeClockKept'
    BY <1>3, NeTakeOK
  <1>4. ASSUME NEW tokens \in 0 .. NeCapacity, NeReject(tokens) PROVE NeClockKept'
    <2>1. neBucket' = NeAskedAt(tokens) /\ UNCHANGED <<neNow, neSleep, neUpset, neBare>>
      BY <1>4 DEF NeReject
    <2>2. NeBucketsOK'
      BY <1>k, <2>1, NeAskedOK
    <2>3. \A b \in NeBuckets : neBucket'[b] \in {neBucket[b], NeRefill(neBucket[b])}
      BY <2>1 DEF NeAskedAt
    <2>4. \A d \in NeSenders : NeSleeperWaits(d)'
      BY <1>k, <2>1, <2>3, NeSleepsOn
    <2>5. NeClockTyped' /\ NeSendsAreCovered'
      BY <1>k, <2>1 DEF NeClockTyped, NeSleepRec, NeSendsAreCovered
    <2> QED
      BY <2>2, <2>4, <2>5 DEF NeClockKept, NeWaitsEnough
  <1>5. ASSUME NEW limit \in {-1} \cup 1 .. NeCapacity, NEW remaining \in {-1} \cup 0 .. NeCapacity,
               NeHeaders(limit, remaining)
        PROVE  NeClockKept'
    <2>1. /\ NeUpsets({"rpm", "tpm"}, {}) /\ UNCHANGED <<neNow, neSleep, neBare>>
          /\ neBucket' = [b \in NeBuckets |-> IF b = "rpd" THEN neBucket[b] ELSE NeUpdate(b, limit, remaining)]
      BY <1>5 DEF NeHeaders
    <2>2. \A b \in NeBuckets : NeBucketOK(neBucket[b]) /\ NeBucketOK(NeUpdate(b, limit, remaining))
      BY <1>k, NeUpdateOK DEF NeBucketsOK
    <2>3. \A b \in NeBuckets : NeBucketOK(neBucket'[b])
      BY <2>1, <2>2
    <2>4. neBucket' = [b \in NeBuckets |-> neBucket'[b]]
      BY <2>1
    <2>5. \A b \in NeBuckets : b \notin {"rpm", "tpm"} => neBucket'[b] = neBucket[b]
      BY <2>1, NeAssumption
    <2> QED
      BY <2>1, <2>3, <2>4, <2>5, NeChangeOK
  <1>6. ASSUME NEW ms \in NeUse, NEW value \in NeUse, NeLimited(ms, value) PROVE NeClockKept'
    <2> DEFINE d == NeLeast(NeRetryAfter(ms, value), NePause)
    <2>1. /\ NeUpsets({"rpm"}, {}) /\ UNCHANGED <<neNow, neSleep, neBare>>
          /\ neBucket' = [b \in NeBuckets |-> IF b = "rpm" THEN NeDrainUntil(neBucket[b], neNow + d) ELSE neBucket[b]]
          /\ NeRetryAfter(ms, value) > 0
      BY <1>6 DEF NeLimited
    <2>2. NeRetryAfter(ms, value) \in Int
      BY NePositive DEF NeRetryAfter, NeUsable, NeUse
    <2>3. d \in 0 .. NePause
      BY <2>1, <2>2, NePositive DEF NeLeast
    <2> HIDE DEF d
    <2>4. \A b \in NeBuckets : NeBucketOK(neBucket[b]) /\ NeBucketOK(NeDrainUntil(neBucket[b], neNow + d))
      BY <1>k, <2>3, NeDrainOK DEF NeBucketsOK
    <2>5. \A b \in NeBuckets : NeBucketOK(neBucket'[b])
      BY <2>1, <2>4
    <2>6. neBucket' = [b \in NeBuckets |-> neBucket'[b]]
      BY <2>1
    <2>7. \A b \in NeBuckets : b \notin {"rpm"} => neBucket'[b] = neBucket[b]
      BY <2>1
    <2> QED
      BY <2>1, <2>5, <2>6, <2>7, NeChangeOK
  <1> QED
    BY <1>1, <1>2, <1>3, <1>4, <1>5, <1>6 DEF NeClockNext

(* The map: a queue takes the settings of the day it is created, and the   *)
(* settings change only while the name has no queue.                       *)
LEMMA NeMapStep == NeMapKept /\ NeMapNext => NeMapKept'
  <1> SUFFICES ASSUME NeMapKept, NeMapNext PROVE NeMapKept'
    OBVIOUS
  <1>k. NeMapTyped /\ NeQueueObeysSettings
    BY DEF NeMapKept
  <1>p. NeQueueLives \in Nat
    BY NePositive
  <1>1. CASE NeDrop
    BY <1>1, <1>k, <1>p DEF NeDrop, NeMapKept, NeMapTyped, NeQueueObeysSettings
  <1>2. ASSUME NEW s \in 0 .. 1, NeConfigure(s) PROVE NeMapKept'
    BY <1>2, <1>k DEF NeConfigure, NeMapKept, NeMapTyped, NeQueueObeysSettings
  <1>3. ASSUME NEW r \in NeRequests, NeFetch(r) PROVE NeMapKept'
    <2>1. CASE neQueue # 0
      <3>1. neFlight' = [neFlight EXCEPT ![r] = neQueue] /\ UNCHANGED <<neQueue, neLives, neSettings, neMade>>
        BY <1>3, <2>1 DEF NeFetch
      <3>2. neFlight' \in [NeRequests -> 0 .. neLives']
        BY <1>k, <3>1 DEF NeMapTyped
      <3> QED
        BY <1>k, <3>1, <3>2 DEF NeMapKept, NeMapTyped, NeQueueObeysSettings
    <2>2. CASE neQueue = 0
      <3> DEFINE n == neLives + 1
      <3>1. /\ neLives < NeQueueLives /\ neLives' = n /\ neQueue' = n
            /\ neMade' = [neMade EXCEPT ![n] = neSettings]
            /\ neFlight' = [neFlight EXCEPT ![r] = n]
            /\ UNCHANGED neSettings
        BY <1>3, <2>2 DEF NeFetch
      <3>2. n \in 1 .. NeQueueLives /\ n \in 0 .. neLives' /\ 0 .. neLives \subseteq 0 .. neLives'
        BY <1>k, <1>p, <3>1 DEF NeMapTyped
      <3>3. neFlight' \in [NeRequests -> 0 .. neLives']
        BY <1>k, <3>1, <3>2 DEF NeMapTyped
      <3>4. neMade' \in [1 .. NeQueueLives -> 0 .. 1] /\ neMade'[n] = neSettings
        BY <1>k, <3>1, <3>2 DEF NeMapTyped
      <3>5. neQueue' \in 0 .. neLives' /\ neLives' \in 0 .. NeQueueLives /\ neSettings' \in 0 .. 1
        BY <1>k, <1>p, <3>1, <3>2 DEF NeMapTyped
      <3> QED
        BY <3>1, <3>3, <3>4, <3>5 DEF NeMapKept, NeMapTyped, NeQueueObeysSettings
    <2> QED
      BY <2>1, <2>2
  <1>4. ASSUME NEW r \in NeRequests, NeDone(r) PROVE NeMapKept'
    <2>1. neFlight' \in [NeRequests -> 0 .. neLives]
      BY <1>4, <1>k DEF NeDone, NeMapTyped
    <2> QED
      BY <1>4, <1>k, <2>1 DEF NeDone, NeMapKept, NeMapTyped, NeQueueObeysSettings
  <1> QED
    BY <1>1, <1>2, <1>3, <1>4 DEF NeMapNext

(* A step of the clock leaves the map alone, and the other way round.      *)
LEMMA NeInvStep == NeInv /\ (NeClockNext \/ NeMapNext \/ UNCHANGED neVars) => NeInv'
  <1> SUFFICES ASSUME NeInv, NeClockNext \/ NeMapNext \/ UNCHANGED neVars PROVE NeInv'
    OBVIOUS
  <1>1. ASSUME UNCHANGED neMap PROVE NeMapKept'
    BY <1>1 DEF neMap, NeInv, NeMapKept, NeMapTyped, NeQueueObeysSettings
  <1>2. ASSUME UNCHANGED neClock PROVE NeClockKept'
    <2>1. NeClockKept /\ UNCHANGED <<neNow, neBucket, neSleep, neUpset, neBare>>
      BY <1>2 DEF neClock, NeInv
    <2>2. NeClockTyped' /\ NeBucketsOK' /\ NeSendsAreCovered'
      BY <2>1 DEF NeClockKept, NeClockTyped, NeSleepRec, NeBucketsOK, NeBucketOK, NeBucketRec, NeSendsAreCovered
    <2>3. \A d \in NeSenders : NeSleeperWaits(d)'
      BY <2>1, NeSleepsOn DEF NeClockKept
    <2> QED
      BY <2>2, <2>3 DEF NeClockKept, NeWaitsEnough
  <1>3. CASE NeClockNext
    <2>1. UNCHANGED neMap
      BY <1>3 DEF NeClockNext, NeTick, NeWake, NeTake, NeReject, NeHeaders, NeLimited
    <2> QED
      BY <1>1, <1>3, <2>1, NeClockStep DEF NeInv
  <1>4. CASE NeMapNext
    <2>1. UNCHANGED neClock
      BY <1>4 DEF NeMapNext, NeDrop, NeConfigure, NeFetch, NeDone
    <2> QED
      BY <1>2, <1>4, <2>1, NeMapStep DEF NeInv
  <1>5. CASE UNCHANGED neVars
    BY <1>1, <1>2, <1>5 DEF neVars, neClock, neMap, NeInv
  <1> QED
    BY <1>3, <1>4, <1>5

(* What the invariant says of the type of the engine's variables: a bucket *)
(* of the largest capacity bounds the tokens of each.                      *)
LEMMA NeInvTyped == NeInv => NeTypeOK
  <1> SUFFICES ASSUME NeInv PROVE NeTypeOK
    OBVIOUS
  <1>1. ASSUME NEW b \in NeBuckets
        PROVE  /\ neBucket[b] \in [tokens : 0 .. NeCapacity * NeMinute,
                                   last : 0 .. NeEnd + NePause, capacity : 1 .. NeCapacity]
               /\ neBucket[b].tokens <= neBucket[b].capacity * NeMinute
    <2> DEFINE k == neBucket[b]
    <2>1. k \in NeBucketRec /\ k.tokens <= k.capacity * NeMinute
      BY DEF NeInv, NeClockKept, NeBucketsOK, NeBucketOK
    <2>2. k.tokens \in Nat /\ k.last \in 0 .. NeEnd + NePause /\ k.capacity \in 1 .. NeCapacity
          /\ k = [tokens |-> k.tokens, last |-> k.last, capacity |-> k.capacity]
      BY <2>1 DEF NeBucketRec
    <2>3. k.capacity \in Nat /\ NeCapacity \in Nat /\ NeMinute \in Nat /\ k.capacity <= NeCapacity
      BY <2>2, NePositive
    <2> HIDE DEF k
    <2>4. k.capacity * NeMinute <= NeCapacity * NeMinute
      BY <2>3, ProductGrows
    <2>5. k.capacity * NeMinute \in Nat /\ NeCapacity * NeMinute \in Nat
      BY <2>3, ProductIsNat
    <2>6. k.tokens \in 0 .. NeCapacity * NeMinute
      BY <2>1, <2>2, <2>4, <2>5
    <2> QED
      BY <2>1, <2>2, <2>6 DEF k
  <1>2. neBucket \in [NeBuckets -> [tokens : 0 .. NeCapacity * NeMinute,
                                    last : 0 .. NeEnd + NePause, capacity : 1 .. NeCapacity]]
    BY <1>1 DEF NeInv, NeClockKept, NeBucketsOK
  <1>3. neNow \in 0 .. NeEnd /\ neBare \in BOOLEAN
    BY DEF NeInv, NeClockKept, NeClockTyped
  <1>4. neSleep \in [NeSenders -> NeSleepRec] /\ neUpset \in [NeSenders -> SUBSET NeBuckets]
    BY DEF NeInv, NeClockKept, NeClockTyped
  <1> QED
    BY <1>1, <1>2, <1>3, <1>4 DEF NeTypeOK, NeSleepRec, NeInv, NeMapKept, NeMapTyped

-----------------------------------------------------------------------------

(* Calibration.  An entry counts the samples that went into it; an update  *)
(* that is under way holds what it read, and while none overlapped another *)
(* of its model that is still what is stored.                              *)
CaEntry == [of : SUBSET CaSamples, samples : Nat]
CaUnderWay(s) == caLearn[s].phase \in {"reading", "writing"}
CaTyped ==
  /\ caLearn \in [CaSamples -> [phase : {"new", "reading", "writing", "done"}, model : CaModels \cup {"none"}]]
  /\ \A s \in CaSamples : caLearn[s].phase # "new" => caLearn[s].model \in CaModels
  /\ caStore \in [CaModels -> CaEntry] /\ caRead \in [CaSamples -> CaEntry]
  /\ caCache \in [CaModels -> SUBSET CaSamples]
  /\ caStrategy \in [CaModels -> CaStrategies]
CaExact(e) == IsFiniteSet(e.of) /\ e.samples = Cardinality(e.of)
CaStoreKept ==
  \A m \in CaModels :
    /\ CaExact(caStore[m]) /\ caStore[m].of \subseteq CaWritten(m) /\ caCache[m] \subseteq CaWritten(m)
    /\ ~caLossy => caStore[m].of = CaWritten(m) /\ caCache[m] \subseteq caStore[m].of
CaReadsKept ==
  \A s \in CaSamples : caLearn[s].phase = "writing" =>
    /\ CaExact(caRead[s]) /\ caRead[s].of \subseteq CaWritten(caLearn[s].model)
    /\ ~caLossy => caRead[s] = caStore[caLearn[s].model]
CaAlone ==
  ~caLossy => \A s, t \in CaSamples :
    CaUnderWay(s) /\ CaUnderWay(t) /\ caLearn[s].model = caLearn[t].model => s = t
CaLearned == CaTyped /\ CaStoreKept /\ CaReadsKept /\ CaAlone

(* A count by characters is under way or made where nothing better was     *)
(* asked for or there.                                                     *)
CaMeasured ==
  /\ caMeasure \in [CaMeasures -> [phase : {"new", "rate", "done"}, model : CaModels \cup {"none"},
                                   how : {"none", "tiktoken", "heuristic", "api", "fast"}, rate : SUBSET CaSamples]]
  /\ \A c \in CaMeasures :
       LET k == caMeasure[c]
           byCharacters == \/ caStrategy[k.model] = "heuristic"
                           \/ caStrategy[k.model] = "tiktoken" /\ ~caPeer /\ caWarned
       IN  /\ k.phase = "rate" => k.model \in CaModels /\ byCharacters
           /\ k.phase = "done" /\ k.how = "heuristic" =>
                byCharacters \/ (caStrategy[k.model] = "count_api" /\ ~caKeyed /\ k.rate = {})
CaInv == CaLearned /\ CaMeasured

LEMMA CaInvInit == CaInit => CaInv
  <1> SUFFICES ASSUME CaInit PROVE CaInv
    OBVIOUS
  <1>1. IsFiniteSet({}) /\ Cardinality({}) = 0
    BY FS_EmptySet
  <1>2. CaNone \in CaEntry /\ CaExact(CaNone)
    BY <1>1 DEF CaNone, CaEntry, CaExact
  <1>3. CaTyped
    BY <1>2 DEF CaInit, CaTyped
  <1>4. CaStoreKept /\ CaReadsKept /\ CaAlone
    BY <1>2 DEF CaInit, CaStoreKept, CaReadsKept, CaAlone, CaUnderWay, CaWritten, CaNone
  <1>5. CaMeasured
    BY DEF CaInit, CaMeasured, CaUnmeasured
  <1> QED
    BY <1>3, <1>4, <1>5 DEF CaInv, CaLearned

(* The write of an update: the sample was not in what the update read.     *)
LEMMA CaWriteKeeps == ASSUME CaLearned, NEW s \in CaSamples, CaWriteEntry(s) PROVE CaLearned'
  <1> DEFINE m == caLearn[s].model
             entry == CaMix(caRead[s], s)
  <1>t. CaTyped /\ CaStoreKept /\ CaReadsKept /\ CaAlone
    BY DEF CaLearned
  <1>1. /\ caLearn[s].phase = "writing" /\ caLearn' = [caLearn EXCEPT ![s].phase = "done"]
        /\ m \in CaModels /\ UNCHANGED <<caStrategy, caCache, caRead>>
    BY <1>t DEF CaWriteEntry, CaTyped
  <1>2. caRead[s] \in CaEntry /\ CaExact(caRead[s]) /\ caRead[s].of \subseteq CaWritten(m) /\ s \notin caRead[s].of
        /\ (\A n \in CaModels : n = m => caRead[s].of \subseteq CaWritten(n))
        /\ (~caLossy => caRead[s] = caStore[m])
    BY <1>1, <1>t DEF CaTyped, CaReadsKept, CaWritten
  <1>3. entry \in CaEntry /\ entry.of = caRead[s].of \cup {s} /\ entry.samples = caRead[s].samples + 1
    BY <1>2 DEF CaMix, CaEntry
  <1>4. CaExact(entry)
    <2> DEFINE S == caRead[s].of
    <2>1. IsFiniteSet(S) /\ s \notin S /\ caRead[s].samples = Cardinality(S)
      BY <1>2 DEF CaExact
    <2> HIDE DEF S
    <2>2. IsFiniteSet(S \cup {s}) /\ Cardinality(S \cup {s}) = Cardinality(S) + 1
      BY <2>1, FS_AddElement
    <2> QED
      BY <1>3, <2>1, <2>2 DEF CaExact, S
  <1>5. /\ \A t \in CaSamples : caLearn'[t].model = caLearn[t].model
        /\ \A t \in CaSamples : t # s => caLearn'[t] = caLearn[t]
        /\ caLearn'[s].phase = "done"
        /\ caLearn' \in [CaSamples -> [phase : {"new", "reading", "writing", "done"}, model : CaModels \cup {"none"}]]
    BY <1>1, <1>t DEF CaTyped
  <1>6. \A n \in CaModels : CaWritten(n)' = IF n = m THEN CaWritten(n) \cup {s} ELSE CaWritten(n)
    BY <1>1, <1>5 DEF CaWritten
  <1>7. (caStore' = [caStore EXCEPT ![m] = entry] /\ caLossy' = caLossy) \/ (caLossy' = TRUE /\ caStore' = caStore)
    BY DEF CaWriteEntry
  <1> HIDE DEF m, entry
  <1>8. CaTyped'
    BY <1>1, <1>3, <1>5, <1>7, <1>t DEF CaTyped
  <1>9. CaAlone'
    BY <1>1, <1>5, <1>7, <1>t DEF CaAlone, CaUnderWay
  <1>10. CaStoreKept'
    <2> SUFFICES ASSUME NEW n \in CaModels
                 PROVE  /\ CaExact(caStore'[n]) /\ caStore'[n].of \subseteq CaWritten(n)' /\ caCache[n] \subseteq CaWritten(n)'
                        /\ ~caLossy' => caStore'[n].of = CaWritten(n)' /\ caCache[n] \subseteq caStore'[n].of
      BY <1>1 DEF CaStoreKept, CaExact
    <2>1. /\ CaExact(caStore[n]) /\ caStore[n].of \subseteq CaWritten(n) /\ caCache[n] \subseteq CaWritten(n)
          /\ ~caLossy => caStore[n].of = CaWritten(n) /\ caCache[n] \subseteq caStore[n].of
      BY <1>t DEF CaStoreKept
    <2>2. CASE caLossy' = TRUE /\ caStore' = caStore
      BY <1>6, <2>1, <2>2 DEF CaExact
    <2>3. CASE caStore' = [caStore EXCEPT ![m] = entry] /\ caLossy' = caLossy
      <3>1. CASE n = m
        <4>1. caStore'[n] = entry
          BY <1>t, <2>3, <3>1 DEF CaTyped
        <4>2. CaExact(caStore'[n]) /\ caStore'[n].of = caRead[s].of \cup {s}
          BY <1>3, <1>4, <4>1
        <4>3. caStore'[n].of \subseteq CaWritten(n)' /\ caCache[n] \subseteq CaWritten(n)'
          BY <1>2, <1>6, <2>1, <3>1, <4>2
        <4>4. ASSUME ~caLossy' PROVE caStore'[n].of = CaWritten(n)' /\ caCache[n] \subseteq caStore'[n].of
          BY <1>2, <1>6, <2>1, <2>3, <3>1, <4>2, <4>4
        <4> QED
          BY <4>2, <4>3, <4>4
      <3>2. CASE n # m
        BY <1>6, <1>t, <2>1, <2>3, <3>2 DEF CaTyped
      <3> QED
        BY <3>1, <3>2
    <2> QED
      BY <1>7, <2>2, <2>3
  <1>11. CaReadsKept'
    <2> SUFFICES ASSUME NEW t \in CaSamples, caLearn'[t].phase = "writing"
                 PROVE  /\ CaExact(caRead[t]) /\ caRead[t].of \subseteq CaWritten(caLearn[t].model)'
                        /\ ~caLossy' => caRead[t] = caStore'[caLearn[t].model]
      BY <1>1, <1>5 DEF CaReadsKept, CaExact, CaWritten
    <2>1. t # s /\ caLearn[t].phase = "writing" /\ caLearn[t].model \in CaModels
      BY <1>5, <1>t DEF CaTyped
    <2>2. /\ CaExact(caRead[t]) /\ caRead[t].of \subseteq CaWritten(caLearn[t].model)
          /\ ~caLossy => caRead[t] = caStore[caLearn[t].model]
      BY <1>t, <2>1 DEF CaReadsKept
    <2>3. CaWritten(caLearn[t].model) \subseteq CaWritten(caLearn[t].model)'
      BY <1>5, <1>1 DEF CaWritten
    <2>4. ASSUME ~caLossy' PROVE caRead[t] = caStore'[caLearn[t].model]
      <3>1. ~caLossy /\ caStore' = [caStore EXCEPT ![m] = entry]
        BY <1>7, <2>4
      <3>2. caLearn[t].model # m
        BY <1>1, <1>t, <2>1, <3>1 DEF CaAlone, CaUnderWay, m
      <3> QED
        BY <1>t, <2>1, <2>2, <3>1, <3>2 DEF CaTyped
    <2> QED
      BY <2>2, <2>3, <2>4
  <1> QED
    BY <1>8, <1>9, <1>10, <1>11 DEF CaLearned

LEMMA CaLearnedStep == CaInv /\ [CaNext]_caVars => CaLearned'
  <1> SUFFICES ASSUME CaInv, [CaNext]_caVars PROVE CaLearned'
    OBVIOUS
  <1>t. CaLearned /\ CaTyped /\ CaStoreKept /\ CaReadsKept /\ CaAlone
    BY DEF CaInv, CaLearned
  <1>0. ASSUME UNCHANGED <<caStrategy, caStore, caCache, caLearn, caRead, caLossy>> PROVE CaLearned'
    BY <1>0, <1>t DEF CaLearned, CaTyped, CaStoreKept, CaReadsKept, CaAlone, CaUnderWay, CaWritten, CaExact
  <1>c. ASSUME UNCHANGED <<caStrategy, caStore, caLearn, caRead, caLossy>>,
               caCache' \in [CaModels -> SUBSET CaSamples],
               \A m \in CaModels : caCache'[m] \in {caCache[m], caStore[m].of}
        PROVE  CaLearned'
    <2>1. CaTyped' /\ CaReadsKept' /\ CaAlone'
      BY <1>c, <1>t DEF CaTyped, CaReadsKept, CaAlone, CaUnderWay, CaWritten, CaExact
    <2>2. CaStoreKept'
      BY <1>c, <1>t DEF CaStoreKept, CaWritten, CaExact
    <2> QED
      BY <2>1, <2>2 DEF CaLearned
  <1>1. CASE CaWarm
    BY <1>1, <1>c, <1>t DEF CaWarm, CaTyped, CaEntry
  <1>2. ASSUME NEW c \in CaMeasures, CaRate(c) PROVE CaLearned'
    <2> DEFINE m == caMeasure[c].model
    <2>1. m \in CaModels
      BY <1>2 DEF CaRate, CaInv, CaMeasured
    <2>2. caCache' = [caCache EXCEPT ![m] = caStore[m].of] \/ caCache' = caCache
      BY <1>2 DEF CaRate
    <2>3. UNCHANGED <<caStrategy, caStore, caLearn, caRead, caLossy>>
      BY <1>2 DEF CaRate
    <2> HIDE DEF m
    <2> QED
      BY <1>c, <1>t, <2>1, <2>2, <2>3 DEF CaTyped, CaEntry
  <1>3. ASSUME NEW c \in CaMeasures, NEW m \in CaModels,
               CaByTiktoken(c, m) \/ CaWithoutPeer(c, m) \/ CaByApi(c, m) \/ CaByCharacters(c, m)
        PROVE  CaLearned'
    BY <1>0, <1>3 DEF CaByTiktoken, CaWithoutPeer, CaByApi, CaByCharacters, CaSetMeasure
  <1>4. ASSUME NEW s \in CaSamples, NEW m \in CaModels, CaLearn(s, m) PROVE CaLearned'
    <2>1. /\ caLearn[s].phase = "new" /\ caLearn' = [caLearn EXCEPT ![s] = [phase |-> "reading", model |-> m]]
          /\ UNCHANGED <<caStrategy, caStore, caCache, caRead>>
          /\ caLossy' = (caLossy \/ \E t \in CaSamples : CaUnderWay(t) /\ caLearn[t].model = m)
      BY <1>4 DEF CaLearn, CaUnderWay
    <2>2. \A n \in CaModels : CaWritten(n)' = CaWritten(n)
      BY <1>t, <2>1 DEF CaWritten, CaTyped
    <2>3. CaTyped'
      BY <1>t, <2>1 DEF CaTyped
    <2>4. CaStoreKept'
      BY <1>t, <2>1, <2>2 DEF CaStoreKept, CaExact
    <2>5. CaReadsKept'
      <3>1. \A t \in CaSamples : caLearn'[t].phase = "writing" =>
              caLearn[t].phase = "writing" /\ caLearn'[t] = caLearn[t] /\ caLearn[t].model \in CaModels
        BY <1>t, <2>1 DEF CaTyped
      <3>2. ~caLossy' => ~caLossy
        BY <2>1
      <3> QED
        BY <1>t, <2>1, <2>2, <3>1, <3>2 DEF CaReadsKept, CaExact
    <2>6. CaAlone'
      BY <1>t, <2>1 DEF CaAlone, CaUnderWay, CaTyped
    <2> QED
      BY <2>3, <2>4, <2>5, <2>6 DEF CaLearned
  <1>5. ASSUME NEW s \in CaSamples, CaReadEntry(s) PROVE CaLearned'
    <2> DEFINE m == caLearn[s].model
    <2>1. /\ caLearn[s].phase = "reading" /\ caLearn' = [caLearn EXCEPT ![s].phase = "writing"]
          /\ caRead' = [caRead EXCEPT ![s] = caStore[m]]
          /\ UNCHANGED <<caStrategy, caStore, caCache, caLossy>> /\ m \in CaModels
      BY <1>5, <1>t DEF CaReadEntry, CaTyped
    <2>2. \A n \in CaModels : CaWritten(n)' = CaWritten(n)
      BY <1>t, <2>1 DEF CaWritten, CaTyped
    <2>3. CaTyped'
      BY <1>t, <2>1 DEF CaTyped
    <2>4. CaStoreKept'
      BY <1>t, <2>1, <2>2 DEF CaStoreKept, CaExact
    <2>5. CaAlone'
      BY <1>t, <2>1 DEF CaAlone, CaUnderWay, CaTyped
    <2>6. CaReadsKept'
      <3>1. /\ caRead'[s] = caStore[m] /\ caLearn'[s].model = m
            /\ \A t \in CaSamples : t # s => caRead'[t] = caRead[t] /\ caLearn'[t] = caLearn[t]
        BY <1>t, <2>1 DEF CaTyped
      <3>2. \A t \in CaSamples : caLearn'[t].phase # "new" => caLearn'[t].model \in CaModels
        BY <2>3 DEF CaTyped
      <3> HIDE DEF m
      <3> QED
        BY <1>t, <2>1, <2>2, <3>1, <3>2 DEF CaReadsKept, CaStoreKept, CaExact
    <2> QED
      BY <2>3, <2>4, <2>5, <2>6 DEF CaLearned
  <1>6. ASSUME NEW s \in CaSamples, CaWriteEntry(s) PROVE CaLearned'
    BY <1>6, <1>t, CaWriteKeeps
  <1>7. CASE UNCHANGED caVars
    BY <1>7, <1>0 DEF caVars
  <1> QED
    BY <1>1, <1>2, <1>3, <1>4, <1>5, <1>6, <1>7 DEF CaNext

LEMMA CaMeasuredStep == CaInv /\ [CaNext]_caVars => CaMeasured'
  <1> SUFFICES ASSUME CaInv, [CaNext]_caVars PROVE CaMeasured'
    OBVIOUS
  <1>t. CaMeasured /\ CaTyped
    BY DEF CaInv, CaLearned
  <1>0. ASSUME UNCHANGED <<caStrategy, caPeer, caKeyed, caMeasure, caWarned>> PROVE CaMeasured'
    BY <1>0, <1>t DEF CaMeasured
  <1>1. ASSUME NEW c \in CaMeasures, CaRate(c) PROVE CaMeasured'
    <2> DEFINE k == [caMeasure[c] EXCEPT !.phase = "done", !.how = "heuristic", !.rate = caStore[caMeasure[c].model].of]
    <2>1. /\ caMeasure[c].phase = "rate" /\ caMeasure' = [caMeasure EXCEPT ![c] = k]
          /\ UNCHANGED <<caStrategy, caPeer, caKeyed, caWarned>>
      BY <1>1 DEF CaRate
    <2>2. caStore[caMeasure[c].model].of \subseteq CaSamples /\ caMeasure[c].model \in CaModels
      BY <1>t, <2>1 DEF CaMeasured, CaTyped, CaEntry
    <2>3. /\ k \in [phase : {"new", "rate", "done"}, model : CaModels \cup {"none"},
                    how : {"none", "tiktoken", "heuristic", "api", "fast"}, rate : SUBSET CaSamples]
          /\ k.phase = "done" /\ k.model = caMeasure[c].model
      BY <1>t, <2>2 DEF CaMeasured
    <2> HIDE DEF k
    <2> QED
      BY <1>t, <2>1, <2>3 DEF CaMeasured
  <1>2. ASSUME NEW c \in CaMeasures, NEW m \in CaModels,
               CaByTiktoken(c, m) \/ CaWithoutPeer(c, m) \/ CaByApi(c, m) \/ CaByCharacters(c, m)
        PROVE  CaMeasured'
    <2>1. PICK phase \in {"rate", "done"}, how \in {"none", "tiktoken", "heuristic", "api", "fast"} :
            /\ caMeasure' = [caMeasure EXCEPT ![c] = [phase |-> phase, model |-> m, how |-> how, rate |-> {}]]
            /\ UNCHANGED <<caStrategy, caPeer, caKeyed>> /\ (caWarned => caWarned')
            /\ phase = "rate" => \/ caStrategy[m] = "heuristic"
                                 \/ caStrategy[m] = "tiktoken" /\ ~caPeer /\ caWarned'
            /\ phase = "done" /\ how = "heuristic" => caStrategy[m] = "count_api" /\ ~caKeyed
      <3>1. caStrategy[m] \in {"tiktoken", "count_api", "heuristic"}
        BY <1>t, CaAssumption DEF CaTyped
      <3>2. CASE CaByTiktoken(c, m)
        BY <3>1, <3>2 DEF CaByTiktoken, CaSetMeasure
      <3>3. CASE CaWithoutPeer(c, m)
        BY <3>1, <3>3 DEF CaWithoutPeer, CaSetMeasure, CaCounter
      <3>4. CASE CaByApi(c, m)
        BY <3>1, <3>4 DEF CaByApi, CaSetMeasure, CaCounter
      <3>5. CASE CaByCharacters(c, m)
        BY <3>1, <3>5 DEF CaByCharacters, CaSetMeasure, CaCounter
      <3> QED
        BY <1>2, <3>2, <3>3, <3>4, <3>5
    <2> DEFINE k == [phase |-> phase, model |-> m, how |-> how, rate |-> {}]
    <2>2. /\ k \in [phase : {"new", "rate", "done"}, model : CaModels \cup {"none"},
                    how : {"none", "tiktoken", "heuristic", "api", "fast"}, rate : SUBSET CaSamples]
          /\ k.phase = phase /\ k.model = m /\ k.how = how /\ k.rate = {}
      OBVIOUS
    <2>3. caMeasure' = [caMeasure EXCEPT ![c] = k]
      BY <2>1
    <2> HIDE DEF k
    <2> QED
      BY <1>t, <2>1, <2>2, <2>3 DEF CaMeasured
  <1>3. CASE CaWarm
    BY <1>0, <1>3 DEF CaWarm
  <1>4. ASSUME NEW s \in CaSamples, CaReadEntry(s) \/ CaWriteEntry(s) \/ \E m \in CaModels : CaLearn(s, m)
        PROVE  CaMeasured'
    BY <1>0, <1>4 DEF CaReadEntry, CaWriteEntry, CaLearn
  <1>5. CASE UNCHANGED caVars
    BY <1>0, <1>5 DEF caVars
  <1> QED
    BY <1>1, <1>2, <1>3, <1>4, <1>5 DEF CaNext

LEMMA CaInvSays == CaInv => CaRatesAreLearned
  BY DEF CaInv, CaLearned, CaStoreKept, CaExact, CaMeasured, CaRatesAreLearned

-----------------------------------------------------------------------------

(* A step of the composition is a step of the part on turn, and of every   *)
(* other part a stutter.                                                   *)
LEMMA NetworkStepIsOfOnePart ==
  ASSUME [NetworkNext]_NetworkVars
  PROVE  /\ [Next]_vars /\ (NeClockNext \/ NeMapNext \/ UNCHANGED neVars)
         /\ [TpNext]_tpVars /\ [McNext]_mcVars /\ [OaNext]_oaVars /\ [CaNext]_caVars
  <1>1. CASE UNCHANGED NetworkVars
    BY <1>1 DEF NetworkVars, carrierVars, observerVars
  <1>2. CASE NetworkNext
    <2>1. CASE Next /\ UNCHANGED <<neVars, tpVars, mcVars, oaVars, caVars>>
      BY <2>1
    <2>2. CASE (NeClockNext \/ NeMapNext) /\ UNCHANGED <<vars, tpVars, mcVars, oaVars, caVars>>
      BY <2>2
    <2>3. CASE TpNext /\ UNCHANGED <<vars, neVars, mcVars, oaVars, caVars>>
      BY <2>3
    <2>4. CASE McNext /\ UNCHANGED <<vars, neVars, tpVars, oaVars, caVars>>
      BY <2>4
    <2>5. CASE OaNext /\ UNCHANGED <<vars, neVars, tpVars, mcVars, caVars>>
      BY <2>5
    <2>6. CASE UNCHANGED <<vars, neVars, tpVars, mcVars, oaVars, caVars>>
      BY <2>6
    <2>7. CASE CaNext /\ UNCHANGED <<vars, neVars, tpVars, mcVars, oaVars>>
      BY <2>7
    <2> QED
      BY <1>2, <2>1, <2>2, <2>3, <2>4, <2>5, <2>6, <2>7 DEF NetworkNext, carrierVars, observerVars
  <1> QED
    BY <1>1, <1>2

NetworkInv == IInv /\ NeInv /\ TpInv /\ McInv /\ OaInv /\ CaInv

LEMMA NetworkInvInit == NetworkInit => NetworkInv
  BY InitIInv, NeInvInit, TpInvInit, McInvInit, OaInvInit, CaInvInit DEF NetworkInit, NetworkInv

LEMMA NetworkInvStep == NetworkInv /\ [NetworkNext]_NetworkVars => NetworkInv'
  BY NetworkStepIsOfOnePart, NextIInv, NeInvStep, TpInvStep, McInvStep, OaInvStep, CaLearnedStep, CaMeasuredStep
     DEF NetworkInv, CaInv

(* Whatever the parts of the network layer do, and with whichever hooks    *)
(* throw, the inductive invariant of each holds in every state.            *)
THEOREM SpecNetworkInv == NetworkSpec => []NetworkInv
  BY NetworkInvInit, NetworkInvStep, PTL DEF NetworkSpec

(* A request leaves with its tokens unless a bucket was changed while the  *)
(* loop slept (rate-limiter.ts waitTimeMs, canProceed), a name's queue     *)
(* runs under the settings last configured (engine.ts configureQueue,      *)
(* dropQueue), and no request is sent beyond its retries (queue-state.ts   *)
(* handleRetry).                                                           *)
THEOREM SpecLimitsHold == NetworkSpec => []LimitsHold
  <1>1. NetworkInv => LimitsHold
    BY IInvBudget DEF NetworkInv, NeInv, NeClockKept, NeMapKept, LimitsHold
  <1> QED
    BY <1>1, SpecNetworkInv, PTL

(* An answer reaches the caller whose id it bears, also after calls timed  *)
(* out, streams resumed and the connection was lost, and no open           *)
(* subscription is without somebody to end it (transports/stdio.ts,        *)
(* transports/http.ts).                                                    *)
THEOREM SpecMcpDelivers == NetworkSpec => []McpDelivers
  <1>1. NetworkInv => McpDelivers
    BY DEF NetworkInv, TpInv, TpCallsKept, TpSubsKept, McpDelivers
  <1> QED
    BY <1>1, SpecNetworkInv, PTL

(* The MCP client ends up on an era its server speaks, one call at a time  *)
(* rebuilds a lost session, a stale list is one that was under way at the  *)
(* change (client.ts), and an accepted grant is never replaced in the      *)
(* store by an older one (oauth.ts).                                       *)
THEOREM SpecMcpClientHolds == NetworkSpec => []McpClientHolds
  <1>1. NetworkInv => McpClientHolds
    BY McInvSays DEF NetworkInv, OaInv, McpClientHolds
  <1> QED
    BY <1>1, SpecNetworkInv, PTL

(* A learned rate counts exactly the samples of its model that went into   *)
(* it, loses none unless two updates of the model overlapped or a write    *)
(* failed, and an exact count by characters is made only where nothing     *)
(* better was asked for or there (calibration/store.ts update, counter/    *)
(* heuristic.ts rate, counter/hybrid.ts withoutOptionalPeer).              *)
THEOREM SpecRatesAreLearned == NetworkSpec => []CaRatesAreLearned
  <1>1. NetworkInv => CaRatesAreLearned
    BY CaInvSays DEF NetworkInv
  <1> QED
    BY <1>1, SpecNetworkInv, PTL
=============================================================================
