----------------------------- MODULE McpClient -----------------------------
(***************************************************************************)
(* The MCP client (plugins/mcp/client.ts) over the HTTP transport          *)
(* (transport-http.ts): choosing the protocol era, requests and the        *)
(* sessions they depend on, rounds of required input, listings and the     *)
(* result cache (result-cache.ts), and the tools connectMcp shows          *)
(* (helpers/mcp.ts).                                                       *)
(*                                                                         *)
(* The server is external: what it may answer is read off what the client  *)
(* handles.  A protocol version is its era, "hand" or "modern"; "other" is *)
(* a later version this client does not speak.  A listing is the version   *)
(* of the server's list each of its two pages shows.                       *)
(***************************************************************************)
EXTENDS Integers, FiniteSets

CONSTANTS
  McCalls,      \* calls of callTool, readResource, getPrompt, request
  McLists,      \* calls of listTools, or refreshes after a notification
  McFetches,    \* fetch of HttpTransportDeps: "engine" rejects a response that
                \* is not ok, "plain" resolves with it
  McRestarts,   \* bound: times the server forgets its sessions
  McChanges,    \* bound: times the server's list of tools changes
  McMaxRounds   \* inputRequiredMaxRounds

ASSUME McAssumption ==
  /\ McFetches \subseteq {"engine", "plain"}
  /\ McRestarts \in Nat /\ McChanges \in Nat /\ McMaxRounds \in Nat

VARIABLES
  mcSrv,      \* the server: versions it speaks, whether it names them, how it
              \* refuses, whether it keeps sessions, whether a probe locked it
  mcFetch,    \* the fetch in use
  mcMode,     \* protocolMode
  mcFocus,    \* bound: a connected client is used for calls or for lists, or
              \* not at all
  mcPc,       \* where connect stands
  mcAttempt,  \* attempt of negotiateAuto; 2 where the fallback may not go back
  mcOutage,   \* whether the network failed
  mcVersion,  \* negotiatedVersion
  mcWireEra,  \* era of the transport
  mcSession,  \* sessionId, 0 for null
  mcLive,     \* sessions the server holds
  mcIssued,   \* sessions the server has issued
  mcRecovering,
  mcCall,     \* each call: where it stands, its post, its session, its rounds
  mcForgot,   \* restarts so far
  mcListed,   \* version of the server's list
  mcNotes,    \* list_changed notifications under way
  mcNoted,    \* latest version a handled notification announced
  mcCache,    \* the cached listing, and which call stored it
  mcList,     \* each listing: where it stands and the page it has
  mcRaced,    \* listings begun before the last notification was handled
  mcTools     \* the listing connectMcp's tools array shows

mcSetup == <<mcSrv, mcFetch, mcMode, mcFocus>>
mcConnect == <<mcPc, mcAttempt, mcOutage, mcVersion, mcWireEra>>
mcHttp == <<mcSession, mcLive, mcIssued, mcRecovering, mcCall, mcForgot>>
mcLists == <<mcListed, mcNotes, mcNoted, mcCache, mcList, mcRaced, mcTools>>
mcVars == <<mcSetup, mcConnect, mcHttp, mcLists>>

McServer == [speaks : SUBSET {"hand", "modern", "other"}, names : BOOLEAN,
             refuses : {"method", "version", "http", "advert"}, keeps : BOOLEAN,
             locked : BOOLEAN]
McNone == "none"
McAt == {"new", "posted", "reauth", "initialize", "initialized", "input", "done", "failed"}

McTypeOK ==
  /\ mcSrv \in McServer /\ mcFetch \in McFetches
  /\ mcMode \in {"auto", "legacy", "modern"} /\ mcFocus \in {"connect", "calls", "lists"}
  /\ mcPc \in {"start", "discover", "initialize", "up", "failed"}
  /\ mcAttempt \in 0 .. 2 /\ mcOutage \in BOOLEAN
  /\ mcVersion \in {"hand", "modern"} /\ mcWireEra \in {"hand", "modern"}
  /\ mcSession \in {0} \cup mcIssued
  /\ mcLive \subseteq mcIssued /\ mcIssued \subseteq Nat \ {0}
  /\ mcRecovering \in BOOLEAN
  /\ mcCall \in [McCalls -> [at : McAt, post : 0 .. 3, sent : {0} \cup mcIssued,
                             rounds : 0 .. McMaxRounds + 1, tried : BOOLEAN]]
  /\ mcForgot \in 0 .. McRestarts
  /\ mcListed \in 1 .. McChanges + 1 /\ mcNotes \subseteq 1 .. McChanges + 1
  /\ mcNoted \in 0 .. McChanges + 1
  /\ mcCache.by \in McLists \cup {McNone} /\ mcRaced \subseteq McLists

McInit ==
  /\ mcSrv \in {s \in McServer : ~s.locked /\ (s.refuses = "advert" => "hand" \in s.speaks)
                                 /\ ("modern" \in s.speaks => s.refuses = "method")}
  /\ mcFetch \in McFetches /\ mcMode \in {"auto", "legacy", "modern"}
  /\ mcFocus \in {"connect", "calls", "lists"}
  /\ mcFocus # "connect" => /\ mcMode = "auto" /\ mcSrv.names /\ mcSrv.refuses = "method"
                            /\ mcSrv.speaks \in {{"hand"}, {"modern"}}
  /\ mcFocus = "lists" => mcFetch = CHOOSE f \in McFetches : TRUE
  /\ mcPc = "start" /\ mcAttempt = 0 /\ mcOutage = FALSE
  /\ mcVersion = "hand" /\ mcWireEra = "hand"
  /\ mcSession = 0 /\ mcLive = {} /\ mcIssued = {} /\ mcRecovering = FALSE
  /\ mcCall = [c \in McCalls |-> [at |-> "new", post |-> 0, sent |-> 0, rounds |-> 0, tried |-> FALSE]]
  /\ mcForgot = 0
  /\ mcListed = 1 /\ mcNotes = {} /\ mcNoted = 0
  /\ mcCache = [by |-> McNone, pages |-> <<0, 0>>]
  /\ mcList = [l \in McLists |-> [at |-> "new", page |-> 0]]
  /\ mcRaced = {} /\ mcTools = <<0, 0>>

-----------------------------------------------------------------------------

(* connect and negotiateAuto.  protocolMode picks the first request.       *)
McConnect ==
  /\ mcPc = "start"
  /\ mcPc' = IF mcMode = "legacy" THEN "initialize" ELSE "discover"
  /\ mcAttempt' = IF mcMode = "auto" THEN 0 ELSE 2
  /\ UNCHANGED <<mcSetup, mcOutage, mcVersion, mcWireEra, mcHttp, mcLists>>

(* The network fails under connect: an outage is rethrown.                 *)
McConnectOutage ==
  /\ mcPc \in {"discover", "initialize"}
  /\ mcPc' = "failed" /\ mcOutage' = TRUE
  /\ UNCHANGED <<mcSetup, mcAttempt, mcVersion, mcWireEra, mcHttp, mcLists>>

McSupportedIgnored == {}

(* What a -32022 error's data names: nothing unless it is a list.          *)
McSupported == IF mcSrv.names THEN mcSrv.speaks ELSE {}

McAdoptModern ==
  /\ mcPc' = "up"
  /\ mcVersion' = "modern" /\ mcWireEra' = "modern"

(* server/discover is answered.  Anything that is not proof of a modern    *)
(* server falls back to the handshake, except a refusal that names only    *)
(* versions from neither era of ours.                                      *)
McDiscoverAnswered ==
  /\ mcPc = "discover"
  /\ IF "modern" \in mcSrv.speaks \/ (mcSrv.refuses = "advert" /\ mcMode = "modern")
     THEN McAdoptModern /\ UNCHANGED mcAttempt
     ELSE /\ mcPc' = IF \/ mcMode = "modern"
                        \/ /\ mcSrv.refuses = "version" /\ McSupported # {}
                           /\ "hand" \notin McSupported
                     THEN "failed" ELSE "initialize"
          /\ mcAttempt' = IF mcSrv.refuses \in {"http", "advert"} THEN 2 ELSE mcAttempt
          /\ UNCHANGED <<mcVersion, mcWireEra>>
  /\ UNCHANGED <<mcSetup, mcOutage, mcHttp, mcLists>>

(* The probe times out on our side and reaches the server all the same: a  *)
(* timeout is a JSON-RPC error to the client.                              *)
McProbeTimesOut ==
  /\ mcPc = "discover" /\ "modern" \in mcSrv.speaks
  /\ mcSrv' = [mcSrv EXCEPT !.locked = TRUE]
  /\ mcPc' = IF mcMode = "modern" THEN "failed" ELSE "initialize"
  /\ mcOutage' = (mcMode = "modern" \/ mcAttempt = 1)
  /\ UNCHANGED <<mcFetch, mcMode, mcFocus, mcAttempt, mcVersion, mcWireEra, mcHttp, mcLists>>

McFresh == CHOOSE n \in 1 .. Cardinality(mcIssued) + 1 : n \notin mcIssued

(* The server takes an initialize: it opens a session if it keeps any, and *)
(* the response's header is the transport's new session.                   *)
McOpenSession ==
  IF mcSrv.keeps
  THEN /\ mcSession' = McFresh
       /\ mcLive' = mcLive \cup {McFresh} /\ mcIssued' = mcIssued \cup {McFresh}
  ELSE UNCHANGED <<mcSession, mcLive, mcIssued>>

(* handshake inside connect.  A -32022 that names a modern version sends   *)
(* negotiateAuto back to the probe, once.                                  *)
McInitializeAnswered ==
  /\ mcPc = "initialize"
  /\ IF "hand" \in mcSrv.speaks /\ ~mcSrv.locked
     THEN /\ mcPc' = "up" /\ mcVersion' = "hand"
          /\ McOpenSession
          /\ UNCHANGED mcAttempt
     ELSE /\ IF mcAttempt = 0 /\ "modern" \in McSupported
             THEN mcPc' = "discover" /\ mcAttempt' = 1
             ELSE mcPc' = "failed" /\ UNCHANGED mcAttempt
          /\ UNCHANGED <<mcVersion, mcSession, mcLive, mcIssued>>
  /\ UNCHANGED <<mcSetup, mcOutage, mcWireEra, mcRecovering, mcCall, mcForgot, mcLists>>

-----------------------------------------------------------------------------

McUsed(focus) == mcPc = "up" /\ mcFocus = focus

(* post: the session is read when the request is built.                    *)
McPosted(c, n) == [mcCall[c] EXCEPT !.at = "posted", !.post = n, !.sent = mcSession]

McSend(c) ==
  /\ McUsed("calls") /\ mcCall[c].at = "new"
  /\ mcCall' = [mcCall EXCEPT ![c] = McPosted(c, 1)]
  /\ UNCHANGED <<mcSetup, mcConnect, mcSession, mcLive, mcIssued, mcRecovering, mcForgot, mcLists>>

McOkay(c) == mcVersion = "modern" \/ ~mcSrv.keeps \/ mcCall[c].sent \in mcLive

(* A result, or a call for more input while rounds are left.               *)
McAnswered(c) ==
  /\ mcCall[c].at = "posted" /\ McOkay(c)
  /\ \E more \in BOOLEAN :
       mcCall' = [mcCall EXCEPT ![c].at = IF more THEN "input" ELSE "done"]
  /\ UNCHANGED <<mcSetup, mcConnect, mcSession, mcLive, mcIssued, mcRecovering, mcForgot, mcLists>>

(* runInputRequiredDriver: one more round, or too many.  A handler that    *)
(* throws ends the call.                                                   *)
McInput(c) ==
  /\ mcCall[c].at = "input"
  /\ \E answered \in BOOLEAN :
       mcCall' = [mcCall EXCEPT ![c] =
         IF answered /\ mcCall[c].rounds < McMaxRounds
         THEN [McPosted(c, 1) EXCEPT !.rounds = @ + 1]
         ELSE [mcCall[c] EXCEPT !.at = "failed", !.rounds = @ + 1]]
  /\ UNCHANGED <<mcSetup, mcConnect, mcSession, mcLive, mcIssued, mcRecovering, mcForgot, mcLists>>

(* 401, or 403 for want of scope: reauthTrigger looks at the first post    *)
(* only.  A fetch that rejects never shows it the response.                *)
McUnauthorized(c) ==
  /\ mcCall[c].at = "posted"
  /\ mcCall' = [mcCall EXCEPT ![c].at =
       IF mcFetch = "plain" /\ mcCall[c].post = 1 THEN "reauth" ELSE "failed"]
  /\ UNCHANGED <<mcSetup, mcConnect, mcSession, mcLive, mcIssued, mcRecovering, mcForgot, mcLists>>

McReauthorized(c) ==
  /\ mcCall[c].at = "reauth"
  /\ \E ok \in BOOLEAN :
       mcCall' = [mcCall EXCEPT ![c] = IF ok THEN McPosted(c, 2) ELSE [@ EXCEPT !.at = "failed"]]
  /\ UNCHANGED <<mcSetup, mcConnect, mcSession, mcLive, mcIssued, mcRecovering, mcForgot, mcLists>>

McRecoversAnyway(c) == mcFetch = "plain" /\ mcSession # 0

(* request's conditions for a recovery, and recoverSession's own: an era   *)
(* without sessions has none to rebuild.                                   *)
McMayRecover(c) == mcFetch = "plain" /\ mcSession # 0 /\ ~mcRecovering /\ mcCall[c].post < 3

(* 404: the session the request was sent under is gone.                    *)
McForgotten(c) ==
  /\ mcCall[c].at = "posted" /\ ~McOkay(c)
  /\ IF McMayRecover(c)
     THEN /\ mcSession' = 0 /\ mcRecovering' = TRUE
          /\ mcCall' = [mcCall EXCEPT ![c].at = "initialize", ![c].tried = TRUE]
     ELSE /\ mcCall' = [mcCall EXCEPT ![c].at = "failed"]
          /\ UNCHANGED <<mcSession, mcRecovering>>
  /\ UNCHANGED <<mcSetup, mcConnect, mcLive, mcIssued, mcForgot, mcLists>>

(* handshake inside recoverSession: the initialize and its notification    *)
(* are awaited, then the call is posted once more.                         *)
McReinitialized(c) ==
  /\ mcCall[c].at = "initialize"
  /\ McOpenSession
  /\ mcCall' = [mcCall EXCEPT ![c].at = "initialized"]
  /\ UNCHANGED <<mcSetup, mcConnect, mcRecovering, mcForgot, mcLists>>

McRecoveryStuck(c) ==
  /\ mcCall[c].at \in {"initialize", "initialized"}
  /\ mcCall' = [mcCall EXCEPT ![c] = IF @.at = "initialized" THEN McPosted(c, 3)
                                     ELSE [@ EXCEPT !.at = "failed"]]
  /\ mcRecovering' = (mcCall[c].at = "initialize")
  /\ UNCHANGED <<mcSetup, mcConnect, mcSession, mcLive, mcIssued, mcForgot, mcLists>>

(* recovering is reset however the recovery went.                          *)
McRecovered(c) ==
  /\ mcCall[c].at \in {"initialize", "initialized"}
  /\ mcCall' = [mcCall EXCEPT ![c] = IF @.at = "initialized" THEN McPosted(c, 3)
                                     ELSE [@ EXCEPT !.at = "failed"]]
  /\ mcRecovering' = FALSE
  /\ UNCHANGED <<mcSetup, mcConnect, mcSession, mcLive, mcIssued, mcForgot, mcLists>>

(* External: the server restarts, or lets its sessions expire.             *)
McServerForgets ==
  /\ McUsed("calls") /\ mcForgot < McRestarts /\ mcLive # {}
  /\ mcLive' = {} /\ mcForgot' = mcForgot + 1
  /\ UNCHANGED <<mcSetup, mcConnect, mcSession, mcIssued, mcRecovering, mcCall, mcLists>>

-----------------------------------------------------------------------------

(* External: the server's list changes and it says so.                     *)
McListChanges ==
  /\ McUsed("lists") /\ mcListed <= McChanges
  /\ mcListed' = mcListed + 1
  /\ mcNotes' = mcNotes \cup {mcListed + 1}
  /\ UNCHANGED <<mcSetup, mcConnect, mcHttp, mcNoted, mcCache, mcList, mcRaced, mcTools>>

McNoEntry == [by |-> McNone, pages |-> <<0, 0>>]

McInvalidateNothing == UNCHANGED mcCache

(* invalidateOnChange, invalidateForEvent.                                 *)
McInvalidate == mcCache' = McNoEntry

McNotified(v) ==
  /\ v \in mcNotes
  /\ mcNotes' = mcNotes \ {v}
  /\ mcNoted' = IF v > mcNoted THEN v ELSE mcNoted
  /\ McInvalidate
  /\ mcRaced' = {l \in McLists : mcList[l].at # "new"}
  /\ UNCHANGED <<mcSetup, mcConnect, mcHttp, mcListed, mcList, mcTools>>

(* paginate answers from the cache, or asks for the first page.            *)
McListStarts(l) ==
  /\ McUsed("lists") /\ mcList[l].at = "new"
  /\ IF mcCache.by # McNone
     THEN /\ mcList' = [mcList EXCEPT ![l].at = "done"]
          /\ mcTools' = mcCache.pages
     ELSE /\ mcList' = [mcList EXCEPT ![l].at = "first"]
          /\ UNCHANGED mcTools
  /\ UNCHANGED <<mcSetup, mcConnect, mcHttp, mcListed, mcNotes, mcNoted, mcCache, mcRaced>>

McFirstPage(l) ==
  /\ mcList[l].at = "first"
  /\ mcList' = [mcList EXCEPT ![l] = [at |-> "second", page |-> mcListed]]
  /\ UNCHANGED <<mcSetup, mcConnect, mcHttp, mcListed, mcNotes, mcNoted, mcCache, mcRaced, mcTools>>

(* McpResultCache.set: no hint stores nothing, a hint of 0 drops the entry *)
(* there is, and a list is as short-lived as its shortest-lived page.      *)
McStore(l, pages) ==
  \E ttl \in [1 .. 2 -> {"absent", "zero", "some"}] :
    mcCache' = IF \E p \in 1 .. 2 : ttl[p] = "zero" THEN McNoEntry
               ELSE IF \E p \in 1 .. 2 : ttl[p] = "some" THEN [by |-> l, pages |-> pages]
               ELSE mcCache

(* The last page, and the refresh of connectMcp: the array is emptied and  *)
(* filled in one turn.                                                     *)
McLastPage(l) ==
  /\ mcList[l].at = "second"
  /\ mcList' = [mcList EXCEPT ![l].at = "done"]
  /\ McStore(l, <<mcList[l].page, mcListed>>)
  /\ mcTools' = <<mcList[l].page, mcListed>>
  /\ UNCHANGED <<mcSetup, mcConnect, mcHttp, mcListed, mcNotes, mcNoted, mcRaced>>

(* An entry past its ttlMs is gone for get.                                *)
McExpires ==
  /\ mcCache.by # McNone
  /\ mcCache' = McNoEntry
  /\ UNCHANGED <<mcSetup, mcConnect, mcHttp, mcListed, mcNotes, mcNoted, mcList, mcRaced, mcTools>>

-----------------------------------------------------------------------------

McNext ==
  \/ McConnect \/ McConnectOutage \/ McDiscoverAnswered \/ McProbeTimesOut \/ McInitializeAnswered
  \/ \E c \in McCalls : \/ McSend(c) \/ McAnswered(c) \/ McInput(c) \/ McForgotten(c)
                        \/ McUnauthorized(c) \/ McReauthorized(c) \/ McReinitialized(c) \/ McRecovered(c)
  \/ McServerForgets
  \/ McListChanges \/ McExpires
  \/ \E v \in mcNotes : McNotified(v)
  \/ \E l \in McLists : McListStarts(l) \/ McFirstPage(l) \/ McLastPage(l)

McSpec == McInit /\ [][McNext]_mcVars

(* protocolMode auto (negotiateAuto) settles on an era the server speaks,  *)
(* transport and client agree on it, and, the network being up, it fails   *)
(* only against a server with no era in common: a refused or timed-out     *)
(* probe never turns away a server that names what it speaks.              *)
McAutoAgrees ==
  mcMode = "auto" =>
    /\ mcPc = "up" => mcVersion \in mcSrv.speaks /\ mcWireEra = mcVersion
    /\ mcPc = "failed" /\ ~mcOutage /\ mcSrv.names =>
         mcSrv.speaks \cap {"hand", "modern"} = {}

(* One recovery at a time: while a call rebuilds the session no other does *)
(* (the flag recovering), the flag is held exactly that long, and the      *)
(* session in use is one the server issued.                                *)
McOneRecovery ==
  LET at == {c \in McCalls : mcCall[c].at \in {"initialize", "initialized"}}
  IN  /\ Cardinality(at) <= 1
      /\ mcRecovering <=> at # {}

(* A cached listing older than the last handled change notification was    *)
(* stored by a listing that was under way when it came (paginate reads     *)
(* before its awaits and stores after them): nothing else survives the     *)
(* invalidation.                                                           *)
McOnlyRacedListsAreStale ==
  mcCache.by \notin mcRaced \cup {McNone} =>
    mcCache.pages[1] >= mcNoted /\ mcCache.pages[2] >= mcNoted

(* A call that meets a forgotten session while the client holds it fails   *)
(* only after a recovery was tried (transport-http.ts: "Re-initialize once *)
(* and replay").                                                           *)
McForgottenIsRebuilt ==
  [][\A c \in McCalls :
       McForgotten(c) /\ mcSession # 0 /\ ~mcRecovering /\ mcCall'[c].at = "failed"
       => mcCall[c].tried]_mcVars

=============================================================================
