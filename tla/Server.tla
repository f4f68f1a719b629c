------------------------------- MODULE Server -------------------------------
(***************************************************************************)
(* The OpenAI-compatible server (server/): requests are authenticated,     *)
(* routed, run on a conversation that is loaded before and saved after,    *)
(* and answered; several are in flight at once.  Beside them the           *)
(* ResponseStore: an LRU cache in front of a Persistence.                  *)
(***************************************************************************)
EXTENDS Integers, Sequences, SequencesExt, FiniteSets

CONSTANTS
  SvWorkloads,    \* sets of requests: [id, route, key, user, model, body, throws]
  SvModels,       \* models an entry can be registered for
  SvAuth,         \* is there an AuthPlugin
  SvAgentLoader,  \* does the agentLoader bring a loop of its own
  SvIds,          \* response ids of the store
  SvCapacity,     \* memoryCapacity
  SvPuts,         \* bound: puts into the store and deletes
  SvReads         \* bound: operations of the persistence under way

ASSUME SvAssumption ==
  /\ SvAuth \in BOOLEAN /\ SvAgentLoader \in BOOLEAN /\ SvCapacity \in Nat \ {0} /\ SvPuts \in Nat /\ SvReads \in Nat
  /\ \A w \in SvWorkloads : \A p, q \in w : p.id = q.id => p = q

VARIABLES
  svRequests,     \* the requests that come in
  svModels,       \* byModel
  svPhase,        \* where the handling of each request is
  svStatus,       \* the status of its response
  svTold,         \* statuses onServerResponse was emitted with
  svHistory,      \* the history it loaded
  svSaved,        \* conversations as the loader keeps them
  svOverlapped,   \* conversations two requests were in at once
  svCaptured,     \* the request whose response id dispatch captured
  svCache,        \* cache: <<id, value>> pairs, least recently used first
  svStored,       \* the persistence: id -> value, 0 for none
  svIo,           \* its operations under way
  svRaced,        \* ids whose operations overlapped, one a write, or a write of which failed
  svCount         \* values put so far

svRequestVars == <<svRequests, svModels, svPhase, svStatus, svTold, svHistory, svSaved, svOverlapped, svCaptured>>
svStoreVars == <<svCache, svStored, svIo, svRaced, svCount>>
svVars == <<svRequestVars, svStoreVars>>

(* BearerKeyAuth.verify: an unknown key throws.                            *)
SvVerifies(q) == SvAuth => q.key # "unknown"
SvUserId(q) == IF SvAuth THEN q.key ELSE "null"

(* The id of the conversation, and what the loader is asked for.           *)
SvConversationId(q) ==
  CASE q.user # "none" -> q.user
    [] q.user = "none" /\ SvAuth -> SvUserId(q)
    [] OTHER -> q.model            \* default:<model>
SvConversation(q) == <<SvUserId(q), SvConversationId(q)>>
SvConversations == {SvConversation(q) : q \in UNION SvWorkloads}

SvInit ==
  /\ svRequests \in SvWorkloads
  /\ svModels = SvModels
  /\ svPhase = [q \in svRequests |-> "new"]
  /\ svStatus = [q \in svRequests |-> 0] /\ svTold = [q \in svRequests |-> <<>>]
  /\ svHistory = [q \in svRequests |-> <<>>]
  /\ svSaved = [c \in SvConversations |-> <<>>] /\ svOverlapped = {}
  /\ svCaptured = [q \in svRequests |-> {}]
  /\ svCache = <<>> /\ svStored = [i \in SvIds |-> 0] /\ svIo = <<>> /\ svRaced = {} /\ svCount = 0

SvAnswer(q, status) ==
  /\ svPhase' = [svPhase EXCEPT ![q] = "answer"]
  /\ svStatus' = [svStatus EXCEPT ![q] = status]

(* register throws for a model that is there; unregister drops it.         *)
SvRegister(m) ==
  /\ m \notin svModels /\ svModels' = svModels \cup {m}
  /\ UNCHANGED <<svRequests, svPhase, svStatus, svTold, svHistory, svSaved, svOverlapped, svCaptured, svStoreVars>>
SvUnregister(m) ==
  /\ m \in svModels /\ svModels' = svModels \ {m}
  /\ UNCHANGED <<svRequests, svPhase, svStatus, svTold, svHistory, svSaved, svOverlapped, svCaptured, svStoreVars>>

(* handle: the key is checked, then onServerRequest.  A hook that throws   *)
(* makes it a 500, also where a 401 was due (q.throws: the hook that does).*)
SvAuthenticate(q) ==
  /\ svPhase[q] = "new"
  /\ \/ ~SvVerifies(q) /\ q.throws = "onAuthFail" /\ SvAnswer(q, 500)
     \/ /\ ~SvVerifies(q) /\ q.throws # "onAuthFail"
        /\ svPhase' = [svPhase EXCEPT ![q] = "refuse"] /\ svStatus' = [svStatus EXCEPT ![q] = 401]
     \/ SvVerifies(q) /\ q.throws = "onServerRequest" /\ SvAnswer(q, 500)
     \/ /\ SvVerifies(q) /\ q.throws # "onServerRequest"
        /\ svPhase' = [svPhase EXCEPT ![q] = "route"] /\ UNCHANGED svStatus
  /\ UNCHANGED <<svRequests, svModels, svTold, svHistory, svSaved, svOverlapped, svCaptured, svStoreVars>>

(* A 401 is reported inside the try: onServerResponse that throws at it    *)
(* makes it a 500, which is then reported like any other status.           *)
SvRefuse(q) ==
  /\ svPhase[q] = "refuse"
  /\ svTold' = [svTold EXCEPT ![q] = Append(@, svStatus[q])]
  /\ \/ svPhase' = [svPhase EXCEPT ![q] = "done"] /\ UNCHANGED svStatus
     \/ q.throws = "onServerResponse" /\ SvAnswer(q, 500)
  /\ UNCHANGED <<svRequests, svModels, svHistory, svSaved, svOverlapped, svCaptured, svStoreVars>>

(* The routes; a chat body is validated, its model resolved, and its last  *)
(* user message taken.                                                     *)
SvValid(q) == q.body # "malformed"
SvHasUserText(q) == q.body # "no_user"
SvRoute(q) ==
  /\ svPhase[q] = "route"
  /\ \/ q.route = "options" /\ SvAnswer(q, 204)
     \/ q.route \in {"health", "models"} /\ SvAnswer(q, 200)
     \/ q.route = "other" /\ SvAnswer(q, 404)
     \/ q.route = "chat" /\ ~SvValid(q) /\ SvAnswer(q, 400)
     \/ q.route = "chat" /\ SvValid(q) /\ q.model \notin svModels /\ SvAnswer(q, 404)
     \/ q.route = "chat" /\ SvValid(q) /\ q.model \in svModels /\ ~SvHasUserText(q) /\ SvAnswer(q, 400)
     \/ /\ q.route = "chat" /\ SvValid(q) /\ q.model \in svModels /\ SvHasUserText(q)
        /\ svPhase' = [svPhase EXCEPT ![q] = "load"] /\ UNCHANGED svStatus
  /\ UNCHANGED <<svRequests, svModels, svTold, svHistory, svSaved, svOverlapped, svCaptured, svStoreVars>>

SvInside(p, q) == p # q /\ svPhase[p] \in {"run", "save"} /\ SvConversation(p) = SvConversation(q)

SvLoadNothing(q) == <<>>
(* conversationLoader.load: what was saved last.                           *)
SvLoaded(q) == svSaved[SvConversation(q)]

SvLoad(q) ==
  /\ svPhase[q] = "load"
  /\ svPhase' = [svPhase EXCEPT ![q] = "run"]
  /\ svHistory' = [svHistory EXCEPT ![q] = SvLoaded(q)]
  /\ svOverlapped' = svOverlapped \cup {SvConversation(p) : p \in {p \in svRequests : SvInside(p, q)}}
  /\ UNCHANGED <<svRequests, svModels, svStatus, svTold, svSaved, svCaptured, svStoreVars>>

(* dispatch: the turn goes into the history of the loop that runs: the one *)
(* made for the request, or the loader's own.  Every dispatch of the same  *)
(* model that is under way sees the completion on the shared hooks.        *)
SvListens(p, q) == svPhase[p] = "run" /\ p.model = q.model
SvTurn(q) == IF SvAgentLoader THEN svHistory[q] ELSE Append(svHistory[q], q.id)
SvDispatch(q) ==
  /\ svPhase[q] = "run"
  /\ \/ /\ svHistory' = [svHistory EXCEPT ![q] = SvTurn(q)]
        /\ svCaptured' = [p \in svRequests |-> IF SvListens(p, q) THEN {q.id} ELSE svCaptured[p]]
        /\ svPhase' = [svPhase EXCEPT ![q] = "save"] /\ UNCHANGED svStatus
     \/ SvAnswer(q, 400) /\ UNCHANGED <<svHistory, svCaptured>>       \* the run fails: 400
  /\ UNCHANGED <<svRequests, svModels, svTold, svSaved, svOverlapped, svStoreVars>>

SvSave(q) ==
  /\ svPhase[q] = "save"
  /\ svSaved' = [svSaved EXCEPT ![SvConversation(q)] = svHistory[q]]
  /\ SvAnswer(q, 200)
  /\ UNCHANGED <<svRequests, svModels, svTold, svHistory, svOverlapped, svCaptured, svStoreVars>>

(* emitResponse of every other status, outside the try: a hook that throws *)
(* fails the whole call.                                                   *)
SvRespond(q) ==
  /\ svPhase[q] = "answer"
  /\ svTold' = [svTold EXCEPT ![q] = Append(@, svStatus[q])]
  /\ \/ svPhase' = [svPhase EXCEPT ![q] = "done"]
     \/ q.throws = "onServerResponse" /\ svPhase' = [svPhase EXCEPT ![q] = "failed"]
  /\ UNCHANGED <<svRequests, svModels, svStatus, svHistory, svSaved, svOverlapped, svCaptured, svStoreVars>>

---------------------------------------------------------------------------
(* The ResponseStore.                                                      *)
SvCached(i) == \E e \in ToSet(svCache) : e[1] = i
SvCacheValue(i) == (CHOOSE e \in ToSet(svCache) : e[1] = i)[2]

SvCacheWithout(i) ==
  IF SvCached(i) THEN RemoveAt(svCache, CHOOSE n \in DOMAIN svCache : svCache[n][1] = i) ELSE svCache
SvPutBeforeEvicting(i, v) ==
  Append(SubSeq(SvCacheWithout(i), IF Len(svCache) > SvCapacity THEN 2 ELSE 1, Len(SvCacheWithout(i))), <<i, v>>)
(* putInCache: to the young end, and the oldest fall out.                  *)
SvPutInCache(i, v) ==
  LET c == Append(SvCacheWithout(i), <<i, v>>)
  IN SubSeq(c, IF Len(c) > SvCapacity THEN Len(c) - SvCapacity + 1 ELSE 1, Len(c))

SvIssue(op, i, v) == svIo' = Append(svIo, <<op, i, v>>)

(* An operation overlaps one on the same id that is under way: of the two, *)
(* one is a write.                                                         *)
SvUnderWay(ops) == {svIo[n][2] : n \in {n \in DOMAIN svIo : svIo[n][1] \in ops}}
SvOverlaps(op, i) == i \in SvUnderWay({"set", "delete"} \cup (IF op = "get" THEN {} ELSE {"get"}))
SvNoteOverlap(op, i) == svRaced' = IF SvOverlaps(op, i) THEN svRaced \cup {i} ELSE svRaced

(* get: the cache, made young; or the persistence.                         *)
SvGet(i) ==
  /\ \/ SvCached(i) /\ svCache' = SvPutInCache(i, SvCacheValue(i)) /\ UNCHANGED <<svIo, svRaced>>
     \/ /\ ~SvCached(i) /\ Len(svIo) < SvReads /\ SvIssue("get", i, 0) /\ UNCHANGED svCache
        /\ SvNoteOverlap("get", i)
  /\ UNCHANGED <<svStored, svCount, svRequestVars>>

SvPut(i) ==
  /\ svCount < SvPuts /\ svCount' = svCount + 1
  /\ svCache' = SvPutInCache(i, svCount') /\ SvIssue("set", i, svCount') /\ SvNoteOverlap("set", i)
  /\ UNCHANGED <<svStored, svRequestVars>>

SvDelete(i) ==
  /\ svCount < SvPuts /\ svCount' = svCount + 1
  /\ svCache' = SvCacheWithout(i) /\ SvIssue("delete", i, 0) /\ SvNoteOverlap("delete", i)
  /\ UNCHANGED <<svStored, svRequestVars>>

(* The persistence ends its operations in any order; a get then fills the  *)
(* cache with what it read, without looking at it again.                   *)
SvLand(n) ==
  /\ svIo' = RemoveAt(svIo, n)
  /\ LET op == svIo[n] i == op[2] IN
       /\ svStored' = IF op[1] = "get" THEN svStored ELSE [svStored EXCEPT ![i] = op[3]]
       /\ svCache' = IF op[1] = "get" /\ svStored[i] # 0 THEN SvPutInCache(i, svStored[i]) ELSE svCache
  /\ UNCHANGED <<svRaced, svCount, svRequestVars>>

(* One fails: the call rejects, and the cache stays as it is.              *)
SvFail(n) ==
  /\ svIo' = RemoveAt(svIo, n)
  /\ svRaced' = IF svIo[n][1] = "get" THEN svRaced ELSE svRaced \cup {svIo[n][2]}
  /\ UNCHANGED <<svCache, svStored, svCount, svRequestVars>>

(* A new process: the cache is gone, and so is what had not landed.        *)
SvRestart ==
  /\ svCache # <<>> /\ svCache' = <<>> /\ svIo' = <<>> /\ svRaced' = {}
  /\ UNCHANGED <<svStored, svCount, svRequestVars>>

---------------------------------------------------------------------------
SvRequestNext ==
  \/ \E m \in SvModels : SvRegister(m) \/ SvUnregister(m)
  \/ \E q \in svRequests : 
       \/ SvAuthenticate(q) \/ SvRefuse(q) \/ SvRoute(q) \/ SvLoad(q) \/ SvDispatch(q) \/ SvSave(q) \/ SvRespond(q)
SvStoreNext ==
  \/ \E i \in SvIds : SvGet(i) \/ SvPut(i) \/ SvDelete(i)
  \/ \E n \in DOMAIN svIo : SvLand(n) \/ SvFail(n)
  \/ SvRestart

SvTypeOK ==
  /\ svModels \subseteq SvModels
  /\ \A q \in svRequests :
       /\ svPhase[q] \in {"new", "refuse", "route", "load", "run", "save", "answer", "done", "failed"}
       /\ svStatus[q] \in {0, 200, 204, 400, 401, 404, 500}
  /\ svOverlapped \subseteq SvConversations
  /\ Len(svCache) <= SvCapacity /\ svRaced \subseteq SvIds /\ svCount \in 0 .. SvPuts

(* What a conversation keeps: unless two requests were in it at once, its  *)
(* saved history holds the turn of every chat the server answered with     *)
(* 200, each once, and no turn of another conversation                     *)
(* (handleChatCompletions loads, runs and saves with nothing between).     *)
SvTurnsKept ==
  \A c \in SvConversations :
    LET chats == {q \in svRequests : q.route = "chat" /\ SvConversation(q) = c}
        answered == {q \in chats : svPhase[q] \in {"answer", "done", "failed"} /\ svStatus[q] = 200}
    IN /\ IsInjective(svSaved[c])
       /\ ToSet(svSaved[c]) \subseteq {q.id : q \in chats}
       /\ c \notin svOverlapped /\ ~SvAgentLoader => ToSet(svSaved[c]) = {q.id : q \in answered}

(* Each request is reported to onServerResponse once, with the status the  *)
(* client gets: but for a refused one whose report a hook threw at, which  *)
(* is reported twice, as the 401 it was and as the 500 the client gets.    *)
(* Only an authenticated one reaches a conversation (handle).              *)
SvToldTwice(q) == q.throws = "onServerResponse" /\ ~SvVerifies(q) /\ svStatus[q] = 500
SvReportsAgree ==
  \A q \in svRequests :
    /\ svPhase[q] \in {"done", "failed"} => svTold[q] = <<svStatus[q]>> \/ (SvToldTwice(q) /\ svTold[q] = <<401, 500>>)
    /\ \A c \in SvConversations : q.id \in ToSet(svSaved[c]) => SvVerifies(q)

(* The cache tells what the persistence holds once the operations on an id *)
(* have landed: except where two of them, one a write, were under way at   *)
(* once (a late read then overwrites the newer entry, and two writes may   *)
(* land the other way round), or a write failed after the cache had it.    *)
SvStoreAgrees ==
  \A i \in SvIds :
    SvCached(i) /\ i \notin svRaced /\ (\A n \in DOMAIN svIo : svIo[n][2] # i) => SvCacheValue(i) = svStored[i]

SvFaithful == SvTurnsKept /\ SvReportsAgree /\ SvStoreAgrees
=============================================================================
