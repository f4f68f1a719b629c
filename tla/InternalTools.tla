--------------------------- MODULE InternalTools ---------------------------
(***************************************************************************)
(* Internal tools (plugins/internal-tools/): the registry that merges the  *)
(* tools of its backends into a cache built over awaits (Rg), and the      *)
(* runner that tries a tool on one model after another with a client from  *)
(* its pool (It).                                                          *)
(***************************************************************************)
EXTENDS Integers, Sequences, FiniteSets, SequencesExt

CONSTANTS
  RgBackends,    \* names of backends
  RgTools,       \* tool ids
  RgLookups,     \* lookups: [id, tool]
  RgChanges,     \* bound: changes of the registry
  ItRuns,        \* runs: [id, models], models in resolveModels' order, <<>> for a tool without one
  ItProvider,    \* model -> provider
  ItKeys,        \* providers with an API key
  ItDedicated    \* models that require a client of their own

ASSUME RgAssumption == RgChanges \in Nat
ASSUME ItAssumption ==
  ItDedicated \subseteq DOMAIN ItProvider /\ \A r \in ItRuns : r.models \in Seq(DOMAIN ItProvider)

VARIABLES
  rgBackends,    \* the backends, in registration order
  rgHas,         \* backend -> the tools it has now
  rgCache,       \* {} when null, else {the map: tool -> backend}
  rgAt,          \* lookup -> [phase, i, map, found, stale]
  rgStale,       \* the cache misses a change made while or after it was built
  rgCount,
  itAt,          \* run -> [phase, i, model]
  itPool,        \* pool key -> the model its client is pinned to
  itTold,        \* run -> [event, model] told by hooks, in order
  itDone         \* run -> times tool.execute succeeded

rgVars == <<rgBackends, rgHas, rgCache, rgAt, rgStale, rgCount>>
itVars == <<itAt, itPool, itTold, itDone>>

-----------------------------------------------------------------------------
(* ToolRegistry.                                                           *)
RgNoMap == [t \in {} |-> "none"]
RgInit ==
  /\ rgBackends = <<>> /\ rgHas = [b \in RgBackends |-> {}] /\ rgCache = {} /\ rgStale = FALSE /\ rgCount = 0
  /\ rgAt = [l \in RgLookups |-> [phase |-> "idle", i |-> 0, map |-> RgNoMap, found |-> {}, stale |-> FALSE]]
(* for each backend in order, a tool that is not there yet                 *)
RgOverride(map, b, tools) == [t \in DOMAIN map \cup tools |-> IF t \in tools THEN b ELSE map[t]]
RgMerge(map, b, tools) == [t \in DOMAIN map \cup tools |-> IF t \in DOMAIN map THEN map[t] ELSE b]

RgBuilding(l) == rgAt[l].phase = "build"
(* A change while a cache is being built leaves that build stale.          *)
RgTaint == rgAt' = [l \in RgLookups |-> IF RgBuilding(l) THEN [rgAt[l] EXCEPT !.stale = TRUE] ELSE rgAt[l]]
RgChanged == rgCount < RgChanges /\ rgCount' = rgCount + 1 /\ RgTaint
(* addBackend and removeBackend invalidate.                                *)
RgAddBackend(b) ==
  /\ RgChanged /\ \A n \in 1 .. Len(rgBackends) : rgBackends[n] # b
  /\ rgBackends' = Append(rgBackends, b) /\ rgCache' = {} /\ rgStale' = FALSE /\ UNCHANGED rgHas
RgRemoveBackend(b) ==
  /\ RgChanged
  /\ \E n \in 1 .. Len(rgBackends) :
       /\ rgBackends[n] = b /\ \A k \in 1 .. n - 1 : rgBackends[k] # b
       /\ rgBackends' = RemoveAt(rgBackends, n)
  /\ rgCache' = {} /\ rgStale' = FALSE /\ UNCHANGED rgHas
(* LocalBackend.register does not know of the registry's cache.            *)
RgRegister(b, t) ==
  /\ RgChanged /\ t \notin rgHas[b] /\ rgHas' = [rgHas EXCEPT ![b] = @ \cup {t}]
  /\ rgStale' = (rgStale \/ rgCache # {}) /\ UNCHANGED <<rgBackends, rgCache>>

(* ensureCache: nothing when there is one; else a new map, one awaited     *)
(* list per backend, walked by index over the array as it is then.         *)
RgLookup(l) ==
  /\ rgAt[l].phase = "idle"
  /\ rgAt' = [rgAt EXCEPT ![l].phase = IF rgCache # {} THEN "read" ELSE "build", ![l].i = 1]
  /\ UNCHANGED <<rgBackends, rgHas, rgCache, rgStale, rgCount>>
RgList(l) ==
  /\ RgBuilding(l)
  /\ \/ /\ rgAt[l].i <= Len(rgBackends)
        /\ LET b == rgBackends[rgAt[l].i] IN
           rgAt' = [rgAt EXCEPT ![l].i = @ + 1, ![l].map = RgMerge(@, b, rgHas[b])]
        /\ UNCHANGED <<rgCache, rgStale>>
     \/ /\ rgAt[l].i > Len(rgBackends)
        /\ rgCache' = {rgAt[l].map} /\ rgStale' = rgAt[l].stale
        /\ rgAt' = [rgAt EXCEPT ![l].phase = "read"]
  /\ UNCHANGED <<rgBackends, rgHas, rgCount>>
(* this.cache!.get(id): a cache dropped in between makes it throw.         *)
RgRead(l) ==
  /\ rgAt[l].phase = "read"
  /\ \/ /\ rgCache = {} /\ rgAt' = [rgAt EXCEPT ![l].phase = "threw", ![l].map = RgNoMap]
     \/ \E map \in rgCache :
          rgAt' = [rgAt EXCEPT ![l].phase = "done", ![l].map = RgNoMap,
                               ![l].found = IF l.tool \in DOMAIN map THEN {map[l.tool]} ELSE {}]
  /\ UNCHANGED <<rgBackends, rgHas, rgCache, rgStale, rgCount>>

RgNext ==
  \/ \E b \in RgBackends : RgAddBackend(b) \/ RgRemoveBackend(b) \/ \E t \in RgTools : RgRegister(b, t)
  \/ \E l \in RgLookups : RgLookup(l) \/ RgList(l) \/ RgRead(l)

-----------------------------------------------------------------------------
(* InternalToolRunner.                                                     *)
ItInit ==
  /\ itAt = [r \in ItRuns |-> [phase |-> "idle", i |-> 0, hookThrew |-> FALSE]]
  /\ itPool = <<>> /\ itTold = [r \in ItRuns |-> <<>>] /\ itDone = [r \in ItRuns |-> 0]

ItHasKey(m) == ItProvider[m] \in ItKeys
ItGo(r, phase) == itAt' = [itAt EXCEPT ![r].phase = phase]
ItTell(r, event, m) == itTold' = [itTold EXCEPT ![r] = Append(@, [event |-> event, model |-> m])]
ItModel(r) == IF r.models = <<>> THEN "none" ELSE r.models[itAt[r].i]
(* runDirect: the input is checked, the models resolved, and a tool with   *)
(* models needs a key for one of their providers.                          *)
ItRun(r) ==
  /\ itAt[r].phase = "idle"
  /\ \/ ItGo(r, "threw") /\ UNCHANGED itTold                                  \* validateInput
     \/ r.models = <<>> /\ ItGo(r, "execute") /\ ItTell(r, "start", "none")
     \/ /\ r.models # <<>>
        /\ itAt' = [itAt EXCEPT ![r].phase = IF \E n \in 1 .. Len(r.models) : ItHasKey(r.models[n]) THEN "pick" ELSE "threw", ![r].i = 1]
        /\ UNCHANGED itTold
  /\ UNCHANGED <<itPool, itDone>>
(* getClient: pooled by provider, or by model where the catalog says so.   *)
ItPoolKey(m) == IF m \in ItDedicated THEN m ELSE ItProvider[m]
ItWithClient(m) ==
  IF ItPoolKey(m) \in DOMAIN itPool THEN itPool
  ELSE [k \in DOMAIN itPool \cup {ItPoolKey(m)} |-> IF k = ItPoolKey(m) THEN m ELSE itPool[k]]
(* executeLLM: past models without a key; out when none is left.           *)
ItPick(r) ==
  /\ itAt[r].phase = "pick"
  /\ \/ /\ itAt[r].i > Len(r.models) /\ ItGo(r, "threw") /\ UNCHANGED <<itPool, itTold>>
     \/ /\ itAt[r].i <= Len(r.models) /\ ~ItHasKey(ItModel(r))
        /\ itAt' = [itAt EXCEPT ![r].i = @ + 1] /\ UNCHANGED <<itPool, itTold>>
     \/ /\ itAt[r].i <= Len(r.models) /\ ItHasKey(ItModel(r))
        /\ itPool' = ItWithClient(ItModel(r)) /\ ItTell(r, "start", ItModel(r)) /\ ItGo(r, "execute")
  /\ UNCHANGED itDone

ItForgetsError(r) == UNCHANGED itTold
ItTellError(r) == ItTell(r, "error", ItModel(r))
(* The tool throws: told, and the next model; without models it is over.   *)
ItFails(r) ==
  /\ itAt[r].phase = "execute" /\ ItTellError(r)
  /\ itAt' = [itAt EXCEPT ![r].phase = IF r.models = <<>> THEN "threw" ELSE "pick", ![r].i = @ + 1]
  /\ UNCHANGED <<itPool, itDone>>
(* It answers (an output of another type is only warned about), and the    *)
(* answer is told.                                                         *)
ItSucceeds(r) ==
  /\ itAt[r].phase = "execute" /\ ItGo(r, "tell") /\ itDone' = [itDone EXCEPT ![r] = @ + 1]
  /\ UNCHANGED <<itPool, itTold>>
(* The completion hook is awaited inside the same try: if one throws, the  *)
(* tool counts as failed and is run again on the next model.               *)
ItTells(r) ==
  /\ itAt[r].phase = "tell"
  /\ \/ ItTell(r, "complete", ItModel(r)) /\ ItGo(r, "done")
     \/ /\ ItTellError(r)
        /\ itAt' = [itAt EXCEPT ![r].phase = IF r.models = <<>> THEN "threw" ELSE "pick", ![r].i = @ + 1, ![r].hookThrew = TRUE]
  /\ UNCHANGED <<itPool, itDone>>
ItDestroy ==
  /\ itPool # <<>> /\ itPool' = <<>> /\ UNCHANGED <<itAt, itTold, itDone>>

ItNext ==
  \/ \E r \in ItRuns : ItRun(r) \/ ItPick(r) \/ ItFails(r) \/ ItSucceeds(r) \/ ItTells(r)
  \/ ItDestroy

-----------------------------------------------------------------------------
ItTypeOK ==
  /\ Cardinality(rgCache) <= 1 /\ rgCount \in 0 .. RgChanges
  /\ \A l \in RgLookups : rgAt[l].phase \in {"idle", "build", "read", "done", "threw"}
  /\ \A r \in ItRuns : itAt[r].phase \in {"idle", "pick", "execute", "tell", "done", "threw"}

(* A cache that saw every change agrees with the backends as they are: a   *)
(* tool comes from the first backend that has it, in registration order.   *)
RgFirst(t) ==
  LET having == {n \in 1 .. Len(rgBackends) : t \in rgHas[rgBackends[n]]}
  IN  rgBackends[CHOOSE n \in having : \A k \in having : n <= k]
RgHad == UNION {rgHas[rgBackends[n]] : n \in 1 .. Len(rgBackends)}
RgCacheAgrees == (rgCache # {} /\ ~rgStale) => rgCache = {[t \in RgHad |-> RgFirst(t)]}

(* What the hooks tell of a run is a list of starts, each closed by one    *)
(* complete or error of the same model before the next; the models come in *)
(* the order of preference, none twice and none without a key; and a run   *)
(* that ended has nothing open.                                            *)
ItStoryHolds ==
  \A r \in ItRuns : LET told == itTold[r] IN
    /\ \A n \in 1 .. Len(told) :
         /\ (told[n].event = "start") <=> (n % 2 = 1)
         /\ n % 2 = 0 => told[n].model = told[n - 1].model
         /\ told[n].event = "complete" => n = Len(told)
         /\ r.models # <<>> => ItHasKey(told[n].model)
    /\ itAt[r].phase \in {"done", "threw"} => Len(told) % 2 = 0
    /\ r.models # <<>> =>
         \A n, m \in 1 .. Len(told) : (n < m /\ told[n].event = "start" /\ told[m].event = "start") =>
           \E i, j \in 1 .. Len(r.models) : i < j /\ r.models[i] = told[n].model /\ r.models[j] = told[m].model
(* A tool that answered is not run again, unless a handler of the          *)
(* completion hook threw.                                                  *)
ItRunsOnce == \A r \in ItRuns : itDone[r] > 1 => itAt[r].hookThrew

ItFaithful == RgCacheAgrees /\ ItStoryHolds /\ ItRunsOnce
=============================================================================
