------------------------------ MODULE Stores -------------------------------
(***************************************************************************)
(* The response cache over its two stores (plugins/cache/), the files the  *)
(* file store keeps its keys in (plugins/persistence/file.ts), and named   *)
(* configurations with inheritance (plugins/configuration/).  Every call   *)
(* of a store is awaited; between the calls of one operation the other     *)
(* operations run.                                                         *)
(***************************************************************************)
EXTENDS Integers, Sequences, FiniteSets, SequencesExt

CONSTANTS
  ChStores,      \* which store backs the cache: "memory" or "file"
  ChNames,       \* cache names: sequences of segments, what ':' would split
  ChKeys,        \* cache keys: sequences of segments
  ChWide,        \* segments with a character above 0xff
  ChTtl,         \* ticks an entry lives
  ChEnd,         \* bound: the clock's last tick
  ChOps,         \* bound: operations begun
  CfNames,       \* configuration names
  CfSettings,    \* settings an entry can have: functions from fields to values
  CfOps          \* bound: changes made

ASSUME ChAssumption == ChTtl \in Nat /\ ChEnd \in Nat /\ ChOps \in Nat
ASSUME ChShapes == \A s \in ChNames \cup ChKeys : s \in Seq(ToSet(s))
ASSUME CfAssumption == CfOps \in Nat

VARIABLES
  chKind, chClock,
  chStore,       \* storage key -> [body, storedAt]
  chJobs,        \* operations begun: [op, at, phase, ...]; their number is the body a set stores
  chGot,         \* what gets returned: [key, job, body, at]
  cfEntries, cfParents,
  cfSaved,       \* the records in the persistence: at most one [entries, parents]
  cfCount

chVars == <<chKind, chClock, chStore, chJobs, chGot>>
cfVars == <<cfEntries, cfParents, cfSaved, cfCount>>

ChInit == chKind \in ChStores /\ chClock = 0 /\ chStore = <<>> /\ chJobs = <<>> /\ chGot = {}

-----------------------------------------------------------------------------
(* Keys.  makeStorageKey joins name and key with the ':' that also stands  *)
(* inside them; parseStorageKey takes the first segment for the name.      *)
ChStorageKey(name, key) == name \o key
ChParsedName(sk) == <<Head(sk)>>
ChParsedKey(sk) == Tail(sk)
(* encodeKey writes a wide character as % and four digits; decodeKey reads *)
(* two of them: list() gives back another key.  The memory store keeps it. *)
ChDecoded(sk) == [i \in 1 .. Len(sk) |-> IF sk[i] \in ChWide THEN "mangled" ELSE sk[i]]
ChListed == {IF chKind = "file" THEN ChDecoded(sk) ELSE sk : sk \in DOMAIN chStore}

ChPut(store, sk, entry) == [x \in DOMAIN store \cup {sk} |-> IF x = sk THEN entry ELSE store[x]]
ChDrop(store, sk) == [x \in DOMAIN store \ {sk} |-> store[x]]

ChExpiredNever(entry) == FALSE
ChIsExpired(entry) == chClock - entry.storedAt > ChTtl

-----------------------------------------------------------------------------
(* Operations: begun at once, and each store call is a step of its own.    *)
ChBegin(job) ==
  /\ Len(chJobs) < ChOps /\ chJobs' = Append(chJobs, job)
  /\ UNCHANGED <<chKind, chClock, chStore, chGot>>
ChBeginGet(sk) == ChBegin([op |-> "get", sk |-> sk, phase |-> "call"])
(* The entry is stamped when set is called, and stored later.              *)
ChBeginSet(sk) == ChBegin([op |-> "set", sk |-> sk, phase |-> "call", storedAt |-> chClock])
ChBeginDelete(sk) == ChBegin([op |-> "delete", sk |-> sk, phase |-> "call"])
ChBeginInvalidate(name, prefix) ==
  ChBegin([op |-> "invalidate", name |-> name, prefix |-> prefix, phase |-> "keys", left |-> {}, seen |-> <<>>])
ChBeginClear == ChBegin([op |-> "clear", phase |-> "keys", left |-> {}, seen |-> <<>>])

ChPhase(j, phase) == [chJobs EXCEPT ![j].phase = phase]

(* get: what the store gives is looked at, and an expired entry is deleted *)
(* by its key in a second call.                                            *)
ChGet(j) ==
  LET job == chJobs[j] IN
  /\ job.op = "get" /\ job.phase = "call"
  /\ \/ job.sk \notin DOMAIN chStore /\ chJobs' = ChPhase(j, "done") /\ UNCHANGED chGot
     \/ /\ job.sk \in DOMAIN chStore
        /\ IF ChIsExpired(chStore[job.sk])
           THEN chJobs' = ChPhase(j, "drop") /\ UNCHANGED chGot
           ELSE /\ chJobs' = ChPhase(j, "done")
                /\ chGot' = chGot \cup {[sk |-> job.sk, body |-> chStore[job.sk].body, at |-> chClock]}
  /\ UNCHANGED <<chKind, chClock, chStore>>
ChGetDrops(j) ==
  /\ chJobs[j].op = "get" /\ chJobs[j].phase = "drop"
  /\ chStore' = ChDrop(chStore, chJobs[j].sk) /\ chJobs' = ChPhase(j, "done")
  /\ UNCHANGED <<chKind, chClock, chGot>>
ChSet(j) ==
  /\ chJobs[j].op = "set" /\ chJobs[j].phase = "call"
  /\ chStore' = ChPut(chStore, chJobs[j].sk, [body |-> j, storedAt |-> chJobs[j].storedAt])
  /\ chJobs' = ChPhase(j, "done") /\ UNCHANGED <<chKind, chClock, chGot>>
ChDelete(j) ==
  /\ chJobs[j].op = "delete" /\ chJobs[j].phase = "call"
  /\ chStore' = ChDrop(chStore, chJobs[j].sk) /\ chJobs' = ChPhase(j, "done")
  /\ UNCHANGED <<chKind, chClock, chGot>>

(* invalidate: the keys as they are now, then one deletion after another.  *)
ChInScope(job, sk) == ChParsedName(sk) = job.name /\ IsPrefix(job.prefix, ChParsedKey(sk))
ChListKeys(j) ==
  LET job == chJobs[j]
      keys == IF job.op = "clear" THEN ChListed ELSE {sk \in ChListed : ChInScope(job, sk)}
  IN  /\ job.op \in {"invalidate", "clear"} /\ job.phase = "keys"
      /\ \/ /\ job.op = "clear" /\ chKind = "memory"                          \* Map.clear, at once
            /\ chStore' = <<>> /\ chJobs' = ChPhase(j, "done")
         \/ /\ ~(job.op = "clear" /\ chKind = "memory")
            /\ chJobs' = [chJobs EXCEPT ![j].phase = "deleting", ![j].left = keys, ![j].seen = chStore]
            /\ UNCHANGED chStore
      /\ UNCHANGED <<chKind, chClock, chGot>>
ChDeleteOne(j) ==
  /\ chJobs[j].op \in {"invalidate", "clear"} /\ chJobs[j].phase = "deleting"
  /\ \/ /\ chJobs[j].left = {} /\ chJobs' = ChPhase(j, "done") /\ UNCHANGED chStore
     \/ \E sk \in chJobs[j].left :
          /\ chStore' = ChDrop(chStore, sk) /\ chJobs' = [chJobs EXCEPT ![j].left = @ \ {sk}]
  /\ UNCHANGED <<chKind, chClock, chGot>>

ChTick == chClock < ChEnd /\ chClock' = chClock + 1 /\ UNCHANGED <<chKind, chStore, chJobs, chGot>>

ChNext ==
  \/ \E name \in ChNames, key \in ChKeys :
       LET sk == ChStorageKey(name, key) IN ChBeginGet(sk) \/ ChBeginSet(sk) \/ ChBeginDelete(sk)
  \/ \E name \in ChNames, prefix \in ChKeys : ChBeginInvalidate(name, prefix)
  \/ ChBeginClear
  \/ \E j \in 1 .. Len(chJobs) : ChGet(j) \/ ChGetDrops(j) \/ ChSet(j) \/ ChDelete(j) \/ ChListKeys(j) \/ ChDeleteOne(j)
  \/ ChTick

-----------------------------------------------------------------------------
(* ConfigurationPlugin.                                                    *)
CfInit == cfEntries = <<>> /\ cfParents = <<>> /\ cfSaved = {} /\ cfCount = 0

CfHas(name) == name \in DOMAIN cfEntries \cup DOMAIN cfParents
CfChanged == cfCount < CfOps /\ cfCount' = cfCount + 1

CfSet(name, settings) ==
  /\ CfChanged /\ cfEntries' = ChPut(cfEntries, name, settings)
  /\ UNCHANGED <<cfParents, cfSaved>>
(* extend throws on an unknown base, and takes any other: a name may be    *)
(* made its own ancestor.                                                  *)
CfExtend(base, name, overrides) ==
  /\ CfChanged /\ CfHas(base)
  /\ cfParents' = ChPut(cfParents, name, base) /\ cfEntries' = ChPut(cfEntries, name, overrides)
  /\ UNCHANGED cfSaved
CfDelete(name) ==
  /\ CfChanged /\ CfHas(name)
  /\ cfEntries' = ChDrop(cfEntries, name) /\ cfParents' = ChDrop(cfParents, name)
  /\ UNCHANGED cfSaved
(* serialize and save; load and deserialize, which replaces everything.    *)
CfSave ==
  /\ CfChanged /\ cfSaved' = {[entries |-> cfEntries, parents |-> cfParents]} /\ UNCHANGED <<cfEntries, cfParents>>
CfLoad ==
  /\ CfChanged /\ UNCHANGED cfSaved
  /\ \E data \in cfSaved : cfEntries' = data.entries /\ cfParents' = data.parents

CfNext ==
  \/ \E name \in CfNames, settings \in CfSettings : CfSet(name, settings) \/ \E base \in CfNames : CfExtend(base, name, settings)
  \/ \E name \in CfNames : CfDelete(name)
  \/ CfSave \/ CfLoad

(* get: up the parents until there is none or one is met again, then the   *)
(* layers laid over each other, the name's own last.                       *)
CfChain(name) ==
  LET chain[n \in CfNames, seen \in SUBSET CfNames] ==
        IF n \in seen THEN <<>>
        ELSE (IF n \in DOMAIN cfParents THEN chain[cfParents[n], seen \cup {n}] ELSE <<>>)
               \o (IF n \in DOMAIN cfEntries THEN <<cfEntries[n]>> ELSE <<>>)
  IN  chain[name, {}]
CfAssignUnder(below, above) == [x \in DOMAIN below \cup DOMAIN above |-> IF x \in DOMAIN below THEN below[x] ELSE above[x]]
CfAssign(below, above) == [x \in DOMAIN below \cup DOMAIN above |-> IF x \in DOMAIN above THEN above[x] ELSE below[x]]
CfGet(name) == FoldLeft(LAMBDA merged, layer : CfAssign(merged, layer), <<>>, CfChain(name))

-----------------------------------------------------------------------------
StoresTypeOK ==
  /\ chKind \in ChStores /\ chClock \in 0 .. ChEnd /\ Len(chJobs) <= ChOps
  /\ \A sk \in DOMAIN chStore : chStore[sk].body \in 1 .. Len(chJobs) /\ chStore[sk].storedAt \in 0 .. chClock
  /\ DOMAIN cfEntries \subseteq CfNames /\ DOMAIN cfParents \subseteq CfNames
  /\ \A name \in DOMAIN cfParents : cfParents[name] \in CfNames

(* A get answers with something set under that very storage key, and only  *)
(* while it was within its lifetime.                                       *)
ChAnswersAreFresh ==
  \A g \in chGot : LET set == chJobs[g.body] IN
    set.op = "set" /\ set.sk = g.sk /\ g.at - set.storedAt <= ChTtl

ChPlain(sk) == \A i \in 1 .. Len(sk) : sk[i] \notin ChWide
(* When an invalidation has ended, no entry it saw in its scope is still   *)
(* there, under a key the store can give back: only a later set's is.      *)
ChInvalidated ==
  \A j \in 1 .. Len(chJobs) :
    (chJobs[j].op = "invalidate" /\ chJobs[j].phase = "done") =>
      \A sk \in DOMAIN chJobs[j].seen \cap DOMAIN chStore :
        (ChInScope(chJobs[j], sk) /\ ChPlain(sk)) => chStore[sk].body # chJobs[j].seen[sk].body

(* A configuration says, for every field, what the nearest ancestor that   *)
(* has the field says; a circle of parents neither hangs nor hides a layer.*)
CfUp(name, n) ==
  LET up[k \in 0 .. n] ==
        IF k = 0 THEN name ELSE IF up[k - 1] \in DOMAIN cfParents THEN cfParents[up[k - 1]] ELSE up[k - 1]
  IN  up[n]
CfDepths(name) == {n \in 0 .. Cardinality(CfNames) : \A m \in 0 .. n - 1 : CfUp(name, m) \in DOMAIN cfParents}
CfNearestWins ==
  \A name \in CfNames :
    LET having(f) == {n \in CfDepths(name) : CfUp(name, n) \in DOMAIN cfEntries /\ f \in DOMAIN cfEntries[CfUp(name, n)]}
        fields == UNION {DOMAIN s : s \in CfSettings}
        got == CfGet(name)
    IN  \A f \in fields :
          /\ f \in DOMAIN got <=> having(f) # {}
          /\ f \in DOMAIN got =>
               got[f] = cfEntries[CfUp(name, CHOOSE n \in having(f) : \A m \in having(f) : n <= m)][f]
=============================================================================
