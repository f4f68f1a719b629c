---------------------------- MODULE Calibration ----------------------------
(***************************************************************************)
(* How many tokens a text has: the counters of plugins/context-measurer.   *)
(* HybridTokenCounter takes the strategy the catalog names for a model:    *)
(* tiktoken (an optional peer), a provider's counting API, or characters   *)
(* per token.  Completions teach the last one: a moving average is kept in *)
(* the persistence (PersistenceCalibrationStore) and cached by the counter *)
(* that measured with it.                                                  *)
(*                                                                         *)
(* A rate is told apart by the samples that went into it; {} is the        *)
(* catalog's default.                                                      *)
(***************************************************************************)
EXTENDS Integers, FiniteSets

CONSTANTS
  CaModels,      \* models
  CaSamples,     \* completions to learn from
  CaStrategies,  \* tokenizer.strategy: "tiktoken", "count_api", "heuristic"
  CaMeasures     \* calls of measureMessage with accuracy exact

ASSUME CaAssumption == CaStrategies \subseteq {"tiktoken", "count_api", "heuristic"}

VARIABLES
  caStrategy,  \* of each model, from the catalog
  caPeer,      \* tiktoken is installed
  caKeyed,     \* the counting APIs are configured
  caStore,     \* the persisted rate and number of samples of each model
  caCache,     \* HeuristicCounter.cache, of each model
  caLearn,     \* of each sample: new, reading, writing, done
  caRead,      \* what the update of a sample read
  caMeasure,   \* of each exact measurement: its model, phase and result
  caWarned,    \* warnedNoTiktoken
  caLossy      \* two updates of a model overlapped, or a write failed

caVars == <<caStrategy, caPeer, caKeyed, caStore, caCache, caLearn, caRead, caMeasure, caWarned, caLossy>>

CaNone == [of |-> {}, samples |-> 0]
CaUnmeasured == [phase |-> "new", model |-> "none", how |-> "none", rate |-> {}]

CaInit ==
  /\ caStrategy \in [CaModels -> CaStrategies]
  /\ caPeer \in BOOLEAN /\ caKeyed \in BOOLEAN
  /\ caStore = [m \in CaModels |-> CaNone] /\ caCache = [m \in CaModels |-> {}]
  /\ caLearn = [s \in CaSamples |-> [phase |-> "new", model |-> "none"]]
  /\ caRead = [s \in CaSamples |-> CaNone]
  /\ caMeasure = [c \in CaMeasures |-> CaUnmeasured]
  /\ caWarned = FALSE /\ caLossy = FALSE

(* learn starts an update and forgets it: its failure is swallowed.        *)
CaLearn(s, m) ==
  /\ caLearn[s].phase = "new"
  /\ caLearn' = [caLearn EXCEPT ![s] = [phase |-> "reading", model |-> m]]
  /\ caLossy' = (caLossy \/ \E t \in CaSamples :
                     caLearn[t].phase \in {"reading", "writing"} /\ caLearn[t].model = m)
  /\ UNCHANGED <<caStrategy, caPeer, caKeyed, caStore, caCache, caRead, caMeasure, caWarned>>

(* update: the entry is read, mixed with the sample and written back; a    *)
(* write may fail.                                                         *)
CaReadEntry(s) ==
  /\ caLearn[s].phase = "reading"
  /\ caLearn' = [caLearn EXCEPT ![s].phase = "writing"]
  /\ caRead' = [caRead EXCEPT ![s] = caStore[caLearn[s].model]]
  /\ UNCHANGED <<caStrategy, caPeer, caKeyed, caStore, caCache, caMeasure, caWarned, caLossy>>

CaMixAnew(entry, s) == [of |-> {s}, samples |-> entry.samples + 1]
CaMix(entry, s) == [of |-> entry.of \cup {s}, samples |-> entry.samples + 1]

CaWriteEntry(s) ==
  /\ caLearn[s].phase = "writing"
  /\ caLearn' = [caLearn EXCEPT ![s].phase = "done"]
  /\ \/ caStore' = [caStore EXCEPT ![caLearn[s].model] = CaMix(caRead[s], s)] /\ UNCHANGED caLossy
     \/ caLossy' = TRUE /\ UNCHANGED caStore
  /\ UNCHANGED <<caStrategy, caPeer, caKeyed, caCache, caRead, caMeasure, caWarned>>

(* strategyFor and apiFor: who measures a message of the model exactly.    *)
CaCounter(m) ==
  IF caStrategy[m] = "count_api" /\ ~caKeyed THEN "plain" ELSE caStrategy[m]

CaSetMeasure(c, m, phase, how) ==
  /\ caMeasure[c].phase = "new"
  /\ caMeasure' = [caMeasure EXCEPT ![c] = [phase |-> phase, model |-> m, how |-> how, rate |-> {}]]
  /\ UNCHANGED <<caStrategy, caPeer, caKeyed, caStore, caCache, caLearn, caRead, caLossy>>

(* TiktokenCounter.measureMessage.                                         *)
CaByTiktoken(c, m) ==
  CaCounter(m) = "tiktoken" /\ caPeer /\ CaSetMeasure(c, m, "done", "tiktoken") /\ UNCHANGED caWarned

(* withoutOptionalPeer: a missing peer costs one warning and the heuristic *)
(* takes over.                                                             *)
CaWithoutPeer(c, m) ==
  CaCounter(m) = "tiktoken" /\ ~caPeer /\ CaSetMeasure(c, m, "rate", "none") /\ caWarned' = TRUE

(* A counting API answers, or fails and measureAndEmit keeps the fast      *)
(* count.  Without a key CountApiCounter uses a heuristic of its own, that *)
(* has no calibration store.                                               *)
CaByApi(c, m) ==
  /\ CaCounter(m) \in {"count_api", "plain"}
  /\ \E how \in (IF CaCounter(m) = "plain" THEN {"heuristic"} ELSE {"api", "fast"}) :
       CaSetMeasure(c, m, "done", how)
  /\ UNCHANGED caWarned

CaByCharacters(c, m) ==
  CaCounter(m) = "heuristic" /\ CaSetMeasure(c, m, "rate", "none") /\ UNCHANGED caWarned

(* rate: the store's entry, once it has one, is cached for the fast path.  *)
CaRate(c) ==
  LET m == caMeasure[c].model
  IN  /\ caMeasure[c].phase = "rate"
      /\ caMeasure' = [caMeasure EXCEPT ![c].phase = "done", ![c].how = "heuristic", ![c].rate = caStore[m].of]
      /\ caCache' = IF caStore[m].samples > 0 THEN [caCache EXCEPT ![m] = caStore[m].of] ELSE caCache
      /\ UNCHANGED <<caStrategy, caPeer, caKeyed, caStore, caLearn, caRead, caWarned, caLossy>>

(* warmCache reads every entry of the store.                               *)
CaWarm ==
  /\ \E m \in CaModels : caStore[m].samples > 0 /\ caCache[m] # caStore[m].of
  /\ caCache' = [m \in CaModels |-> IF caStore[m].samples > 0 THEN caStore[m].of ELSE caCache[m]]
  /\ UNCHANGED <<caStrategy, caPeer, caKeyed, caStore, caLearn, caRead, caMeasure, caWarned, caLossy>>

CaNext ==
  \/ CaWarm
  \/ \E s \in CaSamples : CaReadEntry(s) \/ CaWriteEntry(s) \/ \E m \in CaModels : CaLearn(s, m)
  \/ \E c \in CaMeasures : CaRate(c) \/ \E m \in CaModels :
       CaByTiktoken(c, m) \/ CaWithoutPeer(c, m) \/ CaByApi(c, m) \/ CaByCharacters(c, m)

CaTypeOK ==
  /\ caStrategy \in [CaModels -> CaStrategies] /\ caPeer \in BOOLEAN /\ caKeyed \in BOOLEAN
  /\ \A m \in CaModels : caStore[m].of \subseteq CaSamples /\ caStore[m].samples \in 0 .. Cardinality(CaSamples)
  /\ caCache \in [CaModels -> SUBSET CaSamples] /\ caWarned \in BOOLEAN /\ caLossy \in BOOLEAN

CaWritten(m) == {s \in CaSamples : caLearn[s].phase = "done" /\ caLearn[s].model = m}

(* What a model's rate is made of: each rate counts exactly the samples    *)
(* that went into it, updates that do not overlap lose none, and a rate    *)
(* never holds a sample of another model.  The fast path answers with a    *)
(* rate that was learned for that very model, an exact count by            *)
(* characters is only used where nothing better was asked for or there.    *)
CaRatesAreLearned ==
  /\ \A m \in CaModels :
       /\ caStore[m].samples = Cardinality(caStore[m].of)
       /\ caStore[m].of \subseteq CaWritten(m) /\ caCache[m] \subseteq CaWritten(m)
       /\ ~caLossy => caStore[m].of = CaWritten(m) /\ caCache[m] \subseteq caStore[m].of
  /\ \A c \in CaMeasures : caMeasure[c].phase = "done" /\ caMeasure[c].how = "heuristic" =>
       \/ caStrategy[caMeasure[c].model] = "heuristic"
       \/ caStrategy[caMeasure[c].model] = "tiktoken" /\ ~caPeer /\ caWarned
       \/ caStrategy[caMeasure[c].model] = "count_api" /\ ~caKeyed /\ caMeasure[c].rate = {}
=============================================================================
