--------------------------- MODULE CostCollector ---------------------------
(***************************************************************************)
(* What calls cost: the one-shot helper's guard before a call              *)
(* (helpers/estimate.ts, helpers/one-shot.ts), and the ledger and the      *)
(* budgets after it (plugins/cost-collector).                              *)
(*                                                                         *)
(* Money is counted in whole units: a call of n units of tokens costs n    *)
(* times the rate of its model.                                            *)
(***************************************************************************)
EXTENDS Integers, Sequences, SequencesExt, FiniteSets

CONSTANTS
  CcCalls,       \* calls: [provider, model, tag, units, told, tier]
  CcBudgets,     \* budgets: [id, limit, scope, thresholds, stop]
  CcAgents,      \* agents that can be watched
  CcLength       \* bound: entries of the ledger

ASSUME CcAssumption == CcLength \in Nat /\ \A c \in CcCalls : c.units \in Nat /\ c.told \in -1 .. 9

VARIABLES
  ccLedger,      \* ledger
  ccTotal,       \* _runningTotal
  ccSet,         \* budgets that are set
  ccFired,       \* triggeredThresholds of each budget, in hundredths
  ccExceeded,    \* budgets onBudgetExceeded was emitted for
  ccChecked,     \* of each budget: what it had spent when it was last looked at
  ccWatched, ccStopped,  \* agents watched, agents stopped
  ccWarned,      \* warnedUnpriced
  ccRefused      \* calls the guard refused

ccVars == <<ccLedger, ccTotal, ccSet, ccFired, ccExceeded, ccChecked, ccWatched, ccStopped, ccWarned, ccRefused>>

CcIds == {b.id : b \in CcBudgets}

CcInit ==
  /\ ccLedger = <<>> /\ ccTotal = 0
  /\ ccSet = {} /\ ccFired = [i \in CcIds |-> {}] /\ ccExceeded = {} /\ ccChecked = [i \in CcIds |-> 0]
  /\ ccWatched = {} /\ ccStopped = {} /\ ccWarned = {} /\ ccRefused = {}

(* The catalog's prices, a sample: one model with a flex tier, one that is *)
(* not priced.  A tier the catalog does not price costs the standard rate. *)
CcPriced(model) == model # "unpriced"
CcRate(model, tier) == IF tier = "flex" THEN 1 ELSE 2

(* calculateCost and computeCost: what the provider says, then the         *)
(* catalog's price, then nothing.                                          *)
CcReports(provider) == provider \in {"openrouter", "xai"}
CcCost(c) ==
  CASE CcReports(c.provider) /\ c.told >= 0 -> [total |-> c.told, source |-> "provider"]
    [] ~(CcReports(c.provider) /\ c.told >= 0) /\ CcPriced(c.model) ->
         [total |-> c.units * CcRate(c.model, c.tier), source |-> "calculated"]
    [] OTHER -> [total |-> 0, source |-> "unknown"]

CcEntry(c, from) ==
  [provider |-> c.provider, model |-> c.model, tag |-> c.tag, cost |-> CcCost(c), from |-> from]

CcSum(entries) == FoldLeft(LAMBDA n, e : n + e.cost.total, 0, entries)

(* matchesScope looks at every key of a scope, applyFilter only at those   *)
(* it knows: a scope is [key, value] and tag is not one of them.           *)
CcMatchesScope(e, scope) ==
  CASE scope.key = "all" -> TRUE
    [] scope.key = "provider" -> e.provider = scope.value
    [] scope.key = "tag" -> e.tag = scope.value
CcApplyFilter(e, scope) ==
  CASE scope.key \in {"all", "tag"} -> TRUE
    [] scope.key = "provider" -> e.provider = scope.value

CcSpentByAll(ledger, scope) == CcSum(ledger)

(* total(scope).                                                           *)
CcSpent(ledger, scope) ==
  CcSum(SelectSeq(ledger, LAMBDA e : CcApplyFilter(e, scope)))

(* The thresholds a budget crosses now.                                    *)
CcCrossed(b, spent) == {t \in b.thresholds \ ccFired[b.id] : spent * 100 >= b.limit * t}

(* checkBudgets, for the budgets an entry concerns: the thresholds, then   *)
(* the limit itself unless 1.0 has fired, and the watched agents are       *)
(* stopped.                                                                *)
CcCheckBudgets(e, ledger) ==
  LET concerned == {b \in ccSet : CcMatchesScope(e, b.scope)}
      spent(b) == CcSpent(ledger, b.scope)
      over == {b \in concerned : spent(b) >= b.limit /\ 100 \notin ccFired[b.id] \cup CcCrossed(b, spent(b))}
  IN  /\ ccFired' = [i \in CcIds |->
           ccFired[i] \cup UNION {CcCrossed(b, spent(b)) : b \in {x \in concerned : x.id = i}}
                      \cup (IF \E b \in over : b.id = i THEN {100} ELSE {})]
      /\ ccExceeded' = ccExceeded \cup {b.id : b \in over}
      /\ ccChecked' = [i \in CcIds |->
           IF \E b \in concerned : b.id = i THEN spent(CHOOSE b \in concerned : b.id = i) ELSE ccChecked[i]]
      /\ ccStopped' = IF \E b \in over : b.stop THEN ccStopped \cup ccWatched ELSE ccStopped

(* noteIfUnpriced: each model once.                                        *)
CcNote(e) == IF e.cost.source = "unknown" THEN ccWarned \cup {e.model} ELSE ccWarned

(* handleCompletion and handleMediaGenerated.                              *)
CcRecord(c) ==
  LET e == CcEntry(c, "call")
  IN  /\ Len(ccLedger) < CcLength
      /\ ccLedger' = Append(ccLedger, e)
      /\ ccTotal' = ccTotal + e.cost.total
      /\ ccWarned' = CcNote(e)
      /\ CcCheckBudgets(e, ccLedger')
      /\ UNCHANGED <<ccSet, ccWatched, ccRefused>>

(* import adds the entries and looks at no budget.                         *)
CcImport(c) ==
  /\ Len(ccLedger) < CcLength
  /\ ccLedger' = Append(ccLedger, CcEntry(c, "import"))
  /\ ccTotal' = ccTotal + CcCost(c).total
  /\ UNCHANGED <<ccSet, ccFired, ccExceeded, ccChecked, ccWatched, ccStopped, ccWarned, ccRefused>>

(* estimate: input and output at the standard rate of the model.  The      *)
(* guard of complete() refuses a call above the limit, and a model it      *)
(* cannot price.                                                           *)
CcEstimate(c) == c.units * CcRate(c.model, "standard")
CcGuardedCall(c, maxCost) ==
  IF ~CcPriced(c.model) \/ CcEstimate(c) > maxCost
  THEN /\ ccRefused' = ccRefused \cup {c} /\ c \notin ccRefused
       /\ UNCHANGED <<ccLedger, ccTotal, ccSet, ccFired, ccExceeded, ccChecked, ccWatched, ccStopped, ccWarned>>
  ELSE CcRecord(c)

CcAddBudget(b) ==
  /\ \A o \in ccSet : o.id # b.id
  /\ ccSet' = ccSet \cup {b}
  /\ ccFired' = [ccFired EXCEPT ![b.id] = {}]
  /\ ccExceeded' = ccExceeded \ {b.id} /\ ccChecked' = [ccChecked EXCEPT ![b.id] = 0]
  /\ UNCHANGED <<ccLedger, ccTotal, ccWatched, ccStopped, ccWarned, ccRefused>>

CcRemoveBudget(b) ==
  /\ b \in ccSet
  /\ ccSet' = ccSet \ {b}
  /\ ccFired' = [ccFired EXCEPT ![b.id] = {}]
  /\ ccExceeded' = ccExceeded \ {b.id} /\ ccChecked' = [ccChecked EXCEPT ![b.id] = 0]
  /\ UNCHANGED <<ccLedger, ccTotal, ccWatched, ccStopped, ccWarned, ccRefused>>

CcWatchAgent(a) ==
  /\ a \notin ccWatched
  /\ ccWatched' = ccWatched \cup {a}
  /\ UNCHANGED <<ccLedger, ccTotal, ccSet, ccFired, ccExceeded, ccChecked, ccStopped, ccWarned, ccRefused>>

CcNext ==
  \/ \E c \in CcCalls : CcRecord(c) \/ CcImport(c) \/ CcGuardedCall(c, 2)
  \/ \E b \in CcBudgets : CcAddBudget(b) \/ CcRemoveBudget(b)
  \/ \E a \in CcAgents : CcWatchAgent(a)

-----------------------------------------------------------------------------
CcTypeOK ==
  /\ Len(ccLedger) <= CcLength /\ ccTotal \in Nat /\ ccSet \subseteq CcBudgets
  /\ ccExceeded \subseteq CcIds /\ ccChecked \in [CcIds -> Nat]
  /\ ccWatched \subseteq CcAgents /\ ccStopped \subseteq ccWatched /\ ccRefused \subseteq CcCalls

(* What an entry of the ledger costs a budget: the entries its scope names.*)
CcDue(b) == CcSum(SelectSeq(ccLedger, LAMBDA e : CcMatchesScope(e, b.scope)))

(* A budget fires when, and only when, the calls in its scope have spent   *)
(* its limit, once, whatever was imported, removed or set again before.    *)
(* Two kinds of budget are left out: one that lists 1.0 among its          *)
(* thresholds (its limit then never fires) and one on a tag (it is charged *)
(* with every call).                                                       *)
CcBudgetFires(b) ==
  /\ b.id \in ccExceeded <=> ccChecked[b.id] >= b.limit
  /\ ccChecked[b.id] <= CcDue(b)
CcBudgetsFire ==
  \A b \in ccSet : 100 \notin b.thresholds /\ b.scope.key # "tag" => CcBudgetFires(b)

(* A budget that stops agents has stopped one when its calls have spent    *)
(* its limit.                                                              *)
CcStopsAgents ==
  \A b \in ccSet : b.stop /\ ccChecked[b.id] >= b.limit /\ ccWatched # {} => b.id \in ccExceeded

(* The running total is the ledger's, and no call without a price passes   *)
(* in silence.                                                             *)
CcLedgerAddsUp ==
  /\ ccTotal = CcSum(ccLedger)
  /\ \A i \in DOMAIN ccLedger : ccLedger[i].cost.source = "unknown" =>
       /\ ccLedger[i].cost.total = 0
       /\ ccLedger[i].from = "call" => ccLedger[i].model \in ccWarned

CcFaithful == CcBudgetsFire /\ CcLedgerAddsUp
=============================================================================
