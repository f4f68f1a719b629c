----------------------------- MODULE BatchJobs -----------------------------
(***************************************************************************)
(* Batches sent by hand (helpers/batch.ts) and the batch adapters of the   *)
(* providers, which the Batcher uses too: submit in one or two requests,   *)
(* poll until the provider's own status word means the end, collect the    *)
(* answers and give each one its request's name again.  The provider works *)
(* through the items, ends, expires, fails or is asked to cancel at any    *)
(* moment in between.                                                      *)
(***************************************************************************)
EXTENDS Integers, Sequences, FiniteSets, SequencesExt

CONSTANTS
  BjJobs,        \* jobs: [id, provider, via, ids]; ids has a customId or "none" per request
  BjPolls,       \* timeoutMs, in polls
  BjReadings     \* bound: how often the results of a job are asked for

ASSUME BjAssumption == BjPolls \in Nat /\ BjReadings \in Nat

VARIABLES
  bjPhase,       \* job -> new, submit2, waiting, collecting, done, threw
  bjPolled,      \* status requests of this wait
  bjRemote,      \* job -> "none", or the state of the batch at the provider
  bjItems,       \* job -> what became of each request
  bjOut,         \* job -> the rows last returned: [id, item, success]
  bjCosts,       \* job -> item -> cost entries emitted
  bjCollects     \* job -> how often its results were collected

bjVars == <<bjPhase, bjPolled, bjRemote, bjItems, bjOut, bjCosts, bjCollects>>

BjIndices(j) == 1 .. Len(j.ids)
BjInit ==
  /\ bjPhase = [j \in BjJobs |-> "new"] /\ bjPolled = [j \in BjJobs |-> 0] /\ bjRemote = [j \in BjJobs |-> "none"]
  /\ bjItems = [j \in BjJobs |-> [i \in BjIndices(j) |-> "running"]]
  /\ bjOut = [j \in BjJobs |-> <<>>] /\ bjCosts = [j \in BjJobs |-> [i \in BjIndices(j) |-> 0]]
  /\ bjCollects = [j \in BjJobs |-> 0]

BjGo(j, phase) == bjPhase' = [bjPhase EXCEPT ![j] = phase]
(* req.customId ?? `req-${i}`                                              *)
BjDefaultId(i) == <<"req-0", "req-1", "req-2">>[i]
BjInputIds(j) == [i \in BjIndices(j) |-> IF j.ids[i] = "none" THEN BjDefaultId(i) ELSE j.ids[i]]
(* resolveWiring: the helper knows three adapters; the Batcher is given    *)
(* its own.                                                                *)
BjWired(j) == j.via = "helper" => j.provider \in {"openai", "anthropic", "google"}
(* OpenAI uploads the lines and then creates the batch; xAI creates it and *)
(* then adds the requests.                                                 *)
BjTwoRequests(j) == j.provider \in {"openai", "xai"}
BjSubmit(j) ==
  /\ bjPhase[j] = "new"
  /\ \/ ~BjWired(j) /\ BjGo(j, "threw") /\ UNCHANGED bjRemote
     \/ BjWired(j) /\ BjTwoRequests(j) /\ BjGo(j, "submit2")
          /\ bjRemote' = [bjRemote EXCEPT ![j] = IF j.provider = "xai" THEN "empty" ELSE "none"]
     \/ BjWired(j) /\ ~BjTwoRequests(j) /\ BjGo(j, "waiting") /\ bjRemote' = [bjRemote EXCEPT ![j] = "running"]
  /\ UNCHANGED <<bjPolled, bjItems, bjOut, bjCosts, bjCollects>>
BjSubmitSecond(j) ==
  /\ bjPhase[j] = "submit2" /\ BjGo(j, "waiting") /\ bjRemote' = [bjRemote EXCEPT ![j] = "running"]
  /\ UNCHANGED <<bjPolled, bjItems, bjOut, bjCosts, bjCollects>>
(* engine.fetch rejects what is not ok, whichever request it is.           *)
BjRequestFails(j) ==
  /\ bjPhase[j] \in {"new", "submit2", "waiting", "collecting"} /\ BjWired(j) /\ BjGo(j, "threw")
  /\ UNCHANGED <<bjPolled, bjRemote, bjItems, bjOut, bjCosts, bjCollects>>

-----------------------------------------------------------------------------
(* The provider.                                                           *)
BjRunning(j) == {i \in BjIndices(j) : bjItems[j][i] = "running"}
BjRemoteItem(j, i, outcome) ==
  /\ bjRemote[j] \in {"running", "cancelling"} /\ i \in BjRunning(j)
  /\ outcome = "cancelled" => bjRemote[j] = "cancelling"
  /\ bjItems' = [bjItems EXCEPT ![j][i] = outcome]
  /\ UNCHANGED <<bjPhase, bjPolled, bjRemote, bjOut, bjCosts, bjCollects>>
BjRemoteEnds(j) ==
  /\ bjRemote[j] \in {"running", "cancelling"}
  /\ \/ /\ BjRunning(j) = {} /\ UNCHANGED bjItems
        /\ bjRemote' = [bjRemote EXCEPT ![j] = IF @ = "cancelling" THEN "cancelled" ELSE "completed"]
     \/ \E how \in {"failed", "expired"} :                                    \* the rest is given up
          /\ j.provider # "xai" /\ BjRunning(j) # {}
          /\ bjRemote' = [bjRemote EXCEPT ![j] = how]
          /\ bjItems' = [bjItems EXCEPT ![j] = [i \in BjIndices(j) |-> IF @[i] = "running" THEN "error" ELSE @[i]]]
  /\ UNCHANGED <<bjPhase, bjPolled, bjOut, bjCosts, bjCollects>>

(* What each adapter makes of the provider's word for it.                  *)
BjOpenAIHasty(state) == IF state = "running" THEN "processing" ELSE IF state = "cancelling" THEN "cancelled" ELSE state
BjOpenAIStatus(state) == IF state \in {"running", "cancelling"} THEN "processing" ELSE state
BjAnthropicStatus(state) ==
  IF state \in {"running", "cancelling"} THEN "processing" ELSE IF state = "expired" THEN "expired" ELSE "completed"
(* done comes with every end, and is looked at before the state.           *)
BjGoogleStatus(state) == IF state \in {"running", "cancelling"} THEN "processing" ELSE "completed"
(* xAI has no word: the counts decide, and an empty batch is processing.   *)
BjXAIStatus(j) ==
  LET count(o) == Cardinality({i \in BjIndices(j) : bjItems[j][i] \in o})
      total == IF bjRemote[j] = "empty" THEN 0 ELSE Len(j.ids)
  IN  IF count({"running"}) > 0 \/ total = 0 THEN "processing"
      ELSE IF count({"error"}) = total THEN "failed"
      ELSE IF count({"cancelled"}) = total THEN "cancelled" ELSE "completed"
BjStatus(j) ==
  CASE j.provider = "openai" -> BjOpenAIStatus(bjRemote[j])
    [] j.provider = "anthropic" -> BjAnthropicStatus(bjRemote[j])
    [] j.provider = "google" -> BjGoogleStatus(bjRemote[j])
    [] j.provider = "xai" -> BjXAIStatus(j)
BjTerminal(status) == status \in {"completed", "failed", "expired", "cancelled"}

(* wait(): poll, and leave by the status, by the timeout or by an error.   *)
BjPoll(j) ==
  /\ bjPhase[j] = "waiting"
  /\ \/ BjTerminal(BjStatus(j)) /\ BjGo(j, "collecting") /\ UNCHANGED bjPolled
     \/ ~BjTerminal(BjStatus(j)) /\ bjPolled[j] = BjPolls /\ BjGo(j, "threw") /\ UNCHANGED bjPolled
     \/ ~BjTerminal(BjStatus(j)) /\ bjPolled[j] < BjPolls /\ bjPolled' = [bjPolled EXCEPT ![j] = @ + 1] /\ UNCHANGED bjPhase
  /\ UNCHANGED <<bjRemote, bjItems, bjOut, bjCosts, bjCollects>>
(* results(), on a job that was waited for: a poll that must be terminal.  *)
BjResults(j) ==
  /\ bjPhase[j] = "done" /\ bjCollects[j] < BjReadings /\ BjGo(j, "collecting")
  /\ UNCHANGED <<bjPolled, bjRemote, bjItems, bjOut, bjCosts, bjCollects>>
BjCancel(j) ==
  /\ bjPhase[j] \in {"waiting", "threw"} /\ bjRemote[j] = "running"
  /\ bjRemote' = [bjRemote EXCEPT ![j] = "cancelling"]
  /\ UNCHANGED <<bjPhase, bjPolled, bjItems, bjOut, bjCosts, bjCollects>>

-----------------------------------------------------------------------------
(* getResults: the rows, in an order of the provider's choosing, except    *)
(* Google's, which come as they were sent and may have lost their key.     *)
BjOrders(S) == {s \in [1 .. Cardinality(S) -> S] : \A x \in S : \E n \in DOMAIN s : s[n] = x}
BjGoogleKey(j, i, keyed) == IF keyed THEN BjInputIds(j)[i] ELSE "req_"
BjRow(j, i, keyed) ==
  [id |-> IF j.provider = "google" THEN BjGoogleKey(j, i, keyed) ELSE BjInputIds(j)[i],
   item |-> i, success |-> bjItems[j][i] \in {"ok", "garbled"}]
(* OpenAI's output file has the answers, and there is none without any;    *)
(* the others list every item.                                             *)
BjListed(j) ==
  IF j.provider = "openai" THEN {i \in BjIndices(j) : bjItems[j][i] \in {"ok", "garbled"}} ELSE BjIndices(j)

BjByPosition(j, row, n) == IF n \in BjIndices(j) THEN BjInputIds(j)[n] ELSE row.id
(* collect: the row's own id when the caller knows it, else the id at that *)
(* position.                                                               *)
BjMatch(j, row, n) ==
  IF \E i \in BjIndices(j) : BjInputIds(j)[i] = row.id THEN row.id ELSE BjByPosition(j, row, n)

(* ... and a cost entry for every answer that can be parsed, on each call. *)
BjCollect(j) ==
  /\ bjPhase[j] = "collecting"
  /\ \E order \in BjOrders(BjListed(j)), keyed \in BOOLEAN :
       /\ j.provider = "google" => \A n \in DOMAIN order : order[n] = n
       /\ bjOut' = [bjOut EXCEPT ![j] = [n \in DOMAIN order |->
            [BjRow(j, order[n], keyed) EXCEPT !.id = BjMatch(j, BjRow(j, order[n], keyed), n)]]]
  /\ bjCosts' = [bjCosts EXCEPT ![j] = [i \in BjIndices(j) |-> IF bjItems[j][i] = "ok" THEN @[i] + 1 ELSE @[i]]]
  /\ bjCollects' = [bjCollects EXCEPT ![j] = @ + 1]
  /\ BjGo(j, "done") /\ UNCHANGED <<bjPolled, bjRemote, bjItems>>

(* One job; jobs share nothing.                                            *)
BjJobNext(j) ==
  \/ BjSubmit(j) \/ BjSubmitSecond(j) \/ BjRequestFails(j)
  \/ \E i \in BjIndices(j), outcome \in {"ok", "garbled", "error", "cancelled"} : BjRemoteItem(j, i, outcome)
  \/ BjRemoteEnds(j) \/ BjPoll(j) \/ BjResults(j) \/ BjCancel(j) \/ BjCollect(j)
BjNext == \E j \in BjJobs : BjJobNext(j)

-----------------------------------------------------------------------------
BjTypeOK ==
  \A j \in BjJobs :
    /\ bjPhase[j] \in {"new", "submit2", "waiting", "collecting", "done", "threw"} /\ bjPolled[j] \in 0 .. BjPolls
    /\ bjRemote[j] \in {"none", "empty", "running", "cancelling", "completed", "cancelled", "failed", "expired"}
    /\ \A i \in BjIndices(j) : bjItems[j][i] \in {"running", "ok", "garbled", "error", "cancelled"}

(* Every row a job returns carries the customId of the request it answers, *)
(* whatever order or key the provider gave it.                             *)
BjAnswersMatch ==
  \A j \in BjJobs : \A n \in DOMAIN bjOut[j] : bjOut[j][n].id = BjInputIds(j)[bjOut[j][n].item]

(* Results are collected only from a batch in which nothing is running any *)
(* more, and none of its answers is missing then.                          *)
BjCollectsTheEnd ==
  \A j \in BjJobs : bjCollects[j] > 0 =>
    /\ BjRunning(j) = {}
    /\ \A i \in BjIndices(j) : bjItems[j][i] = "ok" => \E n \in DOMAIN bjOut[j] : bjOut[j][n].item = i /\ bjOut[j][n].success

(* An answer costs once per reading: once when the job is read once.       *)
BjChargedPerReading ==
  \A j \in BjJobs : \A i \in BjIndices(j) :
    bjCosts[j][i] = IF bjItems[j][i] = "ok" THEN bjCollects[j] ELSE 0

BjFaithful == BjAnswersMatch /\ BjCollectsTheEnd /\ BjChargedPerReading
=============================================================================
