------------------------------- MODULE Batcher -------------------------------
(***************************************************************************)
(* The transparent batching layer (plugins/batch/batcher.ts) for one       *)
(* provider: requests are intercepted, collected, submitted as one batch,  *)
(* polled by tasks of the Scheduler and answered through the promises the  *)
(* callers hold, or after a restart through the hook onWarning alone.      *)
(*                                                                         *)
(* An action is the code between two awaits.  Of the Scheduler the batcher *)
(* uses what module Scheduler shows: a stored task is run until it was run *)
(* to its end, also after a crash, and its record is deleted then.         *)
(***************************************************************************)
EXTENDS Integers, FiniteSets

CONSTANTS
  Req,         \* requests the strategy lets the batcher intercept
  Batch,       \* ids of batches, as many as there are requests
  MaxBatch,    \* strategy.maxBatchSize
  Fault,       \* what may go wrong, see FaultName
  MaxCrashes   \* bound: stops of the process

(* "submit", "status", "results": the adapter's call throws; "save",       *)
(* "schedule": the persistence does; "warning": a subscriber of onWarning  *)
(* does; "partial": results miss a request; "cancelled": a batch ends in   *)
(* status cancelled; "destroy": the application destroys the batcher.      *)
FaultName == {"submit", "status", "results", "save", "schedule", "warning",
              "partial", "cancelled", "destroy"}

ASSUME BatcherAssumption ==
  /\ IsFiniteSet(Req) /\ IsFiniteSet(Batch)
  /\ MaxBatch \in Nat \ {0}
  /\ Fault \subseteq FaultName
  /\ MaxCrashes \in Nat

VARIABLES
  open,        \* whether the batcher listens: destroy has not been called
  promise,     \* the promise each caller holds, see Promise
  collecting,  \* the collection buffer; its timer is set while it is not empty
  members,     \* the requests of each batch
  flush,       \* where flushCollection stands with each batch
  remote,      \* what the provider does with each batch
  jobs,        \* batches with a record in persistence
  resolvers,   \* batches in the map pendingResolvers
  tasks,       \* stored poll tasks of each batch
  polls,       \* polls of each batch at each of their awaits
  restoring,   \* batches restore has still to arm
  announced,   \* requests with a batch_result_ready warning
  lost,        \* history: requests met by a failure nothing recovers from
  crashes      \* stops so far

vars == <<open, promise, collecting, members, flush, remote, jobs, resolvers,
          tasks, polls, restoring, announced, lost, crashes>>

(* "gone": the caller was in a process that stopped.                       *)
Promise == {"none", "pending", "resolved", "rejected", "gone"}
FlushPlace == {"unused", "submitting", "saving", "scheduling", "over"}
PollPlace == {"reading", "asking", "rearming", "fetching", "forgetting", "ending"}

TypeOK ==
  /\ open \in BOOLEAN
  /\ promise \in [Req -> Promise]
  /\ collecting \subseteq Req /\ Cardinality(collecting) < MaxBatch
  /\ members \in [Batch -> SUBSET Req]
  /\ flush \in [Batch -> FlushPlace]
  /\ remote \in [Batch -> {"none", "working", "ended", "cancelled"}]
  /\ jobs \subseteq Batch /\ resolvers \subseteq Batch /\ restoring \subseteq Batch
  /\ tasks \in [Batch -> Nat]
  /\ polls \in [Batch -> [PollPlace -> Nat]]
  /\ announced \subseteq Req /\ lost \subseteq Req
  /\ crashes \in 0 .. MaxCrashes

NoPolls == [b \in Batch |-> [p \in PollPlace |-> 0]]

Init ==
  /\ open = TRUE
  /\ promise = [r \in Req |-> "none"]
  /\ collecting = {}
  /\ members = [b \in Batch |-> {}]
  /\ flush = [b \in Batch |-> "unused"]
  /\ remote = [b \in Batch |-> "none"]
  /\ jobs = {} /\ resolvers = {}
  /\ tasks = [b \in Batch |-> 0]
  /\ polls = NoPolls
  /\ restoring = {}
  /\ announced = {}
  /\ lost = {}
  /\ crashes = 0

-----------------------------------------------------------------------------
(* Collecting and submitting.                                              *)

(* A promise that is settled already keeps its outcome.                    *)
Settle(R, outcome) ==
  promise' = [r \in Req |-> IF r \in R /\ promise[r] = "pending" THEN outcome ELSE promise[r]]

Lose(R) == lost' = lost \cup R

(* flushCollection up to the call of adapter.submit.                       *)
Flush(R) ==
  \E b \in Batch :
    /\ flush[b] = "unused"
    /\ flush' = [flush EXCEPT ![b] = "submitting"]
    /\ members' = [members EXCEPT ![b] = R]
    /\ collecting' = {}

InterceptNeverFull(r) ==
  /\ open
  /\ promise[r] = "none"
  /\ promise' = [promise EXCEPT ![r] = "pending"]
  /\ collecting' = collecting \cup {r}
  /\ UNCHANGED <<open, flush, members, remote, jobs, resolvers, tasks, polls,
                 restoring, announced, lost, crashes>>

(* handleBeforeSubmit and addToCollection.                                 *)
(* Bound: requests come while there is an id for the batch they will be in. *)
Intercept(r) ==
  /\ open
  /\ \E b \in Batch : flush[b] = "unused"
  /\ promise[r] = "none"
  /\ promise' = [promise EXCEPT ![r] = "pending"]
  /\ IF Cardinality(collecting \cup {r}) >= MaxBatch
     THEN Flush(collecting \cup {r})
     ELSE collecting' = collecting \cup {r} /\ UNCHANGED <<flush, members>>
  /\ UNCHANGED <<open, remote, jobs, resolvers, tasks, polls, restoring, announced, lost, crashes>>

WindowCloses ==
  /\ collecting # {}
  /\ Flush(collecting)
  /\ UNCHANGED <<open, promise, remote, jobs, resolvers, tasks, polls, restoring, announced, lost, crashes>>

(* The catch block of flushCollection.                                     *)
FlushFails(b) ==
  /\ flush' = [flush EXCEPT ![b] = "over"]
  /\ Settle(members[b], "rejected")

Submitted(b) ==
  /\ flush[b] = "submitting"
  /\ \/ /\ remote' = [remote EXCEPT ![b] = "working"]
        /\ flush' = [flush EXCEPT ![b] = "saving"]
        /\ UNCHANGED promise
     \/ /\ "submit" \in Fault
        /\ \E r \in {"none", "working"} : remote' = [remote EXCEPT ![b] = r]
        /\ FlushFails(b)
  /\ UNCHANGED <<open, collecting, members, jobs, resolvers, tasks, polls, restoring,
                 announced, lost, crashes>>

SavedWithoutResolvers(b) ==
  /\ flush[b] = "saving"
  /\ \/ /\ jobs' = jobs \cup {b}
        /\ flush' = [flush EXCEPT ![b] = "scheduling"]
        /\ UNCHANGED <<promise, resolvers>>
     \/ "save" \in Fault /\ FlushFails(b) /\ UNCHANGED <<jobs, resolvers>>
  /\ UNCHANGED <<open, collecting, members, remote, tasks, polls, restoring, announced, lost, crashes>>

Saved(b) ==
  /\ flush[b] = "saving"
  /\ \/ /\ jobs' = jobs \cup {b}
        /\ resolvers' = resolvers \cup {b}
        /\ flush' = [flush EXCEPT ![b] = "scheduling"]
        /\ UNCHANGED promise
     \/ "save" \in Fault /\ FlushFails(b) /\ UNCHANGED <<jobs, resolvers>>
  /\ UNCHANGED <<open, collecting, members, remote, tasks, polls, restoring, announced, lost, crashes>>

(* The first poll is stored, and batch_created announced.                  *)
Scheduled(b) ==
  /\ flush[b] = "scheduling"
  /\ \/ /\ tasks' = [tasks EXCEPT ![b] = @ + 1]
        /\ \/ flush' = [flush EXCEPT ![b] = "over"] /\ UNCHANGED promise
           \/ "warning" \in Fault /\ FlushFails(b)
        /\ UNCHANGED lost
     \/ /\ "schedule" \in Fault
        /\ FlushFails(b)
        /\ Lose(members[b])
        /\ UNCHANGED tasks
  /\ UNCHANGED <<open, collecting, members, remote, jobs, resolvers, polls, restoring,
                 announced, crashes>>

(* The buffer is dropped with the promises in it.                          *)
Destroy ==
  /\ "destroy" \in Fault
  /\ open
  /\ open' = FALSE
  /\ collecting' = {}
  /\ Lose(collecting)
  /\ UNCHANGED <<promise, flush, members, remote, jobs, resolvers, tasks, polls,
                 restoring, announced, crashes>>

-----------------------------------------------------------------------------
(* Polling.                                                                *)

Running(b) ==
  polls[b]["reading"] + polls[b]["asking"] + polls[b]["rearming"]
  + polls[b]["fetching"] + polls[b]["forgetting"] + polls[b]["ending"]

PollMoves(b, from, to) ==
  /\ polls[b][from] > 0
  /\ polls' = [polls EXCEPT ![b][from] = @ - 1, ![b][to] = @ + 1]

(* The Scheduler runs a stored task that is not running.                   *)
PollStarts(b) ==
  /\ Running(b) < tasks[b]
  /\ polls' = [polls EXCEPT ![b]["reading"] = @ + 1]
  /\ UNCHANGED <<promise, open, collecting, members, flush, remote, jobs, resolvers,
                 tasks, restoring, announced, lost, crashes>>

PollReads(b) ==
  /\ PollMoves(b, "reading", IF b \in jobs THEN "asking" ELSE "ending")
  /\ UNCHANGED <<promise, open, collecting, members, flush, remote, jobs, resolvers,
                 tasks, restoring, announced, lost, crashes>>

(* The Scheduler swallows what a poll throws and drops its task.           *)
PollFails(b, from) == PollMoves(b, from, "ending") /\ Lose(members[b])

PollAsksDropsEnded(b) ==
  /\ \/ /\ PollMoves(b, "asking", IF remote[b] = "working" THEN "rearming" ELSE "ending")
        /\ UNCHANGED lost
     \/ {"status", "warning"} \cap Fault # {} /\ PollFails(b, "asking")
  /\ UNCHANGED <<promise, open, collecting, members, flush, remote, jobs, resolvers,
                 tasks, restoring, announced, crashes>>

(* getStatus answers: completed, failed and expired end a batch, cancelled *)
(* does not.                                                               *)
PollAsks(b) ==
  /\ \/ /\ PollMoves(b, "asking", IF remote[b] = "ended" THEN "fetching" ELSE "rearming")
        /\ UNCHANGED lost
     \/ {"status", "warning"} \cap Fault # {} /\ PollFails(b, "asking")
  /\ UNCHANGED <<promise, open, collecting, members, flush, remote, jobs, resolvers,
                 tasks, restoring, announced, crashes>>

(* Bound: a poll task is gone long before the next interval is over, so    *)
(* ended polls of a batch do not pile up.                                  *)
PollRearms(b) ==
  /\ polls[b]["ending"] = 0
  /\ \/ /\ PollMoves(b, "rearming", "ending")
        /\ tasks' = [tasks EXCEPT ![b] = @ + 1]
        /\ UNCHANGED lost
     \/ "schedule" \in Fault /\ PollFails(b, "rearming") /\ UNCHANGED tasks
  /\ UNCHANGED <<promise, open, collecting, members, flush, remote, jobs, resolvers,
                 restoring, announced, crashes>>

(* A result settles its own caller, if there is one in this process, and   *)
(* is announced; S are the successes.                                      *)
Deliver(b, R, S) ==
  /\ promise' = [r \in Req |->
       IF b \in resolvers /\ r \in R /\ promise[r] = "pending"
       THEN IF r \in S THEN "resolved" ELSE "rejected"
       ELSE promise[r]]
  /\ announced' = announced \cup R

PollFetchesLeaks(b) ==
  /\ \E R, S \in SUBSET members[b] :
       /\ "partial" \notin Fault => R = members[b]
       /\ Deliver(b, R, S)
       /\ Lose(members[b] \ R)
       /\ PollMoves(b, "fetching", "forgetting")
       /\ UNCHANGED resolvers
  /\ UNCHANGED <<open, collecting, members, flush, remote, jobs, tasks, restoring, crashes>>

(* handleBatchComplete up to the deletion of the record.                   *)
PollFetches(b) ==
  /\ \/ \E R \in SUBSET members[b], S \in SUBSET members[b] :
          /\ "partial" \notin Fault => R = members[b]
          /\ Deliver(b, R, S)
          /\ Lose(members[b] \ R)
          /\ PollMoves(b, "fetching", "forgetting")
          /\ resolvers' = resolvers \ {b}
     \/ \E R \in SUBSET members[b], S \in SUBSET members[b] :
          /\ "warning" \in Fault
          /\ Deliver(b, R, S)
          /\ PollFails(b, "fetching")
          /\ UNCHANGED resolvers
     \/ /\ "results" \in Fault
        /\ PollFails(b, "fetching")
        /\ UNCHANGED <<promise, resolvers, announced>>
  /\ UNCHANGED <<open, collecting, members, flush, remote, jobs, tasks, restoring, crashes>>

PollForgets(b) ==
  /\ PollMoves(b, "forgetting", "ending")
  /\ jobs' = jobs \ {b}
  /\ UNCHANGED <<promise, open, collecting, members, flush, remote, resolvers, tasks,
                 restoring, announced, lost, crashes>>

(* The Scheduler deletes the record of the task that ran.                  *)
PollEnds(b) ==
  /\ polls[b]["ending"] > 0
  /\ polls' = [polls EXCEPT ![b]["ending"] = @ - 1]
  /\ tasks' = [tasks EXCEPT ![b] = @ - 1]
  /\ UNCHANGED <<promise, open, collecting, members, flush, remote, jobs, resolvers,
                 restoring, announced, lost, crashes>>

-----------------------------------------------------------------------------
(* The provider, and the process.                                          *)

RemoteEnds(b) ==
  /\ remote[b] = "working"
  /\ \/ remote' = [remote EXCEPT ![b] = "ended"] /\ UNCHANGED lost
     \/ /\ "cancelled" \in Fault
        /\ remote' = [remote EXCEPT ![b] = "cancelled"]
        /\ Lose(members[b])
  /\ UNCHANGED <<promise, open, collecting, members, flush, jobs, resolvers, tasks,
                 polls, restoring, announced, crashes>>

(* The process stops; the next one starts the scheduler and calls restore. *)
(* A submit that was under way may have reached the provider.              *)
Crash ==
  /\ crashes < MaxCrashes
  /\ crashes' = crashes + 1
  /\ Settle(Req, "gone")
  /\ open' = TRUE
  /\ collecting' = {}
  /\ flush' = [b \in Batch |-> IF flush[b] = "unused" THEN "unused" ELSE "over"]
  /\ resolvers' = {}
  /\ polls' = NoPolls
  /\ restoring' = jobs
  /\ \/ UNCHANGED remote
     \/ remote' = [b \in Batch |-> IF flush[b] = "submitting" THEN "working" ELSE remote[b]]
  /\ UNCHANGED <<members, jobs, tasks, announced, lost>>

RestoreArmsNothing(b) ==
  /\ b \in restoring
  /\ restoring' = restoring \ {b}
  /\ UNCHANGED <<promise, open, collecting, members, flush, remote, jobs, resolvers, tasks,
                 polls, announced, lost, crashes>>

(* restore, one key: its record is read, and if there is one a poll stored. *)
Restore(b) ==
  /\ b \in restoring
  /\ restoring' = restoring \ {b}
  /\ tasks' = IF b \in jobs THEN [tasks EXCEPT ![b] = @ + 1] ELSE tasks
  /\ UNCHANGED <<promise, open, collecting, members, flush, remote, jobs, resolvers,
                 polls, announced, lost, crashes>>

FlushStep(b) == Submitted(b) \/ Saved(b) \/ Scheduled(b)
PollStep(b) ==
  \/ PollReads(b) \/ PollAsks(b) \/ PollRearms(b) \/ PollFetches(b)
  \/ PollForgets(b) \/ PollEnds(b)

Next ==
  \/ \E r \in Req : Intercept(r)
  \/ \E b \in Batch : FlushStep(b) \/ PollStarts(b) \/ PollStep(b) \/ Restore(b) \/ RemoteEnds(b)
  \/ WindowCloses \/ Destroy \/ Crash

Spec == Init /\ [][Next]_vars

(* Timers fire, calls return, and the provider ends what it works on.      *)
Fairness ==
  /\ WF_vars(WindowCloses)
  /\ \A b \in Batch :
       /\ WF_vars(FlushStep(b)) /\ WF_vars(PollStarts(b)) /\ WF_vars(Restore(b))
       /\ WF_vars(RemoteEnds(b))
       /\ WF_vars(PollFetches(b)) /\ WF_vars(PollReads(b)) /\ WF_vars(PollAsks(b)) /\ WF_vars(PollRearms(b))
       /\ WF_vars(PollForgets(b)) /\ WF_vars(PollEnds(b))

FairSpec == Spec /\ Fairness

-----------------------------------------------------------------------------
(* Properties.                                                             *)

(* A request is submitted at most once: it is in the buffer or in one      *)
(* batch, whatever timer, full buffer and crash do.  BatcherProofs has it  *)
(* for any number of batches.                                              *)
SubmittedOnce ==
  /\ \A b \in Batch : members[b] \cap collecting = {}
  /\ \A b, c \in Batch : b # c => members[b] \cap members[c] = {}

(* A batch on record is going to be polled, unless a failure ended its     *)
(* polling: by a stored task, by the flush that is about to store one, or  *)
(* by restore.                                                             *)
EveryJobHasAPoll ==
  \A b \in jobs : ~ members[b] \subseteq lost =>
    tasks[b] > 0 \/ flush[b] = "scheduling" \/ b \in restoring

(* Resolvers are kept for batches on record only: they do not pile up.     *)
ResolversBelongToJobs == resolvers \subseteq jobs

(* Every pending promise is in the hands of code that will settle it,      *)
(* unless a failure nothing recovers from met it.                          *)
EveryCallerHasAKeeper ==
  \A r \in Req \ lost : promise[r] = "pending" =>
    \/ r \in collecting
    \/ \E b \in Batch : r \in members[b]
         /\ (flush[b] \in {"submitting", "saving"} \/ b \in resolvers)

(* The promise of an intercepted request is settled, unless the process    *)
(* stops first.                                                            *)
EveryCallerSettles == \A r \in Req : promise[r] = "pending" ~> promise[r] # "pending"

(* The same, but for the failures nothing recovers from.                   *)
EveryCallerSettlesUnlessLost ==
  \A r \in Req : promise[r] = "pending" ~> promise[r] # "pending" \/ r \in lost

(* The results of every batch on record are announced, across restarts.    *)
EveryJobIsAnnounced == \A b \in Batch : b \in jobs ~> members[b] \subseteq announced \cup lost

=============================================================================
