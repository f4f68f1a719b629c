---------------------------- MODULE BatcherProofs ----------------------------
(***************************************************************************)
(* What the batcher keeps for any number of requests, batches and crashes, *)
(* whatever of its calls, writes and subscribers fails.                    *)
(***************************************************************************)
EXTENDS Batcher, TLAPS

BatchTypes ==
  /\ promise \in [Req -> Promise]
  /\ collecting \in SUBSET Req
  /\ members \in [Batch -> SUBSET Req]
  /\ flush \in [Batch -> FlushPlace]
  /\ jobs \in SUBSET Batch /\ resolvers \in SUBSET Batch /\ restoring \in SUBSET Batch
  /\ lost \in SUBSET Req

-----------------------------------------------------------------------------
(* Callers: each request is in one place, and somebody holds its promise.  *)

(* Whatever the batcher holds was intercepted, and an id is used once.     *)
HeldIsIntercepted ==
  /\ \A r \in collecting : promise[r] # "none"
  /\ \A b \in Batch : \A r \in members[b] : promise[r] # "none"
  /\ \A b \in Batch : flush[b] = "unused" => members[b] = {}

CallerInv == BatchTypes /\ HeldIsIntercepted /\ SubmittedOnce /\ EveryCallerHasAKeeper

LEMMA InitCallerInv == Init => CallerInv
  BY DEF Init, CallerInv, BatchTypes, HeldIsIntercepted, SubmittedOnce,
         EveryCallerHasAKeeper, Promise, FlushPlace

(* A turn that gives promises an outcome and touches no buffer or batch.   *)
LEMMA Undisturbed ==
  ASSUME CallerInv, BatchTypes', UNCHANGED <<collecting, members>>,
         \A b \in Batch : flush[b] # "unused" => flush'[b] # "unused",
         \A b \in Batch : flush[b] = "unused" => flush'[b] = "unused",
         \A r \in Req : promise[r] # "none" => promise'[r] # "none",
         EveryCallerHasAKeeper'
  PROVE  CallerInv'
<1>1. HeldIsIntercepted'
  BY DEF CallerInv, BatchTypes, HeldIsIntercepted
<1>2. SubmittedOnce'
  BY DEF CallerInv, SubmittedOnce
<1> QED
  BY <1>1, <1>2 DEF CallerInv

(* flushCollection hands over R, the buffer with or without a newcomer.    *)
LEMMA FlushKeepsCallers ==
  ASSUME CallerInv, NEW R \in SUBSET Req, Flush(R), collecting \subseteq R,
         \A r \in R \ collecting : promise[r] = "none",
         \A r \in R : promise'[r] # "none",
         \A r \in Req \ R : promise'[r] = promise[r], promise' \in [Req -> Promise],
         UNCHANGED <<jobs, resolvers, restoring, lost>>
  PROVE  CallerInv'
<1> USE DEF CallerInv, BatchTypes
<1>1. PICK b \in Batch :
        /\ flush[b] = "unused"
        /\ flush' = [flush EXCEPT ![b] = "submitting"]
        /\ members' = [members EXCEPT ![b] = R]
        /\ collecting' = {}
  BY DEF Flush
<1>2. BatchTypes'
  BY <1>1 DEF FlushPlace
<1>3. \A c \in Batch : members[c] \cap R = {}
  BY DEF HeldIsIntercepted, SubmittedOnce
<1>4. SubmittedOnce'
  BY <1>1, <1>3 DEF SubmittedOnce
<1>5. HeldIsIntercepted'
  BY <1>1, <1>3 DEF HeldIsIntercepted
<1>6. EveryCallerHasAKeeper'
  <2> SUFFICES ASSUME NEW r \in Req \ lost, promise'[r] = "pending"
               PROVE  \E c \in Batch : r \in members'[c]
                        /\ (flush'[c] \in {"submitting", "saving"} \/ c \in resolvers)
    BY DEF EveryCallerHasAKeeper
  <2>1. CASE r \in R
    BY <1>1, <2>1
  <2>2. CASE r \notin R
    <3>1. PICK c \in Batch : r \in members[c]
                 /\ (flush[c] \in {"submitting", "saving"} \/ c \in resolvers)
      BY <2>2 DEF EveryCallerHasAKeeper
    <3>2. c # b
      BY <1>1, <3>1 DEF HeldIsIntercepted
    <3> QED
      BY <1>1, <3>1, <3>2
  <2> QED
    BY <2>1, <2>2
<1> QED
  BY <1>2, <1>4, <1>5, <1>6

(* A turn of the polls, the provider or restore that settles nobody.       *)
LEMMA CallersUntouched ==
  ASSUME CallerInv, UNCHANGED <<promise, collecting, members, flush, resolvers>>,
         jobs' \in SUBSET Batch, restoring' \in SUBSET Batch,
         lost \subseteq lost', lost' \in SUBSET Req
  PROVE  CallerInv'
<1>1. BatchTypes'
  BY DEF CallerInv, BatchTypes
<1>2. EveryCallerHasAKeeper'
  BY DEF CallerInv, EveryCallerHasAKeeper
<1> QED
  BY <1>1, <1>2, Undisturbed

(* The flush of a batch goes on or fails.                                  *)
LEMMA FlushStepKeepsCallers ==
  ASSUME CallerInv, NEW b \in Batch, FlushStep(b)
  PROVE  CallerInv'
<1> USE DEF CallerInv, BatchTypes
<1>1. /\ UNCHANGED <<collecting, members, restoring>>
      /\ jobs' \in SUBSET Batch /\ lost \subseteq lost' /\ lost' \in SUBSET Req
      /\ resolvers \subseteq resolvers' /\ resolvers' \in SUBSET Batch
  BY DEF FlushStep, Submitted, Saved, Scheduled, Lose
<1>2. flush[b] # "unused"
  BY DEF FlushStep, Submitted, Saved, Scheduled
<1>3. PICK p \in FlushPlace \ {"unused"} : flush' = [flush EXCEPT ![b] = p]
  BY DEF FlushStep, Submitted, Saved, Scheduled, FlushFails, FlushPlace
<1>4. CASE UNCHANGED promise
  <2>1. flush[b] \in {"submitting", "saving"} => p \in {"submitting", "saving"} \/ b \in resolvers'
               \/ FlushFails(b)
    BY <1>3 DEF FlushStep, Submitted, Saved, Scheduled
  <2>2. BatchTypes'
    BY <1>1, <1>3, <1>4
  <2>3. EveryCallerHasAKeeper'
    <3> SUFFICES ASSUME NEW r \in Req \ lost, promise[r] = "pending", r \notin collecting
                 PROVE  \E c \in Batch : r \in members[c]
                          /\ (flush'[c] \in {"submitting", "saving"} \/ c \in resolvers')
      BY <1>1, <1>4 DEF EveryCallerHasAKeeper
    <3>1. PICK c \in Batch : r \in members[c]
                 /\ (flush[c] \in {"submitting", "saving"} \/ c \in resolvers)
      BY DEF EveryCallerHasAKeeper
    <3>2. CASE c # b
      BY <1>1, <1>3, <3>1, <3>2
    <3>3. CASE c = b
      <4>1. CASE FlushFails(b)
        BY <1>4, <3>1, <3>3, <4>1 DEF FlushFails, Settle
      <4> QED
        BY <1>1, <1>3, <2>1, <3>1, <3>3, <4>1
    <3> QED
      BY <3>2, <3>3
  <2> QED
    BY <1>1, <1>2, <1>3, <1>4, <2>2, <2>3, Undisturbed
<1>5. CASE FlushFails(b)
  <2>1. promise' = [r \in Req |-> IF r \in members[b] /\ promise[r] = "pending"
                                  THEN "rejected" ELSE promise[r]]
    BY <1>5 DEF FlushFails, Settle
  <2>2. BatchTypes'
    BY <1>1, <1>3, <2>1 DEF Promise
  <2>3. EveryCallerHasAKeeper'
    BY <1>1, <1>3, <2>1 DEF EveryCallerHasAKeeper
  <2>4. \A r \in Req : promise[r] # "none" => promise'[r] # "none"
    BY <2>1
  <2> QED
    BY <1>1, <1>2, <1>3, <2>2, <2>3, <2>4, Undisturbed
<1> QED
  BY <1>4, <1>5 DEF FlushStep, Submitted, Saved, Scheduled

LEMMA FetchKeepsCallers ==
  ASSUME CallerInv, NEW b \in Batch, PollFetches(b)
  PROVE  CallerInv'
<1> USE DEF CallerInv, BatchTypes
<1>1. UNCHANGED <<collecting, members, flush, jobs, restoring>>
  BY DEF PollFetches
<1>2. lost \subseteq lost' /\ lost' \in SUBSET Req
  BY DEF PollFetches, PollFails, Lose
<1>3. CASE UNCHANGED <<promise, resolvers>>
  BY <1>1, <1>2, <1>3, CallersUntouched
<1>4. ASSUME NEW R \in SUBSET members[b], NEW S \in SUBSET members[b], Deliver(b, R, S),
             \/ resolvers' = resolvers \ {b} /\ members[b] \ R \subseteq lost'
             \/ resolvers' = resolvers
      PROVE  CallerInv'
  <2>1. promise' \in [Req -> Promise] /\ \A r \in Req : promise[r] # "none" => promise'[r] # "none"
    BY <1>4 DEF Deliver, Promise
  <2>2. \A r \in Req : promise'[r] = "pending" => promise[r] = "pending" /\ (b \in resolvers => r \notin R)
    BY <1>4 DEF Deliver
  <2>3. EveryCallerHasAKeeper'
    BY <1>1, <1>2, <1>4, <2>2 DEF EveryCallerHasAKeeper
  <2>4. BatchTypes'
    BY <1>1, <1>2, <1>4, <2>1
  <2> QED
    BY <1>1, <2>1, <2>3, <2>4, Undisturbed
<1> QED
  BY <1>3, <1>4 DEF PollFetches, Lose

LEMMA NextCallerInv == CallerInv /\ [Next]_vars => CallerInv'
<1> SUFFICES ASSUME CallerInv, [Next]_vars PROVE CallerInv'
  OBVIOUS
<1>t. BatchTypes
  BY DEF CallerInv
<1>1. CASE UNCHANGED vars
  BY <1>1, <1>t, CallersUntouched DEF vars, BatchTypes
<1>2. ASSUME NEW r \in Req, Intercept(r) PROVE CallerInv'
  <2>1. promise[r] = "none" /\ promise' = [promise EXCEPT ![r] = "pending"]
    BY <1>2 DEF Intercept
  <2>2. r \notin collecting
    BY <2>1 DEF CallerInv, HeldIsIntercepted
  <2>3. CASE Flush(collecting \cup {r})
    <3>1. collecting \cup {r} \in SUBSET Req /\ promise' \in [Req -> Promise]
      BY <1>t, <2>1 DEF BatchTypes, Promise
    <3>2. \A q \in collecting \cup {r} : promise'[q] # "none"
      BY <1>t, <2>1 DEF BatchTypes, CallerInv, HeldIsIntercepted
    <3>3. \A q \in Req \ (collecting \cup {r}) : promise'[q] = promise[q]
      BY <1>t, <2>1 DEF BatchTypes
    <3>4. UNCHANGED <<jobs, resolvers, restoring, lost>>
      BY <1>2 DEF Intercept
    <3> QED
      BY <2>1, <2>3, <3>1, <3>2, <3>3, <3>4, FlushKeepsCallers
  <2>4. CASE collecting' = collecting \cup {r} /\ UNCHANGED <<flush, members>>
    <3>1. UNCHANGED <<flush, members, jobs, resolvers, restoring, lost>>
      BY <1>2, <2>4 DEF Intercept
    <3>2. BatchTypes'
      BY <1>t, <2>1, <2>4, <3>1 DEF BatchTypes, Promise
    <3>3. HeldIsIntercepted'
      BY <1>t, <2>1, <2>4, <3>1 DEF BatchTypes, CallerInv, HeldIsIntercepted
    <3>4. SubmittedOnce'
      BY <2>1, <2>4, <3>1 DEF CallerInv, HeldIsIntercepted, SubmittedOnce
    <3>5. EveryCallerHasAKeeper'
      BY <1>t, <2>1, <2>4, <3>1 DEF BatchTypes, CallerInv, EveryCallerHasAKeeper
    <3> QED
      BY <3>2, <3>3, <3>4, <3>5 DEF CallerInv
  <2> QED
    BY <1>2, <2>3, <2>4 DEF Intercept
<1>3. CASE WindowCloses
  BY <1>3, <1>t, FlushKeepsCallers DEF WindowCloses, BatchTypes, CallerInv, HeldIsIntercepted
<1>4. CASE Destroy
  <2>1. BatchTypes'
    BY <1>4, <1>t DEF Destroy, BatchTypes, Lose
  <2>2. HeldIsIntercepted' /\ SubmittedOnce' /\ EveryCallerHasAKeeper'
    BY <1>4 DEF Destroy, Lose, CallerInv, HeldIsIntercepted, SubmittedOnce, EveryCallerHasAKeeper
  <2> QED
    BY <2>1, <2>2 DEF CallerInv
<1>5. CASE Crash
  <2>1. BatchTypes'
    BY <1>5, <1>t DEF Crash, BatchTypes, Settle, Promise, FlushPlace
  <2>2. \A r \in Req : promise'[r] # "pending" /\ (promise[r] # "none" => promise'[r] # "none")
    BY <1>5, <1>t DEF Crash, BatchTypes, Settle
  <2>3. HeldIsIntercepted' /\ SubmittedOnce' /\ EveryCallerHasAKeeper'
    BY <1>5, <1>t, <2>2 DEF Crash, BatchTypes, CallerInv, HeldIsIntercepted, SubmittedOnce,
                            EveryCallerHasAKeeper
  <2> QED
    BY <2>1, <2>3 DEF CallerInv
<1>6. ASSUME NEW b \in Batch, PollStarts(b) \/ Restore(b) \/ RemoteEnds(b)
      PROVE  CallerInv'
  BY <1>6, <1>t, CallersUntouched DEF PollStarts, Restore, RemoteEnds, BatchTypes, Lose
<1>7. ASSUME NEW b \in Batch, PollReads(b) \/ PollAsks(b) \/ PollRearms(b) \/ PollForgets(b) \/ PollEnds(b)
      PROVE  CallerInv'
  BY <1>7, <1>t, CallersUntouched
  DEF PollReads, PollAsks, PollRearms, PollForgets, PollEnds, PollFails, BatchTypes, Lose
<1> QED
  BY <1>1, <1>2, <1>3, <1>4, <1>5, <1>6, <1>7, FlushStepKeepsCallers, FetchKeepsCallers
  DEF Next, PollStep

LEMMA SpecCallerInv == Spec => []CallerInv
  BY InitCallerInv, NextCallerInv, PTL DEF Spec

(* A request is in the buffer or in one batch and never in two, whatever   *)
(* timer, full buffer, failures and crashes do.                            *)
THEOREM SpecSubmittedOnce == Spec => []SubmittedOnce
<1>1. CallerInv => SubmittedOnce
  BY DEF CallerInv
<1> QED
  BY <1>1, SpecCallerInv, PTL

(* Every pending promise is in the buffer, in a flush that will settle or  *)
(* hand it on, or among the resolvers of its batch, unless a failure of    *)
(* the listed kinds met it.                                                *)
THEOREM SpecEveryCallerHasAKeeper == Spec => []EveryCallerHasAKeeper
<1>1. CallerInv => EveryCallerHasAKeeper
  BY DEF CallerInv
<1> QED
  BY <1>1, SpecCallerInv, PTL

-----------------------------------------------------------------------------
(* Jobs: a batch on record is going to be polled, and its resolvers go     *)
(* before its record does.                                                 *)

PollTypes ==
  /\ tasks \in [Batch -> Nat]
  /\ polls \in [Batch -> [PollPlace -> Nat]]

(* Before its record is written nothing refers to a batch.                 *)
Unrecorded == {"unused", "submitting", "saving"}
NothingBeforeRecord ==
  \A b \in Batch : flush[b] \in Unrecorded => b \notin jobs \cup restoring /\ tasks[b] = 0

(* A poll that runs has its task on record, and one that is about to       *)
(* delete the job has taken the resolvers.                                 *)
PollsHaveTasks == \A b \in Batch : Running(b) <= tasks[b]
ForgettingIsAnswered == \A b \in Batch : polls[b]["forgetting"] > 0 => b \notin resolvers

(* The tasks of a job outnumber the polls that are over.                   *)
JobTended(b) ==
  \/ members[b] \subseteq lost
  \/ tasks[b] > polls[b]["ending"] \/ flush[b] = "scheduling" \/ b \in restoring
JobsTended == \A b \in jobs : JobTended(b)

JobInv ==
  /\ PollTypes /\ NothingBeforeRecord /\ PollsHaveTasks /\ ForgettingIsAnswered
  /\ ResolversBelongToJobs /\ JobsTended

LEMMA InitJobInv == Init => JobInv
  BY DEF Init, JobInv, PollTypes, NothingBeforeRecord, PollsHaveTasks, ForgettingIsAnswered,
         ResolversBelongToJobs, JobsTended, NoPolls, PollPlace, Running, Unrecorded

(* One batch has a turn; the others are as they were.                      *)
Only(b) ==
  /\ \A c \in Batch \ {b} :
       /\ tasks'[c] = tasks[c] /\ polls'[c] = polls[c]
       /\ flush'[c] = flush[c] /\ members'[c] = members[c]
       /\ (c \in jobs' <=> c \in jobs) /\ (c \in resolvers' <=> c \in resolvers)
       /\ (c \in restoring' <=> c \in restoring)
  /\ lost \subseteq lost'

(* What is to be shown of that batch.                                      *)
Kept(b) ==
  /\ flush'[b] \in Unrecorded => b \notin jobs' \cup restoring' /\ tasks'[b] = 0
  /\ Running(b)' <= tasks'[b]
  /\ polls'[b]["forgetting"] > 0 => b \notin resolvers'
  /\ b \in resolvers' => b \in jobs'
  /\ b \in jobs' => JobTended(b)'

LEMMA OneBatch ==
  ASSUME BatchTypes, BatchTypes', JobInv, PollTypes', NEW b \in Batch, Only(b), Kept(b)
  PROVE  JobInv'
<1> USE DEF Only, Kept, BatchTypes
<1>1. NothingBeforeRecord'
  BY DEF JobInv, NothingBeforeRecord
<1>2. PollsHaveTasks'
  BY DEF JobInv, PollsHaveTasks, Running
<1>3. ForgettingIsAnswered'
  BY DEF JobInv, ForgettingIsAnswered
<1>4. ResolversBelongToJobs'
  BY DEF JobInv, ResolversBelongToJobs
<1>5. JobsTended'
  BY DEF JobInv, JobsTended, JobTended
<1> QED
  BY <1>1, <1>2, <1>3, <1>4, <1>5 DEF JobInv

(* What a poll's move does to the counts of its batch.                     *)
LEMMA MoveCounts ==
  ASSUME PollTypes, NEW b \in Batch, NEW from \in PollPlace, NEW to \in PollPlace,
         from # to, PollMoves(b, from, to)
  PROVE  /\ polls' \in [Batch -> [PollPlace -> Nat]]
         /\ \A c \in Batch \ {b} : polls'[c] = polls[c]
         /\ polls'[b][from] = polls[b][from] - 1
         /\ polls'[b][to] = polls[b][to] + 1
         /\ \A p \in PollPlace \ {from, to} : polls'[b][p] = polls[b][p]
         /\ Running(b)' = Running(b)
         /\ polls[b][from] > 0
<1>1. polls' = [polls EXCEPT ![b] = [polls[b] EXCEPT ![from] = polls[b][from] - 1,
                                                     ![to] = polls[b][to] + 1]]
  BY DEF PollMoves, PollTypes
<1>2. polls'[b] = [polls[b] EXCEPT ![from] = polls[b][from] - 1, ![to] = polls[b][to] + 1]
  BY <1>1 DEF PollTypes
<1>3. polls[b] \in [PollPlace -> Nat] /\ polls[b][from] > 0
  BY DEF PollTypes, PollMoves
<1>4. /\ polls'[b][from] = polls[b][from] - 1 /\ polls'[b][to] = polls[b][to] + 1
      /\ \A p \in PollPlace \ {from, to} : polls'[b][p] = polls[b][p]
  BY <1>2, <1>3
<1>5. polls'[b] \in [PollPlace -> Nat]
  BY <1>2, <1>3
<1>6. polls' \in [Batch -> [PollPlace -> Nat]] /\ \A c \in Batch \ {b} : polls'[c] = polls[c]
  BY <1>1, <1>2, <1>5 DEF PollTypes
<1>7. Running(b)' = Running(b)
  <2>1. \A p \in PollPlace : polls[b][p] \in Nat /\ polls'[b][p] \in Nat
    BY <1>3, <1>5
  <2> DEFINE gain(p) == IF p = from THEN -1 ELSE IF p = to THEN 1 ELSE 0
  <2>2. \A p \in PollPlace : polls'[b][p] = polls[b][p] + gain(p)
    BY <1>4, <2>1
  <2>3. gain("reading") + gain("asking") + gain("rearming")
        + gain("fetching") + gain("forgetting") + gain("ending") = 0
    BY DEF PollPlace
  <2>4. \A p \in PollPlace : gain(p) \in Int
    OBVIOUS
  <2> HIDE DEF gain
  <2>5. /\ polls'[b]["reading"] = polls[b]["reading"] + gain("reading")
       /\ polls[b]["reading"] \in Nat /\ gain("reading") \in Int
    BY <2>1, <2>2, <2>4 DEF PollPlace
  <2>6. /\ polls'[b]["asking"] = polls[b]["asking"] + gain("asking")
       /\ polls[b]["asking"] \in Nat /\ gain("asking") \in Int
    BY <2>1, <2>2, <2>4 DEF PollPlace
  <2>7. /\ polls'[b]["rearming"] = polls[b]["rearming"] + gain("rearming")
       /\ polls[b]["rearming"] \in Nat /\ gain("rearming") \in Int
    BY <2>1, <2>2, <2>4 DEF PollPlace
  <2>8. /\ polls'[b]["fetching"] = polls[b]["fetching"] + gain("fetching")
       /\ polls[b]["fetching"] \in Nat /\ gain("fetching") \in Int
    BY <2>1, <2>2, <2>4 DEF PollPlace
  <2>9. /\ polls'[b]["forgetting"] = polls[b]["forgetting"] + gain("forgetting")
       /\ polls[b]["forgetting"] \in Nat /\ gain("forgetting") \in Int
    BY <2>1, <2>2, <2>4 DEF PollPlace
  <2>10. /\ polls'[b]["ending"] = polls[b]["ending"] + gain("ending")
        /\ polls[b]["ending"] \in Nat /\ gain("ending") \in Int
    BY <2>1, <2>2, <2>4 DEF PollPlace
  <2> QED
    BY <2>3, <2>5, <2>6, <2>7, <2>8, <2>9, <2>10 DEF Running
<1> QED
  BY <1>3, <1>4, <1>6, <1>7

(* A poll goes on without touching the job: it fails, is repeated by       *)
(* another task, finds no record, or has something left to do.             *)
LEMMA PollGoesOn ==
  ASSUME BatchTypes, BatchTypes', JobInv, NEW b \in Batch,
         NEW from \in PollPlace \ {"ending"}, NEW to \in PollPlace \ {"forgetting"}, from # to,
         PollMoves(b, from, to),
         UNCHANGED <<flush, members, jobs, resolvers, restoring>>, lost \subseteq lost',
         \/ tasks' = tasks /\ (to = "ending" => members[b] \subseteq lost' \/ b \notin jobs)
         \/ tasks' = [tasks EXCEPT ![b] = @ + 1]
  PROVE  JobInv'
<1>1. /\ polls' \in [Batch -> [PollPlace -> Nat]]
      /\ \A c \in Batch \ {b} : polls'[c] = polls[c]
      /\ polls'[b]["forgetting"] <= polls[b]["forgetting"]
      /\ polls'[b]["ending"] <= polls[b]["ending"] + 1
      /\ to # "ending" => polls'[b]["ending"] = polls[b]["ending"]
      /\ Running(b)' = Running(b) /\ Running(b) > 0
  <2>1. \A p \in PollPlace : polls[b][p] \in Nat
    BY DEF JobInv, PollTypes
  <2>2. polls[b][from] > 0
    BY DEF PollMoves
  <2>3. Running(b) > 0
    BY <2>1, <2>2 DEF Running, PollPlace
  <2> QED
    BY <2>1, <2>3, MoveCounts DEF JobInv, PollPlace
<1>2. /\ PollTypes' /\ \A c \in Batch \ {b} : tasks'[c] = tasks[c]
      /\ tasks[b] \in Nat /\ tasks'[b] \in {tasks[b], tasks[b] + 1}
      /\ tasks'[b] = tasks[b] => to # "ending" \/ members[b] \subseteq lost' \/ b \notin jobs
  BY <1>1 DEF JobInv, PollTypes
<1>3. Only(b)
  BY <1>1, <1>2 DEF Only
<1>4. Running(b) \in Nat /\ tasks[b] > 0 /\ Running(b) <= tasks[b]
  <2>1. \A p \in PollPlace : polls[b][p] \in Nat
    BY DEF JobInv, PollTypes
  <2>2. Running(b) \in Nat
    BY <2>1 DEF Running, PollPlace
  <2> QED
    BY <1>1, <1>2, <2>2 DEF JobInv, PollsHaveTasks
<1>5. Kept(b)
  <2>1. flush[b] \notin Unrecorded
    BY <1>4 DEF JobInv, NothingBeforeRecord
  <2>2. Running(b)' <= tasks'[b]
    BY <1>1, <1>2, <1>4
  <2>3. polls'[b]["forgetting"] > 0 => b \notin resolvers
    BY <1>1 DEF JobInv, ForgettingIsAnswered, PollTypes, PollPlace
  <2>4. b \in jobs => JobTended(b)'
    BY <1>1, <1>2 DEF JobInv, JobsTended, JobTended, PollTypes, PollPlace
  <2> QED
    BY <2>1, <2>2, <2>3, <2>4 DEF Kept, JobInv, ResolversBelongToJobs
<1> QED
  BY <1>2, <1>3, <1>5, OneBatch

LEMMA PollStepKeepsJobs ==
  ASSUME BatchTypes, BatchTypes', JobInv, NEW b \in Batch, PollStep(b)
  PROVE  JobInv'
<1>1. CASE PollReads(b)
  BY <1>1, PollGoesOn DEF PollReads, PollPlace
<1>2. CASE PollAsks(b)
  <2>1. CASE PollFails(b, "asking")
    BY <1>2, <2>1, PollGoesOn DEF PollAsks, PollFails, Lose, PollPlace
  <2> QED
    BY <1>2, <2>1, PollGoesOn DEF PollAsks, PollPlace
<1>3. CASE PollRearms(b)
  BY <1>3, PollGoesOn DEF PollRearms, PollFails, Lose, PollPlace
<1>4. CASE PollFetches(b)
  <2>1. CASE PollFails(b, "fetching") /\ UNCHANGED resolvers
    BY <1>4, <2>1, PollGoesOn DEF PollFetches, PollFails, Lose, PollPlace
  <2>2. CASE /\ PollMoves(b, "fetching", "forgetting") /\ resolvers' = resolvers \ {b}
             /\ lost \subseteq lost'
    <3>0. UNCHANGED <<members, flush, jobs, tasks, restoring>>
      BY <1>4 DEF PollFetches
    <3>1. /\ polls' \in [Batch -> [PollPlace -> Nat]]
          /\ \A c \in Batch \ {b} : polls'[c] = polls[c]
          /\ polls'[b]["ending"] = polls[b]["ending"] /\ Running(b)' = Running(b)
      BY <2>2, MoveCounts DEF JobInv, PollPlace
    <3>2. PollTypes' /\ Only(b)
      BY <2>2, <3>0, <3>1 DEF JobInv, PollTypes, Only
    <3>3. Kept(b)
      BY <2>2, <3>0, <3>1 DEF Kept, JobInv, NothingBeforeRecord, PollsHaveTasks, JobsTended, JobTended
    <3> QED
      BY <3>2, <3>3, OneBatch
  <2> QED
    BY <1>4, <2>1, <2>2 DEF PollFetches, Lose
<1>5. CASE PollForgets(b)
  <2>1. /\ polls' \in [Batch -> [PollPlace -> Nat]]
        /\ \A c \in Batch \ {b} : polls'[c] = polls[c]
        /\ polls[b]["forgetting"] > 0 /\ Running(b)' = Running(b)
    BY <1>5, MoveCounts DEF PollForgets, JobInv, PollPlace
  <2>2. /\ UNCHANGED <<members, flush, resolvers, tasks, restoring, lost>>
        /\ jobs' = jobs \ {b}
    BY <1>5 DEF PollForgets
  <2>3. PollTypes' /\ Only(b)
    BY <2>1, <2>2 DEF JobInv, PollTypes, Only
  <2>4. Kept(b)
    BY <2>1, <2>2 DEF Kept, JobInv, NothingBeforeRecord, PollsHaveTasks, ForgettingIsAnswered
  <2> QED
    BY <2>3, <2>4, OneBatch
<1>6. CASE PollEnds(b)
  <2>0. /\ UNCHANGED <<members, flush, resolvers, jobs, restoring, lost>>
        /\ tasks' = [tasks EXCEPT ![b] = @ - 1]
        /\ polls' = [polls EXCEPT ![b]["ending"] = @ - 1]
        /\ polls[b]["ending"] > 0
    BY <1>6 DEF PollEnds
  <2>1. \A p \in PollPlace : polls[b][p] \in Nat
    BY DEF JobInv, PollTypes
  <2>2. /\ polls'[b]["ending"] = polls[b]["ending"] - 1
        /\ \A p \in PollPlace \ {"ending"} : polls'[b][p] = polls[b][p]
        /\ \A c \in Batch \ {b} : polls'[c] = polls[c] /\ tasks'[c] = tasks[c]
        /\ tasks'[b] = tasks[b] - 1 /\ tasks[b] \in Nat
    BY <2>0 DEF JobInv, PollTypes, PollPlace
  <2>3. Running(b)' = Running(b) - 1 /\ Running(b) \in Nat /\ Running(b) > 0
    BY <2>0, <2>1, <2>2 DEF Running, PollPlace
  <2>4. Running(b) <= tasks[b]
    BY DEF JobInv, PollsHaveTasks
  <2>5. PollTypes' /\ Only(b)
    BY <2>0, <2>1, <2>2, <2>3, <2>4 DEF JobInv, PollTypes, Only, PollPlace
  <2>6. b \in jobs => JobTended(b)'
    BY <2>0, <2>1, <2>2 DEF JobInv, JobsTended, JobTended, PollPlace
  <2>7. Kept(b)
    BY <2>0, <2>2, <2>3, <2>4, <2>6
    DEF Kept, JobInv, NothingBeforeRecord, ForgettingIsAnswered, ResolversBelongToJobs, PollPlace
  <2> QED
    BY <2>5, <2>7, OneBatch
<1> QED
  BY <1>1, <1>2, <1>3, <1>4, <1>5, <1>6 DEF PollStep

(* A turn that leaves jobs, tasks and polls alone.                         *)
LEMMA JobsUntouched ==
  ASSUME BatchTypes, JobInv, UNCHANGED <<jobs, resolvers, restoring, tasks, polls>>,
         lost \subseteq lost',
         \A b \in Batch :
           \/ flush'[b] = flush[b] /\ members'[b] = members[b]
           \/ flush[b] \in Unrecorded /\ flush'[b] \in Unrecorded \cup {"over"}
  PROVE  JobInv'
<1>1. PollTypes' /\ PollsHaveTasks' /\ ForgettingIsAnswered' /\ ResolversBelongToJobs'
  BY DEF JobInv, PollTypes, PollsHaveTasks, ForgettingIsAnswered, ResolversBelongToJobs, Running
<1>2. NothingBeforeRecord'
  BY DEF JobInv, NothingBeforeRecord
<1>3. JobsTended'
  BY DEF BatchTypes, JobInv, NothingBeforeRecord, JobsTended, JobTended
<1> QED
  BY <1>1, <1>2, <1>3 DEF JobInv

LEMMA FlushStepKeepsJobs ==
  ASSUME BatchTypes, BatchTypes', JobInv, NEW b \in Batch, FlushStep(b)
  PROVE  JobInv'
<1>0. UNCHANGED <<members, restoring, polls>> /\ lost \subseteq lost'
  BY DEF FlushStep, Submitted, Saved, Scheduled, Lose
<1>a. /\ \A p \in PollPlace : polls[b][p] \in Nat
      /\ tasks[b] \in Nat /\ Running(b) \in Nat /\ Running(b) <= tasks[b]
      /\ polls[b]["ending"] <= Running(b) /\ polls[b]["forgetting"] <= Running(b)
  <2>1. tasks[b] \in Nat /\ \A p \in PollPlace : polls[b][p] \in Nat
    BY DEF JobInv, PollTypes
  <2>2. /\ Running(b) \in Nat
        /\ polls[b]["ending"] <= Running(b) /\ polls[b]["forgetting"] <= Running(b)
    BY <2>1 DEF Running, PollPlace
  <2> QED
    BY <2>1, <2>2 DEF JobInv, PollsHaveTasks
<1>1. CASE Submitted(b)
  <2>1. /\ flush[b] = "submitting"
        /\ flush' = [flush EXCEPT ![b] = "saving"] \/ flush' = [flush EXCEPT ![b] = "over"]
        /\ UNCHANGED <<jobs, resolvers, tasks>>
    BY <1>1 DEF Submitted, FlushFails
  <2> QED
    BY <1>0, <2>1, JobsUntouched DEF BatchTypes, Unrecorded
<1>2. CASE Saved(b)
  <2>1. CASE FlushFails(b) /\ UNCHANGED <<jobs, resolvers>>
    <3>1. flush[b] = "saving" /\ flush' = [flush EXCEPT ![b] = "over"] /\ UNCHANGED tasks
      BY <1>2, <2>1 DEF Saved, FlushFails
    <3> QED
      BY <1>0, <2>1, <3>1, JobsUntouched DEF BatchTypes, Unrecorded
  <2>2. CASE jobs' = jobs \cup {b} /\ resolvers' = resolvers \cup {b}
             /\ flush' = [flush EXCEPT ![b] = "scheduling"]
    <3>1. flush[b] = "saving" /\ UNCHANGED <<tasks, lost>>
      BY <1>2 DEF Saved
    <3>2. tasks[b] = 0 /\ polls[b]["forgetting"] = 0
      BY <1>a, <3>1 DEF JobInv, NothingBeforeRecord, Unrecorded, PollPlace
    <3>3. PollTypes' /\ Only(b)
      BY <1>0, <2>2, <3>1 DEF JobInv, PollTypes, Only, BatchTypes
    <3>4. Running(b)' <= tasks'[b]
      BY <1>0, <1>a, <3>1 DEF Running
    <3>5. flush'[b] = "scheduling"
      BY <2>2 DEF BatchTypes
    <3>6. Kept(b)
      BY <1>0, <2>2, <3>2, <3>4, <3>5 DEF Kept, Unrecorded, JobTended
    <3> QED
      BY <3>3, <3>6, OneBatch
  <2> QED
    BY <1>2, <2>1, <2>2 DEF Saved
<1>3. CASE Scheduled(b)
  <2>1. /\ flush[b] = "scheduling" /\ flush' = [flush EXCEPT ![b] = "over"]
        /\ UNCHANGED <<jobs, resolvers>>
        /\ \/ tasks' = [tasks EXCEPT ![b] = @ + 1]
           \/ UNCHANGED tasks /\ members[b] \subseteq lost'
    BY <1>3 DEF Scheduled, FlushFails, Lose
  <2>2. /\ flush'[b] = "over" /\ \A c \in Batch \ {b} : flush'[c] = flush[c] /\ tasks'[c] = tasks[c]
        /\ \/ tasks'[b] = tasks[b] + 1
           \/ tasks'[b] = tasks[b] /\ members[b] \subseteq lost'
    BY <2>1 DEF BatchTypes, JobInv, PollTypes
  <2>3. PollTypes' /\ Only(b)
    BY <1>0, <2>1, <2>2 DEF JobInv, PollTypes, Only
  <2>4. Running(b)' <= tasks'[b]
    BY <1>0, <1>a, <2>2 DEF Running
  <2>5. JobTended(b)'
    BY <1>0, <1>a, <2>2 DEF JobTended, PollPlace
  <2>6. Kept(b)
    BY <1>0, <2>1, <2>2, <2>4, <2>5
    DEF Kept, Unrecorded, JobInv, ForgettingIsAnswered, ResolversBelongToJobs
  <2> QED
    BY <2>3, <2>6, OneBatch
<1> QED
  BY <1>1, <1>2, <1>3 DEF FlushStep

(* The Scheduler starts a poll, or restore stores one.                     *)
LEMMA StartKeepsJobs ==
  ASSUME BatchTypes, BatchTypes', JobInv, NEW b \in Batch, PollStarts(b) \/ Restore(b)
  PROVE  JobInv'
<1>0. UNCHANGED <<members, flush, jobs, resolvers, lost>>
  BY DEF PollStarts, Restore
<1>a. tasks[b] \in Nat /\ \A p \in PollPlace : polls[b][p] \in Nat
  BY DEF JobInv, PollTypes
<1>b. /\ Running(b) \in Nat /\ Running(b) <= tasks[b] /\ polls[b]["ending"] <= Running(b)
  <2>1. Running(b) \in Nat /\ polls[b]["ending"] <= Running(b)
    BY <1>a DEF Running, PollPlace
  <2> QED
    BY <2>1 DEF JobInv, PollsHaveTasks
<1>1. CASE PollStarts(b)
  <2>0. /\ Running(b) < tasks[b] /\ UNCHANGED <<tasks, restoring>>
        /\ polls' = [polls EXCEPT ![b]["reading"] = @ + 1]
    BY <1>1 DEF PollStarts
  <2>1. /\ polls'[b]["reading"] = polls[b]["reading"] + 1
        /\ \A p \in PollPlace \ {"reading"} : polls'[b][p] = polls[b][p]
        /\ \A c \in Batch \ {b} : polls'[c] = polls[c]
        /\ polls' \in [Batch -> [PollPlace -> Nat]]
    BY <1>a, <2>0 DEF JobInv, PollTypes, PollPlace
  <2>2. Running(b)' = Running(b) + 1
    BY <1>a, <2>1 DEF Running, PollPlace
  <2>3. PollTypes' /\ Only(b)
    BY <1>0, <2>0, <2>1 DEF JobInv, PollTypes, Only
  <2>4. b \in jobs => JobTended(b)'
    BY <1>0, <2>0, <2>1 DEF JobInv, JobsTended, JobTended, PollPlace
  <2>5. Kept(b)
    BY <1>0, <1>a, <1>b, <2>0, <2>1, <2>2, <2>4
    DEF Kept, JobInv, NothingBeforeRecord, ForgettingIsAnswered, ResolversBelongToJobs, PollPlace
  <2> QED
    BY <2>3, <2>5, OneBatch
<1>2. CASE Restore(b)
  <2>0. /\ b \in restoring /\ restoring' = restoring \ {b} /\ UNCHANGED polls
        /\ tasks' = IF b \in jobs THEN [tasks EXCEPT ![b] = @ + 1] ELSE tasks
    BY <1>2 DEF Restore
  <2>1. /\ \A c \in Batch \ {b} : tasks'[c] = tasks[c]
        /\ tasks'[b] = IF b \in jobs THEN tasks[b] + 1 ELSE tasks[b]
        /\ tasks' \in [Batch -> Nat]
    BY <2>0 DEF JobInv, PollTypes
  <2>2. PollTypes' /\ Only(b)
    BY <1>0, <2>0, <2>1 DEF JobInv, PollTypes, Only
  <2>3. Running(b)' = Running(b)
    BY <2>0 DEF Running
  <2>4. b \in jobs => JobTended(b)'
    BY <1>a, <1>b, <2>0, <2>1 DEF JobTended, PollPlace
  <2>5. flush[b] \notin Unrecorded
    BY <2>0 DEF JobInv, NothingBeforeRecord
  <2>6. Kept(b)
    BY <1>0, <1>a, <1>b, <2>0, <2>1, <2>3, <2>4, <2>5
    DEF Kept, JobInv, ForgettingIsAnswered, ResolversBelongToJobs
  <2> QED
    BY <2>2, <2>6, OneBatch
<1> QED
  BY <1>1, <1>2

(* A restart keeps the tasks, ends every poll and restores every job.      *)
LEMMA CrashKeepsJobs ==
  ASSUME BatchTypes, JobInv, Crash
  PROVE  JobInv'
<1>1. /\ flush' = [b \in Batch |-> IF flush[b] = "unused" THEN "unused" ELSE "over"]
      /\ resolvers' = {} /\ polls' = NoPolls /\ restoring' = jobs
      /\ UNCHANGED <<members, jobs, tasks, lost>>
  BY DEF Crash
<1>2. \A b \in Batch, p \in PollPlace : polls'[b][p] = 0
  BY <1>1 DEF NoPolls
<1>3. PollTypes'
  BY <1>1 DEF JobInv, PollTypes, NoPolls
<1>4. PollsHaveTasks'
  BY <1>1, <1>2 DEF JobInv, PollTypes, PollsHaveTasks, Running, PollPlace
<1>5. NothingBeforeRecord' /\ ForgettingIsAnswered' /\ ResolversBelongToJobs' /\ JobsTended'
  BY <1>1 DEF JobInv, NothingBeforeRecord, ForgettingIsAnswered, ResolversBelongToJobs,
              JobsTended, JobTended, Unrecorded
<1> QED
  BY <1>3, <1>4, <1>5 DEF JobInv

LEMMA NextJobInv == CallerInv /\ CallerInv' /\ JobInv /\ [Next]_vars => JobInv'
<1> SUFFICES ASSUME CallerInv, CallerInv', JobInv, [Next]_vars PROVE JobInv'
  OBVIOUS
<1>t. BatchTypes /\ BatchTypes'
  BY DEF CallerInv
<1>1. CASE UNCHANGED vars
  BY <1>1, <1>t, JobsUntouched DEF vars
<1>2. ASSUME NEW r \in Req, Intercept(r) PROVE JobInv'
  BY <1>2, <1>t, JobsUntouched DEF Intercept, Flush, BatchTypes, Unrecorded
<1>3. CASE WindowCloses
  BY <1>3, <1>t, JobsUntouched DEF WindowCloses, Flush, BatchTypes, Unrecorded
<1>4. CASE Destroy
  BY <1>4, <1>t, JobsUntouched DEF Destroy, Lose
<1>5. ASSUME NEW b \in Batch, RemoteEnds(b) PROVE JobInv'
  BY <1>5, <1>t, JobsUntouched DEF RemoteEnds, Lose
<1> QED
  BY <1>1, <1>2, <1>3, <1>4, <1>5, <1>t, FlushStepKeepsJobs, StartKeepsJobs,
     PollStepKeepsJobs, CrashKeepsJobs DEF Next

LEMMA SpecJobInv == Spec => [](CallerInv /\ JobInv)
<1>1. Init => CallerInv /\ JobInv
  BY InitCallerInv, InitJobInv
<1>2. CallerInv /\ JobInv /\ [Next]_vars => (CallerInv /\ JobInv)'
  BY NextCallerInv, NextJobInv
<1> QED
  BY <1>1, <1>2, PTL DEF Spec

(* A batch on record is going to be polled: a task is stored, about to be  *)
(* stored by its flush, or by restore, unless a failure ended its polling. *)
THEOREM SpecEveryJobHasAPoll == Spec => []EveryJobHasAPoll
<1>1. CallerInv /\ JobInv => EveryJobHasAPoll
  BY DEF CallerInv, BatchTypes, JobInv, PollTypes, JobsTended, JobTended, EveryJobHasAPoll, PollPlace
<1> QED
  BY <1>1, SpecJobInv, PTL

(* The map pendingResolvers holds no batch without a record: answers,      *)
(* failed and repeated polls and restarts leave none behind.               *)
THEOREM SpecResolversBelongToJobs == Spec => []ResolversBelongToJobs
<1>1. CallerInv /\ JobInv => ResolversBelongToJobs
  BY DEF JobInv
<1> QED
  BY <1>1, SpecJobInv, PTL

=============================================================================
