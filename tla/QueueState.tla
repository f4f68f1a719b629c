----------------------------- MODULE QueueState -----------------------------
(***************************************************************************)
(* One named queue of the network engine (network/queue-state.ts) with its *)
(* Semaphore (network/semaphore.ts) and the order of its RequestQueue      *)
(* (network/request-queue.ts).                                             *)
(*                                                                         *)
(* JavaScript runs one turn at a time: an action is the code between two   *)
(* awaits, and the awaits are where turns interleave.  Buffered requests   *)
(* (Req) go through the queue and the process loop; streamed ones (Stream) *)
(* take a slot of the same semaphore and bypass the queue.                 *)
(*                                                                         *)
(* Hooks are subscribers' code.  HookBus lets their errors propagate       *)
(* (bus/hook-bus.ts:11-14), so every emit of a hook in Throwing may throw  *)
(* instead of returning.                                                   *)
(*                                                                         *)
(* Time is left to the environment here: the limiter may or may not ask    *)
(* for a wait, any prefix of the queue (which is in order of arrival, and  *)
(* so of deadline) may have expired, and the retry budget of an attempt    *)
(* may be spent.                                                           *)
(***************************************************************************)
EXTENDS Integers, Sequences, FiniteSets, SequencesExt

CONSTANTS
  Req,            \* requests given to submit
  Stream,         \* requests given to submitStream
  MaxConcurrent,  \* limits.concurrent
  MaxSize,        \* queue.maxSize
  MaxRetries,     \* perKind maxRetries of each retryable kind
  Priority,       \* the priority each request is submitted with
  StreamBody,     \* requests whose body is a ReadableStream
  Stateful,       \* requests that continue server-side state, replay not approved
  Throwing        \* hooks that have a subscriber which may throw

Actor == Req \cup Stream

(* What a settled attempt reports: a 429, another retryable failure        *)
(* (server_error, timeout, network), or a kind configured not retryable.   *)
ErrorKind == {"limited", "transient", "fatal"}
RetryableKind == {"limited", "transient"}
Answer == {"none", "ok"} \cup ErrorKind

HookName == {"onEnqueue", "onDequeue", "onQueueTimeout", "onRequestStart",
             "onRateLimitUpdate", "onRequestComplete", "onRateLimitHit",
             "onModelError", "onRetry", "onStreamChunk"}

ASSUME QueueAssumption ==
  /\ IsFiniteSet(Req) /\ IsFiniteSet(Stream) /\ Req \cap Stream = {}
  /\ MaxConcurrent \in Nat \ {0}
  /\ MaxSize \in Nat \ {0}
  /\ MaxRetries \in [RetryableKind -> Nat]
  /\ Priority \in [Req -> Nat \ {0}]
  /\ StreamBody \subseteq Actor /\ Stateful \subseteq Actor
  /\ Throwing \subseteq HookName

MostRetries == IF MaxRetries["limited"] >= MaxRetries["transient"]
               THEN MaxRetries["limited"] ELSE MaxRetries["transient"]

VARIABLES
  pc,       \* where each request stands, see Place
  attempt,  \* entry.attempt, or the loop counter of connect
  answer,   \* class of the last HTTP answer to each request
  sends,    \* calls of fetchFn made for each request
  queue,    \* entries of the RequestQueue, in order of arrival
  running,  \* the flag ensureProcessing tests
  loop,     \* where processLoop stands, see LoopPlace
  current,  \* Semaphore.current
  waiters   \* Semaphore.waiters

vars == <<pc, attempt, answer, sends, queue, running, loop, current, waiters>>

(* A place is the await a request is parked at; "lost" is no place in the  *)
(* code: an entry that left the queue and that nothing refers to any more. *)
Place == {"idle", "queued", "paced", "acquiring", "starting", "fetching",
          "completing", "reading", "failing", "limiting", "backoff",
          "crashed", "streaming", "lost", "resolved", "rejected"}
Settled == {"resolved", "rejected"}

(* "waiting": parked in waitForItem; "ready": past it, the turn not run    *)
(* yet; "dying": the loop threw and its catch handler has not run yet.     *)
LoopPlace == {"off", "waiting", "ready", "sleeping", "acquiring", "dying"}

TypeOK ==
  /\ pc \in [Actor -> Place]
  /\ attempt \in [Actor -> 0 .. MostRetries]
  /\ answer \in [Actor -> Answer]
  /\ sends \in [Actor -> Nat]
  /\ queue \in Seq(Req)
  /\ running \in BOOLEAN
  /\ loop \in LoopPlace
  /\ current \in Int
  /\ waiters \in Seq(Actor)

Init ==
  /\ pc = [a \in Actor |-> "idle"]
  /\ attempt = [a \in Actor |-> 0]
  /\ answer = [a \in Actor |-> "none"]
  /\ sends = [a \in Actor |-> 0]
  /\ queue = <<>>
  /\ running = FALSE
  /\ loop = "off"
  /\ current = 0
  /\ waiters = <<>>

-----------------------------------------------------------------------------
(* Semaphore.                                                              *)

Goto(a, place) == pc' = [pc EXCEPT ![a] = place]

AcquireOneTooMany(a) ==
  IF current <= MaxConcurrent
  THEN current' = current + 1 /\ UNCHANGED waiters
  ELSE waiters' = Append(waiters, a) /\ UNCHANGED current

Acquire(a) ==
  IF current < MaxConcurrent
  THEN current' = current + 1 /\ UNCHANGED waiters
  ELSE waiters' = Append(waiters, a) /\ UNCHANGED current

ReleaseForgetsCount(n) ==
  LET handed == IF n <= Len(waiters) THEN n ELSE Len(waiters)
  IN /\ current' = current - n
     /\ waiters' = SubSeq(waiters, handed + 1, Len(waiters))

ReleaseKeepsWaiters(n) == current' = current - n /\ UNCHANGED waiters

(* n calls of release in one turn; each hands its slot to the first waiter. *)
Release(n) ==
  LET handed == IF n <= Len(waiters) THEN n ELSE Len(waiters)
  IN /\ current' = current - n + handed
     /\ waiters' = SubSeq(waiters, handed + 1, Len(waiters))

(* The promise acquire returned to a has resolved.                         *)
Granted(a) == pc[a] = "acquiring" /\ \A i \in DOMAIN waiters : waiters[i] # a

(* A request holds a slot from the grant to the release.                   *)
SlotPlace == {"starting", "fetching", "completing", "reading", "failing",
              "limiting", "crashed", "streaming"}
Holds(a) == pc[a] \in SlotPlace \/ Granted(a) \/ (a \in Stream /\ pc[a] = "backoff")
Holders == {a \in Actor : Holds(a)}

-----------------------------------------------------------------------------
(* RequestQueue.                                                           *)

Urgency(a) == IF attempt[a] > 0 THEN 0 ELSE Priority[a]

(* Position i of q is the entry pop returns: the most urgent, then the     *)
(* first to arrive.                                                        *)
MostUrgent(q, i) ==
  \A j \in DOMAIN q :
    \/ Urgency(q[i]) < Urgency(q[j])
    \/ Urgency(q[i]) = Urgency(q[j]) /\ i <= j

Full == Len(queue) >= MaxSize

EnsureProcessingNotifiesNobody ==
  /\ running' = TRUE
  /\ loop' = IF ~running THEN "ready" ELSE loop

(* ensureProcessing starts the loop when none is running; notifyDrain      *)
(* wakes the one parked in waitForItem.                                    *)
EnsureProcessing ==
  /\ running' = TRUE
  /\ loop' = IF ~running \/ loop = "waiting" THEN "ready" ELSE loop

(* enqueue: the promise is rejected when the queue is full.                *)
Enqueue(r) ==
  IF Full THEN Goto(r, "rejected") /\ UNCHANGED queue
          ELSE Goto(r, "queued") /\ queue' = Append(queue, r)

(* Where waitForItem leaves the loop when q is what the queue holds.       *)
WaitForItem(q) == IF q = <<>> THEN "waiting" ELSE "ready"

-----------------------------------------------------------------------------
(* submit and the process loop.                                            *)

Submit(r) ==
  /\ pc[r] = "idle"
  /\ \/ /\ "onEnqueue" \in Throwing
        /\ Goto(r, "rejected")
        /\ UNCHANGED <<queue, running, loop>>
     \/ Enqueue(r) /\ EnsureProcessing
  /\ UNCHANGED <<attempt, answer, sends, current, waiters>>

(* dequeue begins with purgeExpired: the k oldest entries are rejected.    *)
Expired(k) == {queue[j] : j \in 1 .. k}
Unexpired(k) == SubSeq(queue, k + 1, Len(queue))
Purge(k) == [a \in Actor |-> IF a \in Expired(k) THEN "rejected" ELSE pc[a]]

LoopEndsStillRunning ==
  /\ loop = "ready"
  /\ pc' = Purge(Len(queue))
  /\ queue' = <<>>
  /\ loop' = "off"
  /\ UNCHANGED <<attempt, answer, sends, running, current, waiters>>

(* Nothing left to dequeue: the loop ends.                                 *)
LoopEnds ==
  /\ loop = "ready"
  /\ pc' = Purge(Len(queue))
  /\ queue' = <<>>
  /\ running' = FALSE
  /\ loop' = "off"
  /\ UNCHANGED <<attempt, answer, sends, current, waiters>>

DequeuePeeks(k, i, place) ==
  /\ loop = "ready"
  /\ i \in DOMAIN Unexpired(k)
  /\ MostUrgent(Unexpired(k), i)
  /\ queue' = Unexpired(k)
  /\ pc' = [Purge(k) EXCEPT ![Unexpired(k)[i]] = place]
  /\ UNCHANGED <<attempt, answer, sends>>

(* The turn from waitForItem to the next await, once k entries are purged  *)
(* and the one at position i is dequeued and then goes to place.           *)
Dequeue(k, i, place) ==
  /\ loop = "ready"
  /\ i \in DOMAIN Unexpired(k)
  /\ MostUrgent(Unexpired(k), i)
  /\ queue' = RemoveAt(Unexpired(k), i)
  /\ pc' = [Purge(k) EXCEPT ![Unexpired(k)[i]] = place]
  /\ UNCHANGED <<attempt, answer, sends>>

(* No wait, or a wait to sleep through, before the semaphore.              *)
LoopDispatches(k, i) ==
  /\ Dequeue(k, i, "acquiring")
  /\ Acquire(Unexpired(k)[i])
  /\ loop' = "acquiring"
  /\ UNCHANGED running

LoopSleeps(k, i) ==
  /\ Dequeue(k, i, "paced")
  /\ loop' = "sleeping"
  /\ UNCHANGED <<running, current, waiters>>

(* The limiter's wait would outlast the deadline.                          *)
LoopTimesOut(k, i) ==
  /\ Dequeue(k, i, "rejected")
  /\ loop' = WaitForItem(queue')
  /\ UNCHANGED <<running, current, waiters>>

(* A subscriber of a hook the loop emits synchronously throws.             *)
LoopThrows(k, i) ==
  /\ {"onDequeue", "onQueueTimeout"} \cap Throwing # {}
  /\ Dequeue(k, i, "lost")
  /\ loop' = "dying"
  /\ UNCHANGED <<running, current, waiters>>

(* ensureProcessing's catch handler, a turn after the throw.               *)
LoopDies ==
  /\ loop = "dying"
  /\ running' = FALSE
  /\ loop' = "off"
  /\ UNCHANGED <<pc, attempt, answer, sends, queue, current, waiters>>

LoopWakes(r) ==
  /\ loop = "sleeping"
  /\ pc[r] = "paced"
  /\ Goto(r, "acquiring")
  /\ Acquire(r)
  /\ loop' = "acquiring"
  /\ UNCHANGED <<attempt, answer, sends, queue, running>>

(* executeWithRetry runs to its first await, and the loop back to its own. *)
LoopStartsWorker(r) ==
  /\ loop = "acquiring"
  /\ Granted(r)
  /\ Goto(r, "starting")
  /\ loop' = WaitForItem(queue)
  /\ UNCHANGED <<attempt, answer, sends, queue, running, current, waiters>>

LoopStep ==
  \/ LoopEnds
  \/ LoopDies
  \/ \E k \in 0 .. Len(queue) : \E i \in 1 .. Len(queue) - k :
       LoopDispatches(k, i) \/ LoopSleeps(k, i) \/ LoopTimesOut(k, i) \/ LoopThrows(k, i)
  \/ \E r \in Req : LoopWakes(r) \/ LoopStartsWorker(r)

-----------------------------------------------------------------------------
(* executeWithRetry, one request.                                          *)

(* fetchFn is called in the turn that follows the start hooks.  A chain of *)
(* same-origin redirects, up to four calls of fetchFn within the attempt   *)
(* (sendFollowingSameOrigin), is one send: each follows an answer that     *)
(* handed the request on.                                                  *)
Fetch(a) ==
  /\ Goto(a, "fetching")
  /\ sends' = [sends EXCEPT ![a] = @ + 1]

StartHooks(r) ==
  /\ pc[r] = "starting"
  /\ \/ Fetch(r) /\ UNCHANGED <<current, waiters>>
     \/ Goto(r, "rejected") /\ Release(1) /\ UNCHANGED sends    \* startCtx.abort
     \/ /\ "onRequestStart" \in Throwing
        /\ Goto(r, "crashed")
        /\ UNCHANGED <<sends, current, waiters>>
  /\ UNCHANGED <<attempt, answer, queue, running, loop>>

WillRetryOnceMore(r, kind) ==
  /\ kind \in RetryableKind
  /\ attempt[r] <= MaxRetries[kind]
  /\ r \notin StreamBody
  /\ r \notin Stateful

WillRetryStateful(r, kind) ==
  /\ kind \in RetryableKind
  /\ attempt[r] < MaxRetries[kind]
  /\ r \notin StreamBody

(* willRetry of handleRetry, but for the budget, the server's veto and an  *)
(* over-long Retry-After: those may refuse a retry at any time.            *)
WillRetry(r, kind) ==
  /\ kind \in RetryableKind
  /\ attempt[r] < MaxRetries[kind]
  /\ r \notin StreamBody
  /\ r \notin Stateful

HandleRetry(r, kind) == Goto(r, "rejected") \/ (WillRetry(r, kind) /\ Goto(r, "backoff"))
RetryHookThrows(r, kind) == "onRetry" \in Throwing /\ WillRetry(r, kind)

(* The catch block, when the code before it released n - 1 times: an error *)
(* of this kind is retried, reported, or leaves executeWithRetry again.    *)
Catch(r, n, kind) ==
  /\ Release(n)
  /\ HandleRetry(r, kind) \/ (RetryHookThrows(r, kind) /\ Goto(r, "crashed"))

(* A subscriber may throw an LLMError of any kind.                         *)
HookThrows(r, hook) == hook \in Throwing /\ \E kind \in ErrorKind : Catch(r, 1, kind)

(* The end of the try block: the failure goes to handleRetry.              *)
AttemptFails(r) ==
  \/ Release(1) /\ HandleRetry(r, answer[r])
  \/ RetryHookThrows(r, answer[r]) /\ \E kind \in ErrorKind : Catch(r, 2, kind)

(* fetchFn answers, or throws: network error, attempt timeout, or the      *)
(* caller's abort.                                                         *)
FetchReturns(r) ==
  /\ pc[r] = "fetching"
  /\ \/ \E status \in Answer \ {"none"} :
          /\ answer' = [answer EXCEPT ![r] = status]
          /\ \/ Goto(r, "completing") /\ UNCHANGED <<current, waiters>>
             \/ HookThrows(r, "onRateLimitUpdate")
     \/ Catch(r, 1, "transient") /\ UNCHANGED answer
  /\ UNCHANGED <<attempt, sends, queue, running, loop>>

CompleteHooks(r) ==
  /\ pc[r] = "completing"
  /\ \/ /\ Goto(r, IF answer[r] = "ok" THEN "reading" ELSE "failing")
        /\ UNCHANGED <<current, waiters>>
     \/ HookThrows(r, "onRequestComplete")
  /\ UNCHANGED <<attempt, answer, sends, queue, running, loop>>

(* The body of a success is parsed, or cannot be: no retry either way.     *)
ReadBody(r) ==
  /\ pc[r] = "reading"
  /\ Goto(r, "resolved") \/ Goto(r, "rejected")
  /\ Release(1)
  /\ UNCHANGED <<attempt, answer, sends, queue, running, loop>>

ReadErrorBody(r) ==
  /\ pc[r] = "failing"
  /\ IF answer[r] = "limited"
     THEN \/ Goto(r, "limiting") /\ UNCHANGED <<current, waiters>>
          \/ HookThrows(r, "onRateLimitUpdate")
     ELSE AttemptFails(r)
  /\ UNCHANGED <<attempt, answer, sends, queue, running, loop>>

RateLimitHooks(r) ==
  /\ pc[r] = "limiting"
  /\ AttemptFails(r) \/ HookThrows(r, "onRateLimitHit")
  /\ UNCHANGED <<attempt, answer, sends, queue, running, loop>>

SettleOnWorkerCrash(r) ==
  /\ pc[r] = "crashed"
  /\ Goto(r, "rejected")
  /\ Release(1)
  /\ UNCHANGED <<attempt, answer, sends, queue, running, loop>>

(* The timer handleRetry set: the retry is a new entry of the queue.       *)
RetryTimer(r) ==
  /\ pc[r] = "backoff"
  /\ Enqueue(r)
  /\ attempt' = IF Full THEN attempt ELSE [attempt EXCEPT ![r] = @ + 1]
  /\ EnsureProcessing
  /\ UNCHANGED <<answer, sends, current, waiters>>

RequestStep(r) ==
  \/ StartHooks(r) \/ FetchReturns(r) \/ CompleteHooks(r) \/ ReadBody(r)
  \/ ReadErrorBody(r) \/ RateLimitHooks(r) \/ SettleOnWorkerCrash(r) \/ RetryTimer(r)

-----------------------------------------------------------------------------
(* submitStream and connect, one stream.                                   *)

StreamOpens(s) ==
  /\ pc[s] = "idle"
  /\ Goto(s, "paced")
  /\ UNCHANGED <<attempt, answer, sends, queue, running, loop, current, waiters>>

(* waitForCapacity returned.                                               *)
StreamAcquires(s) ==
  /\ pc[s] = "paced"
  /\ Goto(s, "acquiring")
  /\ Acquire(s)
  /\ UNCHANGED <<attempt, answer, sends, queue, running, loop>>

StreamStarts(s) ==
  /\ Granted(s)
  /\ Goto(s, "starting")
  /\ UNCHANGED <<attempt, answer, sends, queue, running, loop, current, waiters>>

(* The start hooks run before the try whose finally releases the slot.     *)
StreamStartHooks(s) ==
  /\ pc[s] = "starting"
  /\ \/ Fetch(s) /\ UNCHANGED <<current, waiters>>
     \/ Goto(s, "rejected") /\ Release(1) /\ UNCHANGED sends
     \/ /\ "onRequestStart" \in Throwing
        /\ Goto(s, "rejected")
        /\ UNCHANGED <<sends, current, waiters>>
  /\ UNCHANGED <<attempt, answer, queue, running, loop>>

(* connect asks less than handleRetry does: it does not look at Stateful.  *)
StreamWillRetry(s, kind) ==
  /\ kind \in RetryableKind
  /\ attempt[s] < MaxRetries[kind]
  /\ s \notin StreamBody

StreamFails(s, kind) ==
  \/ Goto(s, "rejected") /\ Release(1)
  \/ StreamWillRetry(s, kind) /\ Goto(s, "backoff") /\ UNCHANGED <<current, waiters>>

StreamFetchReturns(s) ==
  /\ pc[s] = "fetching"
  /\ \/ \E status \in Answer \ {"none"} : answer' = [answer EXCEPT ![s] = status]
        /\ Goto(s, "completing") /\ UNCHANGED <<current, waiters>>
     \/ StreamFails(s, "transient") /\ UNCHANGED answer
  /\ UNCHANGED <<attempt, sends, queue, running, loop>>

(* A plain error thrown by a subscriber counts as a network failure; an    *)
(* LLMError leaves connect, which is the first disjunct of StreamFails.    *)
StreamCompleteHooks(s) ==
  /\ pc[s] = "completing"
  /\ \/ /\ Goto(s, IF answer[s] = "ok" THEN "streaming" ELSE "failing")
        /\ UNCHANGED <<current, waiters>>
     \/ "onRequestComplete" \in Throwing /\ StreamFails(s, "transient")
  /\ UNCHANGED <<attempt, answer, sends, queue, running, loop>>

(* The error body is read and emitErrorHooks has run.                      *)
StreamErrorHooks(s) ==
  /\ pc[s] = "failing"
  /\ \/ StreamFails(s, answer[s])
     \/ /\ \/ "onModelError" \in Throwing
           \/ "onRateLimitHit" \in Throwing /\ answer[s] = "limited"
        /\ StreamFails(s, "transient")
  /\ UNCHANGED <<attempt, answer, sends, queue, running, loop>>

(* The sleep in connect is over: the loop goes round.                      *)
StreamRetries(s) ==
  /\ pc[s] = "backoff"
  /\ attempt' = [attempt EXCEPT ![s] = @ + 1]
  /\ Fetch(s)
  /\ UNCHANGED <<answer, queue, running, loop, current, waiters>>

(* The events end, the body fails, a subscriber of onStreamChunk throws,   *)
(* or the consumer leaves: finally releases the slot.                      *)
StreamCloses(s) ==
  /\ pc[s] = "streaming"
  /\ Goto(s, "resolved") \/ Goto(s, "rejected")
  /\ Release(1)
  /\ UNCHANGED <<attempt, answer, sends, queue, running, loop>>

StreamStep(s) ==
  \/ StreamAcquires(s) \/ StreamStarts(s) \/ StreamStartHooks(s)
  \/ StreamFetchReturns(s) \/ StreamCompleteHooks(s) \/ StreamErrorHooks(s)
  \/ StreamRetries(s)

-----------------------------------------------------------------------------

Next ==
  \/ \E r \in Req : Submit(r) \/ RequestStep(r)
  \/ \E s \in Stream : StreamOpens(s) \/ StreamStep(s) \/ StreamCloses(s)
  \/ LoopStep

Spec == Init /\ [][Next]_vars

-----------------------------------------------------------------------------
(* Fairness.  Every turn the runtime has scheduled runs: timers fire,      *)
(* promises resolve, fetchFn answers or the attempt timeout aborts it.     *)
(* Calls are the caller's choice.  ConsumerFairness is an assumption about *)
(* the consumers of streams, not a property of the code: they read on, or  *)
(* leave.                                                                  *)

Fairness ==
  /\ WF_vars(LoopStep)
  /\ \A r \in Req : WF_vars(RequestStep(r))
  /\ \A s \in Stream : WF_vars(StreamStep(s))

ConsumerFairness == \A s \in Stream : WF_vars(StreamCloses(s))

FairSpec == Spec /\ Fairness /\ ConsumerFairness

-----------------------------------------------------------------------------
(* Properties.                                                             *)

(* The requests the provider is working on or streaming to us.             *)
OnTheWire == {a \in Actor : pc[a] \in {"fetching", "completing", "reading",
                                       "failing", "limiting", "streaming"}}

(* Semaphore.current counts the slots that are held: every acquire is      *)
(* paired with one release, on every path out of a request.                *)
SlotAccounting == current = Cardinality(Holders)

(* limits.concurrent bounds what the provider sees of this queue, buffered *)
(* and streamed requests together.                                         *)
ConcurrencyCap == Cardinality(OnTheWire) <= MaxConcurrent

(* release hands the slot over: nobody waits for a slot while one is free, *)
(* and nobody waits twice or waits without being parked in acquire.        *)
NoIdleSlot ==
  /\ waiters # <<>> => current >= MaxConcurrent
  /\ IsInjective(waiters)
  /\ \A i \in DOMAIN waiters : pc[waiters[i]] = "acquiring"

(* No entry waits for a loop that is not coming: while there are entries   *)
(* the loop runs and is not parked in waitForItem.                         *)
NoStrandedEntry == queue # <<>> => running /\ loop \notin {"off", "waiting"}

(* Between submit and the worker every request is in exactly one pair of   *)
(* hands: one entry of the queue, or the loop's current entry.             *)
EveryEntryHasAKeeper ==
  /\ IsInjective(queue)
  /\ {queue[i] : i \in DOMAIN queue} = {r \in Req : pc[r] = "queued"}
  /\ \A r \in Req : pc[r] # "lost"
  /\ Cardinality({r \in Req : pc[r] \in {"paced", "acquiring"}})
       = IF loop \in {"sleeping", "acquiring"} THEN 1 ELSE 0

(* A request the provider has answered 2xx is not sent again: handleRetry  *)
(* and connect repeat failures only.                                       *)
NoResendAfterSuccess ==
  [][\A a \in Actor : answer[a] = "ok" => sends'[a] = sends[a]]_vars

(* However the hooks behave, a request is sent once and then at most as    *)
(* often as its retry budget allows; a buffered one that must not be       *)
(* replayed is sent once.                                                  *)
RetryBudget ==
  /\ \A a \in Actor : sends[a] <= MostRetries + 1
  /\ \A r \in Req \cap (StreamBody \cup Stateful) : sends[r] <= 1

(* Every request that was submitted is settled: no caller waits for ever,  *)
(* unless a throwing hook cost the queue an entry (and with it the loop).  *)
EveryRequestSettles ==
  \A a \in Actor : pc[a] # "idle" ~> pc[a] \in Settled \/ \E r \in Req : pc[r] = "lost"

-----------------------------------------------------------------------------
(* The queue implements RequestLifecycle.                                  *)

LifecycleStatus(a) ==
  CASE pc[a] = "idle" -> "idle"
    [] pc[a] \in {"queued", "paced", "acquiring", "starting", "backoff",
                  "crashed", "lost"} -> "waiting"
    [] pc[a] \in {"fetching", "failing", "limiting"} -> "onWire"
    [] pc[a] = "completing" -> IF answer[a] = "ok" THEN "accepted" ELSE "onWire"
    [] pc[a] \in {"reading", "streaming"} -> "accepted"
    [] pc[a] \in Settled -> "settled"

Lifecycle == INSTANCE RequestLifecycle WITH
  Once <- (Req \cap Stateful) \cup StreamBody,
  MaxSends <- MostRetries + 1,
  status <- [a \in Actor |-> LifecycleStatus(a)]

(* What callers may rely on, whatever the interleaving (RequestLifecycle). *)
ImplementsLifecycle == Lifecycle!LifecycleSpec

=============================================================================
