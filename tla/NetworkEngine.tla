--------------------------- MODULE NetworkEngine ---------------------------
(***************************************************************************)
(* The network engine's map of named queues (network/engine.ts), the rate  *)
(* limiter of a queue (network/rate-limiter.ts) and what a response does   *)
(* to it (network/errors.ts, network/queue-state.ts).  QueueState models   *)
(* the queue itself and leaves waiting times open; here there is a clock,  *)
(* and of the queue only those who share its limiter, the loop and the     *)
(* streams: ask how long to wait, sleep, take the tokens, send.            *)
(*                                                                         *)
(* A bucket's tokens are counted in parts of 1 / NeMinute, so that a       *)
(* refill of capacity / NeMinute per tick is exact.                        *)
(***************************************************************************)
EXTENDS Integers, FiniteSets

CONSTANTS
  NeBuckets,    \* the buckets configured, of "rpm", "tpm", "rpd"
  NeCapacity,   \* bound: largest capacity
  NeMinute,     \* the refill period, in ticks
  NeEnd,        \* bound: the last tick
  NePause,      \* longest Retry-After honoured, in ticks
  NeStreams,    \* streams that may be opened at the same time
  NeRequests, NeQueueLives  \* requests, and bound: queues created

NeSenders == {"loop"} \cup NeStreams

ASSUME NeAssumption ==
  /\ NeBuckets \subseteq {"rpm", "tpm", "rpd"}
  /\ {NeCapacity, NeMinute, NeEnd, NePause, NeQueueLives} \subseteq Nat \ {0}

VARIABLES
  neNow,      \* performance.now
  neBucket,   \* each TokenBucket: tokens, lastRefill, capacity
  neSleep,    \* each sender: idle, or asleep until a time for some tokens
  neUpset,    \* each sleeper's buckets that its wait did not reckon with
  neBare,     \* whether a request was sent without its tokens
  neQueue,    \* the queue of the name, as the number of its life; 0 for none
  neLives,    \* queues created so far
  neSettings, \* the settings configured, as a number
  neMade,     \* the settings each life was created with
  neFlight    \* the queue each request in flight runs on, 0 for none

neVars == <<neNow, neBucket, neSleep, neUpset, neBare, neQueue, neLives, neSettings, neMade, neFlight>>
neClock == <<neNow, neBucket, neSleep, neUpset, neBare>>
neMap == <<neQueue, neLives, neSettings, neMade, neFlight>>

NeAwake == [at |-> "idle", until |-> 0, tokens |-> 0]

NeTypeOK ==
  /\ neNow \in 0 .. NeEnd
  /\ neBucket \in [NeBuckets -> [tokens : 0 .. NeCapacity * NeMinute,
                                 last : 0 .. NeEnd + NePause, capacity : 1 .. NeCapacity]]
  /\ \A b \in NeBuckets : neBucket[b].tokens <= neBucket[b].capacity * NeMinute
  /\ neSleep \in [NeSenders -> [at : {"idle", "asleep"}, until : 0 .. NeEnd, tokens : 0 .. NeCapacity]]
  /\ neUpset \in [NeSenders -> SUBSET NeBuckets] /\ neBare \in BOOLEAN
  /\ neQueue \in 0 .. neLives /\ neLives \in 0 .. NeQueueLives
  /\ neSettings \in 0 .. 1 /\ neMade \in [1 .. NeQueueLives -> 0 .. 1]
  /\ neFlight \in [NeRequests -> 0 .. neLives]

NeFull(c) == [tokens |-> c * NeMinute, last |-> 0, capacity |-> c]

NeInit ==
  /\ neNow = 0
  /\ neBucket = [b \in NeBuckets |-> NeFull(NeCapacity)]
  /\ neSleep = [c \in NeSenders |-> NeAwake] /\ neUpset = [c \in NeSenders |-> {}] /\ neBare = FALSE
  /\ neQueue = 0 /\ neLives = 0 /\ neSettings = 0
  /\ neMade = [n \in 1 .. NeQueueLives |-> 0]
  /\ neFlight = [r \in NeRequests |-> 0]

-----------------------------------------------------------------------------

NeLeast(a, b) == IF a < b THEN a ELSE b
NeMost(S) == CHOOSE m \in S : \A n \in S : n <= m

(* refill: nothing before lastRefill, which a drained bucket has ahead.    *)
NeRefill(k) ==
  IF neNow <= k.last THEN k
  ELSE [k EXCEPT !.tokens = NeLeast(k.capacity * NeMinute, k.tokens + (neNow - k.last) * k.capacity),
                 !.last = neNow]

(* TokenBucket.tryConsume, waitTimeMs, setRemaining, setCapacity,          *)
(* drainUntil.                                                             *)
NeHas(k, n) == NeRefill(k).tokens >= n * NeMinute
NeConsume(k, n) == IF NeHas(k, n) THEN [NeRefill(k) EXCEPT !.tokens = @ - n * NeMinute] ELSE NeRefill(k)
NeWaitShort(k, n) == IF NeHas(k, n) THEN 0
                     ELSE (n * NeMinute - NeRefill(k).tokens) \div k.capacity
NeWait(k, n) == IF NeHas(k, n) THEN 0
                ELSE (n * NeMinute - NeRefill(k).tokens + k.capacity - 1) \div k.capacity
NeSetRemaining(k, n) == [k EXCEPT !.tokens = NeLeast(n, k.capacity) * NeMinute, !.last = neNow]
NeSetCapacity(k, c) == [k EXCEPT !.capacity = c, !.tokens = NeLeast(@, c * NeMinute)]
NeDrainUntil(k, t) == IF t > neNow THEN [k EXCEPT !.tokens = 0, !.last = t] ELSE k

(* The share of a request each bucket is asked for.                        *)
NeShare(b, tokens) == IF b = "tpm" THEN tokens ELSE 1
NeAsked(tokens) == {b \in NeBuckets : NeShare(b, tokens) > 0}

(* RateLimiter.waitTimeMs: the longest wait of the buckets asked, which    *)
(* are refilled to answer.                                                 *)
NeWaitTime(tokens) == NeMost({0} \cup {NeWait(neBucket[b], NeShare(b, tokens)) : b \in NeAsked(tokens)})
NeAskedAt(tokens) == [b \in NeBuckets |-> IF b \in NeAsked(tokens) THEN NeRefill(neBucket[b]) ELSE neBucket[b]]

(* RateLimiter.canProceed asks the buckets in turn and stops at the first  *)
(* that has not enough: those before it are charged all the same.          *)
NeTurn == [rpm |-> 1, rpd |-> 2, tpm |-> 3]
NeRefuses(b, tokens) == b \in NeAsked(tokens) /\ ~NeHas(neBucket[b], NeShare(b, tokens))
NeReached(tokens) ==
  {b \in NeAsked(tokens) : \A a \in NeBuckets : NeTurn[a] < NeTurn[b] => ~NeRefuses(a, tokens)}
NeCanProceed(tokens) ==
  neBucket' = [b \in NeBuckets |->
    IF b \in NeReached(tokens) THEN NeConsume(neBucket[b], NeShare(b, tokens)) ELSE neBucket[b]]

(* The buckets B change now: those asleep have not reckoned with that.     *)
NeUpsets(B, awake) ==
  neUpset' = [d \in NeSenders |->
    IF d \in awake \/ neSleep[d].at = "idle" THEN {} ELSE neUpset[d] \cup (B \cap NeBuckets)]

(* What canProceed answers is not looked at.  A share larger than a whole  *)
(* bucket is never covered: such a request is sent all the same.           *)
NeSend(c, tokens) ==
  /\ NeCanProceed(tokens)
  /\ neBare' = (neBare \/ \E b \in NeBuckets \ neUpset[c] :
                   NeRefuses(b, tokens) /\ NeShare(b, tokens) <= neBucket[b].capacity)
  /\ neSleep' = [neSleep EXCEPT ![c] = NeAwake]
  /\ NeUpsets({b \in NeReached(tokens) : ~NeRefuses(b, tokens)}, {c})

(* A pause in force is not reckoned with either: the wait counts from now. *)
NePausedBeyond(b, tokens) ==
  /\ neBucket[b].last > neNow
  /\ neNow + NeWaitTime(tokens) < neBucket[b].last + NeWait(neBucket[b], NeShare(b, tokens))

(* The loop takes the next entry, a stream calls waitForCapacity.          *)
NeTake(c, tokens) ==
  /\ neSleep[c].at = "idle" /\ neNow + NeWaitTime(tokens) <= NeEnd
  /\ IF NeWaitTime(tokens) = 0
     THEN NeSend(c, tokens)
     ELSE /\ neSleep' = [neSleep EXCEPT ![c] = [at |-> "asleep", until |-> neNow + NeWaitTime(tokens), tokens |-> tokens]]
          /\ neUpset' = [neUpset EXCEPT ![c] = {b \in NeAsked(tokens) : NePausedBeyond(b, tokens)}]
          /\ neBucket' = NeAskedAt(tokens)
          /\ UNCHANGED neBare
  /\ UNCHANGED <<neNow, neMap>>

(* An entry whose wait would pass its queue timeout is rejected.           *)
NeReject(tokens) ==
  /\ neSleep["loop"].at = "idle" /\ NeWaitTime(tokens) > 0
  /\ neBucket' = NeAskedAt(tokens)
  /\ UNCHANGED <<neNow, neSleep, neUpset, neBare, neMap>>

NeWake(c) ==
  /\ neSleep[c].at = "asleep" /\ neNow >= neSleep[c].until
  /\ NeSend(c, neSleep[c].tokens)
  /\ UNCHANGED <<neNow, neMap>>

NeTick ==
  /\ neNow < NeEnd
  /\ neNow' = neNow + 1
  /\ UNCHANGED <<neBucket, neSleep, neUpset, neBare, neMap>>

-----------------------------------------------------------------------------

(* classifyByStatus, by the status and what the message is about.          *)
NeKind(status, about) ==
  CASE status \in {401, 403} -> "auth"
    [] status = 429 -> "rate_limit"
    [] status = 400 /\ about = "context" -> "context_overflow"
    [] status = 400 /\ about = "model" -> "model_not_found"
    [] status = 400 /\ about = "support" -> "unsupported"
    [] status \in {402, 413} -> "quota_exceeded"
    [] status >= 500 -> "server_error"
    [] status >= 400 /\ ~(status = 400 /\ about # "plain") -> "invalid_request"
    [] OTHER -> "server_error"

(* parseRetryAfter: the header in milliseconds if it is usable, else the   *)
(* one in seconds or as a date.  -1 stands for no usable delay.            *)
NeUsable(d) == IF d < 0 THEN -1 ELSE d
NeRetryAfter(ms, value) == IF NeUsable(ms) # -1 THEN ms ELSE NeUsable(value)

(* A response is in: its headers set the rpm and tpm buckets, and a 429    *)
(* with a delay pauses the rpm bucket.                                     *)
NeUpdate(b, limit, remaining) ==
  LET k == IF limit = -1 THEN neBucket[b] ELSE NeSetCapacity(neBucket[b], limit)
  IN  IF remaining = -1 THEN k ELSE NeSetRemaining(k, remaining)

NeHeaders(limit, remaining) ==
  /\ limit # -1 \/ remaining # -1
  /\ neBucket' = [b \in NeBuckets |-> IF b = "rpd" THEN neBucket[b] ELSE NeUpdate(b, limit, remaining)]
  /\ NeUpsets({"rpm", "tpm"}, {})
  /\ UNCHANGED <<neNow, neSleep, neBare, neMap>>

NeLimited(ms, value) ==
  /\ NeKind(429, "plain") = "rate_limit"
  /\ NeRetryAfter(ms, value) > 0
  /\ neBucket' = [b \in NeBuckets |->
       IF b = "rpm" THEN NeDrainUntil(neBucket[b], neNow + NeLeast(NeRetryAfter(ms, value), NePause))
       ELSE neBucket[b]]
  /\ NeUpsets({"rpm"}, {})
  /\ UNCHANGED <<neNow, neSleep, neBare, neMap>>

-----------------------------------------------------------------------------

NeConfigureAnyTime(s) ==
  /\ s # neSettings
  /\ neSettings' = s
  /\ UNCHANGED <<neClock, neQueue, neLives, neMade, neFlight>>

(* configureQueue refuses while the queue exists.                          *)
NeConfigure(s) ==
  /\ neQueue = 0 /\ s # neSettings
  /\ neSettings' = s
  /\ UNCHANGED <<neClock, neQueue, neLives, neMade, neFlight>>

(* fetch and fetchStream: getOrCreateQueue, then submit.                   *)
NeFetch(r) ==
  /\ neFlight[r] = 0
  /\ IF neQueue # 0
     THEN /\ neFlight' = [neFlight EXCEPT ![r] = neQueue]
          /\ UNCHANGED <<neQueue, neLives, neMade>>
     ELSE /\ neLives < NeQueueLives
          /\ neLives' = neLives + 1 /\ neQueue' = neLives + 1
          /\ neMade' = [neMade EXCEPT ![neLives + 1] = neSettings]
          /\ neFlight' = [neFlight EXCEPT ![r] = neLives + 1]
  /\ UNCHANGED <<neClock, neSettings>>

NeDone(r) ==
  /\ neFlight[r] # 0
  /\ neFlight' = [neFlight EXCEPT ![r] = 0]
  /\ UNCHANGED <<neClock, neQueue, neLives, neSettings, neMade>>

(* dropQueue, destroy: the map forgets the queue, its requests go on.      *)
NeDrop ==
  /\ neQueue # 0
  /\ neQueue' = 0
  /\ UNCHANGED <<neClock, neLives, neSettings, neMade, neFlight>>

NeUse == {-1} \cup 0 .. NePause + 1

NeClockNext ==
  \/ NeTick
  \/ \E c \in NeSenders : NeWake(c) \/ \E tokens \in 0 .. NeCapacity : NeTake(c, tokens)
  \/ \E tokens \in 0 .. NeCapacity : NeReject(tokens)
  \/ \E limit \in {-1} \cup 1 .. NeCapacity, remaining \in {-1} \cup 0 .. NeCapacity : NeHeaders(limit, remaining)
  \/ \E ms \in NeUse, value \in NeUse : NeLimited(ms, value)

NeMapNext ==
  \/ NeDrop
  \/ \E s \in 0 .. 1 : NeConfigure(s)
  \/ \E r \in NeRequests : NeFetch(r) \/ NeDone(r)

NeNext == NeClockNext \/ NeMapNext

NeSpec == NeInit /\ [][NeNext]_neVars

(* Although nobody looks at what canProceed says (queue-state.ts:232, 686), *)
(* the loop or a stream is sent without a bucket's tokens only if, since    *)
(* its wait was worked out, another sender took tokens of that bucket or a  *)
(* header or a pause changed it, or if a pause was then in force that the   *)
(* wait, counted from now (rate-limiter.ts:38), ends too early for.  With   *)
(* nobody in between the wait is never too short, whatever each bucket      *)
(* refilled, on whichever of them it was the longest.                       *)
NeSendsAreCovered == ~neBare

(* A name's queue always runs under the settings last configured for it,   *)
(* also when it is dropped, configured anew and created again while        *)
(* requests of the dropped queue are still in flight.                      *)
NeQueueObeysSettings == neQueue # 0 => neMade[neQueue] = neSettings

=============================================================================
