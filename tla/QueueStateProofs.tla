-------------------------- MODULE QueueStateProofs --------------------------
(***************************************************************************)
(* Theorems about QueueState, for any number of requests and streams and   *)
(* any limits.                                                             *)
(***************************************************************************)
EXTENDS QueueState, FiniteSetTheorems, SequenceTheorems, TLAPS

-----------------------------------------------------------------------------
(* Sequences.                                                              *)

(* A suffix of a sequence, element by element.                             *)
LEMMA SuffixElements ==
  ASSUME NEW S, NEW q \in Seq(S), NEW k \in 0 .. Len(q)
  PROVE  /\ SubSeq(q, k + 1, Len(q)) \in Seq(S)
         /\ Len(SubSeq(q, k + 1, Len(q))) = Len(q) - k
         /\ \A j \in 1 .. Len(q) - k : SubSeq(q, k + 1, Len(q))[j] = q[j + k]
  OBVIOUS

(* A sequence is empty exactly when its length is zero.                    *)
LEMMA EmptyLength ==
  ASSUME NEW S, NEW q \in Seq(S)
  PROVE  Len(q) \in Nat /\ (q = <<>> <=> Len(q) = 0)
  BY EmptySeq

(* What RemoveAt leaves of a sequence, element by element.                 *)
LEMMA RemoveAtElements ==
  ASSUME NEW S, NEW q \in Seq(S), NEW i \in 1 .. Len(q)
  PROVE  /\ RemoveAt(q, i) \in Seq(S)
         /\ Len(RemoveAt(q, i)) = Len(q) - 1
         /\ \A j \in 1 .. i - 1 : RemoveAt(q, i)[j] = q[j]
         /\ \A j \in i .. Len(q) - 1 : RemoveAt(q, i)[j] = q[j + 1]
  <1> DEFINE a == SubSeq(q, 1, i - 1)
             b == SubSeq(q, i + 1, Len(q))
  <1>1. Len(q) \in Nat /\ i \in Nat /\ i >= 1 /\ i <= Len(q)
    OBVIOUS
  <1>2. a \in Seq(S) /\ Len(a) = i - 1 /\ \A j \in 1 .. i - 1 : a[j] = q[j]
    OBVIOUS
  <1>3. b \in Seq(S) /\ Len(b) = Len(q) - i /\ \A j \in 1 .. Len(q) - i : b[j] = q[j + i]
    BY SuffixElements
  <1> HIDE DEF a, b
  <1>4. a \o b \in Seq(S) /\ Len(a \o b) = Len(a) + Len(b)
    BY <1>2, <1>3, ConcatProperties
  <1>5. Len(a) + Len(b) = Len(q) - 1
    BY <1>1, <1>2, <1>3
  <1>6. ASSUME NEW j \in 1 .. Len(q) - 1
        PROVE  (a \o b)[j] = IF j <= Len(a) THEN a[j] ELSE b[j - Len(a)]
    BY <1>2, <1>3, <1>5, ConcatProperties
  <1>7. ASSUME NEW j \in 1 .. i - 1
        PROVE  (a \o b)[j] = q[j]
    <2>1. j \in 1 .. Len(q) - 1 /\ j <= Len(a)
      BY <1>1, <1>2
    <2>2. (a \o b)[j] = a[j]
      BY <1>6, <2>1
    <2> QED
      BY <1>2, <2>2
  <1>8. ASSUME NEW j \in i .. Len(q) - 1
        PROVE  (a \o b)[j] = q[j + 1]
    <2>1. j - (i - 1) \in 1 .. Len(q) - i
      BY <1>1
    <2>2. b[j - (i - 1)] = q[j - (i - 1) + i]
      BY <1>3, <2>1
    <2>3. (a \o b)[j] = b[j - (i - 1)]
      <3>1. j \in 1 .. Len(q) - 1 /\ ~(j <= Len(a)) /\ j - Len(a) = j - (i - 1)
        BY <1>1, <1>2
      <3>2. (a \o b)[j] = b[j - Len(a)]
        BY <1>6, <3>1
      <3> QED
        BY <3>1, <3>2
    <2>4. j - (i - 1) + i = j + 1
      BY <1>1
    <2> QED
      BY <2>2, <2>3, <2>4
  <1>9. RemoveAt(q, i) = a \o b
    BY DEF RemoveAt, a, b
  <1> QED
    BY <1>4, <1>5, <1>7, <1>8, <1>9

-----------------------------------------------------------------------------
(* Types.                                                                  *)

LEMMA MostRetriesBounds ==
  /\ MostRetries \in Nat
  /\ \A kind \in RetryableKind : MaxRetries[kind] \in Nat /\ MaxRetries[kind] <= MostRetries
  BY QueueAssumption DEF QueueAssumption, MostRetries, RetryableKind

(* Init establishes the type invariant.                                    *)
LEMMA InitType == Init => TypeOK
  <1> SUFFICES ASSUME Init PROVE TypeOK
    OBVIOUS
  <1>1. "idle" \in Place /\ "none" \in Answer /\ "off" \in LoopPlace /\ 0 \in 0 .. MostRetries
    BY MostRetriesBounds DEF Place, Answer, LoopPlace
  <1>2. running \in BOOLEAN
    BY Zenon DEF Init
  <1>3. queue \in Seq(Req) /\ waiters \in Seq(Actor)
    BY EmptySeq DEF Init
  <1> QED
    BY <1>1, <1>2, <1>3 DEF Init, TypeOK

(* The types of the variables one operation changes.                       *)
SlotsTyped == current' \in Int /\ waiters' \in Seq(Actor)
PlacesTyped == pc' \in [Actor -> Place]

LEMMA GotoType ==
  ASSUME TypeOK, NEW a \in Actor, NEW p \in Place, Goto(a, p)
  PROVE  PlacesTyped
  BY DEF TypeOK, Goto, PlacesTyped

LEMMA AcquireType ==
  ASSUME TypeOK, NEW a \in Actor, Acquire(a)
  PROVE  SlotsTyped
  <1>1. current \in Int /\ waiters \in Seq(Actor)
    BY DEF TypeOK
  <1>2. Append(waiters, a) \in Seq(Actor) /\ current + 1 \in Int
    BY <1>1
  <1>3. CASE current < MaxConcurrent
    <2>1. current' = current + 1 /\ waiters' = waiters
      BY <1>3 DEF Acquire
    <2> QED
      BY <1>1, <1>2, <2>1 DEF SlotsTyped
  <1>4. CASE ~(current < MaxConcurrent)
    <2>1. waiters' = Append(waiters, a) /\ current' = current
      BY <1>4 DEF Acquire
    <2> QED
      BY <1>1, <1>2, <2>1 DEF SlotsTyped
  <1> QED
    BY <1>3, <1>4

LEMMA ReleaseType ==
  ASSUME TypeOK, NEW n \in {1, 2}, Release(n)
  PROVE  SlotsTyped
  <1> DEFINE handed == IF n <= Len(waiters) THEN n ELSE Len(waiters)
  <1>1. Len(waiters) \in Nat /\ waiters \in Seq(Actor) /\ current \in Int
    BY DEF TypeOK
  <1>2. handed \in 0 .. Len(waiters)
    BY <1>1
  <1>3. SubSeq(waiters, handed + 1, Len(waiters)) \in Seq(Actor)
    BY <1>1, <1>2, SuffixElements
  <1>4. current' = current - n + handed /\ waiters' = SubSeq(waiters, handed + 1, Len(waiters))
    BY DEF Release
  <1> QED
    BY <1>1, <1>2, <1>3, <1>4 DEF SlotsTyped

LEMMA EnqueueType ==
  ASSUME TypeOK, NEW r \in Req, Enqueue(r)
  PROVE  PlacesTyped /\ queue' \in Seq(Req)
  <1>1. "rejected" \in Place /\ "queued" \in Place /\ r \in Actor
    BY DEF Place, Actor
  <1>2. queue \in Seq(Req) /\ Append(queue, r) \in Seq(Req)
    BY DEF TypeOK
  <1>3. CASE Full
    <2>1. Goto(r, "rejected") /\ queue' = queue
      BY <1>3 DEF Enqueue
    <2> QED
      BY <1>1, <1>2, <2>1, GotoType
  <1>4. CASE ~Full
    <2>1. Goto(r, "queued") /\ queue' = Append(queue, r)
      BY <1>4 DEF Enqueue
    <2> QED
      BY <1>1, <1>2, <2>1, GotoType
  <1> QED
    BY <1>3, <1>4

LEMMA HandleRetryType ==
  ASSUME TypeOK, NEW r \in Actor, NEW kind, HandleRetry(r, kind)
  PROVE  PlacesTyped
  <1>1. "rejected" \in Place /\ "backoff" \in Place
    BY DEF Place
  <1> QED
    BY <1>1, GotoType DEF HandleRetry

LEMMA CatchType ==
  ASSUME TypeOK, NEW r \in Actor, NEW n \in {1, 2}, NEW kind, Catch(r, n, kind)
  PROVE  PlacesTyped /\ SlotsTyped
  <1>1. "crashed" \in Place
    BY DEF Place
  <1> QED
    BY <1>1, GotoType, HandleRetryType, ReleaseType DEF Catch

LEMMA HookThrowsType ==
  ASSUME TypeOK, NEW r \in Actor, NEW hook, HookThrows(r, hook)
  PROVE  PlacesTyped /\ SlotsTyped
  BY CatchType DEF HookThrows

LEMMA AttemptFailsType ==
  ASSUME TypeOK, NEW r \in Actor, AttemptFails(r)
  PROVE  PlacesTyped /\ SlotsTyped
  BY CatchType, ReleaseType, HandleRetryType DEF AttemptFails

-----------------------------------------------------------------------------
(* The inductive invariant.  TypeOK is not inductive: that attempt stays   *)
(* within the retry budget follows from the check handleRetry made before  *)
(* it parked the request in backoff, and where the requests in the queue   *)
(* stand decides what a dequeue may do to them.                            *)

(* The places a request passes on its way to the next fetchFn.             *)
Unsent == {"idle", "queued", "paced", "acquiring", "starting"}

QueueParked ==
  /\ \A i \in DOMAIN queue : pc[queue[i]] = "queued"
  /\ IsInjective(queue)

BudgetKept ==
  \A a \in Actor :
    /\ sends[a] <= attempt[a] + 1
    /\ pc[a] \in Unsent => sends[a] <= attempt[a]
    /\ pc[a] = "backoff" => attempt[a] < MostRetries

SentOnce == Req \cap (StreamBody \cup Stateful)
OnceUntried == \A r \in SentOnce : attempt[r] = 0 /\ pc[r] # "backoff"

IInv == TypeOK /\ QueueParked /\ NoIdleSlot /\ BudgetKept /\ OnceUntried

(* What most turns do to one request: it moves on, from a place where      *)
(* neither the queue nor the semaphore refers to it.                       *)
MovesOn(a) ==
  /\ pc[a] # "queued"
  /\ \A i \in DOMAIN waiters : waiters[i] # a
  /\ \E p \in Place \ {"queued", "acquiring"} :
       /\ Goto(a, p)
       /\ p \in Unsent => pc[a] \in Unsent
       /\ p = "backoff" => attempt[a] < MostRetries /\ a \notin SentOnce

SlotsKeptOrGiven == UNCHANGED <<current, waiters>> \/ \E n \in {1, 2} : Release(n)

(* A request that is neither queued nor acquiring is nobody's to move.     *)
LEMMA NotParked ==
  ASSUME TypeOK, NoIdleSlot, NEW a \in Actor, pc[a] # "acquiring"
  PROVE  \A i \in DOMAIN waiters : waiters[i] # a
  BY DEF NoIdleSlot

LEMMA SlotsKeptType ==
  ASSUME TypeOK, SlotsKeptOrGiven
  PROVE  SlotsTyped
  <1>1. CASE UNCHANGED <<current, waiters>>
    BY <1>1 DEF TypeOK, SlotsTyped
  <1>2. CASE \E n \in {1, 2} : Release(n)
    BY <1>2, ReleaseType
  <1> QED
    BY <1>1, <1>2 DEF SlotsKeptOrGiven

(* A release leaves the queue of waiters in order, and empties it before   *)
(* it lets the count fall.                                                 *)
LEMMA WaitersKept ==
  ASSUME TypeOK, NoIdleSlot, SlotsKeptOrGiven,
         \A i \in DOMAIN waiters : pc'[waiters[i]] = "acquiring"
  PROVE  NoIdleSlot'
  <1>1. CASE UNCHANGED <<current, waiters>>
    BY <1>1 DEF NoIdleSlot, IsInjective
  <1>2. ASSUME NEW n \in {1, 2}, Release(n)
        PROVE  NoIdleSlot'
    <2>0. waiters \in Seq(Actor) /\ Len(waiters) \in Nat /\ current \in Int /\ n \in Int
      BY DEF TypeOK
    <2>1. DOMAIN waiters = 1 .. Len(waiters)
      BY DEF TypeOK
    <2>2. PICK handed \in 0 .. Len(waiters) :
            /\ handed = n \/ handed = Len(waiters)
            /\ current' = current - n + handed
            /\ waiters' = SubSeq(waiters, handed + 1, Len(waiters))
      <3>1. CASE n <= Len(waiters)
        <4>1. n \in 0 .. Len(waiters)
          BY <2>0, <3>1
        <4>2. current' = current - n + n /\ waiters' = SubSeq(waiters, n + 1, Len(waiters))
          BY <1>2, <3>1 DEF Release
        <4> QED
          BY <4>1, <4>2
      <3>2. CASE ~(n <= Len(waiters))
        <4>1. Len(waiters) \in 0 .. Len(waiters)
          BY <2>0
        <4>2. /\ current' = current - n + Len(waiters)
              /\ waiters' = SubSeq(waiters, Len(waiters) + 1, Len(waiters))
          BY <1>2, <3>2 DEF Release
        <4> QED
          BY <4>1, <4>2
      <3> QED
        BY <3>1, <3>2
    <2>4. /\ waiters' \in Seq(Actor)
          /\ Len(waiters') = Len(waiters) - handed
          /\ \A j \in 1 .. Len(waiters) - handed : waiters'[j] = waiters[j + handed]
      BY <2>0, <2>2, SuffixElements
    <2>5. DOMAIN waiters' = 1 .. Len(waiters) - handed
      BY <2>4
    <2>6. waiters' # <<>> => current' >= MaxConcurrent
      <3> SUFFICES ASSUME waiters' # <<>> PROVE current' >= MaxConcurrent
        OBVIOUS
      <3>1. Len(waiters) - handed > 0
        <4>1. Len(waiters') \in Nat /\ Len(waiters') # 0
          BY <2>4, EmptyLength
        <4> QED
          BY <2>0, <2>2, <2>4, <4>1
      <3>2. handed = n
        BY <2>0, <2>2, <3>1
      <3>3. waiters # <<>>
        <4>1. Len(waiters) # 0
          BY <2>0, <2>2, <3>1
        <4> QED
          BY <2>0, <4>1, EmptyLength
      <3>4. current >= MaxConcurrent
        BY <3>3 DEF NoIdleSlot
      <3>5. current' = current
        BY <2>0, <2>2, <3>2
      <3> QED
        BY <3>4, <3>5
    <2>7. \A i, j \in DOMAIN waiters' : waiters'[i] = waiters'[j] => i = j
      <3> SUFFICES ASSUME NEW i \in DOMAIN waiters', NEW j \in DOMAIN waiters',
                          waiters'[i] = waiters'[j]
                   PROVE  i = j
        OBVIOUS
      <3>0. i \in 1 .. Len(waiters) - handed /\ j \in 1 .. Len(waiters) - handed
        BY <2>5
      <3>1. i + handed \in 1 .. Len(waiters) /\ j + handed \in 1 .. Len(waiters)
        BY <2>0, <2>2, <3>0
      <3>2. waiters[i + handed] = waiters[j + handed]
        BY <2>4, <3>0
      <3>3. i + handed = j + handed
        BY <2>1, <3>1, <3>2 DEF NoIdleSlot, IsInjective
      <3> QED
        BY <2>0, <2>2, <3>0, <3>3
    <2>8. \A i \in DOMAIN waiters' : pc'[waiters'[i]] = "acquiring"
      <3> SUFFICES ASSUME NEW i \in DOMAIN waiters'
                   PROVE  pc'[waiters'[i]] = "acquiring"
        OBVIOUS
      <3>0. i \in 1 .. Len(waiters) - handed
        BY <2>5
      <3>1. i + handed \in 1 .. Len(waiters) /\ waiters'[i] = waiters[i + handed]
        BY <2>0, <2>2, <2>4, <3>0
      <3> QED
        BY <2>1, <3>1
    <2> QED
      BY <2>6, <2>7, <2>8 DEF NoIdleSlot, IsInjective
  <1> QED
    BY <1>1, <1>2 DEF SlotsKeptOrGiven

(* acquire: a request is parked only when no slot is free.                 *)
LEMMA WaitersAcquire ==
  ASSUME TypeOK, NoIdleSlot, NEW a \in Actor, Acquire(a),
         \A i \in DOMAIN waiters : waiters[i] # a /\ pc'[waiters[i]] = "acquiring",
         pc'[a] = "acquiring"
  PROVE  NoIdleSlot'
  <1>1. waiters \in Seq(Actor) /\ current \in Int /\ Len(waiters) \in Nat
        /\ DOMAIN waiters = 1 .. Len(waiters)
    BY DEF TypeOK
  <1>0. MaxConcurrent \in Nat
    BY QueueAssumption DEF QueueAssumption
  <1>2. CASE current < MaxConcurrent
    <2>1. waiters' = waiters /\ current' = current + 1
      BY <1>2 DEF Acquire
    <2>2. waiters = <<>>
      BY <1>0, <1>1, <1>2 DEF NoIdleSlot
    <2>3. DOMAIN waiters' = {} /\ waiters' = <<>>
      BY <2>1, <2>2
    <2> QED
      BY <2>3 DEF NoIdleSlot, IsInjective
  <1>3. CASE ~(current < MaxConcurrent)
    <2>1. waiters' = Append(waiters, a) /\ current' = current
      BY <1>3 DEF Acquire
    <2>2. /\ DOMAIN waiters' = 1 .. Len(waiters) + 1
          /\ waiters'[Len(waiters) + 1] = a
          /\ \A j \in 1 .. Len(waiters) : waiters'[j] = waiters[j]
      BY <1>1, <2>1
    <2>3. current' >= MaxConcurrent
      BY <1>0, <1>1, <1>3, <2>1
    <2>4. \A i, j \in DOMAIN waiters' : waiters'[i] = waiters'[j] => i = j
      <3> SUFFICES ASSUME NEW i \in DOMAIN waiters', NEW j \in DOMAIN waiters',
                          waiters'[i] = waiters'[j]
                   PROVE  i = j
        OBVIOUS
      <3>1. CASE i \in 1 .. Len(waiters) /\ j \in 1 .. Len(waiters)
        BY <1>1, <2>2, <3>1 DEF NoIdleSlot, IsInjective
      <3>2. CASE i = Len(waiters) + 1 /\ j \in 1 .. Len(waiters)
        BY <1>1, <2>2, <3>2
      <3>3. CASE j = Len(waiters) + 1 /\ i \in 1 .. Len(waiters)
        BY <1>1, <2>2, <3>3
      <3>4. CASE i = Len(waiters) + 1 /\ j = Len(waiters) + 1
        BY <3>4
      <3> QED
        BY <1>1, <2>2, <3>1, <3>2, <3>3, <3>4
    <2>5. \A i \in DOMAIN waiters' : pc'[waiters'[i]] = "acquiring"
      <3> SUFFICES ASSUME NEW i \in DOMAIN waiters'
                   PROVE  pc'[waiters'[i]] = "acquiring"
        OBVIOUS
      <3>1. CASE i \in 1 .. Len(waiters)
        BY <1>1, <2>2, <3>1
      <3>2. CASE i = Len(waiters) + 1
        BY <2>2, <3>2
      <3> QED
        BY <1>1, <2>2, <3>1, <3>2
    <2> QED
      BY <2>3, <2>4, <2>5 DEF NoIdleSlot, IsInjective
  <1> QED
    BY <1>2, <1>3

-----------------------------------------------------------------------------
(* What each operation on the queue does to the entries.                   *)

(* enqueue appends an entry for a request that has none.                   *)
LEMMA EnqueueParks ==
  ASSUME TypeOK, QueueParked, NEW r \in Req, pc[r] # "queued", Enqueue(r)
  PROVE  QueueParked'
  <1>1. r \in Actor /\ pc \in [Actor -> Place] /\ queue \in Seq(Req) /\ Len(queue) \in Nat
    BY DEF TypeOK, Actor
  <1>2. ASSUME NEW p, Goto(r, p)
        PROVE  /\ pc'[r] = p
               /\ \A i \in DOMAIN queue : queue[i] # r /\ pc'[queue[i]] = "queued"
    <2>1. \A i \in DOMAIN queue : queue[i] \in Actor /\ pc[queue[i]] = "queued"
      BY <1>1 DEF QueueParked, Actor
    <2>2. pc' = [pc EXCEPT ![r] = p]
      BY <1>2 DEF Goto
    <2>3. pc'[r] = p /\ \A a \in Actor : a # r => pc'[a] = pc[a]
      BY <1>1, <2>2
    <2>4. \A i \in DOMAIN queue : queue[i] # r
      BY <2>1
    <2> QED
      BY <2>1, <2>3, <2>4
  <1>3. CASE Full
    <2>1. Goto(r, "rejected") /\ queue' = queue
      BY <1>3 DEF Enqueue
    <2> QED
      BY <1>2, <2>1 DEF QueueParked, IsInjective
  <1>4. CASE ~Full
    <2>1. Goto(r, "queued") /\ queue' = Append(queue, r)
      BY <1>4 DEF Enqueue
    <2>2. /\ DOMAIN queue' = 1 .. Len(queue) + 1
          /\ queue'[Len(queue) + 1] = r
          /\ \A j \in 1 .. Len(queue) : j \in DOMAIN queue /\ queue'[j] = queue[j]
      BY <1>1, <2>1
    <2>3. \A i \in DOMAIN queue' : pc'[queue'[i]] = "queued"
      <3> SUFFICES ASSUME NEW i \in 1 .. Len(queue) + 1
                   PROVE  pc'[queue'[i]] = "queued"
        BY <2>2
      <3>1. CASE i \in 1 .. Len(queue)
        BY <1>2, <2>1, <2>2, <3>1
      <3>2. CASE i = Len(queue) + 1
        BY <1>2, <2>1, <2>2, <3>2
      <3> QED
        BY <1>1, <3>1, <3>2
    <2>4. \A i, j \in DOMAIN queue' : queue'[i] = queue'[j] => i = j
      <3> SUFFICES ASSUME NEW i \in 1 .. Len(queue) + 1, NEW j \in 1 .. Len(queue) + 1,
                          queue'[i] = queue'[j]
                   PROVE  i = j
        BY <2>2
      <3>1. CASE i \in 1 .. Len(queue) /\ j \in 1 .. Len(queue)
        BY <2>2, <3>1 DEF QueueParked, IsInjective
      <3>2. CASE i = Len(queue) + 1 /\ j \in 1 .. Len(queue)
        BY <1>2, <2>1, <2>2, <3>2
      <3>3. CASE j = Len(queue) + 1 /\ i \in 1 .. Len(queue)
        BY <1>2, <2>1, <2>2, <3>3
      <3> QED
        BY <1>1, <3>1, <3>2, <3>3
    <2> QED
      BY <2>3, <2>4 DEF QueueParked, IsInjective
  <1> QED
    BY <1>3, <1>4

(* dequeue takes one entry out; of the others, some are rejected and the   *)
(* rest stay as they are.                                                  *)
LEMMA DequeueParks ==
  ASSUME TypeOK, QueueParked,
         NEW k \in 0 .. Len(queue), NEW i \in 1 .. Len(queue) - k,
         NEW place \in Place, Dequeue(k, i, place)
  PROVE  /\ Unexpired(k)[i] \in Req
         /\ pc[Unexpired(k)[i]] = "queued" /\ pc'[Unexpired(k)[i]] = place
         /\ \A a \in Actor : a # Unexpired(k)[i] =>
              pc'[a] = pc[a] \/ (pc[a] = "queued" /\ pc'[a] = "rejected")
         /\ PlacesTyped
         /\ queue' \in Seq(Req)
         /\ QueueParked'
  <1> DEFINE u == Unexpired(k)
             e == u[i]
  <1>1. /\ pc \in [Actor -> Place] /\ queue \in Seq(Req) /\ Len(queue) \in Nat
        /\ k \in Int /\ i \in Int
    BY DEF TypeOK
  <1>2. /\ u \in Seq(Req) /\ Len(u) = Len(queue) - k
        /\ \A j \in 1 .. Len(queue) - k : u[j] = queue[j + k]
    BY <1>1, SuffixElements DEF Unexpired
  <1>3. \A j \in 1 .. Len(queue) : queue[j] \in Req /\ queue[j] \in Actor /\ pc[queue[j]] = "queued"
    BY <1>1 DEF QueueParked, Actor
  <1>4. \A j, l \in 1 .. Len(queue) : queue[j] = queue[l] => j = l
    BY <1>1 DEF QueueParked, IsInjective
  <1>5. \A j \in 1 .. Len(queue) - k : j + k \in 1 .. Len(queue)
    BY <1>1
  <1>6. e = queue[i + k] /\ e \in Req /\ e \in Actor /\ pc[e] = "queued"
    BY <1>2, <1>3, <1>5
  <1>7. queue' = RemoveAt(u, i) /\ pc' = [Purge(k) EXCEPT ![e] = place]
    BY DEF Dequeue
  <1>8. \A a \in Expired(k) : \E j \in 1 .. k : a = queue[j]
    BY DEF Expired
  <1>9. \A a \in Actor : Purge(k)[a] = IF a \in Expired(k) THEN "rejected" ELSE pc[a]
    BY DEF Purge
  <1>10. "rejected" \in Place
    BY DEF Place
  <1>11. Purge(k) \in [Actor -> Place]
    BY <1>1, <1>10 DEF Purge
  <1>12. /\ pc' \in [Actor -> Place] /\ pc'[e] = place
         /\ \A a \in Actor : a # e => pc'[a] = Purge(k)[a]
    BY <1>6, <1>7, <1>11
  <1>13. \A a \in Expired(k) : pc[a] = "queued"
    <2> SUFFICES ASSUME NEW j \in 1 .. k PROVE pc[queue[j]] = "queued"
      BY <1>8
    <2>1. j \in 1 .. Len(queue)
      BY <1>1
    <2> QED
      BY <1>3, <2>1
  <1>14. \A a \in Actor : a # e => pc'[a] = pc[a] \/ (pc[a] = "queued" /\ pc'[a] = "rejected")
    BY <1>9, <1>12, <1>13
  <1>15. /\ RemoveAt(u, i) \in Seq(Req) /\ Len(RemoveAt(u, i)) = Len(queue) - k - 1
         /\ \A j \in 1 .. i - 1 : RemoveAt(u, i)[j] = u[j]
         /\ \A j \in i .. Len(queue) - k - 1 : RemoveAt(u, i)[j] = u[j + 1]
    <2> HIDE DEF u
    <2>1. i \in 1 .. Len(u)
      BY <1>2
    <2>2. /\ RemoveAt(u, i) \in Seq(Req) /\ Len(RemoveAt(u, i)) = Len(u) - 1
          /\ \A j \in 1 .. i - 1 : RemoveAt(u, i)[j] = u[j]
          /\ \A j \in i .. Len(u) - 1 : RemoveAt(u, i)[j] = u[j + 1]
      BY <1>2, <2>1, RemoveAtElements
    <2> QED
      BY <1>2, <2>2
  <1> DEFINE at(j) == IF j < i THEN j + k ELSE j + 1 + k
  <1>16. ASSUME NEW j \in 1 .. Len(queue) - k - 1
         PROVE  /\ at(j) \in 1 .. Len(queue) /\ at(j) > k /\ at(j) # i + k
                /\ queue'[j] = queue[at(j)]
    <2>1. CASE j < i
      <3>1. j \in 1 .. i - 1 /\ j \in 1 .. Len(queue) - k
        BY <1>1, <2>1
      <3>2. queue'[j] = u[j] /\ u[j] = queue[j + k]
        BY <1>2, <1>7, <1>15, <3>1
      <3> QED
        BY <1>1, <2>1, <3>2
    <2>2. CASE ~(j < i)
      <3>1. j \in i .. Len(queue) - k - 1 /\ j + 1 \in 1 .. Len(queue) - k
        BY <1>1, <2>2
      <3>2. queue'[j] = u[j + 1] /\ u[j + 1] = queue[j + 1 + k]
        BY <1>2, <1>7, <1>15, <3>1
      <3> QED
        BY <1>1, <2>2, <3>2
    <2> QED
      BY <2>1, <2>2
  <1>17. DOMAIN queue' = 1 .. Len(queue) - k - 1
    BY <1>7, <1>15
  <1>18. \A j \in DOMAIN queue' : pc'[queue'[j]] = "queued"
    <2> SUFFICES ASSUME NEW j \in 1 .. Len(queue) - k - 1
                 PROVE  pc'[queue'[j]] = "queued"
      BY <1>17
    <2>1. queue'[j] = queue[at(j)] /\ at(j) \in 1 .. Len(queue) /\ at(j) > k /\ at(j) # i + k
      BY <1>16
    <2> HIDE DEF at
    <2>2. queue[at(j)] # e
      <3>1. i + k \in 1 .. Len(queue)
        BY <1>1
      <3> QED
        BY <1>4, <1>6, <2>1, <3>1
    <2>3. queue[at(j)] \notin Expired(k)
      <3> SUFFICES ASSUME NEW l \in 1 .. k, queue[at(j)] = queue[l]
                   PROVE  FALSE
        BY <1>8
      <3>1. l \in 1 .. Len(queue)
        BY <1>1
      <3>2. at(j) = l
        BY <1>4, <2>1, <3>1
      <3> QED
        BY <1>1, <2>1, <3>2
    <2> QED
      BY <1>3, <1>9, <1>12, <2>1, <2>2, <2>3
  <1>19. \A j, l \in DOMAIN queue' : queue'[j] = queue'[l] => j = l
    <2> SUFFICES ASSUME NEW j \in 1 .. Len(queue) - k - 1, NEW l \in 1 .. Len(queue) - k - 1,
                        queue'[j] = queue'[l]
                 PROVE  j = l
      BY <1>17
    <2>1. at(j) = at(l)
      BY <1>4, <1>16
    <2> QED
      BY <1>1, <2>1
  <1>20. QueueParked'
    BY <1>18, <1>19 DEF QueueParked, IsInjective
  <1>21. queue' \in Seq(Req)
    BY <1>7, <1>15
  <1>22. PlacesTyped
    BY <1>12 DEF PlacesTyped
  <1> HIDE DEF u, e, at
  <1>23. e = Unexpired(k)[i]
    BY DEF e, u
  <1> QED
    BY <1>6, <1>12, <1>14, <1>20, <1>21, <1>22, <1>23

-----------------------------------------------------------------------------
(* The shapes of a turn.                                                   *)

(* TypeOK, put together from its parts.                                    *)
LEMMA TypeParts ==
  ASSUME PlacesTyped, SlotsTyped, queue' \in Seq(Req),
         attempt' \in [Actor -> 0 .. MostRetries], sends' \in [Actor -> Nat],
         answer' \in [Actor -> Answer], running' \in BOOLEAN, loop' \in LoopPlace
  PROVE  TypeOK'
  BY Zenon DEF TypeOK, PlacesTyped, SlotsTyped

(* A request that moves on leaves the queue and the semaphore in order.    *)
LEMMA MovesOnParks ==
  ASSUME IInv, NEW a \in Actor, MovesOn(a), SlotsKeptOrGiven, queue' = queue
  PROVE  PlacesTyped /\ SlotsTyped /\ QueueParked' /\ NoIdleSlot'
  <1>1. PICK p \in Place \ {"queued", "acquiring"} : Goto(a, p)
    BY DEF MovesOn
  <1>2. TypeOK /\ QueueParked /\ NoIdleSlot /\ pc \in [Actor -> Place]
    BY DEF IInv, TypeOK
  <1>3. \A b \in Actor : b # a => pc'[b] = pc[b]
    BY <1>1, <1>2 DEF Goto
  <1>4. /\ \A i \in DOMAIN queue : queue[i] \in Actor
        /\ \A i \in DOMAIN waiters : waiters[i] \in Actor
    BY <1>2 DEF TypeOK, Actor
  <1>5. \A i \in DOMAIN queue : pc'[queue[i]] = "queued"
    BY <1>2, <1>3, <1>4 DEF QueueParked, MovesOn
  <1>6. \A i \in DOMAIN waiters : pc'[waiters[i]] = "acquiring"
    BY <1>2, <1>3, <1>4 DEF NoIdleSlot, MovesOn
  <1>7. NoIdleSlot'
    BY <1>2, <1>6, WaitersKept
  <1>8. QueueParked'
    BY <1>2, <1>5 DEF QueueParked, IsInjective
  <1>9. PlacesTyped
    BY <1>1, <1>2, GotoType
  <1> QED
    BY <1>2, <1>7, <1>8, <1>9, SlotsKeptType

(* Such a turn keeps the whole invariant when it sends nothing.            *)
LEMMA MoveStep ==
  ASSUME IInv, NEW a \in Actor, MovesOn(a), SlotsKeptOrGiven,
         UNCHANGED <<attempt, sends, queue, running>>,
         answer' \in [Actor -> Answer], loop' \in LoopPlace
  PROVE  IInv'
  <1>1. PlacesTyped /\ SlotsTyped /\ QueueParked' /\ NoIdleSlot'
    BY MovesOnParks
  <1>2. running' \in BOOLEAN
    BY Zenon DEF IInv, TypeOK
  <1>3. TypeOK'
    <2>1. queue' \in Seq(Req) /\ attempt' \in [Actor -> 0 .. MostRetries] /\ sends' \in [Actor -> Nat]
      BY DEF IInv, TypeOK
    <2> QED
      BY <1>1, <1>2, <2>1, TypeParts
  <1>4. PICK p \in Place \ {"queued", "acquiring"} :
          /\ Goto(a, p)
          /\ p \in Unsent => pc[a] \in Unsent
          /\ p = "backoff" => attempt[a] < MostRetries /\ a \notin SentOnce
    BY DEF MovesOn
  <1>5. pc \in [Actor -> Place] /\ attempt' = attempt /\ sends' = sends
    BY DEF IInv, TypeOK
  <1>6. pc'[a] = p /\ \A b \in Actor : b # a => pc'[b] = pc[b]
    BY <1>4, <1>5 DEF Goto
  <1>7. BudgetKept'
    <2> SUFFICES ASSUME NEW b \in Actor
                 PROVE  /\ sends'[b] <= attempt'[b] + 1
                        /\ pc'[b] \in Unsent => sends'[b] <= attempt'[b]
                        /\ pc'[b] = "backoff" => attempt'[b] < MostRetries
      BY DEF BudgetKept, Unsent
    <2>1. /\ sends[b] <= attempt[b] + 1
          /\ pc[b] \in Unsent => sends[b] <= attempt[b]
          /\ pc[b] = "backoff" => attempt[b] < MostRetries
      BY DEF IInv, BudgetKept
    <2> QED
      BY <1>4, <1>5, <1>6, <2>1
  <1>8. OnceUntried'
    <2> SUFFICES ASSUME NEW r \in SentOnce PROVE attempt'[r] = 0 /\ pc'[r] # "backoff"
      BY DEF OnceUntried, SentOnce
    <2>1. r \in Actor /\ attempt[r] = 0 /\ pc[r] # "backoff"
      BY DEF IInv, OnceUntried, SentOnce, Actor
    <2> QED
      BY <1>4, <1>5, <1>6, <2>1
  <1> QED
    BY <1>1, <1>3, <1>7, <1>8 DEF IInv

(* A turn that ends in a call of fetchFn: the first, or the next try of a  *)
(* stream.                                                                 *)
LEMMA FetchStep ==
  ASSUME IInv, NEW a \in Actor, Fetch(a),
         \/ pc[a] = "starting" /\ attempt' = attempt
         \/ a \in Stream /\ pc[a] = "backoff" /\ attempt' = [attempt EXCEPT ![a] = @ + 1],
         UNCHANGED <<answer, queue, running, loop, current, waiters>>
  PROVE  IInv'
  <1>1. TypeOK /\ NoIdleSlot /\ BudgetKept /\ OnceUntried
        /\ pc \in [Actor -> Place] /\ sends \in [Actor -> Nat]
        /\ attempt \in [Actor -> 0 .. MostRetries]
    BY DEF IInv, TypeOK
  <1>2. "fetching" \in Place \ {"queued", "acquiring"} /\ "fetching" \notin Unsent
    BY DEF Place, Unsent
  <1>3. Goto(a, "fetching") /\ sends' = [sends EXCEPT ![a] = @ + 1]
    BY DEF Fetch
  <1>4. MovesOn(a)
    BY <1>1, <1>2, <1>3, NotParked DEF MovesOn
  <1>5. PlacesTyped /\ SlotsTyped /\ QueueParked' /\ NoIdleSlot'
    BY <1>4, MovesOnParks DEF SlotsKeptOrGiven
  <1>6. MostRetries \in Nat
    BY MostRetriesBounds
  <1>7. /\ pc'[a] = "fetching" /\ sends'[a] = sends[a] + 1
        /\ \A b \in Actor : b # a => pc'[b] = pc[b] /\ sends'[b] = sends[b]
    BY <1>1, <1>3 DEF Goto
  <1>8. sends[a] \in Nat /\ attempt[a] \in Nat
    BY <1>1, <1>6
  <1>9. /\ attempt' \in [Actor -> 0 .. MostRetries]
        /\ \A b \in Actor : b # a => attempt'[b] = attempt[b]
        /\ sends[a] + 1 <= attempt'[a] + 1
    <2>1. CASE pc[a] = "starting" /\ attempt' = attempt
      <3>1. sends[a] <= attempt[a]
        BY <1>1, <2>1 DEF BudgetKept, Unsent
      <3> QED
        BY <1>1, <1>8, <2>1, <3>1
    <2>2. CASE a \in Stream /\ pc[a] = "backoff" /\ attempt' = [attempt EXCEPT ![a] = @ + 1]
      <3>1. sends[a] <= attempt[a] + 1 /\ attempt[a] < MostRetries
        BY <1>1, <2>2 DEF BudgetKept
      <3>2. attempt[a] + 1 \in 0 .. MostRetries
        BY <1>6, <1>8, <3>1
      <3>3. /\ attempt' \in [Actor -> 0 .. MostRetries] /\ attempt'[a] = attempt[a] + 1
            /\ \A b \in Actor : b # a => attempt'[b] = attempt[b]
        BY <1>1, <2>2, <3>2
      <3> QED
        BY <1>8, <3>1, <3>3
    <2> QED
      BY <2>1, <2>2
  <1>10. TypeOK'
    <2>1. running' \in BOOLEAN
      BY <1>1, Zenon DEF TypeOK
    <2>2. queue' \in Seq(Req) /\ answer' \in [Actor -> Answer] /\ loop' \in LoopPlace
      BY <1>1 DEF TypeOK
    <2>3. sends' \in [Actor -> Nat]
      BY <1>1, <1>3
    <2> QED
      BY <1>5, <1>9, <2>1, <2>2, <2>3, TypeParts
  <1>11. BudgetKept'
    <2> SUFFICES ASSUME NEW b \in Actor
                 PROVE  /\ sends'[b] <= attempt'[b] + 1
                        /\ pc'[b] \in Unsent => sends'[b] <= attempt'[b]
                        /\ pc'[b] = "backoff" => attempt'[b] < MostRetries
      BY DEF BudgetKept, Unsent
    <2>1. CASE b = a
      BY <1>2, <1>7, <1>9, <2>1
    <2>2. CASE b # a
      BY <1>1, <1>7, <1>9, <2>2 DEF BudgetKept
    <2> QED
      BY <2>1, <2>2
  <1>12. OnceUntried'
    <2> SUFFICES ASSUME NEW r \in SentOnce PROVE attempt'[r] = 0 /\ pc'[r] # "backoff"
      BY DEF OnceUntried, SentOnce
    <2>1. r \in Actor /\ r \in Req /\ attempt[r] = 0 /\ pc[r] # "backoff"
      BY <1>1 DEF OnceUntried, SentOnce, Actor
    <2>2. r = a => attempt' = attempt
      BY <2>1
    <2> QED
      BY <1>7, <1>9, <2>1, <2>2
  <1> QED
    BY <1>5, <1>10, <1>11, <1>12 DEF IInv

-----------------------------------------------------------------------------
(* The ways out of an attempt are moves of the request.                    *)

Attended == Place \ {"queued", "acquiring"}
Onward == Attended \ (Unsent \cup {"backoff"})

LEMMA GotoMoves ==
  ASSUME IInv, NEW a \in Actor, pc[a] \in Attended, NEW p \in Onward, Goto(a, p)
  PROVE  MovesOn(a)
  BY NotParked DEF IInv, MovesOn, Attended, Onward

LEMMA OnwardPlaces ==
  /\ {"rejected", "resolved", "crashed", "fetching", "completing", "reading",
      "failing", "limiting", "streaming"} \subseteq Onward
  /\ {"idle", "paced", "starting", "backoff"} \cup Onward \subseteq Attended
  BY DEF Onward, Attended, Place, Unsent

LEMMA HandleRetryMoves ==
  ASSUME IInv, NEW r \in Actor, pc[r] \in Attended, NEW kind, HandleRetry(r, kind)
  PROVE  MovesOn(r)
  <1>1. CASE Goto(r, "rejected")
    BY <1>1, GotoMoves, OnwardPlaces
  <1>2. CASE WillRetry(r, kind) /\ Goto(r, "backoff")
    <2>1. kind \in RetryableKind /\ attempt[r] < MaxRetries[kind] /\ r \notin SentOnce
      BY <1>2 DEF WillRetry, SentOnce
    <2>2. MaxRetries[kind] \in Nat /\ MaxRetries[kind] <= MostRetries /\ MostRetries \in Nat
      BY <2>1, MostRetriesBounds
    <2>3. attempt[r] \in Int
      BY <2>2 DEF IInv, TypeOK
    <2>4. attempt[r] < MostRetries
      BY <2>1, <2>2, <2>3
    <2>5. "backoff" \in Place \ {"queued", "acquiring"} /\ "backoff" \notin Unsent
      BY DEF Place, Unsent
    <2>6. pc[r] # "queued" /\ \A i \in DOMAIN waiters : waiters[i] # r
      BY NotParked DEF IInv, Attended
    <2> QED
      BY <1>2, <2>1, <2>4, <2>5, <2>6 DEF MovesOn
  <1> QED
    BY <1>1, <1>2 DEF HandleRetry

LEMMA CatchMoves ==
  ASSUME IInv, NEW r \in Actor, pc[r] \in Attended, NEW n \in {1, 2}, NEW kind, Catch(r, n, kind)
  PROVE  MovesOn(r) /\ SlotsKeptOrGiven
  <1>1. CASE HandleRetry(r, kind)
    BY <1>1, HandleRetryMoves DEF Catch, SlotsKeptOrGiven
  <1>2. CASE Goto(r, "crashed")
    BY <1>2, GotoMoves, OnwardPlaces DEF Catch, SlotsKeptOrGiven
  <1> QED
    BY <1>1, <1>2 DEF Catch

LEMMA HookThrowsMoves ==
  ASSUME IInv, NEW r \in Actor, pc[r] \in Attended, NEW hook, HookThrows(r, hook)
  PROVE  MovesOn(r) /\ SlotsKeptOrGiven
  BY CatchMoves DEF HookThrows

LEMMA AttemptFailsMoves ==
  ASSUME IInv, NEW r \in Actor, pc[r] \in Attended, AttemptFails(r)
  PROVE  MovesOn(r) /\ SlotsKeptOrGiven
  <1>1. CASE Release(1) /\ HandleRetry(r, answer[r])
    BY <1>1, HandleRetryMoves DEF SlotsKeptOrGiven
  <1>2. CASE \E kind \in ErrorKind : Catch(r, 2, kind)
    BY <1>2, CatchMoves
  <1> QED
    BY <1>1, <1>2 DEF AttemptFails

LEMMA StreamFailsMoves ==
  ASSUME IInv, NEW s \in Stream, s \in Actor, pc[s] \in Attended, NEW kind, StreamFails(s, kind)
  PROVE  MovesOn(s) /\ SlotsKeptOrGiven
  <1>1. CASE Goto(s, "rejected") /\ Release(1)
    BY <1>1, GotoMoves, OnwardPlaces DEF SlotsKeptOrGiven
  <1>2. CASE StreamWillRetry(s, kind) /\ Goto(s, "backoff") /\ UNCHANGED <<current, waiters>>
    <2>1. kind \in RetryableKind /\ attempt[s] < MaxRetries[kind]
      BY <1>2 DEF StreamWillRetry
    <2>2. MaxRetries[kind] \in Nat /\ MaxRetries[kind] <= MostRetries /\ MostRetries \in Nat
      BY <2>1, MostRetriesBounds
    <2>3. attempt[s] \in Int
      BY <2>2 DEF IInv, TypeOK
    <2>4. attempt[s] < MostRetries
      BY <2>1, <2>2, <2>3
    <2>5. "backoff" \in Place \ {"queued", "acquiring"} /\ "backoff" \notin Unsent
      BY DEF Place, Unsent
    <2>6. pc[s] # "queued" /\ \A i \in DOMAIN waiters : waiters[i] # s
      BY NotParked DEF IInv, Attended
    <2>7. s \notin SentOnce
      BY QueueAssumption DEF QueueAssumption, SentOnce
    <2> QED
      BY <1>2, <2>4, <2>5, <2>6, <2>7 DEF MovesOn, SlotsKeptOrGiven
  <1> QED
    BY <1>1, <1>2 DEF StreamFails

-----------------------------------------------------------------------------
(* One lemma for each group of actions.                                    *)

LEMMA AnswerTyped ==
  ASSUME IInv, NEW a \in Actor, NEW status \in Answer, answer' = [answer EXCEPT ![a] = status]
  PROVE  answer' \in [Actor -> Answer]
  BY DEF IInv, TypeOK

LEMMA Unmoved ==
  ASSUME IInv
  PROVE  /\ UNCHANGED answer => answer' \in [Actor -> Answer]
         /\ UNCHANGED loop => loop' \in LoopPlace
         /\ UNCHANGED <<current, waiters>> => SlotsKeptOrGiven
         /\ \A n \in {1, 2} : Release(n) => SlotsKeptOrGiven
  BY DEF IInv, TypeOK, SlotsKeptOrGiven

LEMMA RequestStepKeepsIInv ==
  ASSUME IInv, NEW r \in Req, RequestStep(r), ~RetryTimer(r)
  PROVE  IInv'
  <1>0. r \in Actor
    BY DEF Actor
  <1>1. CASE StartHooks(r)
    <2>1. pc[r] = "starting" /\ pc[r] \in Attended
      BY <1>1, OnwardPlaces DEF StartHooks
    <2>2. CASE Fetch(r) /\ UNCHANGED <<current, waiters>>
      BY <1>0, <1>1, <2>1, <2>2, FetchStep DEF StartHooks
    <2>3. CASE Goto(r, "rejected") /\ Release(1) /\ UNCHANGED sends
      BY <1>0, <1>1, <2>1, <2>3, GotoMoves, OnwardPlaces, MoveStep, Unmoved DEF StartHooks
    <2>4. CASE Goto(r, "crashed") /\ UNCHANGED <<sends, current, waiters>>
      BY <1>0, <1>1, <2>1, <2>4, GotoMoves, OnwardPlaces, MoveStep, Unmoved DEF StartHooks
    <2> QED
      BY <1>1, <2>2, <2>3, <2>4 DEF StartHooks
  <1>2. CASE FetchReturns(r)
    <2>1. pc[r] = "fetching" /\ pc[r] \in Attended
      BY <1>2, OnwardPlaces DEF FetchReturns
    <2>2. ASSUME NEW status \in Answer \ {"none"}, answer' = [answer EXCEPT ![r] = status],
                 \/ Goto(r, "completing") /\ UNCHANGED <<current, waiters>>
                 \/ HookThrows(r, "onRateLimitUpdate")
          PROVE  IInv'
      <3>1. MovesOn(r) /\ SlotsKeptOrGiven
        BY <1>0, <2>1, <2>2, GotoMoves, OnwardPlaces, HookThrowsMoves, Unmoved
      <3> QED
        BY <1>0, <1>2, <2>2, <3>1, AnswerTyped, MoveStep, Unmoved DEF FetchReturns
    <2>3. CASE Catch(r, 1, "transient") /\ UNCHANGED answer
      BY <1>0, <1>2, <2>1, <2>3, CatchMoves, MoveStep, Unmoved DEF FetchReturns
    <2> QED
      BY <1>2, <2>2, <2>3 DEF FetchReturns
  <1>3. CASE CompleteHooks(r)
    <2>1. pc[r] = "completing" /\ pc[r] \in Attended
      BY <1>3, OnwardPlaces DEF CompleteHooks
    <2>2. MovesOn(r) /\ SlotsKeptOrGiven
      BY <1>0, <1>3, <2>1, GotoMoves, OnwardPlaces, HookThrowsMoves, Unmoved DEF CompleteHooks
    <2> QED
      BY <1>0, <1>3, <2>2, MoveStep, Unmoved DEF CompleteHooks
  <1>4. CASE ReadBody(r)
    <2>1. pc[r] = "reading" /\ pc[r] \in Attended
      BY <1>4, OnwardPlaces DEF ReadBody
    <2>2. MovesOn(r) /\ SlotsKeptOrGiven
      BY <1>0, <1>4, <2>1, GotoMoves, OnwardPlaces, Unmoved DEF ReadBody
    <2> QED
      BY <1>0, <1>4, <2>2, MoveStep, Unmoved DEF ReadBody
  <1>5. CASE ReadErrorBody(r)
    <2>1. pc[r] = "failing" /\ pc[r] \in Attended
      BY <1>5, OnwardPlaces DEF ReadErrorBody
    <2>2. CASE answer[r] = "limited"
      BY <1>0, <1>5, <2>1, <2>2, GotoMoves, OnwardPlaces, HookThrowsMoves, MoveStep, Unmoved
         DEF ReadErrorBody
    <2>3. CASE answer[r] # "limited"
      BY <1>0, <1>5, <2>1, <2>3, AttemptFailsMoves, MoveStep, Unmoved DEF ReadErrorBody
    <2> QED
      BY <2>2, <2>3
  <1>6. CASE RateLimitHooks(r)
    <2>1. pc[r] = "limiting" /\ pc[r] \in Attended
      BY <1>6, OnwardPlaces DEF RateLimitHooks
    <2>2. MovesOn(r) /\ SlotsKeptOrGiven
      BY <1>0, <1>6, <2>1, AttemptFailsMoves, HookThrowsMoves DEF RateLimitHooks
    <2> QED
      BY <1>0, <1>6, <2>2, MoveStep, Unmoved DEF RateLimitHooks
  <1>7. CASE SettleOnWorkerCrash(r)
    <2>1. pc[r] = "crashed" /\ pc[r] \in Attended
      BY <1>7, OnwardPlaces DEF SettleOnWorkerCrash
    <2> QED
      BY <1>0, <1>7, <2>1, GotoMoves, OnwardPlaces, MoveStep, Unmoved DEF SettleOnWorkerCrash
  <1> QED
    BY <1>1, <1>2, <1>3, <1>4, <1>5, <1>6, <1>7 DEF RequestStep

LEMMA StreamActor ==
  ASSUME NEW s \in Stream
  PROVE  s \in Actor /\ s \notin Req /\ s \notin SentOnce
  BY QueueAssumption DEF QueueAssumption, Actor, SentOnce

(* A granted request has left the queue of waiters.                        *)
LEMMA GrantedMoves ==
  ASSUME IInv, NEW a \in Actor, Granted(a), Goto(a, "starting")
  PROVE  MovesOn(a)
  <1>1. "starting" \in Place \ {"queued", "acquiring"} /\ "acquiring" \in Unsent
    BY DEF Place, Unsent
  <1>2. pc[a] = "acquiring" /\ \A i \in DOMAIN waiters : waiters[i] # a
    BY DEF Granted
  <1> QED
    BY <1>1, <1>2 DEF MovesOn

(* acquire is called by a request that is not queued: parked or granted,   *)
(* it is at "acquiring" and not sent.                                      *)
LEMMA AcquireStep ==
  ASSUME IInv, NEW a \in Actor, pc[a] = "paced", Goto(a, "acquiring"), Acquire(a),
         UNCHANGED <<attempt, answer, sends, queue, running>>, loop' \in LoopPlace
  PROVE  IInv'
  <1>1. TypeOK /\ QueueParked /\ NoIdleSlot /\ BudgetKept /\ OnceUntried /\ pc \in [Actor -> Place]
    BY DEF IInv, TypeOK
  <1>2. pc'[a] = "acquiring" /\ \A b \in Actor : b # a => pc'[b] = pc[b]
    BY <1>1 DEF Goto
  <1>3. \A i \in DOMAIN waiters : waiters[i] \in Actor /\ waiters[i] # a /\ pc'[waiters[i]] = "acquiring"
    <2>1. \A i \in DOMAIN waiters : waiters[i] \in Actor
      BY <1>1 DEF TypeOK
    <2> QED
      BY <1>1, <1>2, <2>1 DEF NoIdleSlot
  <1>4. NoIdleSlot'
    BY <1>1, <1>2, <1>3, WaitersAcquire
  <1>5. QueueParked'
    <2>1. \A i \in DOMAIN queue : queue[i] \in Actor
      BY <1>1 DEF TypeOK, Actor
    <2>2. \A i \in DOMAIN queue : pc'[queue[i]] = "queued"
      BY <1>1, <1>2, <2>1 DEF QueueParked
    <2> QED
      BY <1>1, <2>2 DEF QueueParked, IsInjective
  <1>6. TypeOK'
    <2>1. running' \in BOOLEAN
      BY <1>1, Zenon DEF TypeOK
    <2>2. "acquiring" \in Place
      BY DEF Place
    <2>3. PlacesTyped /\ SlotsTyped
      BY <1>1, <2>2, GotoType, AcquireType
    <2>4. /\ queue' \in Seq(Req) /\ attempt' \in [Actor -> 0 .. MostRetries]
          /\ sends' \in [Actor -> Nat] /\ answer' \in [Actor -> Answer]
      BY <1>1 DEF TypeOK
    <2> QED
      BY <2>1, <2>3, <2>4, TypeParts
  <1>7. BudgetKept'
    BY <1>1, <1>2 DEF BudgetKept, Unsent
  <1>8. OnceUntried'
    <2>1. SentOnce \subseteq Actor
      BY DEF SentOnce, Actor
    <2> QED
      BY <1>1, <1>2, <2>1 DEF OnceUntried, SentOnce
  <1> QED
    BY <1>4, <1>5, <1>6, <1>7, <1>8 DEF IInv

LEMMA StreamStepKeepsIInv ==
  ASSUME IInv, NEW s \in Stream, StreamOpens(s) \/ StreamStep(s) \/ StreamCloses(s)
  PROVE  IInv'
  <1>0. s \in Actor
    BY StreamActor
  <1>1. CASE StreamOpens(s)
    <2>1. pc[s] = "idle" /\ Goto(s, "paced")
      BY <1>1 DEF StreamOpens
    <2>2. "paced" \in Place \ {"queued", "acquiring"} /\ "idle" \in Unsent
      BY DEF Place, Unsent
    <2>3. MovesOn(s)
      BY <1>0, <2>1, <2>2, NotParked DEF IInv, MovesOn
    <2> QED
      BY <1>0, <1>1, <2>3, MoveStep, Unmoved DEF StreamOpens
  <1>2. CASE StreamAcquires(s)
    <2>1. loop' \in LoopPlace
      BY <1>2, Unmoved DEF StreamAcquires
    <2> QED
      BY <1>0, <1>2, <2>1, AcquireStep DEF StreamAcquires
  <1>3. CASE StreamStarts(s)
    BY <1>0, <1>3, GrantedMoves, MoveStep, Unmoved DEF StreamStarts
  <1>4. CASE StreamStartHooks(s)
    <2>1. pc[s] = "starting" /\ pc[s] \in Attended
      BY <1>4, OnwardPlaces DEF StreamStartHooks
    <2>2. CASE Fetch(s) /\ UNCHANGED <<current, waiters>>
      BY <1>0, <1>4, <2>1, <2>2, FetchStep DEF StreamStartHooks
    <2>3. CASE Goto(s, "rejected") /\ UNCHANGED sends
               /\ (Release(1) \/ UNCHANGED <<current, waiters>>)
      BY <1>0, <1>4, <2>1, <2>3, GotoMoves, OnwardPlaces, MoveStep, Unmoved DEF StreamStartHooks
    <2> QED
      BY <1>4, <2>2, <2>3 DEF StreamStartHooks
  <1>5. CASE StreamFetchReturns(s)
    <2>1. pc[s] = "fetching" /\ pc[s] \in Attended
      BY <1>5, OnwardPlaces DEF StreamFetchReturns
    <2>2. ASSUME NEW status \in Answer \ {"none"}, answer' = [answer EXCEPT ![s] = status],
                 Goto(s, "completing"), UNCHANGED <<current, waiters>>
          PROVE  IInv'
      <3>1. MovesOn(s) /\ SlotsKeptOrGiven
        BY <1>0, <2>1, <2>2, GotoMoves, OnwardPlaces, Unmoved
      <3> QED
        BY <1>0, <1>5, <2>2, <3>1, AnswerTyped, MoveStep, Unmoved DEF StreamFetchReturns
    <2>3. CASE StreamFails(s, "transient") /\ UNCHANGED answer
      BY <1>0, <1>5, <2>1, <2>3, StreamFailsMoves, MoveStep, Unmoved DEF StreamFetchReturns
    <2> QED
      BY <1>5, <2>2, <2>3 DEF StreamFetchReturns
  <1>6. CASE StreamCompleteHooks(s)
    <2>1. pc[s] = "completing" /\ pc[s] \in Attended
      BY <1>6, OnwardPlaces DEF StreamCompleteHooks
    <2>2. MovesOn(s) /\ SlotsKeptOrGiven
      BY <1>0, <1>6, <2>1, GotoMoves, OnwardPlaces, StreamFailsMoves, Unmoved DEF StreamCompleteHooks
    <2> QED
      BY <1>0, <1>6, <2>2, MoveStep, Unmoved DEF StreamCompleteHooks
  <1>7. CASE StreamErrorHooks(s)
    <2>1. pc[s] = "failing" /\ pc[s] \in Attended
      BY <1>7, OnwardPlaces DEF StreamErrorHooks
    <2>2. MovesOn(s) /\ SlotsKeptOrGiven
      BY <1>0, <1>7, <2>1, StreamFailsMoves DEF StreamErrorHooks
    <2> QED
      BY <1>0, <1>7, <2>2, MoveStep, Unmoved DEF StreamErrorHooks
  <1>8. CASE StreamRetries(s)
    BY <1>0, <1>8, FetchStep DEF StreamRetries
  <1>9. CASE StreamCloses(s)
    <2>1. pc[s] = "streaming" /\ pc[s] \in Attended
      BY <1>9, OnwardPlaces DEF StreamCloses
    <2>2. MovesOn(s) /\ SlotsKeptOrGiven
      BY <1>0, <1>9, <2>1, GotoMoves, OnwardPlaces, Unmoved DEF StreamCloses
    <2> QED
      BY <1>0, <1>9, <2>2, MoveStep, Unmoved DEF StreamCloses
  <1> QED
    BY <1>1, <1>2, <1>3, <1>4, <1>5, <1>6, <1>7, <1>8, <1>9 DEF StreamStep

(* ensureProcessing leaves the loop running or about to run.               *)
LEMMA EnsureProcessingType ==
  ASSUME TypeOK, EnsureProcessing
  PROVE  running' \in BOOLEAN /\ loop' \in LoopPlace
  <1>1. running' \in BOOLEAN
    BY Zenon DEF EnsureProcessing
  <1>2. loop' = "ready" \/ loop' = loop
    BY DEF EnsureProcessing
  <1> QED
    BY <1>1, <1>2 DEF TypeOK, LoopPlace

(* An entry that is accepted, or refused because the queue is full: on     *)
(* submit, and when the retry timer of a request that may be retried fires. *)
LEMMA EnqueueStep ==
  ASSUME IInv, NEW r \in Req, Enqueue(r), EnsureProcessing,
         \/ pc[r] = "idle" /\ attempt' = attempt
         \/ pc[r] = "backoff" /\ attempt' = IF Full THEN attempt ELSE [attempt EXCEPT ![r] = @ + 1],
         UNCHANGED <<answer, sends, current, waiters>>
  PROVE  IInv'
  <1>1. /\ TypeOK /\ QueueParked /\ NoIdleSlot /\ BudgetKept /\ OnceUntried
        /\ pc \in [Actor -> Place] /\ attempt \in [Actor -> 0 .. MostRetries]
        /\ sends \in [Actor -> Nat] /\ r \in Actor
    BY DEF IInv, TypeOK, Actor
  <1>2. PICK p \in {"rejected", "queued"} : Goto(r, p) /\ (p = "queued" <=> ~Full)
    BY DEF Enqueue
  <1>3. pc'[r] = p /\ \A b \in Actor : b # r => pc'[b] = pc[b]
    BY <1>1, <1>2 DEF Goto
  <1>4. QueueParked' /\ PlacesTyped /\ queue' \in Seq(Req)
    BY <1>1, EnqueueParks, EnqueueType
  <1>5. \A i \in DOMAIN waiters : pc'[waiters[i]] = "acquiring"
    <2>1. \A i \in DOMAIN waiters : waiters[i] \in Actor
      BY <1>1 DEF TypeOK
    <2> QED
      BY <1>1, <1>3, <2>1 DEF NoIdleSlot
  <1>6. NoIdleSlot'
    BY <1>1, <1>5, WaitersKept DEF SlotsKeptOrGiven
  <1>7. MostRetries \in Nat /\ sends[r] \in Nat /\ attempt[r] \in Nat
    BY <1>1, MostRetriesBounds
  <1>8. /\ attempt' \in [Actor -> 0 .. MostRetries]
        /\ \A b \in Actor : b # r => attempt'[b] = attempt[b]
        /\ sends[r] <= attempt'[r] + 1
        /\ p = "queued" => sends[r] <= attempt'[r]
    <2>1. CASE pc[r] = "idle" /\ attempt' = attempt
      BY <1>1, <2>1 DEF BudgetKept, Unsent
    <2>2. CASE pc[r] = "backoff" /\ Full /\ attempt' = attempt
      BY <1>1, <1>2, <2>2 DEF BudgetKept
    <2>3. CASE pc[r] = "backoff" /\ ~Full /\ attempt' = [attempt EXCEPT ![r] = @ + 1]
      <3>1. sends[r] <= attempt[r] + 1 /\ attempt[r] < MostRetries
        BY <1>1, <2>3 DEF BudgetKept
      <3>2. attempt[r] + 1 \in 0 .. MostRetries
        BY <1>7, <3>1
      <3>3. /\ attempt' \in [Actor -> 0 .. MostRetries] /\ attempt'[r] = attempt[r] + 1
            /\ \A b \in Actor : b # r => attempt'[b] = attempt[b]
        BY <1>1, <2>3, <3>2
      <3> QED
        BY <1>7, <3>1, <3>3
    <2> QED
      BY <2>1, <2>2, <2>3
  <1>9. TypeOK'
    <2>1. answer' \in [Actor -> Answer] /\ sends' \in [Actor -> Nat] /\ SlotsTyped
      BY <1>1 DEF TypeOK, SlotsTyped
    <2> QED
      BY <1>1, <1>4, <1>8, <2>1, EnsureProcessingType, TypeParts
  <1>10. BudgetKept'
    <2> SUFFICES ASSUME NEW b \in Actor
                 PROVE  /\ sends'[b] <= attempt'[b] + 1
                        /\ pc'[b] \in Unsent => sends'[b] <= attempt'[b]
                        /\ pc'[b] = "backoff" => attempt'[b] < MostRetries
      BY DEF BudgetKept, Unsent
    <2>1. CASE b = r
      BY <1>2, <1>3, <1>8, <2>1 DEF Unsent
    <2>2. CASE b # r
      BY <1>1, <1>3, <1>8, <2>2 DEF BudgetKept
    <2> QED
      BY <2>1, <2>2
  <1>11. OnceUntried'
    <2> SUFFICES ASSUME NEW b \in SentOnce PROVE attempt'[b] = 0 /\ pc'[b] # "backoff"
      BY DEF OnceUntried, SentOnce
    <2>1. b \in Actor /\ attempt[b] = 0 /\ pc[b] # "backoff"
      BY <1>1 DEF OnceUntried, SentOnce, Actor
    <2>2. b = r => attempt' = attempt
      BY <2>1
    <2> QED
      BY <1>2, <1>3, <1>8, <2>1, <2>2
  <1> QED
    BY <1>4, <1>6, <1>9, <1>10, <1>11 DEF IInv

(* The loop takes one entry out, after it rejected the expired ones.       *)
LEMMA DequeueStep ==
  ASSUME IInv, NEW k \in 0 .. Len(queue), NEW i \in 1 .. Len(queue) - k,
         NEW place \in {"acquiring", "paced", "rejected", "lost"}, Dequeue(k, i, place),
         \/ place = "acquiring" /\ Acquire(Unexpired(k)[i])
         \/ place # "acquiring" /\ UNCHANGED <<current, waiters>>,
         running' \in BOOLEAN, loop' \in LoopPlace
  PROVE  IInv'
  <1> DEFINE e == Unexpired(k)[i]
  <1>1. /\ TypeOK /\ QueueParked /\ NoIdleSlot /\ BudgetKept /\ OnceUntried
        /\ place \in Place
    BY DEF IInv, Place
  <1>2. /\ e \in Req
        /\ pc[e] = "queued" /\ pc'[e] = place
        /\ \A a \in Actor : a # e =>
             pc'[a] = pc[a] \/ (pc[a] = "queued" /\ pc'[a] = "rejected")
        /\ PlacesTyped
        /\ queue' \in Seq(Req)
        /\ QueueParked'
    BY <1>1, DequeueParks
  <1>3. UNCHANGED <<attempt, answer, sends>>
    BY DEF Dequeue
  <1> HIDE DEF e
  <1>4. e \in Actor
    BY <1>2 DEF Actor
  <1>5. \A i_1 \in DOMAIN waiters : waiters[i_1] # e /\ pc'[waiters[i_1]] = "acquiring"
    <2>1. \A i_1 \in DOMAIN waiters : waiters[i_1] \in Actor
      BY <1>1 DEF TypeOK
    <2> QED
      BY <1>1, <1>2, <2>1 DEF NoIdleSlot
  <1>6. SlotsTyped /\ NoIdleSlot'
    <2>1. CASE place = "acquiring" /\ Acquire(e)
      BY <1>1, <1>2, <1>4, <1>5, <2>1, AcquireType, WaitersAcquire
    <2>2. CASE UNCHANGED <<current, waiters>>
      BY <1>1, <1>5, <2>2, WaitersKept, SlotsKeptType DEF SlotsKeptOrGiven
    <2> QED
      BY <2>1, <2>2 DEF e
  <1>7. TypeOK'
    <2>1. attempt' \in [Actor -> 0 .. MostRetries] /\ sends' \in [Actor -> Nat] /\ answer' \in [Actor -> Answer]
      BY <1>1, <1>3 DEF TypeOK
    <2> QED
      BY <1>2, <1>6, <2>1, TypeParts
  <1>8. BudgetKept'
    <2> SUFFICES ASSUME NEW b \in Actor
                 PROVE  /\ sends'[b] <= attempt'[b] + 1
                        /\ pc'[b] \in Unsent => sends'[b] <= attempt'[b]
                        /\ pc'[b] = "backoff" => attempt'[b] < MostRetries
      BY DEF BudgetKept, Unsent
    <2>1. CASE b = e
      BY <1>1, <1>2, <1>3, <2>1 DEF BudgetKept, Unsent
    <2>2. CASE b # e
      BY <1>1, <1>2, <1>3, <2>2 DEF BudgetKept, Unsent
    <2> QED
      BY <2>1, <2>2
  <1>9. OnceUntried'
    <2> SUFFICES ASSUME NEW b \in SentOnce PROVE attempt'[b] = 0 /\ pc'[b] # "backoff"
      BY DEF OnceUntried, SentOnce
    <2>1. b \in Actor /\ attempt[b] = 0 /\ pc[b] # "backoff"
      BY <1>1 DEF OnceUntried, SentOnce, Actor
    <2> QED
      BY <1>2, <1>3, <2>1
  <1> QED
    BY <1>2, <1>6, <1>7, <1>8, <1>9 DEF IInv

(* Every entry has expired, or there is none: the loop ends.               *)
LEMMA LoopEndsKeepsIInv ==
  ASSUME IInv, LoopEnds
  PROVE  IInv'
  <1>1. /\ TypeOK /\ QueueParked /\ NoIdleSlot /\ BudgetKept /\ OnceUntried
        /\ pc \in [Actor -> Place] /\ queue \in Seq(Req) /\ Len(queue) \in Nat
    BY DEF IInv, TypeOK
  <1>2. /\ pc' = Purge(Len(queue)) /\ queue' = <<>> /\ running' = FALSE /\ loop' = "off"
        /\ UNCHANGED <<attempt, answer, sends, current, waiters>>
    BY DEF LoopEnds
  <1>3. \A a \in Expired(Len(queue)) : pc[a] = "queued"
    <2>1. \A a \in Expired(Len(queue)) : \E j \in 1 .. Len(queue) : a = queue[j]
      BY DEF Expired
    <2>2. \A j \in 1 .. Len(queue) : pc[queue[j]] = "queued"
      BY <1>1 DEF QueueParked
    <2> QED
      BY <2>1, <2>2
  <1>4. \A a \in Actor : pc'[a] = pc[a] \/ (pc[a] = "queued" /\ pc'[a] = "rejected")
    BY <1>2, <1>3 DEF Purge
  <1>5. PlacesTyped
    <2>1. "rejected" \in Place
      BY DEF Place
    <2> QED
      BY <1>1, <1>2, <2>1 DEF Purge, PlacesTyped
  <1>6. \A i \in DOMAIN waiters : pc'[waiters[i]] = "acquiring"
    <2>1. \A i \in DOMAIN waiters : waiters[i] \in Actor
      BY <1>1 DEF TypeOK
    <2> QED
      BY <1>1, <1>4, <2>1 DEF NoIdleSlot
  <1>7. NoIdleSlot'
    BY <1>1, <1>2, <1>6, WaitersKept DEF SlotsKeptOrGiven
  <1>8. queue' \in Seq(Req) /\ DOMAIN queue' = {}
    BY <1>2, EmptySeq
  <1>9. QueueParked'
    BY <1>8 DEF QueueParked, IsInjective
  <1>10. TypeOK'
    <2>1. running' \in BOOLEAN
      BY <1>2, Zenon
    <2>2. loop' \in LoopPlace /\ SlotsTyped /\ attempt' \in [Actor -> 0 .. MostRetries]
          /\ sends' \in [Actor -> Nat] /\ answer' \in [Actor -> Answer]
      BY <1>1, <1>2 DEF TypeOK, SlotsTyped, LoopPlace
    <2> QED
      BY <1>5, <1>8, <2>1, <2>2, TypeParts
  <1>11. BudgetKept'
    BY <1>1, <1>2, <1>4 DEF BudgetKept, Unsent
  <1>12. OnceUntried'
    <2>1. SentOnce \subseteq Actor
      BY DEF SentOnce, Actor
    <2> QED
      BY <1>1, <1>2, <1>4, <2>1 DEF OnceUntried, SentOnce
  <1> QED
    BY <1>7, <1>9, <1>10, <1>11, <1>12 DEF IInv

LEMMA LoopStepKeepsIInv ==
  ASSUME IInv, LoopStep
  PROVE  IInv'
  <1>0. TypeOK /\ running \in BOOLEAN
    BY Zenon DEF IInv, TypeOK
  <1>1. CASE LoopEnds
    BY <1>1, LoopEndsKeepsIInv
  <1>2. CASE LoopDies
    <2>1. running' \in BOOLEAN
      BY <1>2, Zenon DEF LoopDies
    <2>2. loop' \in LoopPlace
      BY <1>2 DEF LoopDies, LoopPlace
    <2>3. UNCHANGED <<pc, attempt, answer, sends, queue, current, waiters>>
      BY <1>2 DEF LoopDies
    <2>4. TypeOK'
      <3>1. /\ PlacesTyped /\ SlotsTyped /\ queue' \in Seq(Req) /\ sends' \in [Actor -> Nat]
            /\ attempt' \in [Actor -> 0 .. MostRetries] /\ answer' \in [Actor -> Answer]
        BY <1>0, <2>3 DEF TypeOK, PlacesTyped, SlotsTyped
      <3> QED
        BY <2>1, <2>2, <3>1, TypeParts
    <2> QED
      BY <2>3, <2>4 DEF IInv, QueueParked, NoIdleSlot, BudgetKept, OnceUntried, IsInjective, SentOnce, Unsent
  <1>3. ASSUME NEW k \in 0 .. Len(queue), NEW i \in 1 .. Len(queue) - k,
               LoopDispatches(k, i) \/ LoopSleeps(k, i) \/ LoopTimesOut(k, i) \/ LoopThrows(k, i)
        PROVE  IInv'
    <2>1. CASE LoopDispatches(k, i)
      <3>1. loop' \in LoopPlace /\ running' = running
        BY <2>1 DEF LoopDispatches, LoopPlace
      <3>2. running' \in BOOLEAN
        BY <1>0, <3>1, Zenon
      <3> QED
        BY <2>1, <3>1, <3>2, DequeueStep DEF LoopDispatches
    <2>2. CASE LoopSleeps(k, i)
      <3>1. loop' \in LoopPlace /\ running' = running
        BY <2>2 DEF LoopSleeps, LoopPlace
      <3>2. running' \in BOOLEAN
        BY <1>0, <3>1, Zenon
      <3> QED
        BY <2>2, <3>1, <3>2, DequeueStep DEF LoopSleeps
    <2>3. CASE LoopTimesOut(k, i)
      <3>1. loop' \in LoopPlace /\ running' = running
        BY <2>3 DEF LoopTimesOut, LoopPlace, WaitForItem
      <3>2. running' \in BOOLEAN
        BY <1>0, <3>1, Zenon
      <3> QED
        BY <2>3, <3>1, <3>2, DequeueStep DEF LoopTimesOut
    <2>4. CASE LoopThrows(k, i)
      <3>1. loop' \in LoopPlace /\ running' = running
        BY <2>4 DEF LoopThrows, LoopPlace
      <3>2. running' \in BOOLEAN
        BY <1>0, <3>1, Zenon
      <3> QED
        BY <2>4, <3>1, <3>2, DequeueStep DEF LoopThrows
    <2> QED
      BY <1>3, <2>1, <2>2, <2>3, <2>4
  <1>4. ASSUME NEW r \in Req, LoopWakes(r)
        PROVE  IInv'
    <2>1. r \in Actor /\ loop' \in LoopPlace
      BY <1>4 DEF Actor, LoopWakes, LoopPlace
    <2> QED
      BY <1>4, <2>1, AcquireStep DEF LoopWakes
  <1>5. ASSUME NEW r \in Req, LoopStartsWorker(r)
        PROVE  IInv'
    <2>1. r \in Actor /\ loop' \in LoopPlace
      BY <1>5 DEF Actor, LoopStartsWorker, LoopPlace, WaitForItem
    <2>2. MovesOn(r)
      BY <1>5, <2>1, GrantedMoves DEF LoopStartsWorker
    <2> QED
      BY <1>5, <2>1, <2>2, MoveStep, Unmoved DEF LoopStartsWorker
  <1> QED
    BY <1>1, <1>2, <1>3, <1>4, <1>5 DEF LoopStep

-----------------------------------------------------------------------------
(* The invariant.                                                          *)

LEMMA InitIInv == Init => IInv
  <1> SUFFICES ASSUME Init PROVE IInv
    OBVIOUS
  <1>1. TypeOK
    BY InitType
  <1>2. DOMAIN queue = {} /\ DOMAIN waiters = {} /\ waiters = <<>>
    BY EmptySeq DEF Init
  <1>3. QueueParked /\ NoIdleSlot
    BY <1>2 DEF QueueParked, NoIdleSlot, IsInjective
  <1>4. BudgetKept
    BY DEF Init, BudgetKept
  <1>5. OnceUntried
    BY DEF Init, OnceUntried, SentOnce, Actor
  <1> QED
    BY <1>1, <1>3, <1>4, <1>5 DEF IInv

LEMMA NextIInv == IInv /\ [Next]_vars => IInv'
  <1> SUFFICES ASSUME IInv, [Next]_vars PROVE IInv'
    OBVIOUS
  <1>1. ASSUME NEW r \in Req, Submit(r)
        PROVE  IInv'
    <2>1. r \in Actor /\ pc[r] = "idle" /\ pc[r] \in Attended
      BY <1>1, OnwardPlaces DEF Submit, Actor
    <2>2. CASE Goto(r, "rejected") /\ UNCHANGED <<queue, running, loop>>
      BY <1>1, <2>1, <2>2, GotoMoves, OnwardPlaces, MoveStep, Unmoved DEF Submit
    <2>3. CASE Enqueue(r) /\ EnsureProcessing
      BY <1>1, <2>1, <2>3, EnqueueStep DEF Submit
    <2> QED
      BY <1>1, <2>2, <2>3 DEF Submit
  <1>2. ASSUME NEW r \in Req, RequestStep(r)
        PROVE  IInv'
    <2>1. CASE RetryTimer(r)
      BY <2>1, EnqueueStep DEF RetryTimer
    <2>2. CASE ~RetryTimer(r)
      BY <1>2, <2>2, RequestStepKeepsIInv
    <2> QED
      BY <2>1, <2>2
  <1>3. ASSUME NEW s \in Stream, StreamOpens(s) \/ StreamStep(s) \/ StreamCloses(s)
        PROVE  IInv'
    BY <1>3, StreamStepKeepsIInv
  <1>4. CASE LoopStep
    BY <1>4, LoopStepKeepsIInv
  <1>5. CASE UNCHANGED vars
    <2>1. UNCHANGED <<pc, attempt, answer, sends, queue, running, loop, current, waiters>>
      BY <1>5 DEF vars
    <2>2. TypeOK'
      BY <2>1, Zenon DEF IInv, TypeOK
    <2> QED
      BY <2>1, <2>2 DEF IInv, QueueParked, NoIdleSlot, BudgetKept, OnceUntried, IsInjective, SentOnce, Unsent
  <1> QED
    BY <1>1, <1>2, <1>3, <1>4, <1>5 DEF Next

(* Whatever the hooks do, the inductive invariant holds in every state.    *)
THEOREM SpecIInv == Spec => []IInv
  BY InitIInv, NextIInv, PTL DEF Spec

(* Every variable keeps its type; in particular the retry count of a       *)
(* request stays within the configured budget (handleRetry, connect).      *)
THEOREM SpecTypeOK == Spec => []TypeOK
  <1>1. IInv => TypeOK
    BY DEF IInv
  <1> QED
    BY <1>1, SpecIInv, PTL

(* Nobody is parked in acquire while a slot is free, and nobody twice:     *)
(* the waiter a release picks is always one that still waits.              *)
THEOREM SpecNoIdleSlot == Spec => []NoIdleSlot
  <1>1. IInv => NoIdleSlot
    BY DEF IInv
  <1> QED
    BY <1>1, SpecIInv, PTL

(* What the inductive invariant says of the budget: no attempt beyond it,  *)
(* and no second send of what must not be replayed.                        *)
LEMMA IInvBudget == IInv => RetryBudget
  <1> SUFFICES ASSUME IInv PROVE RetryBudget
    OBVIOUS
  <1>1. ASSUME NEW a \in Actor
        PROVE  sends[a] <= MostRetries + 1
    <2>1. sends[a] <= attempt[a] + 1 /\ attempt[a] \in 0 .. MostRetries /\ sends[a] \in Nat
      BY DEF IInv, BudgetKept, TypeOK
    <2> QED
      BY <2>1, MostRetriesBounds
  <1>2. ASSUME NEW r \in Req \cap (StreamBody \cup Stateful)
        PROVE  sends[r] <= 1
    <2>1. r \in Actor /\ attempt[r] = 0
      BY DEF IInv, OnceUntried, SentOnce, Actor
    <2>2. sends[r] <= attempt[r] + 1
      BY <2>1 DEF IInv, BudgetKept
    <2> QED
      BY <2>1, <2>2
  <1> QED
    BY <1>1, <1>2 DEF RetryBudget

(* fetchFn is called at most once more than the retry budget of a request, *)
(* and once for a buffered request that must not be replayed.              *)
THEOREM SpecRetryBudget == Spec => []RetryBudget
  BY IInvBudget, SpecIInv, PTL

=============================================================================
