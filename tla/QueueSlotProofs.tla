--------------------------- MODULE QueueSlotProofs ---------------------------
(***************************************************************************)
(* Theorems about what QueueState promises: who holds the slots of the     *)
(* Semaphore and how many there are, that every entry of the queue has a   *)
(* keeper, and that the queue implements RequestLifecycle.                 *)
(*                                                                         *)
(* A throw of an onRetry subscriber makes executeWithRetry release its     *)
(* slot twice, and the theorems about slots exclude it; a throw of an      *)
(* onRequestStart subscriber makes a stream keep its slot for ever, which  *)
(* the cap survives and the exact count does not.  A throw of a hook that  *)
(* the process loop emits loses an entry and ends the loop, and the        *)
(* theorems about entries exclude it.                                      *)
(***************************************************************************)
EXTENDS QueueStateProofs

Parked(a) == \E i \in DOMAIN waiters : waiters[i] = a

(* The four things a turn may do to the slots.                             *)
SlotsKept == Holders' = Holders /\ current' = current
SlotTaken ==
  \E a \in Actor \ Holders :
    Holders' = Holders \cup {a} /\ current' = current + 1 /\ current < MaxConcurrent
SlotGiven ==
  \E a \in Holders :
    \/ Holders' = Holders \ {a} /\ current' = current - 1
    \/ \E w \in Actor \ Holders : Holders' = (Holders \ {a}) \cup {w} /\ current' = current
SlotLeaked ==
  /\ "onRequestStart" \in Throwing /\ Stream # {}
  /\ \E a \in Holders : Holders' = Holders \ {a} /\ current' = current

LEMMA GrantedUnparked ==
  ASSUME NEW a
  PROVE  Granted(a) <=> pc[a] = "acquiring" /\ ~Parked(a)
  BY DEF Granted, Parked

(* Whether a request holds a slot depends on where it is and, while it     *)
(* acquires, on whether it is parked.                                      *)
LEMMA HoldsSame ==
  ASSUME NEW a \in Actor, pc'[a] = pc[a], pc[a] = "acquiring" => (Parked(a)' <=> Parked(a))
  PROVE  Holds(a)' <=> Holds(a)
  <1>1. Granted(a)' <=> Granted(a)
    BY DEF Granted, Parked
  <1> QED
    BY <1>1 DEF Holds, SlotPlace

LEMMA ParkedSame ==
  ASSUME waiters' = waiters, NEW a
  PROVE  Parked(a)' <=> Parked(a)
  BY DEF Parked

(* A turn that leaves the semaphore alone and moves one request between    *)
(* places that both hold a slot or both do not.                            *)
LEMMA KeepSlots ==
  ASSUME TypeOK, NEW a \in Actor, NEW p, Goto(a, p), UNCHANGED <<current, waiters>>,
         Holds(a)' <=> Holds(a)
  PROVE  SlotsKept
  <1>1. \A b \in Actor : b # a => pc'[b] = pc[b]
    BY DEF TypeOK, Goto
  <1>2. \A b \in Actor : Holds(b)' <=> Holds(b)
    BY <1>1, HoldsSame, ParkedSame
  <1> QED
    BY <1>2 DEF SlotsKept, Holders

(* The holder a leaves its place: its slot goes to the first waiter, or    *)
(* becomes free.                                                           *)
LEMMA GiveSlot ==
  ASSUME TypeOK, NoIdleSlot, NEW a \in Actor, pc[a] \in SlotPlace,
         NEW p, Goto(a, p), p \notin SlotPlace, p # "acquiring", p = "backoff" => a \notin Stream,
         Release(1)
  PROVE  SlotGiven
  <1>0. waiters \in Seq(Actor) /\ Len(waiters) \in Nat /\ current \in Int /\ pc \in [Actor -> Place]
    BY DEF TypeOK
  <1>1. pc'[a] = p /\ \A b \in Actor : b # a => pc'[b] = pc[b]
    BY <1>0 DEF Goto
  <1>2. a \in Holders /\ pc[a] # "acquiring"
    BY DEF Holders, Holds, SlotPlace
  <1>3. a \notin Holders'
    BY <1>1 DEF Holders, Holds, Granted
  <1>4. CASE waiters = <<>>
    <2>1. Len(waiters) = 0
      BY <1>4
    <2>2. current' = current - 1 + 0 /\ waiters' = SubSeq(waiters, 1, 0)
      BY <2>1 DEF Release
    <2>3. waiters' = waiters
      BY <1>4, <2>2
    <2>4. \A b \in Actor : b # a => (Holds(b)' <=> Holds(b))
      BY <1>1, <2>3, HoldsSame, ParkedSame
    <2>5. Holders' = Holders \ {a}
      BY <1>3, <2>4 DEF Holders
    <2>6. current' = current - 1
      BY <1>0, <2>2
    <2> QED
      BY <1>2, <2>5, <2>6 DEF SlotGiven
  <1>5. CASE waiters # <<>>
    <2>1. Len(waiters) # 0
      BY <1>0, <1>5, EmptyLength
    <2>2. 1 <= Len(waiters) /\ 1 \in 0 .. Len(waiters) /\ 1 \in 1 .. Len(waiters)
      BY <1>0, <2>1
    <2>3. current' = current - 1 + 1 /\ waiters' = SubSeq(waiters, 1 + 1, Len(waiters))
      BY <2>2 DEF Release
    <2>4. /\ waiters' \in Seq(Actor) /\ Len(waiters') = Len(waiters) - 1
          /\ \A j \in 1 .. Len(waiters) - 1 : waiters'[j] = waiters[j + 1]
      <3> DEFINE k == 1
                 t == SubSeq(waiters, k + 1, Len(waiters))
      <3>1. k \in 0 .. Len(waiters) /\ waiters' = t
        BY <2>2, <2>3
      <3> HIDE DEF k
      <3>2. /\ t \in Seq(Actor) /\ Len(t) = Len(waiters) - k
            /\ \A j \in 1 .. Len(waiters) - k : t[j] = waiters[j + k]
        BY <1>0, <3>1, SuffixElements
      <3> HIDE DEF t
      <3> QED BY <3>1, <3>2 DEF k
    <2>w. PICK w \in Actor : w = waiters[1]
      BY <1>0, <2>2
    <2>5. pc[w] = "acquiring" /\ w # a
      BY <1>0, <1>2, <2>2, <2>w DEF NoIdleSlot
    <2>6. Parked(w)
      BY <1>0, <2>2, <2>w DEF Parked
    <2>7. \A b : Parked(b)' <=> Parked(b) /\ b # w
      <3> SUFFICES ASSUME NEW b
                   PROVE  Parked(b)' <=> Parked(b) /\ b # w
        OBVIOUS
      <3>1. DOMAIN waiters' = 1 .. Len(waiters) - 1
        BY <2>4
      <3>2. DOMAIN waiters = 1 .. Len(waiters)
        BY <1>0
      <3>3. ASSUME NEW j \in 1 .. Len(waiters) - 1, waiters'[j] = b
            PROVE  Parked(b) /\ b # w
        <4>1. j + 1 \in 1 .. Len(waiters) /\ j + 1 # 1 /\ waiters[j + 1] = b
          BY <1>0, <2>4, <3>3
        <4>2. Parked(b)
          BY <3>2, <4>1 DEF Parked
        <4>3. b # w
          BY <2>2, <2>w, <3>2, <4>1 DEF NoIdleSlot, IsInjective
        <4> QED
          BY <4>2, <4>3
      <3>4. ASSUME NEW j \in 1 .. Len(waiters), waiters[j] = b, b # w
            PROVE  Parked(b)'
        <4>1. j # 1
          BY <2>w, <3>4
        <4>2. j - 1 \in 1 .. Len(waiters) - 1 /\ j - 1 + 1 = j
          BY <1>0, <4>1
        <4>3. waiters'[j - 1] = b
          BY <2>4, <3>4, <4>2
        <4> QED
          BY <3>1, <4>2, <4>3 DEF Parked
      <3> QED
        BY <3>1, <3>2, <3>3, <3>4 DEF Parked
    <2>8. \A b \in Actor : b # a /\ b # w => (Holds(b)' <=> Holds(b))
      BY <1>1, <2>7, HoldsSame
    <2>9. w \notin Holders
      BY <2>5, <2>6 DEF Holders, Holds, SlotPlace, Granted, Parked
    <2>10. w \in Holders'
      <3>1. pc'[w] = "acquiring" /\ ~Parked(w)'
        BY <1>1, <2>5, <2>7
      <3> QED
        BY <2>5, <3>1 DEF Holders, Holds, Granted, Parked
    <2>11. Holders' = (Holders \ {a}) \cup {w}
      <3>1. ASSUME NEW b \in Actor
            PROVE  b \in Holders' <=> b \in (Holders \ {a}) \cup {w}
        <4>1. CASE b = a
          BY <1>3, <2>5, <4>1
        <4>2. CASE b = w
          BY <2>10, <4>2
        <4>3. CASE b # a /\ b # w
          BY <2>8, <4>3 DEF Holders
        <4> QED
          BY <4>1, <4>2, <4>3
      <3>2. Holders' \subseteq Actor /\ (Holders \ {a}) \cup {w} \subseteq Actor
        BY <2>5 DEF Holders
      <3> QED
        BY <3>1, <3>2
    <2>12. current' = current
      BY <1>0, <2>3
    <2> QED
      BY <1>2, <2>5, <2>9, <2>11, <2>12 DEF SlotGiven
  <1> QED
    BY <1>4, <1>5

(* acquire by a request that is not waiting yet; other requests may move   *)
(* between places without a slot in the same turn.                         *)
LEMMA TakeSlot ==
  ASSUME TypeOK, NoIdleSlot, NEW a \in Actor, pc[a] \in {"queued", "paced"}, pc'[a] = "acquiring",
         \A b \in Actor : b # a =>
           pc'[b] = pc[b] \/ (pc[b] = "queued" /\ pc'[b] = "rejected"),
         Acquire(a)
  PROVE  SlotsKept \/ SlotTaken
  <1>0. waiters \in Seq(Actor) /\ Len(waiters) \in Nat /\ current \in Int
    BY DEF TypeOK
  <1>1. a \notin Holders /\ ~Parked(a)
    BY DEF Holders, Holds, SlotPlace, Granted, Parked, NoIdleSlot
  <1>2. ASSUME NEW b \in Actor, b # a, Parked(b)' <=> Parked(b)
        PROVE  Holds(b)' <=> Holds(b)
    <2>1. CASE pc'[b] = pc[b]
      BY <1>2, <2>1, HoldsSame
    <2>2. CASE pc[b] = "queued" /\ pc'[b] = "rejected"
      BY <2>2 DEF Holds, SlotPlace, Granted
    <2> QED
      BY <1>2, <2>1, <2>2
  <1>3. CASE current < MaxConcurrent
    <2>1. current' = current + 1 /\ waiters' = waiters
      BY <1>3 DEF Acquire
    <2>2. \A b \in Actor : b # a => (Holds(b)' <=> Holds(b))
      BY <1>2, <2>1, ParkedSame
    <2>3. a \in Holders'
      <3>1. ~Parked(a)'
        BY <1>1, <2>1, ParkedSame
      <3> QED
        BY <3>1 DEF Holders, Holds, Granted, Parked
    <2>4. Holders' = Holders \cup {a}
      <3>1. \A b \in Actor : b \in Holders' <=> b \in Holders \cup {a}
        BY <2>2, <2>3 DEF Holders
      <3>2. Holders' \subseteq Actor /\ Holders \subseteq Actor
        BY DEF Holders
      <3> QED
        BY <3>1, <3>2
    <2> QED
      BY <1>1, <1>3, <2>1, <2>4 DEF SlotTaken
  <1>4. CASE ~(current < MaxConcurrent)
    <2>1. waiters' = Append(waiters, a) /\ current' = current
      BY <1>4 DEF Acquire
    <2>2. /\ DOMAIN waiters' = 1 .. Len(waiters) + 1 /\ DOMAIN waiters = 1 .. Len(waiters)
          /\ waiters'[Len(waiters) + 1] = a
          /\ \A j \in 1 .. Len(waiters) : waiters'[j] = waiters[j]
      BY <1>0, <2>1
    <2>3. /\ Len(waiters) + 1 \in 1 .. Len(waiters) + 1
          /\ \A j \in 1 .. Len(waiters) + 1 : j \in 1 .. Len(waiters) \/ j = Len(waiters) + 1
          /\ \A j \in 1 .. Len(waiters) : j \in 1 .. Len(waiters) + 1
      BY <1>0
    <2>4. Parked(a)'
      BY <2>2, <2>3 DEF Parked
    <2>5. \A b : b # a => (Parked(b)' <=> Parked(b))
      BY <2>2, <2>3 DEF Parked
    <2>6. \A b \in Actor : b # a => (Holds(b)' <=> Holds(b))
      BY <1>2, <2>5
    <2>7. a \notin Holders'
      BY <2>4 DEF Holders, Holds, SlotPlace, Granted, Parked
    <2>8. Holders' = Holders
      <3>1. \A b \in Actor : b \in Holders' <=> b \in Holders
        BY <1>1, <2>6, <2>7 DEF Holders
      <3>2. Holders' \subseteq Actor /\ Holders \subseteq Actor
        BY DEF Holders
      <3> QED
        BY <3>1, <3>2
    <2> QED
      BY <2>1, <2>8 DEF SlotsKept
  <1> QED
    BY <1>3, <1>4

-----------------------------------------------------------------------------
(* What each action does to the slots.                                     *)

SlotStep == SlotsKept \/ SlotTaken \/ SlotGiven

(* Places a turn leaves without, and with, its slot.                       *)
LEMMA KeepSlotAt ==
  ASSUME IInv, NEW a \in Actor, NEW p, Goto(a, p), UNCHANGED <<current, waiters>>,
         \/ pc[a] \in SlotPlace /\ (p \in SlotPlace \/ (p = "backoff" /\ a \in Stream))
         \/ pc[a] = "backoff" /\ a \in Stream /\ p \in SlotPlace
         \/ Granted(a) /\ p \in SlotPlace
         \/ pc[a] = "idle" /\ p \in {"queued", "paced", "rejected"}
         \/ a \in Req /\ pc[a] = "backoff" /\ p \in {"queued", "rejected"}
  PROVE  SlotsKept
  <1>1. pc'[a] = p /\ TypeOK
    BY DEF IInv, TypeOK, Goto
  <1>2. a \in Req => a \notin Stream
    BY QueueAssumption DEF QueueAssumption
  <1>3. Holds(a)' <=> Holds(a)
    BY <1>1, <1>2 DEF Holds, SlotPlace, Granted
  <1> QED
    BY <1>1, <1>3, KeepSlots

LEMMA GiveSlotAt ==
  ASSUME IInv, NEW a \in Actor, pc[a] \in SlotPlace, Release(1),
         NEW p, Goto(a, p), p \in {"rejected", "resolved"} \/ (p = "backoff" /\ a \in Req)
  PROVE  SlotGiven
  <1>1. p \notin SlotPlace /\ p # "acquiring"
    BY DEF SlotPlace
  <1>2. a \in Req => a \notin Stream
    BY QueueAssumption DEF QueueAssumption
  <1>3. TypeOK /\ NoIdleSlot
    BY DEF IInv
  <1> QED
    BY <1>1, <1>2, <1>3, GiveSlot

LEMMA CatchGives ==
  ASSUME IInv, "onRetry" \notin Throwing, NEW r \in Req, pc[r] \in SlotPlace, NEW kind,
         (Release(1) /\ HandleRetry(r, kind)) \/ Catch(r, 1, kind)
  PROVE  SlotGiven
  <1>1. r \in Actor /\ Release(1) /\ (Goto(r, "rejected") \/ Goto(r, "backoff"))
    BY DEF Actor, Catch, HandleRetry, RetryHookThrows
  <1> QED
    BY <1>1, GiveSlotAt

LEMMA RequestStepSlots ==
  ASSUME IInv, "onRetry" \notin Throwing, NEW r \in Req, RequestStep(r)
  PROVE  SlotStep
  <1>0. /\ r \in Actor
        /\ {"starting", "fetching", "completing", "reading", "failing", "limiting", "crashed"}
             \subseteq SlotPlace
    BY DEF Actor, SlotPlace
  <1>h. ASSUME NEW hook, HookThrows(r, hook), pc[r] \in SlotPlace
        PROVE  SlotGiven
    BY <1>h, CatchGives DEF HookThrows
  <1>f. ASSUME AttemptFails(r), pc[r] \in SlotPlace
        PROVE  SlotGiven
    BY <1>f, CatchGives DEF AttemptFails, RetryHookThrows
  <1>1. CASE StartHooks(r)
    BY <1>0, <1>1, KeepSlotAt, GiveSlotAt DEF StartHooks, Fetch, SlotStep
  <1>2. CASE FetchReturns(r)
    <2>1. pc[r] \in SlotPlace
      BY <1>0, <1>2 DEF FetchReturns
    <2>2. \/ Goto(r, "completing") /\ UNCHANGED <<current, waiters>>
          \/ HookThrows(r, "onRateLimitUpdate")
          \/ Catch(r, 1, "transient")
      BY <1>2 DEF FetchReturns
    <2> QED
      BY <1>0, <1>h, <2>1, <2>2, KeepSlotAt, CatchGives DEF SlotStep
  <1>3. CASE CompleteHooks(r)
    <2>1. pc[r] \in SlotPlace
      BY <1>0, <1>3 DEF CompleteHooks
    <2>2. \/ (Goto(r, "reading") \/ Goto(r, "failing")) /\ UNCHANGED <<current, waiters>>
          \/ HookThrows(r, "onRequestComplete")
      BY <1>3 DEF CompleteHooks
    <2> QED
      BY <1>0, <1>h, <2>1, <2>2, KeepSlotAt DEF SlotStep
  <1>4. CASE ReadBody(r)
    BY <1>0, <1>4, GiveSlotAt DEF ReadBody, SlotStep
  <1>5. CASE ReadErrorBody(r)
    <2>1. pc[r] \in SlotPlace
      BY <1>0, <1>5 DEF ReadErrorBody
    <2>2. \/ Goto(r, "limiting") /\ UNCHANGED <<current, waiters>>
          \/ HookThrows(r, "onRateLimitUpdate")
          \/ AttemptFails(r)
      BY <1>5 DEF ReadErrorBody
    <2> QED
      BY <1>0, <1>h, <1>f, <2>1, <2>2, KeepSlotAt DEF SlotStep
  <1>6. CASE RateLimitHooks(r)
    <2>1. pc[r] \in SlotPlace
      BY <1>0, <1>6 DEF RateLimitHooks
    <2> QED
      BY <1>h, <1>f, <1>6, <2>1 DEF RateLimitHooks, SlotStep
  <1>7. CASE SettleOnWorkerCrash(r)
    BY <1>0, <1>7, GiveSlotAt DEF SettleOnWorkerCrash, SlotStep
  <1>8. CASE RetryTimer(r)
    BY <1>0, <1>8, KeepSlotAt DEF RetryTimer, Enqueue, SlotStep
  <1> QED
    BY <1>1, <1>2, <1>3, <1>4, <1>5, <1>6, <1>7, <1>8 DEF RequestStep

LEMMA StreamFailsSlots ==
  ASSUME IInv, NEW s \in Stream, pc[s] \in SlotPlace, NEW kind, StreamFails(s, kind)
  PROVE  SlotStep
  BY StreamActor, KeepSlotAt, GiveSlotAt DEF StreamFails, SlotStep

(* A stream leaks its slot when a subscriber of onRequestStart throws:     *)
(* that emit precedes the try whose finally releases.                      *)
LEMMA LeakSlot ==
  ASSUME IInv, NEW s \in Stream, pc[s] = "starting", Goto(s, "rejected"),
         UNCHANGED <<current, waiters>>, "onRequestStart" \in Throwing
  PROVE  SlotLeaked
  <1>1. s \in Actor /\ TypeOK /\ pc \in [Actor -> Place]
    BY StreamActor DEF IInv, TypeOK
  <1>2. pc'[s] = "rejected" /\ \A b \in Actor : b # s => pc'[b] = pc[b]
    BY <1>1 DEF Goto
  <1>3. \A b \in Actor : b # s => (Holds(b)' <=> Holds(b))
    BY <1>2, HoldsSame, ParkedSame
  <1>4. s \in Holders /\ s \notin Holders'
    BY <1>1, <1>2 DEF Holders, Holds, SlotPlace, Granted
  <1>5. Holders' = Holders \ {s}
    BY <1>3, <1>4 DEF Holders
  <1> QED
    BY <1>4, <1>5 DEF SlotLeaked

LEMMA StreamStepSlots ==
  ASSUME IInv, NEW s \in Stream, StreamOpens(s) \/ StreamStep(s) \/ StreamCloses(s)
  PROVE  SlotStep \/ SlotLeaked
  <1>0. /\ s \in Actor
        /\ {"starting", "fetching", "completing", "failing", "streaming"} \subseteq SlotPlace
    BY StreamActor DEF SlotPlace
  <1>1. CASE StreamOpens(s)
    BY <1>0, <1>1, KeepSlotAt DEF StreamOpens, SlotStep
  <1>2. CASE StreamAcquires(s)
    <2>1. TypeOK /\ NoIdleSlot /\ pc \in [Actor -> Place]
      BY DEF IInv, TypeOK
    <2>2. pc[s] = "paced" /\ pc'[s] = "acquiring" /\ Acquire(s)
          /\ \A b \in Actor : b # s => pc'[b] = pc[b]
      BY <1>0, <1>2, <2>1 DEF StreamAcquires, Goto
    <2> QED
      BY <1>0, <2>1, <2>2, TakeSlot DEF SlotStep
  <1>3. CASE StreamStarts(s)
    BY <1>0, <1>3, KeepSlotAt DEF StreamStarts, SlotStep
  <1>4. CASE StreamStartHooks(s)
    BY <1>0, <1>4, KeepSlotAt, GiveSlotAt, LeakSlot DEF StreamStartHooks, Fetch, SlotStep
  <1>5. CASE StreamFetchReturns(s)
    <2>1. pc[s] \in SlotPlace
      BY <1>0, <1>5 DEF StreamFetchReturns
    <2>2. \/ Goto(s, "completing") /\ UNCHANGED <<current, waiters>>
          \/ StreamFails(s, "transient")
      BY <1>5 DEF StreamFetchReturns
    <2> QED
      BY <1>0, <2>1, <2>2, KeepSlotAt, StreamFailsSlots DEF SlotStep
  <1>6. CASE StreamCompleteHooks(s)
    <2>1. pc[s] \in SlotPlace
      BY <1>0, <1>6 DEF StreamCompleteHooks
    <2>2. \/ (Goto(s, "streaming") \/ Goto(s, "failing")) /\ UNCHANGED <<current, waiters>>
          \/ StreamFails(s, "transient")
      BY <1>6 DEF StreamCompleteHooks
    <2> QED
      BY <1>0, <2>1, <2>2, KeepSlotAt, StreamFailsSlots DEF SlotStep
  <1>7. CASE StreamErrorHooks(s)
    <2>1. pc[s] \in SlotPlace
      BY <1>0, <1>7 DEF StreamErrorHooks
    <2> QED
      BY <1>7, <2>1, StreamFailsSlots DEF StreamErrorHooks
  <1>8. CASE StreamRetries(s)
    BY <1>0, <1>8, KeepSlotAt DEF StreamRetries, Fetch, SlotStep
  <1>9. CASE StreamCloses(s)
    BY <1>0, <1>9, GiveSlotAt DEF StreamCloses, SlotStep
  <1> QED
    BY <1>1, <1>2, <1>3, <1>4, <1>5, <1>6, <1>7, <1>8, <1>9 DEF StreamStep

(* Entries that are purged or dequeued hold no slot.                       *)
LEMMA QueueSlots ==
  ASSUME UNCHANGED <<current, waiters>>,
         \A a \in Actor : \/ pc'[a] = pc[a]
                          \/ pc[a] = "queued" /\ pc'[a] \in {"paced", "rejected", "lost"}
  PROVE  SlotsKept
  <1>1. ASSUME NEW a \in Actor
        PROVE  Holds(a)' <=> Holds(a)
    <2>1. CASE pc'[a] = pc[a]
      BY <2>1, HoldsSame, ParkedSame
    <2>2. CASE pc[a] = "queued" /\ pc'[a] \in {"paced", "rejected", "lost"}
      BY <2>2 DEF Holds, SlotPlace, Granted
    <2> QED
      BY <2>1, <2>2
  <1> QED
    BY <1>1 DEF SlotsKept, Holders

LEMMA LoopStepSlots ==
  ASSUME IInv, LoopStep
  PROVE  SlotStep
  <1>0. TypeOK /\ NoIdleSlot /\ QueueParked /\ pc \in [Actor -> Place]
    BY DEF IInv, TypeOK
  <1>1. CASE LoopEnds
    <2>1. \A a \in Expired(Len(queue)) : pc[a] = "queued"
      <3>1. \A a \in Expired(Len(queue)) : \E j \in 1 .. Len(queue) : a = queue[j]
        BY DEF Expired
      <3>2. \A j \in 1 .. Len(queue) : pc[queue[j]] = "queued"
        BY <1>0 DEF QueueParked, TypeOK
      <3> QED
        BY <3>1, <3>2
    <2>2. \A a \in Actor : pc'[a] = pc[a] \/ (pc[a] = "queued" /\ pc'[a] = "rejected")
      BY <1>1, <2>1 DEF LoopEnds, Purge
    <2> QED
      BY <1>1, <2>2, QueueSlots DEF LoopEnds, SlotStep
  <1>2. CASE LoopDies
    BY <1>2, QueueSlots DEF LoopDies, SlotStep
  <1>3. ASSUME NEW k \in 0 .. Len(queue), NEW i \in 1 .. Len(queue) - k,
               LoopDispatches(k, i) \/ LoopSleeps(k, i) \/ LoopTimesOut(k, i) \/ LoopThrows(k, i)
        PROVE  SlotStep
    <2> DEFINE e == Unexpired(k)[i]
    <2>1. {"acquiring", "paced", "rejected", "lost"} \subseteq Place
      BY DEF Place
    <2>2. ASSUME NEW place \in Place, Dequeue(k, i, place)
          PROVE  /\ e \in Actor /\ pc[e] = "queued" /\ pc'[e] = place
                 /\ \A a \in Actor : a # e =>
                      pc'[a] = pc[a] \/ (pc[a] = "queued" /\ pc'[a] = "rejected")
      BY <1>0, <2>2, DequeueParks DEF Actor
    <2>3. CASE LoopDispatches(k, i)
      BY <1>0, <2>1, <2>2, <2>3, TakeSlot DEF LoopDispatches, SlotStep
    <2>4. CASE LoopSleeps(k, i)
      BY <2>1, <2>2, <2>4, QueueSlots DEF LoopSleeps, SlotStep
    <2>5. CASE LoopTimesOut(k, i)
      BY <2>1, <2>2, <2>5, QueueSlots DEF LoopTimesOut, SlotStep
    <2>6. CASE LoopThrows(k, i)
      BY <2>1, <2>2, <2>6, QueueSlots DEF LoopThrows, SlotStep
    <2> QED
      BY <1>3, <2>3, <2>4, <2>5, <2>6
  <1>4. ASSUME NEW r \in Req, LoopWakes(r)
        PROVE  SlotStep
    <2>1. r \in Actor /\ pc[r] = "paced" /\ pc'[r] = "acquiring" /\ Acquire(r)
          /\ \A b \in Actor : b # r => pc'[b] = pc[b]
      BY <1>0, <1>4 DEF LoopWakes, Goto, Actor
    <2> QED
      BY <1>0, <2>1, TakeSlot DEF SlotStep
  <1>5. ASSUME NEW r \in Req, LoopStartsWorker(r)
        PROVE  SlotStep
    <2>1. r \in Actor /\ "starting" \in SlotPlace
      BY DEF Actor, SlotPlace
    <2> QED
      BY <1>5, <2>1, KeepSlotAt DEF LoopStartsWorker, SlotStep
  <1> QED
    BY <1>1, <1>2, <1>3, <1>4, <1>5 DEF LoopStep

LEMMA NextSlots ==
  ASSUME IInv, "onRetry" \notin Throwing, [Next]_vars
  PROVE  SlotStep \/ SlotLeaked
  <1>1. ASSUME NEW r \in Req, Submit(r)
        PROVE  SlotStep
    <2>1. r \in Actor
      BY DEF Actor
    <2> QED
      BY <1>1, <2>1, KeepSlotAt DEF Submit, Enqueue, SlotStep
  <1>2. CASE UNCHANGED vars
    BY <1>2, QueueSlots DEF vars, SlotStep
  <1> QED
    BY <1>1, <1>2, RequestStepSlots, StreamStepSlots, LoopStepSlots DEF Next

-----------------------------------------------------------------------------
(* The slots in numbers.                                                   *)

LEMMA HoldersFinite ==
  IsFiniteSet(Actor) /\ IsFiniteSet(Holders) /\ IsFiniteSet(OnTheWire)
  <1>1. IsFiniteSet(Actor)
    BY QueueAssumption, FS_Union DEF QueueAssumption, Actor
  <1>2. Holders \subseteq Actor /\ OnTheWire \subseteq Actor
    BY DEF Holders, OnTheWire
  <1> QED
    BY <1>1, <1>2, FS_Subset

(* How the number of holders follows current.                              *)
LEMMA SlotsCounted ==
  ASSUME TypeOK, SlotStep
  PROVE  /\ Cardinality(Holders') - current' = Cardinality(Holders) - current
         /\ Cardinality(Holders') \in Nat /\ Cardinality(Holders) \in Nat
         /\ current' <= current \/ (current < MaxConcurrent /\ current' = current + 1)
         /\ current' \in Int
  <1>0. IsFiniteSet(Holders) /\ Cardinality(Holders) \in Nat /\ current \in Int
        /\ Holders \subseteq Actor
    BY HoldersFinite, FS_CardinalityType DEF TypeOK, Holders
  <1>1. CASE SlotsKept
    BY <1>0, <1>1 DEF SlotsKept
  <1>2. CASE SlotTaken
    <2>1. PICK a \in Actor \ Holders :
            Holders' = Holders \cup {a} /\ current' = current + 1 /\ current < MaxConcurrent
      BY <1>2 DEF SlotTaken
    <2>2. Cardinality(Holders \cup {a}) = Cardinality(Holders) + 1
      BY <1>0, <2>1, FS_AddElement
    <2> QED
      BY <1>0, <2>1, <2>2
  <1>3. \A a \in Holders : Cardinality(Holders \ {a}) = Cardinality(Holders) - 1
                            /\ Cardinality(Holders \ {a}) \in Nat
    BY <1>0, FS_RemoveElement, FS_CardinalityType
  <1>4. ASSUME NEW a \in Holders, NEW w \in Actor \ Holders
        PROVE  Cardinality((Holders \ {a}) \cup {w}) = Cardinality(Holders)
    <2>1. Cardinality(Holders \ {a}) = Cardinality(Holders) - 1 /\ IsFiniteSet(Holders \ {a})
      BY <1>0, FS_RemoveElement
    <2>2. Cardinality((Holders \ {a}) \cup {w}) = Cardinality(Holders \ {a}) + 1
      BY <2>1, FS_AddElement
    <2> QED
      BY <1>0, <2>1, <2>2
  <1>5. CASE SlotGiven
    <2>1. PICK a \in Holders :
            \/ Holders' = Holders \ {a} /\ current' = current - 1
            \/ \E w \in Actor \ Holders : Holders' = (Holders \ {a}) \cup {w} /\ current' = current
      BY <1>5 DEF SlotGiven
    <2>2. CASE Holders' = Holders \ {a} /\ current' = current - 1
      <3>1. Cardinality(Holders') = Cardinality(Holders) - 1 /\ Cardinality(Holders') \in Nat
        BY <1>3, <2>2
      <3> QED
        BY <1>0, <2>2, <3>1
    <2>3. CASE \E w \in Actor \ Holders : Holders' = (Holders \ {a}) \cup {w} /\ current' = current
      <3>1. Cardinality(Holders') = Cardinality(Holders) /\ current' = current
        BY <1>4, <2>3
      <3> QED
        BY <1>0, <3>1
    <2> QED
      BY <2>1, <2>2, <2>3
  <1> QED
    BY <1>1, <1>2, <1>5 DEF SlotStep

LEMMA LeakCounted ==
  ASSUME TypeOK, SlotLeaked
  PROVE  /\ current' = current /\ Cardinality(Holders') <= Cardinality(Holders)
         /\ Cardinality(Holders') \in Nat /\ Cardinality(Holders) \in Nat
  <1>1. PICK a \in Holders : Holders' = Holders \ {a} /\ current' = current
    BY DEF SlotLeaked
  <1>2. IsFiniteSet(Holders)
    BY HoldersFinite
  <1>3. Holders' \subseteq Holders
    BY <1>1
  <1> QED
    BY <1>1, <1>2, <1>3, FS_Subset, FS_CardinalityType

LEMMA InitSlots == Init => current = 0 /\ Holders = {} /\ Cardinality(Holders) = 0
  <1> SUFFICES ASSUME Init PROVE current = 0 /\ Holders = {} /\ Cardinality(Holders) = 0
    OBVIOUS
  <1>1. current = 0 /\ \A a \in Actor : pc[a] = "idle"
    BY DEF Init
  <1>2. Holders = {}
    BY <1>1 DEF Holders, Holds, SlotPlace, Granted
  <1> QED
    BY <1>1, <1>2, FS_EmptySet

(* While no onRetry subscriber throws, and no onRequestStart subscriber    *)
(* does under a stream, Semaphore.current is the number of requests that   *)
(* hold a slot: each acquire is paired with one release.                   *)
THEOREM SpecSlotAccounting ==
  ASSUME "onRetry" \notin Throwing, "onRequestStart" \notin Throwing \/ Stream = {}
  PROVE  Spec => []SlotAccounting
  <1>1. Init => SlotAccounting
    BY InitSlots DEF SlotAccounting
  <1>2. IInv /\ SlotAccounting /\ [Next]_vars => SlotAccounting'
    <2> SUFFICES ASSUME IInv, SlotAccounting, [Next]_vars PROVE SlotAccounting'
      OBVIOUS
    <2>1. TypeOK /\ SlotStep
      BY NextSlots DEF IInv, SlotLeaked
    <2>2. current \in Int
      BY <2>1 DEF TypeOK
    <2>3. Cardinality(Holders') - current' = 0 /\ Cardinality(Holders') \in Nat /\ current' \in Int
      BY <2>1, <2>2, SlotsCounted DEF SlotAccounting
    <2>4. current' = Cardinality(Holders')
      BY <2>3
    <2> QED
      BY <2>4 DEF SlotAccounting
  <1> QED
    BY <1>1, <1>2, SpecIInv, PTL DEF Spec

(* The slots a run may lose, but never lend twice.                         *)
SlotsCovered == Cardinality(Holders) <= current /\ current <= MaxConcurrent

LEMMA SpecSlotsCovered ==
  ASSUME "onRetry" \notin Throwing
  PROVE  Spec => []SlotsCovered
  <1>0. MaxConcurrent \in Nat \ {0}
    BY QueueAssumption DEF QueueAssumption
  <1>1. Init => SlotsCovered
    BY <1>0, InitSlots DEF SlotsCovered
  <1>2. IInv /\ SlotsCovered /\ [Next]_vars => SlotsCovered'
    <2> SUFFICES ASSUME IInv, SlotsCovered, [Next]_vars PROVE SlotsCovered'
      OBVIOUS
    <2>1. TypeOK /\ current \in Int /\ Cardinality(Holders) <= current /\ current <= MaxConcurrent
      BY DEF IInv, TypeOK, SlotsCovered
    <2>2. Cardinality(Holders') <= current' /\ current' <= MaxConcurrent
      <3>1. CASE SlotStep
        BY <1>0, <2>1, <3>1, SlotsCounted
      <3>2. CASE SlotLeaked
        BY <1>0, <2>1, <3>2, LeakCounted
      <3> QED
        BY <3>1, <3>2, NextSlots
    <2> QED
      BY <2>2 DEF SlotsCovered
  <1> QED
    BY <1>1, <1>2, SpecIInv, PTL DEF Spec

(* While no onRetry subscriber throws, the provider never sees more than   *)
(* limits.concurrent requests of this queue, buffered and streamed ones    *)
(* together, whatever the other hooks do.                                  *)
THEOREM SpecConcurrencyCap ==
  ASSUME "onRetry" \notin Throwing
  PROVE  Spec => []ConcurrencyCap
  <1>1. IInv /\ SlotsCovered => ConcurrencyCap
    <2> SUFFICES ASSUME IInv, SlotsCovered PROVE ConcurrencyCap
      OBVIOUS
    <2>1. OnTheWire \subseteq Holders
      BY DEF OnTheWire, Holders, Holds, SlotPlace
    <2>2. Cardinality(OnTheWire) <= Cardinality(Holders)
          /\ Cardinality(OnTheWire) \in Nat /\ Cardinality(Holders) \in Nat
      BY <2>1, HoldersFinite, FS_Subset, FS_CardinalityType
    <2>3. current \in Int
      BY DEF IInv, TypeOK
    <2>4. MaxConcurrent \in Nat
      BY QueueAssumption DEF QueueAssumption
    <2> QED
      BY <2>2, <2>3, <2>4 DEF SlotsCovered, ConcurrencyCap
  <1> QED
    BY <1>1, SpecSlotsCovered, SpecIInv, PTL

-----------------------------------------------------------------------------
(* The moves of one request, as a table: from where to where, and what     *)
(* becomes of its answer and its sends.                                    *)

(* A failed attempt is reported, tried again, or crashes in an onRetry     *)
(* subscriber; the last two only if the request may be tried again.        *)
Fails(r, p) == p = "rejected" \/ (p \in {"backoff", "crashed"} /\ r \notin SentOnce)

RequestMoves(r, p) ==
  \/ /\ pc[r] = "starting" /\ p = "fetching"
     /\ sends' = [sends EXCEPT ![r] = @ + 1] /\ answer' = answer
  \/ /\ pc[r] = "fetching" /\ (p = "completing" \/ Fails(r, p))
     /\ \A b \in Actor : b # r => answer'[b] = answer[b]
     /\ p = "completing" \/ answer' = answer \/ "onRateLimitUpdate" \in Throwing
     /\ sends' = sends
  \/ /\ \/ pc[r] = "starting" /\ p \in {"rejected", "crashed"}
        \/ pc[r] = "completing" /\ p = IF answer[r] = "ok" THEN "reading" ELSE "failing"
        \/ pc[r] = "completing" /\ "onRequestComplete" \in Throwing /\ Fails(r, p)
        \/ pc[r] = "reading" /\ p \in Settled
        \/ pc[r] \in {"failing", "limiting"} /\ (p = "limiting" \/ Fails(r, p))
        \/ pc[r] = "crashed" /\ p = "rejected"
     /\ answer' = answer /\ sends' = sends

LEMMA HandleRetryFails ==
  ASSUME NEW r, NEW kind, HandleRetry(r, kind)
  PROVE  \E p : Goto(r, p) /\ Fails(r, p)
  BY DEF HandleRetry, WillRetry, Fails, SentOnce

LEMMA CatchFails ==
  ASSUME NEW r, NEW n, NEW kind, Catch(r, n, kind)
  PROVE  \E p : Goto(r, p) /\ Fails(r, p)
  <1>1. CASE HandleRetry(r, kind)
    BY <1>1, HandleRetryFails
  <1>2. CASE RetryHookThrows(r, kind) /\ Goto(r, "crashed")
    BY <1>2 DEF RetryHookThrows, WillRetry, Fails, SentOnce
  <1> QED
    BY <1>1, <1>2 DEF Catch

LEMMA HookFails ==
  ASSUME NEW r, NEW hook, HookThrows(r, hook)
  PROVE  hook \in Throwing /\ \E p : Goto(r, p) /\ Fails(r, p)
  BY CatchFails DEF HookThrows

LEMMA AttemptFailsFails ==
  ASSUME NEW r, AttemptFails(r)
  PROVE  \E p : Goto(r, p) /\ Fails(r, p)
  BY CatchFails, HandleRetryFails DEF AttemptFails

LEMMA RequestStepMoves ==
  ASSUME IInv, NEW r \in Req, RequestStep(r), ~RetryTimer(r)
  PROVE  /\ UNCHANGED <<attempt, queue, running, loop>>
         /\ \E p : Goto(r, p) /\ RequestMoves(r, p)
  <1>0. r \in Actor /\ answer \in [Actor -> Answer]
    BY DEF Actor, IInv, TypeOK
  <1>1. CASE StartHooks(r)
    BY <1>1 DEF StartHooks, Fetch, RequestMoves
  <1>2. CASE FetchReturns(r)
    <2>1. pc[r] = "fetching" /\ UNCHANGED <<attempt, sends, queue, running, loop>>
      BY <1>2 DEF FetchReturns
    <2>2. \A b \in Actor : b # r => answer'[b] = answer[b]
      BY <1>0, <1>2 DEF FetchReturns
    <2>3. \E p : /\ Goto(r, p) /\ (p = "completing" \/ Fails(r, p))
                 /\ p = "completing" \/ answer' = answer \/ "onRateLimitUpdate" \in Throwing
      BY <1>2, HookFails, CatchFails DEF FetchReturns
    <2> QED
      BY <2>1, <2>2, <2>3 DEF RequestMoves
  <1>3. CASE CompleteHooks(r)
    <2>1. pc[r] = "completing" /\ UNCHANGED <<attempt, answer, sends, queue, running, loop>>
      BY <1>3 DEF CompleteHooks
    <2>2. CASE Goto(r, IF answer[r] = "ok" THEN "reading" ELSE "failing")
      BY <2>1, <2>2 DEF RequestMoves
    <2>3. CASE HookThrows(r, "onRequestComplete")
      BY <2>1, <2>3, HookFails DEF RequestMoves
    <2> QED
      BY <1>3, <2>2, <2>3 DEF CompleteHooks
  <1>4. CASE ReadBody(r)
    BY <1>4 DEF ReadBody, RequestMoves, Settled
  <1>5. CASE ReadErrorBody(r)
    <2>1. pc[r] = "failing" /\ UNCHANGED <<attempt, answer, sends, queue, running, loop>>
      BY <1>5 DEF ReadErrorBody
    <2>2. \E p : Goto(r, p) /\ (p = "limiting" \/ Fails(r, p))
      BY <1>5, HookFails, AttemptFailsFails DEF ReadErrorBody
    <2> QED
      BY <2>1, <2>2 DEF RequestMoves
  <1>6. CASE RateLimitHooks(r)
    <2>1. pc[r] = "limiting" /\ UNCHANGED <<attempt, answer, sends, queue, running, loop>>
      BY <1>6 DEF RateLimitHooks
    <2>2. \E p : Goto(r, p) /\ Fails(r, p)
      BY <1>6, HookFails, AttemptFailsFails DEF RateLimitHooks
    <2> QED
      BY <2>1, <2>2 DEF RequestMoves
  <1>7. CASE SettleOnWorkerCrash(r)
    BY <1>7 DEF SettleOnWorkerCrash, RequestMoves
  <1> QED
    BY <1>1, <1>2, <1>3, <1>4, <1>5, <1>6, <1>7 DEF RequestStep


-----------------------------------------------------------------------------
(* Entries and the loop.                                                   *)

InHand == {"paced", "acquiring"}

EntriesKept ==
  /\ \A r \in Req : pc[r] = "queued" => \E i \in DOMAIN queue : queue[i] = r
  /\ \A r \in Req : pc[r] # "lost"

LoopRuns ==
  /\ loop # "dying"
  /\ IF running THEN loop # "off" ELSE loop = "off"
  /\ queue # <<>> => loop \notin {"off", "waiting"}

CarriesAt(place) ==
  \E r \in Req : pc[r] = place /\ \A b \in Req : b # r => pc[b] \notin InHand

LoopCarries ==
  /\ loop = "sleeping" => CarriesAt("paced")
  /\ loop = "acquiring" => CarriesAt("acquiring")
  /\ loop \notin {"sleeping", "acquiring"} => \A r \in Req : pc[r] \notin InHand

KeeperInv == EntriesKept /\ LoopRuns /\ LoopCarries

LEMMA QuietStep ==
  ASSUME IInv, KeeperInv, UNCHANGED <<queue, running, loop>>, NEW a \in Actor, NEW p, Goto(a, p),
         a \in Req => /\ pc[a] \notin InHand \cup {"queued"}
                      /\ p \notin InHand \cup {"queued", "lost"}
  PROVE  KeeperInv'
  <1>1. pc \in [Actor -> Place] /\ Req \subseteq Actor
    BY DEF IInv, TypeOK, Actor
  <1>2. /\ pc'[a] = p /\ \A b \in Req : b # a => pc'[b] = pc[b]
    BY <1>1 DEF Goto
  <1>3. \A b \in Req : \/ pc'[b] = pc[b]
                        \/ /\ pc[b] \notin InHand \cup {"queued"}
                           /\ pc'[b] \notin InHand \cup {"queued", "lost"}
    BY <1>2
  <1>4. EntriesKept'
    BY <1>3 DEF KeeperInv, EntriesKept
  <1>5. LoopRuns'
    BY DEF KeeperInv, LoopRuns
  <1>6. CarriesAt("paced") => CarriesAt("paced")'
    BY <1>3 DEF CarriesAt, InHand
  <1>7. CarriesAt("acquiring") => CarriesAt("acquiring")'
    BY <1>3 DEF CarriesAt, InHand
  <1>8. (\A r \in Req : pc[r] \notin InHand) => \A r \in Req : pc'[r] \notin InHand
    BY <1>3
  <1>9. LoopCarries'
    BY <1>6, <1>7, <1>8 DEF KeeperInv, LoopCarries, InHand
  <1> QED
    BY <1>4, <1>5, <1>9 DEF KeeperInv

(* What was in the queue still is, and the new entry is.                   *)
LEMMA AppendKeeps ==
  ASSUME NEW S, NEW q \in Seq(S), NEW e \in S
  PROVE  /\ Append(q, e) # <<>>
         /\ \E i \in DOMAIN Append(q, e) : Append(q, e)[i] = e
         /\ \A i \in DOMAIN q : i \in DOMAIN Append(q, e) /\ Append(q, e)[i] = q[i]
  <1>1. /\ Append(q, e) \in Seq(S) /\ Len(Append(q, e)) = Len(q) + 1 /\ Len(q) \in Nat
        /\ Append(q, e)[Len(q) + 1] = e
        /\ \A i \in 1 .. Len(q) : Append(q, e)[i] = q[i]
    BY AppendProperties
  <1>2. DOMAIN q = 1 .. Len(q) /\ DOMAIN Append(q, e) = 1 .. Len(q) + 1
    BY <1>1
  <1>3. Append(q, e) # <<>>
    BY <1>1, EmptyLength
  <1> QED
    BY <1>1, <1>2, <1>3

LEMMA EnqueueKeeps ==
  ASSUME IInv, KeeperInv, NEW r \in Req, pc[r] \in {"idle", "backoff"},
         Enqueue(r), EnsureProcessing
  PROVE  KeeperInv'
  <1>1. pc \in [Actor -> Place] /\ Req \subseteq Actor /\ queue \in Seq(Req) /\ loop \in LoopPlace
    BY DEF IInv, TypeOK, Actor
  <1>2. PICK p \in {"queued", "rejected"} : Goto(r, p) /\ (p = "queued" <=> ~Full)
    BY DEF Enqueue
  <1>3. pc'[r] = p /\ \A b \in Req : b # r => pc'[b] = pc[b]
    BY <1>1, <1>2 DEF Goto
  <1>4. \/ p = "rejected" /\ queue' = queue
        \/ p = "queued" /\ queue' = Append(queue, r)
    BY <1>1, <1>2, <1>3 DEF Enqueue, Goto
  <1>5. /\ \A i \in DOMAIN queue : i \in DOMAIN queue' /\ queue'[i] = queue[i]
        /\ p = "queued" => \E i \in DOMAIN queue' : queue'[i] = r
    BY <1>1, <1>4, AppendKeeps
  <1>6. EntriesKept'
    <2>1. ASSUME NEW b \in Req, pc'[b] = "queued"
          PROVE  \E i \in DOMAIN queue' : queue'[i] = b
      <3>1. CASE b = r
        BY <1>3, <1>5, <2>1, <3>1
      <3>2. CASE b # r
        BY <1>3, <1>5, <2>1, <3>2 DEF KeeperInv, EntriesKept
      <3> QED
        BY <3>1, <3>2
    <2>2. \A b \in Req : pc'[b] # "lost"
      BY <1>3 DEF KeeperInv, EntriesKept
    <2> QED
      BY <2>1, <2>2 DEF EntriesKept
  <1>7. loop' = IF loop \in {"off", "waiting"} THEN "ready" ELSE loop
    BY DEF EnsureProcessing, KeeperInv, LoopRuns
  <1>8. LoopRuns'
    BY <1>7 DEF EnsureProcessing, KeeperInv, LoopRuns
  <1>9. \A b \in Req : pc'[b] = pc[b] \/ (pc[b] \notin InHand /\ pc'[b] \notin InHand)
    BY <1>3 DEF InHand
  <1>10. LoopCarries'
    <2>1. CarriesAt("paced") => CarriesAt("paced")'
      BY <1>9 DEF CarriesAt, InHand
    <2>2. CarriesAt("acquiring") => CarriesAt("acquiring")'
      BY <1>9 DEF CarriesAt, InHand
    <2> QED
      BY <1>7, <1>9, <2>1, <2>2 DEF KeeperInv, LoopCarries
  <1> QED
    BY <1>6, <1>8, <1>10 DEF KeeperInv

(* A dequeue loses no entry: one that is still queued is in the queue.     *)
LEMMA DequeueKeeps ==
  ASSUME TypeOK, QueueParked, EntriesKept,
         NEW k \in 0 .. Len(queue), NEW i \in 1 .. Len(queue) - k,
         NEW place \in Place, place # "queued", Dequeue(k, i, place),
         NEW r \in Req, pc'[r] = "queued"
  PROVE  \E j \in DOMAIN queue' : queue'[j] = r
  <1> DEFINE u == Unexpired(k)
  <1>1. /\ queue \in Seq(Req) /\ Len(queue) \in Nat /\ r \in Actor
        /\ k \in Int /\ i \in Int /\ pc \in [Actor -> Place]
    BY DEF TypeOK, Actor
  <1>2. /\ u \in Seq(Req) /\ Len(u) = Len(queue) - k
        /\ \A j \in 1 .. Len(queue) - k : u[j] = queue[j + k]
    BY <1>1, SuffixElements DEF Unexpired
  <1>3. r # u[i] /\ pc[r] = "queued"
    BY <1>1, DequeueParks
  <1>4. queue' = RemoveAt(u, i) /\ pc' = [Purge(k) EXCEPT ![u[i]] = place]
    BY DEF Dequeue
  <1> HIDE DEF u
  <1>5. r \notin Expired(k)
    BY <1>1, <1>3, <1>4 DEF Purge
  <1>6. PICK m \in 1 .. Len(queue) : queue[m] = r
    BY <1>1, <1>3 DEF EntriesKept
  <1>7. ~(m <= k)
    BY <1>1, <1>5, <1>6 DEF Expired
  <1>8. m - k \in 1 .. Len(u) /\ u[m - k] = r
    <2>1. m - k \in 1 .. Len(queue) - k /\ (m - k) + k = m
      BY <1>1, <1>6, <1>7
    <2> QED
      BY <1>2, <1>6, <2>1
  <1>9. m - k # i /\ i \in 1 .. Len(u) /\ Len(u) \in Nat
    BY <1>1, <1>2, <1>3, <1>8
  <1>10. /\ RemoveAt(u, i) \in Seq(Req) /\ Len(RemoveAt(u, i)) = Len(u) - 1
         /\ \A j \in 1 .. i - 1 : RemoveAt(u, i)[j] = u[j]
         /\ \A j \in i .. Len(u) - 1 : RemoveAt(u, i)[j] = u[j + 1]
    BY <1>2, <1>9, RemoveAtElements
  <1>11. DOMAIN queue' = 1 .. Len(u) - 1
    BY <1>4, <1>10
  <1>12. CASE m - k < i
    <2>1. m - k \in 1 .. i - 1 /\ m - k \in 1 .. Len(u) - 1
      BY <1>1, <1>6, <1>8, <1>9, <1>12
    <2> QED
      BY <1>4, <1>8, <1>10, <1>11, <2>1
  <1>13. CASE m - k > i
    <2>1. /\ m - k - 1 \in i .. Len(u) - 1 /\ m - k - 1 \in 1 .. Len(u) - 1
          /\ (m - k - 1) + 1 = m - k
      BY <1>1, <1>6, <1>8, <1>9, <1>13
    <2> QED
      BY <1>4, <1>8, <1>10, <1>11, <2>1
  <1> QED
    BY <1>1, <1>6, <1>9, <1>12, <1>13

(* One entry leaves the queue, into the loop's hands or rejected.          *)
LEMMA DequeueKeeper ==
  ASSUME IInv, KeeperInv, loop = "ready",
         NEW k \in 0 .. Len(queue), NEW i \in 1 .. Len(queue) - k,
         NEW place \in InHand \cup {"rejected"}, Dequeue(k, i, place), running' = running,
         loop' = CASE place = "paced" -> "sleeping"
                   [] place = "acquiring" -> "acquiring"
                   [] OTHER -> WaitForItem(queue')
  PROVE  KeeperInv'
  <1> DEFINE e == Unexpired(k)[i]
  <1>1. /\ TypeOK /\ QueueParked /\ EntriesKept /\ Req \subseteq Actor
        /\ place \in Place /\ place # "queued" /\ place # "lost"
    BY DEF IInv, KeeperInv, Actor, InHand, Place
  <1>2. /\ e \in Req /\ pc'[e] = place
        /\ \A a \in Req : a # e => pc'[a] = pc[a] \/ (pc[a] = "queued" /\ pc'[a] = "rejected")
    BY <1>1, DequeueParks
  <1> HIDE DEF e
  <1>3. EntriesKept'
    <2>1. \A r \in Req : pc'[r] = "queued" => \E j \in DOMAIN queue' : queue'[j] = r
      BY <1>1, DequeueKeeps
    <2>2. \A r \in Req : pc'[r] # "lost"
      BY <1>1, <1>2 DEF EntriesKept
    <2> QED
      BY <2>1, <2>2 DEF EntriesKept
  <1>4. \A r \in Req : r # e => pc'[r] \notin InHand
    BY <1>2 DEF KeeperInv, LoopCarries, InHand
  <1>5. CASE place = "paced"
    <2>1. loop' = "sleeping"
      BY <1>5
    <2>2. LoopRuns'
      BY <2>1 DEF KeeperInv, LoopRuns
    <2>3. LoopCarries'
      BY <1>2, <1>4, <1>5, <2>1 DEF LoopCarries, CarriesAt, InHand
    <2> QED
      BY <1>3, <2>2, <2>3 DEF KeeperInv
  <1>6. CASE place = "acquiring"
    <2>1. loop' = "acquiring"
      BY <1>6
    <2>2. LoopRuns'
      BY <2>1 DEF KeeperInv, LoopRuns
    <2>3. LoopCarries'
      BY <1>2, <1>4, <1>6, <2>1 DEF LoopCarries, CarriesAt, InHand
    <2> QED
      BY <1>3, <2>2, <2>3 DEF KeeperInv
  <1>7. CASE place = "rejected"
    <2>1. loop' = WaitForItem(queue')
      BY <1>7
    <2>2. loop' = (IF queue' = <<>> THEN "waiting" ELSE "ready")
      BY <2>1 DEF WaitForItem
    <2>3. LoopRuns'
      BY <2>2 DEF KeeperInv, LoopRuns
    <2>4. LoopCarries'
      BY <1>2, <1>4, <1>7, <2>2 DEF LoopCarries, CarriesAt, InHand
    <2> QED
      BY <1>3, <2>3, <2>4 DEF KeeperInv
  <1> QED
    BY <1>5, <1>6, <1>7 DEF InHand

LEMMA LoopStepKeeper ==
  ASSUME IInv, KeeperInv, {"onDequeue", "onQueueTimeout"} \cap Throwing = {}, LoopStep
  PROVE  KeeperInv'
  <1>0. /\ pc \in [Actor -> Place] /\ Req \subseteq Actor /\ queue \in Seq(Req)
        /\ EntriesKept /\ LoopRuns /\ LoopCarries
    BY DEF IInv, TypeOK, Actor, KeeperInv
  <1>1. CASE LoopEnds
    <2>1. /\ loop = "ready" /\ pc' = Purge(Len(queue)) /\ queue' = <<>>
          /\ running' = FALSE /\ loop' = "off"
      BY <1>1 DEF LoopEnds
    <2>2. DOMAIN queue = 1 .. Len(queue)
      BY <1>0
    <2>3. \A r \in Req : pc'[r] = IF pc[r] = "queued" \/ r \in Expired(Len(queue)) THEN "rejected" ELSE pc[r]
      BY <1>0, <2>1, <2>2 DEF Purge, Expired, EntriesKept
    <2>4. EntriesKept'
      BY <1>0, <2>3 DEF EntriesKept
    <2>5. LoopRuns'
      BY <2>1 DEF LoopRuns
    <2>6. LoopCarries'
      BY <1>0, <2>1, <2>3 DEF LoopCarries, InHand
    <2> QED
      BY <2>4, <2>5, <2>6 DEF KeeperInv
  <1>2. CASE LoopDies
    BY <1>0, <1>2 DEF LoopDies, LoopRuns
  <1>3. ASSUME NEW k \in 0 .. Len(queue), NEW i \in 1 .. Len(queue) - k,
               LoopDispatches(k, i) \/ LoopSleeps(k, i) \/ LoopTimesOut(k, i) \/ LoopThrows(k, i)
        PROVE  KeeperInv'
    <2>1. CASE LoopDispatches(k, i)
      <3>1. loop = "ready"
        BY <2>1 DEF LoopDispatches, Dequeue
      <3> QED
        BY <2>1, <3>1, DequeueKeeper DEF LoopDispatches, InHand
    <2>2. CASE LoopSleeps(k, i)
      <3>1. loop = "ready"
        BY <2>2 DEF LoopSleeps, Dequeue
      <3> QED
        BY <2>2, <3>1, DequeueKeeper DEF LoopSleeps, InHand
    <2>3. CASE LoopTimesOut(k, i)
      <3>1. loop = "ready"
        BY <2>3 DEF LoopTimesOut, Dequeue
      <3> QED
        BY <2>3, <3>1, DequeueKeeper DEF LoopTimesOut, InHand
    <2> QED
      BY <1>3, <2>1, <2>2, <2>3 DEF LoopThrows
  <1>4. ASSUME NEW r \in Req, LoopWakes(r)
        PROVE  KeeperInv'
    <2>1. /\ loop = "sleeping" /\ pc[r] = "paced" /\ loop' = "acquiring"
          /\ UNCHANGED <<queue, running>>
          /\ pc'[r] = "acquiring" /\ \A b \in Req : b # r => pc'[b] = pc[b]
      BY <1>0, <1>4 DEF LoopWakes, Goto
    <2>2. \A b \in Req : b # r => pc[b] \notin InHand
      BY <1>0, <2>1 DEF LoopCarries, CarriesAt, InHand
    <2>3. EntriesKept'
      BY <1>0, <2>1 DEF EntriesKept
    <2>4. LoopRuns'
      BY <1>0, <2>1 DEF LoopRuns
    <2>5. LoopCarries'
      BY <2>1, <2>2 DEF LoopCarries, CarriesAt
    <2> QED
      BY <2>3, <2>4, <2>5 DEF KeeperInv
  <1>5. ASSUME NEW r \in Req, LoopStartsWorker(r)
        PROVE  KeeperInv'
    <2>1. /\ loop = "acquiring" /\ pc[r] = "acquiring" /\ UNCHANGED <<queue, running>>
          /\ loop' = (IF queue' = <<>> THEN "waiting" ELSE "ready")
          /\ pc'[r] = "starting" /\ \A b \in Req : b # r => pc'[b] = pc[b]
      BY <1>0, <1>5 DEF LoopStartsWorker, Granted, WaitForItem, Goto
    <2>2. \A b \in Req : b # r => pc[b] \notin InHand
      BY <1>0, <2>1 DEF LoopCarries, CarriesAt, InHand
    <2>3. EntriesKept'
      BY <1>0, <2>1 DEF EntriesKept
    <2>4. LoopRuns'
      BY <1>0, <2>1 DEF LoopRuns
    <2>5. LoopCarries'
      BY <2>1, <2>2 DEF LoopCarries, InHand
    <2> QED
      BY <2>3, <2>4, <2>5 DEF KeeperInv
  <1> QED
    BY <1>1, <1>2, <1>3, <1>4, <1>5 DEF LoopStep

(* A stream moves by itself, past the queue and its loop.                  *)
LEMMA StreamGoes ==
  ASSUME NEW s \in Stream, StreamOpens(s) \/ StreamStep(s) \/ StreamCloses(s)
  PROVE  UNCHANGED <<queue, running, loop>> /\ \E p : Goto(s, p)
  BY DEF StreamStep, StreamOpens, StreamCloses, StreamAcquires, StreamStarts, StreamStartHooks,
         StreamFetchReturns, StreamCompleteHooks, StreamErrorHooks, StreamRetries, StreamFails, Fetch

LEMMA NextKeeper ==
  ASSUME IInv, KeeperInv, {"onDequeue", "onQueueTimeout"} \cap Throwing = {}, [Next]_vars
  PROVE  KeeperInv'
  <1>1. ASSUME NEW r \in Req, Submit(r)
        PROVE  KeeperInv'
    <2>0. r \in Actor /\ pc[r] = "idle"
      BY <1>1 DEF Actor, Submit
    <2>1. CASE Goto(r, "rejected") /\ UNCHANGED <<queue, running, loop>>
      BY <2>0, <2>1, QuietStep DEF InHand
    <2>2. CASE Enqueue(r) /\ EnsureProcessing
      BY <2>0, <2>2, EnqueueKeeps
    <2> QED
      BY <1>1, <2>1, <2>2 DEF Submit
  <1>2. ASSUME NEW r \in Req, RequestStep(r)
        PROVE  KeeperInv'
    <2>1. CASE RetryTimer(r)
      BY <2>1, EnqueueKeeps DEF RetryTimer
    <2>2. CASE ~RetryTimer(r)
      <3>1. PICK p : /\ Goto(r, p) /\ RequestMoves(r, p)
                     /\ UNCHANGED <<attempt, queue, running, loop>>
        BY <1>2, <2>2, RequestStepMoves
      <3>2. pc[r] \notin InHand \cup {"queued"} /\ p \notin InHand \cup {"queued", "lost"}
        BY <3>1 DEF RequestMoves, Fails, InHand, Settled
      <3>3. r \in Actor
        BY DEF Actor
      <3> QED
        BY <3>1, <3>2, <3>3, QuietStep
    <2> QED
      BY <2>1, <2>2
  <1>3. ASSUME NEW s \in Stream, StreamOpens(s) \/ StreamStep(s) \/ StreamCloses(s)
        PROVE  KeeperInv'
    BY <1>3, StreamActor, StreamGoes, QuietStep
  <1>4. CASE UNCHANGED vars
    BY <1>4 DEF vars, KeeperInv, EntriesKept, LoopRuns, LoopCarries, CarriesAt, InHand
  <1> QED
    BY <1>1, <1>2, <1>3, <1>4, LoopStepKeeper DEF Next

LEMMA InitKeeper == Init => KeeperInv
  <1> SUFFICES ASSUME Init PROVE KeeperInv
    OBVIOUS
  <1>1. \A r \in Req : pc[r] = "idle"
    BY DEF Init, Actor
  <1> QED
    BY <1>1 DEF Init, KeeperInv, EntriesKept, LoopRuns, LoopCarries, InHand

LEMMA SpecKeeper ==
  ASSUME {"onDequeue", "onQueueTimeout"} \cap Throwing = {}
  PROVE  Spec => []KeeperInv
  <1>1. IInv /\ KeeperInv /\ [Next]_vars => KeeperInv'
    BY NextKeeper
  <1> QED
    BY <1>1, InitKeeper, SpecIInv, PTL DEF Spec

(* While no subscriber of the two hooks the loop emits throws, no entry    *)
(* is stranded: ensureProcessing and notifyDrain leave no moment in which  *)
(* the queue has entries and the loop has ended or is parked in            *)
(* waitForItem, however submits and retry timers interleave with it.       *)
THEOREM SpecNoStrandedEntry ==
  ASSUME {"onDequeue", "onQueueTimeout"} \cap Throwing = {}
  PROVE  Spec => []NoStrandedEntry
  <1>1. KeeperInv => NoStrandedEntry
    BY DEF KeeperInv, LoopRuns, NoStrandedEntry
  <1> QED
    BY <1>1, SpecKeeper, PTL

(* Under the same condition every request between submit and the worker is *)
(* in one pair of hands: queued as exactly one entry, or the one entry the *)
(* loop carries from dequeue through the limiter's wait to the grant.      *)
THEOREM SpecEveryEntryHasAKeeper ==
  ASSUME {"onDequeue", "onQueueTimeout"} \cap Throwing = {}
  PROVE  Spec => []EveryEntryHasAKeeper
  <1>1. IInv /\ KeeperInv => EveryEntryHasAKeeper
    <2> SUFFICES ASSUME IInv, KeeperInv PROVE EveryEntryHasAKeeper
      OBVIOUS
    <2> DEFINE carried == {r \in Req : pc[r] \in {"paced", "acquiring"}}
    <2>1. IsInjective(queue) /\ \A r \in Req : pc[r] # "lost"
      BY DEF IInv, QueueParked, KeeperInv, EntriesKept
    <2>2. {queue[i] : i \in DOMAIN queue} = {r \in Req : pc[r] = "queued"}
      <3>1. \A i \in DOMAIN queue : queue[i] \in Req /\ pc[queue[i]] = "queued"
        BY DEF IInv, TypeOK, QueueParked
      <3> QED
        BY <3>1 DEF KeeperInv, EntriesKept
    <2>3. CASE loop \in {"sleeping", "acquiring"}
      <3>1. \E r \in Req : carried = {r}
        BY <2>3 DEF KeeperInv, LoopCarries, CarriesAt, InHand
      <3> QED
        BY <2>1, <2>2, <2>3, <3>1, FS_Singleton DEF EveryEntryHasAKeeper
    <2>4. CASE loop \notin {"sleeping", "acquiring"}
      <3>1. carried = {}
        BY <2>4 DEF KeeperInv, LoopCarries, InHand
      <3> QED
        BY <2>1, <2>2, <2>4, <3>1, FS_EmptySet DEF EveryEntryHasAKeeper
    <2> QED
      BY <2>3, <2>4
  <1> QED
    BY <1>1, SpecKeeper, SpecIInv, PTL

-----------------------------------------------------------------------------
(* The refinement.                                                         *)

Status == [a \in Actor |-> LifecycleStatus(a)]
Once == (Req \cap Stateful) \cup StreamBody

(* What callers see of a request at a place, given its last answer.        *)
SeenAt(p, ans) ==
  CASE p = "idle" -> "idle"
    [] p \in {"queued", "paced", "acquiring", "starting", "backoff", "crashed", "lost"} -> "waiting"
    [] p \in {"fetching", "failing", "limiting"} -> "onWire"
    [] p = "completing" -> IF ans = "ok" THEN "accepted" ELSE "onWire"
    [] p \in {"reading", "streaming"} -> "accepted"
    [] p \in Settled -> "settled"

(* The moves of one request that the lifecycle allows, sends apart.        *)
Allowed(a, u, v) ==
  \/ u = v
  \/ u # "settled" /\ v = "settled"
  \/ u = "idle" /\ v = "waiting"
  \/ u = "onWire" /\ v = "accepted"
  \/ u = "onWire" /\ v = "waiting" /\ a \notin Once

LifecycleStep == Lifecycle!LifecycleNext \/ UNCHANGED <<Status, sends>>

(* INSTANCE makes a copy of the operators its module extends.              *)
LEMMA SameCardinality ==
  ASSUME NEW S
  PROVE  Lifecycle!Cardinality(S) = Cardinality(S)
  BY DEF Cardinality, Lifecycle!Cardinality

LEMMA SeenIsStatus ==
  ASSUME NEW a \in Actor
  PROVE  Status[a] = SeenAt(pc[a], answer[a]) /\ Status'[a] = SeenAt(pc'[a], answer'[a])
  BY DEF Status, SeenAt, LifecycleStatus

LEMMA MoveSeen ==
  ASSUME TypeOK, NEW a \in Actor, NEW p, Goto(a, p),
         \A b \in Actor : b # a => answer'[b] = answer[b]
  PROVE  /\ Status' = [Status EXCEPT ![a] = SeenAt(p, answer'[a])]
         /\ Status[a] = SeenAt(pc[a], answer[a])
  <1>1. pc'[a] = p /\ \A b \in Actor : b # a => pc'[b] = pc[b]
    BY DEF TypeOK, Goto
  <1>2. \A b \in Actor : Status'[b] = IF b = a THEN SeenAt(p, answer'[a]) ELSE Status[b]
    BY <1>1, SeenIsStatus
  <1>3. Status = [b \in Actor |-> Status[b]] /\ Status' = [b \in Actor |-> Status'[b]]
    BY DEF Status
  <1> HIDE DEF Status
  <1> QED
    BY <1>2, <1>3, SeenIsStatus

LEMMA AllowedMaps ==
  ASSUME NEW a \in Actor, NEW v, Status' = [Status EXCEPT ![a] = v], sends' = sends,
         Allowed(a, Status[a], v)
  PROVE  LifecycleStep
  <1>0. Status = [b \in Actor |-> Status[b]]
    BY DEF Status
  <1>1. CASE Status[a] = v
    <2>1. Status' = Status
      BY <1>0, <1>1
    <2> QED
      BY <2>1 DEF LifecycleStep
  <1>2. CASE Status[a] # "settled" /\ v = "settled"
    <2>1. Lifecycle!Settle({a})
      BY <1>0, <1>2 DEF Lifecycle!Settle, Status
    <2> QED
      BY <2>1 DEF LifecycleStep, Lifecycle!LifecycleNext
  <1>3. CASE Status[a] = "idle" /\ v = "waiting"
    <2>1. Lifecycle!Take(a)
      BY <1>3 DEF Lifecycle!Take, Status
    <2> QED
      BY <2>1 DEF LifecycleStep, Lifecycle!LifecycleNext
  <1>4. CASE Status[a] = "onWire" /\ v = "accepted"
    <2>1. Lifecycle!Accept(a)
      BY <1>4 DEF Lifecycle!Accept, Status
    <2> QED
      BY <2>1 DEF LifecycleStep, Lifecycle!LifecycleNext
  <1>5. CASE Status[a] = "onWire" /\ v = "waiting" /\ a \notin Once
    <2>1. Lifecycle!TryAgain(a)
      BY <1>5 DEF Lifecycle!TryAgain, Status, Once
    <2> QED
      BY <2>1 DEF LifecycleStep, Lifecycle!LifecycleNext
  <1> QED
    BY <1>1, <1>2, <1>3, <1>4, <1>5 DEF Allowed

(* A turn that only gives up waiting requests, one or many.                *)
LEMMA GivesUpMaps ==
  ASSUME sends' = sends,
         \A a \in Actor : Status'[a] = Status[a] \/ (Status[a] = "waiting" /\ Status'[a] = "settled")
  PROVE  LifecycleStep
  <1> DEFINE A == {a \in Actor : Status'[a] # Status[a]}
  <1>1. Status = [b \in Actor |-> Status[b]] /\ Status' = [b \in Actor |-> Status'[b]]
    BY DEF Status
  <1>2. CASE A = {}
    <2>1. Status' = Status
      BY <1>1, <1>2
    <2> QED
      BY <2>1 DEF LifecycleStep
  <1>3. CASE A # {}
    <2>1. /\ \A a \in A : Status[a] # "settled"
          /\ Status' = [a \in Actor |-> IF a \in A THEN "settled" ELSE Status[a]]
      BY <1>1
    <2>2. Lifecycle!Settle(A)
      BY <1>3, <2>1 DEF Lifecycle!Settle, Status
    <2> QED
      BY <2>2 DEF LifecycleStep, Lifecycle!LifecycleNext
  <1> QED
    BY <1>2, <1>3

(* The moves of one stream, in the same form as RequestMoves.              *)
StreamFailsTo(s, p) == p = "rejected" \/ (p = "backoff" /\ s \notin StreamBody)

StreamMoves(s, p) ==
  \/ /\ pc[s] \in {"starting", "backoff"} /\ p = "fetching"
     /\ sends' = [sends EXCEPT ![s] = @ + 1] /\ answer' = answer
  \/ /\ pc[s] = "fetching" /\ (p = "completing" \/ StreamFailsTo(s, p))
     /\ \A b \in Actor : b # s => answer'[b] = answer[b]
     /\ p = "completing" \/ answer' = answer
     /\ sends' = sends
  \/ /\ \/ pc[s] = "idle" /\ p = "paced"
        \/ pc[s] = "paced" /\ p = "acquiring"
        \/ pc[s] = "acquiring" /\ p = "starting"
        \/ pc[s] = "starting" /\ p = "rejected"
        \/ pc[s] = "completing" /\ p = IF answer[s] = "ok" THEN "streaming" ELSE "failing"
        \/ pc[s] = "completing" /\ "onRequestComplete" \in Throwing /\ StreamFailsTo(s, p)
        \/ pc[s] = "failing" /\ StreamFailsTo(s, p)
        \/ pc[s] = "streaming" /\ p \in Settled
     /\ answer' = answer /\ sends' = sends

LEMMA StreamFailsMove ==
  ASSUME NEW s, NEW kind, StreamFails(s, kind)
  PROVE  \E p : Goto(s, p) /\ StreamFailsTo(s, p)
  BY DEF StreamFails, StreamWillRetry, StreamFailsTo

LEMMA StreamStepMoves ==
  ASSUME TypeOK, NEW s \in Stream, StreamOpens(s) \/ StreamStep(s) \/ StreamCloses(s)
  PROVE  /\ \E p : Goto(s, p) /\ StreamMoves(s, p)
         /\ attempt' = attempt \/ (pc[s] = "backoff" /\ attempt' = [attempt EXCEPT ![s] = @ + 1])
  <1>0. s \in Actor /\ answer \in [Actor -> Answer]
    BY StreamActor DEF TypeOK
  <1>1. CASE StreamOpens(s)
    BY <1>1 DEF StreamOpens, StreamMoves
  <1>2. CASE StreamAcquires(s)
    BY <1>2 DEF StreamAcquires, StreamMoves
  <1>3. CASE StreamStarts(s)
    BY <1>3 DEF StreamStarts, Granted, StreamMoves
  <1>4. CASE StreamStartHooks(s)
    BY <1>4 DEF StreamStartHooks, Fetch, StreamMoves
  <1>5. CASE StreamFetchReturns(s)
    <2>1. pc[s] = "fetching" /\ UNCHANGED <<attempt, sends>>
      BY <1>5 DEF StreamFetchReturns
    <2>2. \A b \in Actor : b # s => answer'[b] = answer[b]
      BY <1>0, <1>5 DEF StreamFetchReturns
    <2>3. \E p : /\ Goto(s, p) /\ (p = "completing" \/ StreamFailsTo(s, p))
                 /\ p = "completing" \/ answer' = answer
      BY <1>5, StreamFailsMove DEF StreamFetchReturns
    <2> QED
      BY <2>1, <2>2, <2>3 DEF StreamMoves
  <1>6. CASE StreamCompleteHooks(s)
    <2>1. pc[s] = "completing" /\ UNCHANGED <<attempt, answer, sends>>
      BY <1>6 DEF StreamCompleteHooks
    <2>2. CASE Goto(s, IF answer[s] = "ok" THEN "streaming" ELSE "failing")
      BY <2>1, <2>2 DEF StreamMoves
    <2>3. CASE "onRequestComplete" \in Throwing /\ StreamFails(s, "transient")
      BY <2>1, <2>3, StreamFailsMove DEF StreamMoves
    <2> QED
      BY <1>6, <2>1, <2>2, <2>3 DEF StreamCompleteHooks
  <1>7. CASE StreamErrorHooks(s)
    <2>1. pc[s] = "failing" /\ UNCHANGED <<attempt, answer, sends>>
      BY <1>7 DEF StreamErrorHooks
    <2>2. \E p : Goto(s, p) /\ StreamFailsTo(s, p)
      BY <1>7, StreamFailsMove DEF StreamErrorHooks
    <2> QED
      BY <2>1, <2>2 DEF StreamMoves
  <1>8. CASE StreamRetries(s)
    BY <1>8 DEF StreamRetries, Fetch, StreamMoves
  <1>9. CASE StreamCloses(s)
    BY <1>9 DEF StreamCloses, StreamMoves, Settled
  <1> QED
    BY <1>1, <1>2, <1>3, <1>4, <1>5, <1>6, <1>7, <1>8, <1>9 DEF StreamStep

(* A stream whose body is a ReadableStream is never tried a second time.   *)
BodyUntried == \A s \in Stream \cap StreamBody : attempt[s] = 0 /\ pc[s] # "backoff"

(* What a turn of the process loop does to the places: it works on         *)
(* requests that are not sent, and gives some of them up.                  *)
LEMMA LoopStepMoves ==
  ASSUME IInv, LoopStep
  PROVE  /\ UNCHANGED <<attempt, answer, sends>>
         /\ \A a \in Actor :
              \/ pc'[a] = pc[a]
              \/ a \in Req /\ pc[a] \in {"queued", "paced", "acquiring"}
                 /\ pc'[a] \in {"paced", "acquiring", "starting", "lost", "rejected"}
  <1>0. /\ TypeOK /\ QueueParked /\ pc \in [Actor -> Place] /\ Req \subseteq Actor
        /\ queue \in Seq(Req)
    BY DEF IInv, TypeOK, Actor
  <1>1. CASE LoopEnds
    <2>1. /\ pc' = Purge(Len(queue)) /\ UNCHANGED <<attempt, answer, sends>>
      BY <1>1 DEF LoopEnds
    <2>2. \A a \in Expired(Len(queue)) : a \in Req /\ pc[a] = "queued"
      <3>1. \A j \in 1 .. Len(queue) : queue[j] \in Req /\ pc[queue[j]] = "queued"
        BY <1>0 DEF QueueParked
      <3> QED
        BY <3>1 DEF Expired
    <2> QED
      BY <2>1, <2>2 DEF Purge
  <1>2. CASE LoopDies
    BY <1>2 DEF LoopDies
  <1>3. ASSUME NEW k \in 0 .. Len(queue), NEW i \in 1 .. Len(queue) - k,
               NEW place \in {"acquiring", "paced", "rejected", "lost"}, Dequeue(k, i, place)
        PROVE  /\ UNCHANGED <<attempt, answer, sends>>
               /\ \A a \in Actor :
                    \/ pc'[a] = pc[a]
                    \/ a \in Req /\ pc[a] = "queued" /\ pc'[a] \in {place, "rejected"}
    <2> DEFINE e == Unexpired(k)[i]
    <2>1. place \in Place
      BY DEF Place
    <2>2. e \in Req /\ pc[e] = "queued" /\ pc'[e] = place
          /\ \A a \in Actor : a # e => pc'[a] = pc[a] \/ (pc[a] = "queued" /\ pc'[a] = "rejected")
      BY <1>0, <1>3, <2>1, DequeueParks
    <2>3. \A a \in Actor : pc'[a] = pc[a] \/ a \in Req
      <3>1. /\ queue \in Seq(Req) /\ \A j \in 1 .. Len(queue) : queue[j] \in Req
        BY <1>0
      <3>2. \A a \in Expired(k) : a \in Req
        <4>1. Len(queue) \in Nat /\ \A j \in 1 .. k : j \in 1 .. Len(queue)
          BY <1>0
        <4> QED
          BY <3>1, <4>1 DEF Expired
      <3> HIDE DEF e
      <3>3. \A a \in Actor : a # e /\ a \notin Expired(k) => pc'[a] = pc[a]
        BY <1>3 DEF Dequeue, Purge, e
      <3> QED
        BY <2>2, <3>2, <3>3
    <2>4. UNCHANGED <<attempt, answer, sends>>
      BY <1>3 DEF Dequeue
    <2> HIDE DEF e
    <2> QED
      BY <2>2, <2>3, <2>4
  <1>4. ASSUME NEW r \in Req, LoopWakes(r)
        PROVE  /\ UNCHANGED <<attempt, answer, sends>>
               /\ pc[r] = "paced" /\ pc'[r] = "acquiring"
               /\ \A a \in Actor : a # r => pc'[a] = pc[a]
    BY <1>0, <1>4 DEF LoopWakes, Goto
  <1>5. ASSUME NEW r \in Req, LoopStartsWorker(r)
        PROVE  /\ UNCHANGED <<attempt, answer, sends>>
               /\ pc[r] = "acquiring" /\ pc'[r] = "starting"
               /\ \A a \in Actor : a # r => pc'[a] = pc[a]
    BY <1>0, <1>5 DEF LoopStartsWorker, Granted, Goto
  <1>6. ASSUME NEW k \in 0 .. Len(queue), NEW i \in 1 .. Len(queue) - k,
               LoopDispatches(k, i) \/ LoopSleeps(k, i) \/ LoopTimesOut(k, i) \/ LoopThrows(k, i)
        PROVE  /\ UNCHANGED <<attempt, answer, sends>>
               /\ \A a \in Actor :
                    \/ pc'[a] = pc[a]
                    \/ a \in Req /\ pc[a] = "queued" /\ pc'[a] \in {"acquiring", "paced", "rejected", "lost"}
    <2>1. PICK place \in {"acquiring", "paced", "rejected", "lost"} : Dequeue(k, i, place)
      BY <1>6 DEF LoopDispatches, LoopSleeps, LoopTimesOut, LoopThrows
    <2> QED
      BY <1>3, <2>1
  <1>7. CASE \E k \in 0 .. Len(queue) : \E i \in 1 .. Len(queue) - k :
               LoopDispatches(k, i) \/ LoopSleeps(k, i) \/ LoopTimesOut(k, i) \/ LoopThrows(k, i)
    BY <1>6, <1>7
  <1>8. CASE \E r \in Req : LoopWakes(r) \/ LoopStartsWorker(r)
    BY <1>4, <1>5, <1>8
  <1> QED
    BY <1>1, <1>2, <1>7, <1>8 DEF LoopStep

LEMMA InitUntried == Init => BodyUntried
  BY DEF Init, BodyUntried, Actor

LEMMA NextUntried ==
  ASSUME IInv, BodyUntried, [Next]_vars
  PROVE  BodyUntried'
  <1>0. /\ TypeOK /\ pc \in [Actor -> Place] /\ attempt \in [Actor -> 0 .. MostRetries]
        /\ \A s \in Stream : s \in Actor /\ s \notin Req
    BY StreamActor DEF IInv, TypeOK
  <1>1. ASSUME NEW r \in Req, Submit(r) \/ RequestStep(r)
        PROVE  BodyUntried'
    <2>1. \E p : Goto(r, p)
      <3>1. CASE Submit(r)
        BY <3>1 DEF Submit, Enqueue
      <3>2. CASE RetryTimer(r)
        BY <3>2 DEF RetryTimer, Enqueue
      <3> QED
        BY <1>1, <3>1, <3>2, RequestStepMoves
    <2>2. attempt' = attempt \/ attempt' = [attempt EXCEPT ![r] = @ + 1]
      <3>1. CASE Submit(r)
        BY <3>1 DEF Submit
      <3>2. CASE RetryTimer(r)
        BY <3>2 DEF RetryTimer
      <3> QED
        BY <1>1, <3>1, <3>2, RequestStepMoves
    <2>3. \A s \in Stream : pc'[s] = pc[s] /\ attempt'[s] = attempt[s]
      BY <1>0, <2>1, <2>2 DEF Goto
    <2> QED
      BY <2>3 DEF BodyUntried
  <1>2. ASSUME NEW s \in Stream, StreamOpens(s) \/ StreamStep(s) \/ StreamCloses(s)
        PROVE  BodyUntried'
    <2>1. /\ \E p : Goto(s, p) /\ StreamMoves(s, p)
          /\ attempt' = attempt \/ (pc[s] = "backoff" /\ attempt' = [attempt EXCEPT ![s] = @ + 1])
      BY <1>0, <1>2, StreamStepMoves
    <2>2. \A b \in Stream : b # s => pc'[b] = pc[b] /\ attempt'[b] = attempt[b]
      BY <1>0, <2>1 DEF Goto
    <2>3. s \in StreamBody => pc'[s] # "backoff" /\ attempt'[s] = attempt[s]
      BY <1>0, <2>1 DEF Goto, StreamMoves, StreamFailsTo, BodyUntried, Settled
    <2> QED
      BY <2>2, <2>3 DEF BodyUntried
  <1>3. CASE LoopStep
    <2>1. \A s \in Stream : pc'[s] = pc[s] /\ attempt' = attempt
      BY <1>0, <1>3, LoopStepMoves
    <2> QED
      BY <2>1 DEF BodyUntried
  <1>4. CASE UNCHANGED vars
    BY <1>4 DEF vars, BodyUntried
  <1> QED
    BY <1>1, <1>2, <1>3, <1>4 DEF Next

(* fetchFn is called: the caller holds a slot that no busy request has,    *)
(* and has tries left.                                                     *)
LEMMA FetchSends ==
  ASSUME IInv, SlotsCovered, BodyUntried, NEW a \in Actor,
         pc[a] = "starting" \/ (a \in Stream /\ pc[a] = "backoff"),
         Goto(a, "fetching"), sends' = [sends EXCEPT ![a] = @ + 1], answer' = answer
  PROVE  LifecycleStep
  <1>0. /\ TypeOK /\ pc \in [Actor -> Place] /\ sends \in [Actor -> Nat] /\ current \in Int
        /\ attempt \in [Actor -> 0 .. MostRetries]
    BY DEF IInv, TypeOK
  <1>1. Status[a] = "waiting" /\ Status' = [Status EXCEPT ![a] = "onWire"]
    BY <1>0, MoveSeen DEF SeenAt, Settled
  <1> DEFINE Busy == {b \in Actor : Status[b] \in {"onWire", "accepted"}}
  <1>2. Cardinality(Busy) < MaxConcurrent
    <2>1. Busy \subseteq Holders \ {a}
      <3>1. ASSUME NEW b \in Busy
            PROVE  b \in Holders \ {a}
        <4>1. b # a /\ Status[b] = SeenAt(pc[b], answer[b]) /\ pc[b] \in Place
          BY <1>0, <1>1, <3>1, SeenIsStatus
        <4>2. pc[b] \in SlotPlace
          BY <3>1, <4>1 DEF SeenAt, Settled, SlotPlace, Place
        <4> QED
          BY <3>1, <4>1, <4>2 DEF Holders, Holds
      <3> QED
        BY <3>1
    <2>2. a \in Holders
      BY DEF Holders, Holds, SlotPlace
    <2>3. /\ Cardinality(Holders \ {a}) = Cardinality(Holders) - 1
          /\ IsFiniteSet(Holders \ {a}) /\ Cardinality(Holders) \in Nat
      BY <2>2, HoldersFinite, FS_RemoveElement, FS_CardinalityType
    <2>4. Cardinality(Busy) <= Cardinality(Holders \ {a}) /\ Cardinality(Busy) \in Nat
      BY <2>1, <2>3, FS_Subset, FS_CardinalityType
    <2>5. MaxConcurrent \in Nat
      BY QueueAssumption DEF QueueAssumption
    <2> QED
      BY <1>0, <2>3, <2>4, <2>5 DEF SlotsCovered
  <1>3. sends[a] < MostRetries + 1
    <2>1. attempt[a] \in 0 .. MostRetries /\ sends[a] \in Nat /\ MostRetries \in Nat
      BY <1>0, MostRetriesBounds
    <2>2. /\ sends[a] <= attempt[a] + 1
          /\ pc[a] = "starting" => sends[a] <= attempt[a]
          /\ pc[a] = "backoff" => attempt[a] < MostRetries
      BY DEF IInv, BudgetKept, Unsent
    <2> QED
      BY <2>1, <2>2
  <1>4. a \in Once => sends[a] = 0
    <2> SUFFICES ASSUME a \in Once PROVE sends[a] = 0
      OBVIOUS
    <2>1. attempt[a] = 0 /\ pc[a] = "starting"
      BY DEF Once, BodyUntried, IInv, OnceUntried, SentOnce, Actor
    <2>2. sends[a] <= attempt[a]
      BY <2>1 DEF IInv, BudgetKept, Unsent
    <2> QED
      BY <1>0, <2>1, <2>2
  <1>5. Lifecycle!Send(a)
    <2>1. Lifecycle!Busy = Busy
      BY Zenon DEF Lifecycle!Busy, Status
    <2> HIDE DEF Busy
    <2>2. Lifecycle!Cardinality(Lifecycle!Busy) < MaxConcurrent
      BY <1>2, <2>1, SameCardinality
    <2> QED
      BY <1>1, <1>3, <1>4, <2>2 DEF Lifecycle!Send, Status, Once
  <1> QED
    BY <1>5 DEF LifecycleStep, Lifecycle!LifecycleNext

LEMMA RequestMaps ==
  ASSUME IInv, SlotsCovered, BodyUntried, "onRequestComplete" \notin Throwing,
         NEW r \in Req, Submit(r) \/ RequestStep(r)
  PROVE  LifecycleStep
  <1>0. TypeOK /\ r \in Actor /\ pc[r] \in Place
    BY DEF IInv, TypeOK, Actor
  <1>1. CASE Submit(r) \/ RetryTimer(r)
    <2>1. /\ pc[r] \in {"idle", "backoff"} /\ UNCHANGED <<answer, sends>>
          /\ \E p \in {"queued", "rejected"} : Goto(r, p)
      BY <1>1 DEF Submit, RetryTimer, Enqueue
    <2> QED
      BY <1>0, <2>1, MoveSeen, AllowedMaps DEF SeenAt, Settled, Allowed
  <1>2. CASE RequestStep(r) /\ ~RetryTimer(r)
    <2>1. PICK p : Goto(r, p) /\ RequestMoves(r, p)
      BY <1>2, RequestStepMoves
    <2>2. CASE pc[r] = "starting" /\ p = "fetching"
      BY <1>0, <2>1, <2>2, FetchSends DEF RequestMoves, Settled
    <2>3. CASE ~(pc[r] = "starting" /\ p = "fetching")
      <3>1. /\ sends' = sends
            /\ \A b \in Actor : b # r => answer'[b] = answer[b]
        BY <2>1, <2>3 DEF RequestMoves
      <3>2. /\ Status' = [Status EXCEPT ![r] = SeenAt(p, answer'[r])]
            /\ Status[r] = SeenAt(pc[r], answer[r])
        BY <1>0, <2>1, <3>1, MoveSeen
      <3>3. r \notin SentOnce => r \notin Once
        BY DEF SentOnce, Once
      <3>4. Allowed(r, SeenAt(pc[r], answer[r]), SeenAt(p, answer'[r]))
        BY <2>1, <2>3, <3>3 DEF RequestMoves, Fails, SeenAt, Settled, Allowed
      <3> QED
        BY <1>0, <3>1, <3>2, <3>4, AllowedMaps
    <2> QED
      BY <2>2, <2>3
  <1> QED
    BY <1>1, <1>2

LEMMA StreamMaps ==
  ASSUME IInv, SlotsCovered, BodyUntried, "onRequestComplete" \notin Throwing,
         NEW s \in Stream, StreamOpens(s) \/ StreamStep(s) \/ StreamCloses(s)
  PROVE  LifecycleStep
  <1>0. TypeOK /\ s \in Actor /\ s \notin Req /\ pc[s] \in Place
    BY StreamActor DEF IInv, TypeOK
  <1>1. PICK p : Goto(s, p) /\ StreamMoves(s, p)
    BY <1>0, StreamStepMoves
  <1>2. CASE pc[s] \in {"starting", "backoff"} /\ p = "fetching"
    BY <1>0, <1>1, <1>2, FetchSends DEF StreamMoves, Settled
  <1>3. CASE ~(pc[s] \in {"starting", "backoff"} /\ p = "fetching")
    <2>1. sends' = sends /\ \A b \in Actor : b # s => answer'[b] = answer[b]
      BY <1>1, <1>3 DEF StreamMoves
    <2>2. /\ Status' = [Status EXCEPT ![s] = SeenAt(p, answer'[s])]
          /\ Status[s] = SeenAt(pc[s], answer[s])
      BY <1>0, <1>1, <2>1, MoveSeen
    <2>3. s \notin StreamBody => s \notin Once
      BY <1>0 DEF Once
    <2>4. Allowed(s, SeenAt(pc[s], answer[s]), SeenAt(p, answer'[s]))
      BY <1>1, <1>3, <2>3 DEF StreamMoves, StreamFailsTo, SeenAt, Settled, Allowed
    <2> QED
      BY <1>0, <2>1, <2>2, <2>4, AllowedMaps
  <1> QED
    BY <1>2, <1>3

LEMMA LoopMaps ==
  ASSUME IInv, LoopStep
  PROVE  LifecycleStep
  <1>1. ASSUME NEW a \in Actor
        PROVE  Status'[a] = Status[a] \/ (Status[a] = "waiting" /\ Status'[a] = "settled")
    <2>1. /\ answer' = answer
          /\ \/ pc'[a] = pc[a]
             \/ /\ pc[a] \in {"queued", "paced", "acquiring"}
                /\ pc'[a] \in {"paced", "acquiring", "starting", "lost", "rejected"}
      BY LoopStepMoves
    <2> QED
      BY <2>1, SeenIsStatus DEF SeenAt, Settled
  <1> QED
    BY <1>1, LoopStepMoves, GivesUpMaps

LEMMA NextMaps ==
  ASSUME IInv, SlotsCovered, BodyUntried, "onRequestComplete" \notin Throwing, [Next]_vars
  PROVE  LifecycleStep
  <1>1. CASE UNCHANGED vars
    <2>1. UNCHANGED <<Status, sends>>
      BY <1>1 DEF vars, Status, LifecycleStatus
    <2> QED
      BY <2>1 DEF LifecycleStep
  <1> QED
    BY <1>1, RequestMaps, StreamMaps, LoopMaps DEF Next

LEMMA InitMaps == Init => Lifecycle!LifecycleInit
  <1> SUFFICES ASSUME Init PROVE Lifecycle!LifecycleInit
    OBVIOUS
  <1>1. \A a \in Actor : pc[a] = "idle"
    BY DEF Init
  <1>2. \A a \in Actor : LifecycleStatus(a) = "idle"
    BY <1>1 DEF LifecycleStatus, Settled
  <1>3. sends = [a \in Actor |-> 0]
    BY DEF Init
  <1> QED
    BY <1>2, <1>3 DEF Lifecycle!LifecycleInit

(* The named queue keeps the promises of RequestLifecycle, whatever the    *)
(* interleaving, the timeouts, the retries and the hooks: at most          *)
(* limits.concurrent requests on the wire, at most MaxSends sends of each, *)
(* one send of a request that must not be replayed, none after a 2xx, and  *)
(* one settlement.  Two subscribers' throws break it and are excluded: of  *)
(* onRetry, which gives a slot back twice, and of onRequestComplete, which *)
(* makes the queue treat an accepted request as failed.                    *)
THEOREM SpecImplementsLifecycle ==
  ASSUME {"onRetry", "onRequestComplete"} \cap Throwing = {}
  PROVE  Spec => ImplementsLifecycle
  <1>1. Spec => []SlotsCovered
    BY SpecSlotsCovered
  <1>2. IInv /\ BodyUntried /\ [Next]_vars => BodyUntried'
    BY NextUntried
  <1>3. IInv /\ SlotsCovered /\ BodyUntried /\ [Next]_vars
          => [Lifecycle!LifecycleNext]_(Lifecycle!lifecycleVars)
    BY NextMaps DEF LifecycleStep, Lifecycle!lifecycleVars, Status
  <1> QED
    BY <1>1, <1>2, <1>3, InitMaps, InitUntried, SpecIInv, PTL
    DEF Spec, ImplementsLifecycle, Lifecycle!LifecycleSpec

-----------------------------------------------------------------------------
(* No send after a success.                                                *)

AcceptedStays ==
  \A a \in Actor : answer[a] = "ok" => pc[a] \in {"completing", "reading", "streaming"} \cup Settled

(* A turn that moves one request keeps its success, and sends no request   *)
(* that has one.                                                           *)
LEMMA MoveKeepsSuccess ==
  ASSUME IInv, AcceptedStays, {"onRateLimitUpdate", "onRequestComplete"} \cap Throwing = {},
         NEW a \in Actor, NEW p, Goto(a, p),
         \/ a \in Req /\ RequestMoves(a, p)
         \/ a \in Stream /\ StreamMoves(a, p)
         \/ pc[a] \in {"idle", "backoff"} /\ answer' = answer /\ sends' = sends
  PROVE  /\ AcceptedStays'
         /\ \A b \in Actor : answer[b] = "ok" => sends'[b] = sends[b]
  <1>1. /\ pc \in [Actor -> Place] /\ sends \in [Actor -> Nat] /\ answer \in [Actor -> Answer]
    BY DEF IInv, TypeOK
  <1>2. pc'[a] = p /\ \A b \in Actor : b # a => pc'[b] = pc[b]
    BY <1>1 DEF Goto
  <1>3. \A b \in Actor : b # a => answer'[b] = answer[b] /\ sends'[b] = sends[b]
    BY <1>1 DEF RequestMoves, StreamMoves
  <1>4. answer[a] = "ok" => sends'[a] = sends[a]
    BY DEF AcceptedStays, RequestMoves, StreamMoves, Settled
  <1>5. answer'[a] = "ok" => p \in {"completing", "reading", "streaming"} \cup Settled
    BY <1>1 DEF AcceptedStays, RequestMoves, StreamMoves, Settled
  <1>6. AcceptedStays'
    BY <1>2, <1>3, <1>5 DEF AcceptedStays, Settled
  <1> QED
    BY <1>3, <1>4, <1>6

LEMMA NextKeepsSuccess ==
  ASSUME IInv, AcceptedStays, {"onRateLimitUpdate", "onRequestComplete"} \cap Throwing = {}, [Next]_vars
  PROVE  /\ AcceptedStays'
         /\ \A b \in Actor : answer[b] = "ok" => sends'[b] = sends[b]
  <1>1. ASSUME NEW r \in Req, Submit(r) \/ RetryTimer(r)
        PROVE  /\ AcceptedStays'
               /\ \A b \in Actor : answer[b] = "ok" => sends'[b] = sends[b]
    <2>1. /\ r \in Actor /\ pc[r] \in {"idle", "backoff"} /\ UNCHANGED <<answer, sends>>
          /\ \E p : Goto(r, p)
      BY <1>1 DEF Submit, RetryTimer, Enqueue, Actor
    <2> QED
      BY <2>1, MoveKeepsSuccess
  <1>2. ASSUME NEW r \in Req, RequestStep(r), ~RetryTimer(r)
        PROVE  /\ AcceptedStays'
               /\ \A b \in Actor : answer[b] = "ok" => sends'[b] = sends[b]
    <2>1. r \in Actor /\ \E p : Goto(r, p) /\ RequestMoves(r, p)
      BY <1>2, RequestStepMoves DEF Actor
    <2> QED
      BY <2>1, MoveKeepsSuccess
  <1>3. ASSUME NEW s \in Stream, StreamOpens(s) \/ StreamStep(s) \/ StreamCloses(s)
        PROVE  /\ AcceptedStays'
               /\ \A b \in Actor : answer[b] = "ok" => sends'[b] = sends[b]
    <2>1. s \in Actor /\ \E p : Goto(s, p) /\ StreamMoves(s, p)
      BY <1>3, StreamActor, StreamStepMoves DEF IInv
    <2> QED
      BY <2>1, MoveKeepsSuccess
  <1>4. CASE LoopStep
    BY <1>4, LoopStepMoves DEF AcceptedStays, Settled
  <1>5. CASE UNCHANGED vars
    BY <1>5 DEF vars, AcceptedStays
  <1> QED
    BY <1>1, <1>2, <1>3, <1>4, <1>5 DEF Next

(* While no subscriber of onRequestComplete or onRateLimitUpdate throws,   *)
(* handleRetry and connect repeat failures only: a request the provider    *)
(* has answered 2xx is not sent again.  queue_resend shows a subscriber of *)
(* onRequestComplete that throws break it.                                 *)
THEOREM SpecNoResendAfterSuccess ==
  ASSUME {"onRateLimitUpdate", "onRequestComplete"} \cap Throwing = {}
  PROVE  Spec => NoResendAfterSuccess
  <1>1. Init => AcceptedStays
    BY DEF Init, AcceptedStays
  <1>2. IInv /\ AcceptedStays /\ [Next]_vars => AcceptedStays'
    BY NextKeepsSuccess
  <1>3. IInv /\ AcceptedStays /\ [Next]_vars
          => [\A a \in Actor : answer[a] = "ok" => sends'[a] = sends[a]]_vars
    BY NextKeepsSuccess
  <1> QED
    BY <1>1, <1>2, <1>3, SpecIInv, PTL DEF Spec, NoResendAfterSuccess

=============================================================================
