------------------------- MODULE AgentHistoryProofs -------------------------
(***************************************************************************)
(* What the agent's runs leave in the conversation.  With calls in         *)
(* sequence, staged input is said once.  With a model that uses every id   *)
(* once, the conversation can be sent, the model is asked no more often    *)
(* than the steps and the retries allow, and a call that waits for a human *)
(* is listed.                                                              *)
(***************************************************************************)
EXTENDS AgentLoopProofs, FiniteSetTheorems

-----------------------------------------------------------------------------
(* Staged input.                                                           *)

StagedAt(h) == {i \in DOMAIN h : h[i].role = "staged"}

(* Nothing is staged while a run is in the loop, so the checkpoint, which  *)
(* is written there, never brings input back that was said already.        *)
StagedInv ==
  /\ \A r \in Run : pc[r] \in InLoop => pendingInput = 0
  /\ added \in Nat /\ crashes \in Nat
  /\ Cardinality(StagedAt(history)) + pendingInput <= added
  /\ crashes = 0 => Cardinality(StagedAt(history)) + pendingInput = added
  /\ checkpoint.saved =>
       /\ checkpoint.pendingInput = 0
       /\ Cardinality(StagedAt(checkpoint.history)) <= Cardinality(StagedAt(history))

LEMMA StagedFinite ==
  ASSUME NEW h \in Seq(Message)
  PROVE  IsFiniteSet(StagedAt(h)) /\ Cardinality(StagedAt(h)) \in Nat
<1>1. IsFiniteSet(1 .. Len(h))
  BY FS_Interval
<1>2. StagedAt(h) \subseteq 1 .. Len(h)
  BY DEF StagedAt
<1> QED
  BY <1>1, <1>2, FS_Subset, FS_CardinalityType

LEMMA StagedAppend ==
  ASSUME NEW h \in Seq(Message), NEW m \in Message, m.role # "staged"
  PROVE  StagedAt(Append(h, m)) = StagedAt(h)
<1>1. /\ Append(h, m) \in Seq(Message) /\ Len(Append(h, m)) = Len(h) + 1
      /\ \A i \in 1 .. Len(h) : Append(h, m)[i] = h[i]
      /\ Append(h, m)[Len(h) + 1] = m
  OBVIOUS
<1>2. DOMAIN h = 1 .. Len(h) /\ DOMAIN Append(h, m) = 1 .. Len(h) + 1 /\ Len(h) \in Nat
  BY <1>1
<1> QED
  BY <1>1, <1>2 DEF StagedAt

LEMMA StagedConcat ==
  ASSUME NEW g \in Seq(Message), NEW h \in Seq(Message),
         \A i \in DOMAIN h : h[i].role # "staged"
  PROVE  StagedAt(g \o h) = StagedAt(g)
<1>1. /\ g \o h \in Seq(Message) /\ Len(g \o h) = Len(g) + Len(h)
      /\ Len(g) \in Nat /\ Len(h) \in Nat
      /\ \A i \in 1 .. Len(g) + Len(h) :
           (g \o h)[i] = IF i <= Len(g) THEN g[i] ELSE h[i - Len(g)]
  BY ConcatProperties
<1>2. DOMAIN g = 1 .. Len(g) /\ DOMAIN (g \o h) = 1 .. Len(g) + Len(h) /\ DOMAIN h = 1 .. Len(h)
  BY <1>1
<1> QED
  BY <1>1, <1>2 DEF StagedAt

LEMMA StagedAdmitted ==
  ASSUME NEW g \in Seq(Message), pendingInput \in Nat
  PROVE  Cardinality(StagedAt(g \o Admitted)) = Cardinality(StagedAt(g)) + pendingInput
<1> DEFINE J == Len(g) + 1 .. Len(g) + pendingInput
<1>1. Admitted \in Seq(Message) /\ Len(Admitted) = pendingInput
  BY SaysTyped
<1>2. /\ Len(g \o Admitted) = Len(g) + pendingInput /\ Len(g) \in Nat
      /\ g \o Admitted \in Seq(Message)
      /\ \A i \in 1 .. Len(g) + pendingInput :
           (g \o Admitted)[i] = IF i <= Len(g) THEN g[i] ELSE Admitted[i - Len(g)]
  <2> HIDE DEF Admitted
  <2>1. Len(g) \in Nat
    OBVIOUS
  <2> QED
    BY <1>1, <2>1, ConcatProperties
<1>3. \A i \in 1 .. pendingInput : Admitted[i].role = "staged"
  BY DEF Admitted
<1>4. DOMAIN g = 1 .. Len(g) /\ DOMAIN (g \o Admitted) = 1 .. Len(g) + pendingInput
  BY <1>2
<1>5. StagedAt(g \o Admitted) = StagedAt(g) \cup J
  BY <1>2, <1>3, <1>4 DEF StagedAt
<1>6. StagedAt(g) \cap J = {}
  BY <1>2, <1>4 DEF StagedAt
<1>7. IsFiniteSet(J) /\ Cardinality(J) = pendingInput
  BY <1>2, FS_Interval
<1>8. IsFiniteSet(StagedAt(g)) /\ Cardinality(StagedAt(g)) \in Nat
  BY StagedFinite
<1> HIDE DEF J
<1> QED
  <2>1. Cardinality(StagedAt(g) \cup J)
          = Cardinality(StagedAt(g)) + Cardinality(J) - Cardinality(StagedAt(g) \cap J)
    BY <1>7, <1>8, FS_Union
  <2>2. Cardinality(StagedAt(g) \cap J) = 0
    BY <1>6, FS_EmptySet
  <2> QED
    BY <1>5, <1>7, <1>8, <2>1, <2>2

LEMMA AdmitSays ==
  ASSUME history \in Seq(Message), pendingInput \in Nat
  PROVE  Cardinality(StagedAt(history \o Repaired \o <<User>> \o Admitted))
           = Cardinality(StagedAt(history)) + pendingInput
<1>1. /\ Repaired \in Seq(Message) /\ history \o Repaired \in Seq(Message)
      /\ <<User>> \in Seq(Message) /\ history \o Repaired \o <<User>> \in Seq(Message)
  BY RepairTyped, SaysTyped, ConcatProperties
<1>2. \A i \in DOMAIN Repaired : Repaired[i].role # "staged"
  BY DEF Repaired
<1>3. ASSUME NEW one, one = <<User>> PROVE \A i \in DOMAIN one : one[i].role # "staged"
  BY <1>3 DEF User
<1>4. StagedAt(history \o Repaired) = StagedAt(history)
  BY <1>1, <1>2, StagedConcat
<1>5. StagedAt(history \o Repaired \o <<User>>) = StagedAt(history)
  BY <1>1, <1>3, <1>4, StagedConcat
<1> QED
  BY <1>1, <1>5, StagedAdmitted

(* What a run appends, once it is admitted.                                *)
LEMMA RunStepSays ==
  ASSUME TypeInv, NEW r \in Run, Begin(r) \/ ConsumerLeaves(r) \/ RunStep(r), ~Admit(r)
  PROVE  /\ UNCHANGED <<pendingInput, added, crashes, checkpoint>>
         /\ \/ history' = history
            \/ \E m \in Message : m.role # "staged" /\ history' = Append(history, m)
         /\ \A q \in Run : pc'[q] \in InLoop => pc[q] \in InLoop
<1> USE DEF TypeInv, RunInv, RunTypes, InLoop, Place, Goto, Ends, gate, counts, effects, frame
<1>c. \A C \in SUBSET Call : /\ Assistant(C) \in Message /\ Assistant(C).role # "staged"
                             /\ [role |-> "tool", calls |-> C] \in Message
  BY SaysTyped DEF Assistant
<1>d. Calls(r) \in SUBSET Call
  BY CallsAreCalls
<1>u. User \in Message /\ User.role # "staged"
  BY SaysTyped DEF User
<1>m. ASSUME NEW p, pc' = [pc EXCEPT ![r] = p], p \in InLoop => pc[r] \in InLoop
      PROVE  \A q \in Run : pc'[q] \in InLoop => pc[q] \in InLoop
  BY <1>m
<1>n. ASSUME NextStep(r), UNCHANGED <<pendingInput, added, crashes, checkpoint>>, pc[r] \in InLoop
      PROVE  /\ \/ history' = history
                \/ \E m \in Message : m.role # "staged" /\ history' = Append(history, m)
             /\ \A q \in Run : pc'[q] \in InLoop => pc[q] \in InLoop
  <2>1. \E m \in Message : m.role # "staged" /\ history' = Append(history, m)
    BY <1>c, <1>d, <1>n DEF NextStep
  <2>2. \E p : pc' = [pc EXCEPT ![r] = p]
    BY <1>n DEF NextStep
  <2> QED
    BY <1>m, <1>n, <2>1, <2>2
<1>1. CASE Begin(r)
  BY <1>1 DEF Begin
<1>2. CASE ConsumerLeaves(r)
  BY <1>2 DEF ConsumerLeaves
<1>3. CASE BeginThrows(r) \/ Resumed(r) \/ ModelFails(r) \/ Settled(r) \/ ToolsFail(r) \/ StepThrows(r)
  BY <1>3 DEF BeginThrows, Resumed, ModelFails, Settled, ToolsFail, StepThrows
<1>4. CASE LoopTop(r) \/ StepStarts(r) \/ ErrorRecorded(r)
  BY <1>4 DEF LoopTop, StepStarts, ErrorRecorded
<1>5. CASE Announced(r) \/ StepCompletes(r)
  BY <1>5 DEF Announced, StepCompletes, LastStep
<1>6. CASE ToolsAnswered(r)
  <2>1. CASE r \notin Streamed
    BY <1>6, <1>n, <2>1 DEF ToolsAnswered
  <2>2. CASE r \in Streamed
    BY <1>6, <2>2 DEF ToolsAnswered
  <2> QED
    BY <2>1, <2>2
<1>7. CASE Reported(r)
  BY <1>7, <1>n DEF Reported
<1>8. CASE Reflected(r)
  <2>1. history' = history \/ history' = Append(history, User) \/ history' = Append(history, Assistant(Calls(r)))
    BY <1>8 DEF Reflected, Replies
  <2>2. (\E p : pc' = [pc EXCEPT ![r] = p]) /\ pc[r] \in InLoop
    BY <1>8 DEF Reflected
  <2>3. UNCHANGED <<pendingInput, added, crashes, checkpoint>>
    BY <1>8 DEF Reflected
  <2>4. \A q \in Run : pc'[q] \in InLoop => pc[q] \in InLoop
    BY <1>m, <2>2
  <2>5. history' = history \/ \E m \in Message : m.role # "staged" /\ history' = Append(history, m)
    BY <1>c, <1>d, <1>u, <2>1
  <2> QED
    BY <2>3, <2>4, <2>5
<1>9. ASSUME NEW C \in SUBSET Call, ModelReplies(r, C)
      PROVE  /\ UNCHANGED <<pendingInput, added, crashes, checkpoint>>
             /\ \E m \in Message : m.role # "staged" /\ history' = Append(history, m)
             /\ \A q \in Run : pc'[q] \in InLoop => pc[q] \in InLoop
  <2>1. history' = Append(history, Assistant(C))
    BY <1>9 DEF ModelReplies, Replies
  <2> QED
    BY <1>9, <1>c, <2>1 DEF ModelReplies
<1>10. ASSUME NEW C \in SUBSET Call, ModelFumbles(r, C)
       PROVE  /\ UNCHANGED <<pendingInput, added, crashes, checkpoint>>
              /\ history' = history
              /\ \A q \in Run : pc'[q] \in InLoop => pc[q] \in InLoop
  BY <1>10 DEF ModelFumbles
<1> QED
  BY <1>1, <1>2, <1>3, <1>4, <1>5, <1>6, <1>7, <1>8, <1>9, <1>10 DEF RunStep

LEMMA InitStagedInv == Init => StagedInv
<1> SUFFICES ASSUME Init PROVE StagedInv
  OBVIOUS
<1>1. Cardinality(StagedAt(history)) = 0
  <2>1. StagedAt(history) = {}
    BY DEF Init, StagedAt
  <2> QED
    BY <2>1, FS_EmptySet
<1>2. pendingInput = 0 /\ added = 0 /\ crashes = 0 /\ ~checkpoint.saved
  BY DEF Init, NoSnapshot
<1> QED
  BY <1>1, <1>2 DEF StagedInv

LEMMA NextStagedInv ==
  ASSUME ~Parallel
  PROVE  TypeInv /\ GateInv /\ StagedInv /\ [Next]_vars => StagedInv'
<1> SUFFICES ASSUME TypeInv, GateInv, StagedInv, [Next]_vars PROVE StagedInv'
  OBVIOUS
<1> DEFINE Count(h) == Cardinality(StagedAt(h))
<1>t. /\ history \in Seq(Message) /\ Count(history) \in Nat /\ pendingInput \in Nat
      /\ checkpoint.saved => Count(checkpoint.history) \in Nat
  BY StagedFinite DEF TypeInv, Recorded, CountsTyped
<1>q. ASSUME UNCHANGED <<pendingInput, added, crashes, checkpoint>>,
             Count(history') = Count(history),
             \A q \in Run : pc'[q] \in InLoop => pc[q] \in InLoop
      PROVE  StagedInv'
  BY <1>q DEF StagedInv
<1>1. CASE UNCHANGED vars \/ Stop
  BY <1>1, <1>q DEF vars, frame, gate, counts, Stop
<1>2. ASSUME NEW r \in Run, Begin(r) \/ ConsumerLeaves(r) \/ RunStep(r), ~Admit(r)
      PROVE  StagedInv'
  <2>1. StagedAt(history') = StagedAt(history)
    BY <1>t, <1>2, RunStepSays, StagedAppend
  <2> QED
    BY <1>2, <1>q, <2>1, RunStepSays
<1>3. ASSUME NEW r \in Run, Admit(r) PROVE StagedInv'
  <2>1. Count(history') = Count(history) + pendingInput
    BY <1>t, <1>3, AdmitSays DEF Admit
  <2>2. pendingInput' = 0 /\ UNCHANGED <<added, crashes, checkpoint>>
    BY <1>3 DEF Admit, gate
  <2> QED
    BY <1>t, <2>1, <2>2 DEF StagedInv
<1>4. CASE AddInput
  <2>1. /\ pendingInput' = pendingInput + 1 /\ added' = added + 1 /\ running = Nobody
        /\ UNCHANGED <<pc, history, crashes, checkpoint>>
    BY <1>4 DEF AddInput, frame, gate
  <2>2. \A q \in Run : pc[q] \notin InLoop
    BY <2>1, AgentAssumption DEF TypeInv, RunInv, OneRunAtATime
  <2> QED
    BY <1>t, <2>1, <2>2 DEF StagedInv
<1>5. CASE ClearPendingInput
  <2>1. /\ pendingInput' = 0 /\ added' = added - pendingInput
        /\ UNCHANGED <<pc, history, crashes, checkpoint>>
    BY <1>5 DEF ClearPendingInput, frame, gate
  <2> QED
    BY <1>t, <2>1 DEF StagedInv
<1>6. ASSUME NEW r \in Run, NEW c \in Call, CallStep(r, c) PROVE StagedInv'
  <2>1. UNCHANGED <<pc, history, pendingInput, added, crashes>>
    BY <1>6 DEF CallStep, AnsweredUnrun, CallThrows, RequestApproval, Suspend, Decide,
                Execute, ToolEnds, ToolFrame, frame, counts
  <2>2. CASE Suspend(r, c)
    <3>1. pc[r] = "tools"
      BY <2>2 DEF Suspend, GateInv, OnlyInTools, Busy, Suspended
    <3>2. pendingInput = 0
      BY <3>1 DEF StagedInv, InLoop, Place
    <3>3. checkpoint' = checkpoint \/ checkpoint' = Snapshot
      BY <2>2 DEF Suspend
    <3>4. checkpoint'.saved => checkpoint'.pendingInput = 0 /\ Count(checkpoint'.history) <= Count(history)
      BY <1>t, <3>2, <3>3 DEF Snapshot, StagedInv
    <3> QED
      BY <2>1, <3>4 DEF StagedInv
  <2>3. CASE ~Suspend(r, c)
    <3>1. UNCHANGED checkpoint
      BY <1>6, <2>3 DEF CallStep, AnsweredUnrun, CallThrows, RequestApproval, Decide,
                Execute, ToolEnds, gate
    <3> QED
      BY <1>q, <2>1, <3>1
  <2> QED
    BY <2>2, <2>3
<1>7. ASSUME NEW c \in Call, NEW ok \in BOOLEAN, ResumeWithApproval(c, ok) PROVE StagedInv'
  BY <1>7, <1>q DEF ResumeWithApproval, frame, counts
<1>8. CASE Crash
  <2>1. /\ crashes' \in Nat \ {0} /\ UNCHANGED <<added, checkpoint>>
        /\ \A q \in Run : pc'[q] \notin InLoop
    <3>1. crashes' = crashes + 1 /\ crashes \in Nat
      BY <1>8 DEF Crash, StagedInv
    <3> QED
      BY <1>8, <3>1 DEF Crash, counts, InLoop, Place
  <2>2. CASE checkpoint.saved
    <3>1. history' = checkpoint.history /\ pendingInput' = 0
      BY <1>8, <2>2 DEF Crash, StagedInv
    <3> QED
      BY <1>t, <2>1, <2>2, <3>1 DEF StagedInv
  <2>3. CASE ~checkpoint.saved
    <3>1. history' = <<>> /\ pendingInput' = 0
      BY <1>8, <2>3 DEF Crash
    <3>2. Count(history') = 0
      <4>1. StagedAt(history') = {}
        BY <3>1 DEF StagedAt
      <4> QED
        BY <4>1, FS_EmptySet
    <3>3. added \in Nat
      BY DEF StagedInv
    <3> QED
      BY <2>1, <2>3, <3>1, <3>2, <3>3 DEF StagedInv
  <2> QED
    BY <2>2, <2>3
<1> QED
  BY <1>1, <1>2, <1>3, <1>4, <1>5, <1>6, <1>7, <1>8 DEF Next

(* Calls in sequence: what is given to addInput enters the conversation at *)
(* most once, and exactly once in a process that does not stop: no restart *)
(* from a checkpoint stages again what a run said already.                 *)
THEOREM SpecStagedInputSaidOnce ==
  ASSUME ~Parallel
  PROVE  Spec => []StagedInputSaidOnce
<1>1. Init => TypeInv /\ GateInv /\ StagedInv
  BY InitTypeInv, InitGateInv, InitStagedInv
<1>2. TypeInv /\ GateInv /\ StagedInv /\ [Next]_vars => (TypeInv /\ GateInv /\ StagedInv)'
  BY NextTypeInv, NextGateInv, NextStagedInv DEF TypeInv
<1>3. TypeInv /\ GateInv /\ StagedInv => StagedInputSaidOnce
  BY DEF StagedInv, StagedInputSaidOnce, StagedAt
<1> QED
  BY <1>1, <1>2, <1>3, PTL DEF Spec

-----------------------------------------------------------------------------
(* The model calls of a run.                                               *)

Extra == IF Reflects THEN MaxRetries ELSE 0

(* What the steps done paid for, one call of the step under way and its    *)
(* retries, which the failures in a row count while the policy judges.     *)
Paid(r) == steps[r] * (1 + Extra)

SendsOf(r) ==
  /\ sends[r] <= MaxSteps * (1 + Extra)
  /\ pc[r] \in {"idle", "begin"} => sends[r] = 0 /\ steps[r] = 0
  /\ pc[r] \in {"top", "offer", "starting"} =>
       sends[r] <= Paid(r) + Extra /\ sends[r] <= Paid(r) + consecutive
  /\ pc[r] = "model" => sends[r] <= Paid(r) + consecutive + 1
  /\ pc[r] = "reflecting" => Reflects /\ sends[r] <= Paid(r) + consecutive
  /\ pc[r] \in InLoop => sends[r] <= Paid(r) + 1 + Extra

SendsLeft == sends \in [Run -> Nat] /\ \A r \in Run : SendsOf(r)

LEMMA StepsPay ==
  /\ Extra \in Nat
  /\ \A s \in Nat : s * (1 + Extra) \in Nat /\ (s + 1) * (1 + Extra) = s * (1 + Extra) + 1 + Extra
  /\ \A s, t \in Nat : s <= t => s * (1 + Extra) <= t * (1 + Extra)
<1>1. Extra \in Nat
  BY AgentAssumption DEF Extra
<1>2. \A K \in Nat, s \in Nat : s * K \in Nat /\ (s + 1) * K = s * K + K
  OBVIOUS
<1>3. \A K \in Nat, s \in Nat, t \in Nat : s <= t => s * K <= t * K
  OBVIOUS
<1>4. 1 + Extra \in Nat
  BY <1>1
<1>5. \A s \in Nat : s * (1 + Extra) \in Nat /\ (s + 1) * (1 + Extra) = s * (1 + Extra) + (1 + Extra)
  BY <1>2, <1>4
<1>6. \A s, t \in Nat : s <= t => s * (1 + Extra) <= t * (1 + Extra)
  BY <1>3, <1>4
<1> HIDE DEF Extra
<1>7. \A s \in Nat : s * (1 + Extra) \in Nat /\ (s + 1) * (1 + Extra) = s * (1 + Extra) + 1 + Extra
  BY <1>1, <1>5
<1> QED
  BY <1>1, <1>6, <1>7

LEMMA SendsKept ==
  ASSUME NEW q \in Run, SendsOf(q), pc'[q] = pc[q], steps'[q] = steps[q], sends'[q] = sends[q],
         consecutive' = consecutive \/ pc[q] \notin InLoop
  PROVE  SendsOf(q)'
<1> USE DEF SendsOf, Paid, InLoop, Place
<1>1. CASE consecutive' = consecutive
  BY <1>1
<1>2. CASE pc[q] \notin InLoop
  BY <1>2
<1> QED
  BY <1>1, <1>2

(* A run that leaves the loop, or moves to a place without a bound of its  *)
(* own, takes the bound of the loop along.                                 *)
LEMMA SendsEasy ==
  ASSUME SendsLeft, TypeInv, NEW r \in Run, pc[r] \in InLoop \cup {"settling"},
         NEW p \in Place, Goto(r, p), UNCHANGED <<steps, sends>>,
         p \in {"failing", "settling", "over", "replied", "announce", "tools", "report"},
         p \in InLoop => pc[r] \in InLoop,
         consecutive' = consecutive \/ pc[r] \in InLoop
  PROVE  SendsLeft'
<1>1. ASSUME NEW q \in Run, q # r PROVE SendsOf(q)'
  <2>1. pc'[q] = pc[q]
    BY <1>1 DEF Goto, TypeInv, RunInv, RunTypes
  <2>2. pc[r] \in InLoop => pc[q] \notin InLoop
    BY <1>1 DEF TypeInv, RunInv, OneRunAtATime
  <2> QED
    BY <2>1, <2>2, SendsKept DEF SendsLeft
<1>2. pc'[r] = p
  BY DEF Goto, TypeInv, RunInv, RunTypes
<1>3. SendsOf(r)'
  BY <1>2 DEF SendsLeft, SendsOf, Paid, InLoop, Place
<1> QED
  BY <1>1, <1>3 DEF SendsLeft

LEMMA RunStepSends ==
  ASSUME TypeInv, SendsLeft, NEW r \in Run, Begin(r) \/ ConsumerLeaves(r) \/ RunStep(r)
  PROVE  SendsLeft'
<1> DEFINE E == Extra
<1>t. /\ pc \in [Run -> Place] /\ steps[r] \in Nat /\ sends[r] \in Nat /\ consecutive \in Nat
      /\ steps \in [Run -> 0 .. MaxSteps] /\ sends \in [Run -> Nat]
      /\ Extra \in Nat /\ Paid(r) \in Nat /\ MaxSteps \in Nat
      /\ (steps[r] + 1) * (1 + Extra) = Paid(r) + 1 + Extra
      /\ MaxSteps * (1 + Extra) \in Nat
  BY StepsPay, AgentAssumption DEF TypeInv, RunInv, RunTypes, CountsTyped, SendsLeft, Paid
<1>l. pc[r] \in InLoop =>
        Paid(r) + 1 + Extra <= MaxSteps * (1 + Extra) /\ steps[r] + 1 <= MaxSteps
  <2> SUFFICES ASSUME pc[r] \in InLoop
               PROVE  Paid(r) + 1 + Extra <= MaxSteps * (1 + Extra) /\ steps[r] + 1 <= MaxSteps
    OBVIOUS
  <2>1. steps[r] + 1 <= MaxSteps
    BY <1>t DEF TypeInv, StepsLeft
  <2> QED
    BY <1>t, <2>1, StepsPay
<1>o. SendsOf(r) /\ \A q \in Run : SendsOf(q)
  BY DEF SendsLeft
<1>k. ASSUME NEW q \in Run, q # r, NEW p, Goto(r, p), steps'[q] = steps[q], sends'[q] = sends[q],
             consecutive' = consecutive \/ pc[r] \in InLoop
      PROVE  SendsOf(q)'
  <2>1. pc'[q] = pc[q]
    BY <1>k, <1>t DEF Goto
  <2>2. pc[r] \in InLoop => pc[q] \notin InLoop
    BY <1>k DEF TypeInv, RunInv, OneRunAtATime
  <2> QED
    BY <1>k, <1>o, <2>1, <2>2, SendsKept
(* Moves that neither send nor count a step.                               *)
<1>m. ASSUME NEW p \in Place, Goto(r, p), UNCHANGED <<steps, sends, consecutive>>, SendsOf(r)'
      PROVE  SendsLeft'
  BY <1>k, <1>m DEF SendsLeft
<1>n. ASSUME NextStep(r), UNCHANGED <<sends, consecutive>>, pc[r] \in InLoop
      PROVE  SendsLeft'
  <2>1. /\ steps' = [steps EXCEPT ![r] = steps[r] + 1]
        /\ Goto(r, "top") \/ Goto(r, "settling")
    BY <1>n DEF NextStep, Ends
  <2>2. \A q \in Run : q # r => SendsOf(q)'
    BY <1>k, <1>n, <1>t, <2>1
  <2>3. Paid(r)' = Paid(r) + 1 + Extra /\ sends'[r] = sends[r]
    BY <1>n, <1>t, <2>1 DEF Paid
  <2>4. sends[r] <= Paid(r) + 1 + Extra /\ sends[r] <= MaxSteps * (1 + Extra)
    BY <1>n, <1>o DEF SendsOf
  <2>5. pc'[r] \in {"top", "settling"}
    BY <1>t, <2>1 DEF Goto
  <2>6. sends[r] <= Paid(r)' + Extra /\ sends[r] <= Paid(r)' + consecutive
    BY <1>t, <2>3, <2>4
  <2>7. SendsOf(r)'
    BY <1>n, <1>t, <2>3, <2>4, <2>5, <2>6 DEF SendsOf, InLoop, Place
  <2> QED
    BY <1>n, <2>2, <2>7 DEF SendsLeft
<1>s. ASSUME LastStep(r), UNCHANGED <<sends, consecutive>>, pc[r] \in InLoop
      PROVE  SendsLeft'
  <2>1. steps' = [steps EXCEPT ![r] = steps[r] + 1] /\ Goto(r, "settling")
    BY <1>s DEF LastStep, Ends
  <2>2. \A q \in Run : q # r => SendsOf(q)'
    BY <1>k, <1>s, <1>t, <2>1
  <2>3. pc'[r] = "settling"
    BY <1>t, <2>1 DEF Goto
  <2>4. SendsOf(r)'
    BY <1>s, <1>o, <2>3 DEF SendsOf, InLoop, Place
  <2> QED
    BY <1>s, <2>2, <2>4 DEF SendsLeft
<1>1. CASE Begin(r)
  <2>1. PICK p \in {"begin", "over"} : Goto(r, p)
    BY <1>1 DEF Begin, Goto
  <2>2. UNCHANGED <<steps, sends, consecutive>> /\ pc[r] = "idle"
    BY <1>1 DEF Begin, counts
  <2>3. SendsOf(r)'
    BY <1>o, <1>t, <2>1, <2>2 DEF SendsOf, Goto, InLoop, Place
  <2> QED
    BY <1>m, <2>1, <2>2, <2>3 DEF Place
<1>2. CASE ConsumerLeaves(r)
  BY <1>2, SendsEasy DEF ConsumerLeaves, Ends, counts, InLoop, Place
<1>3. CASE Admit(r)
  <2>1. UNCHANGED <<steps, sends, consecutive>> /\ pc[r] = "begin" /\ Goto(r, "top")
    BY <1>3 DEF Admit
  <2>2. SendsOf(r)'
    BY <1>o, <1>t, <2>1 DEF SendsOf, Goto, InLoop, Place, Paid
  <2> QED
    BY <1>m, <2>1, <2>2 DEF Place
<1>4. CASE BeginThrows(r)
  <2>1. UNCHANGED <<steps, sends, consecutive>> /\ pc[r] = "begin" /\ Goto(r, "over")
    BY <1>4 DEF BeginThrows, counts
  <2>2. SendsOf(r)'
    BY <1>o, <1>t, <2>1 DEF SendsOf, Goto, InLoop, Place
  <2> QED
    BY <1>m, <2>1, <2>2 DEF Place
<1>5. CASE Settled(r) \/ ModelFails(r) \/ ToolsFail(r) \/ StepThrows(r)
  BY <1>5, SendsEasy DEF Settled, ModelFails, ToolsFail, StepThrows, counts, InLoop, Place
<1>6. CASE ErrorRecorded(r)
  BY <1>6, SendsEasy DEF ErrorRecorded, Ends, counts, InLoop, Place
<1>7. CASE LoopTop(r)
  <2>1. CASE Ends(r, "stopped")
    BY <1>7, <2>1, SendsEasy DEF LoopTop, Ends, counts, InLoop, Place
  <2>2. CASE ~Ends(r, "stopped")
    <3>1. PICK p \in {"offer", "starting"} : Goto(r, p)
      BY <1>7, <2>2 DEF LoopTop
    <3>2. UNCHANGED <<steps, sends, consecutive>> /\ pc[r] = "top"
      BY <1>7 DEF LoopTop, counts
    <3>3. SendsOf(r)'
      BY <1>o, <1>t, <3>1, <3>2 DEF SendsOf, Goto, InLoop, Place, Paid
    <3> QED
      BY <1>m, <3>1, <3>2, <3>3 DEF Place
  <2> QED
    BY <2>1, <2>2
<1>8. CASE Resumed(r)
  <2>1. UNCHANGED <<steps, sends, consecutive>> /\ pc[r] = "offer" /\ Goto(r, "starting")
    BY <1>8 DEF Resumed, counts
  <2>2. SendsOf(r)'
    BY <1>o, <1>t, <2>1 DEF SendsOf, Goto, InLoop, Place, Paid
  <2> QED
    BY <1>m, <2>1, <2>2 DEF Place
<1>9. CASE StepStarts(r)
  <2>1. CASE Ends(r, "guardrail") /\ UNCHANGED sends
    BY <1>9, <2>1, SendsEasy DEF StepStarts, Ends, InLoop, Place
  <2>2. CASE Goto(r, "model") /\ sends' = [sends EXCEPT ![r] = sends[r] + 1]
    <3>1. UNCHANGED <<steps, consecutive>> /\ pc[r] = "starting" /\ pc[r] \in InLoop
      BY <1>9 DEF StepStarts, InLoop, Place
    <3>2. sends'[r] = sends[r] + 1 /\ pc'[r] = "model" /\ Paid(r)' = Paid(r)
          /\ sends' \in [Run -> Nat]
      BY <1>t, <2>2, <3>1 DEF Goto, Paid
    <3>3. sends[r] <= Paid(r) + Extra /\ sends[r] <= Paid(r) + consecutive
      BY <1>o, <3>1 DEF SendsOf
    <3>4. /\ sends[r] + 1 <= Paid(r) + 1 + Extra /\ sends[r] + 1 <= Paid(r) + consecutive + 1
          /\ sends[r] + 1 <= MaxSteps * (1 + Extra)
      BY <1>t, <1>l, <3>1, <3>3
    <3>5. SendsOf(r)'
      BY <1>t, <3>1, <3>2, <3>4 DEF SendsOf, InLoop, Place
    <3>6. \A q \in Run : q # r => SendsOf(q)'
      BY <1>k, <1>t, <2>2, <3>1
    <3> QED
      BY <3>2, <3>5, <3>6 DEF SendsLeft
  <2> QED
    BY <1>9, <2>1, <2>2 DEF StepStarts
<1>10. CASE Reflected(r)
  <2>1. UNCHANGED <<steps, sends, consecutive>> /\ pc[r] = "reflecting" /\ pc[r] \in InLoop
    BY <1>10 DEF Reflected, counts, InLoop, Place
  <2>2. CASE consecutive <= MaxRetries /\ Goto(r, "top")
    <3>1. Reflects /\ sends[r] <= Paid(r) + consecutive /\ sends[r] <= MaxSteps * (1 + Extra)
          /\ sends[r] <= Paid(r) + 1 + Extra
      BY <1>o, <2>1 DEF SendsOf
    <3>2. Extra = MaxRetries
      BY <3>1 DEF Extra
    <3>3. sends[r] <= Paid(r) + Extra
      BY <1>t, <2>2, <3>1, <3>2
    <3>4. pc'[r] = "top" /\ Paid(r)' = Paid(r)
      BY <1>t, <2>1, <2>2 DEF Goto, Paid
    <3>5. SendsOf(r)'
      BY <2>1, <3>1, <3>3, <3>4 DEF SendsOf, InLoop, Place
    <3> QED
      BY <1>m, <2>1, <2>2, <3>5 DEF Place
  <2>3. CASE Goto(r, "failing") \/ Goto(r, "replied")
    BY <2>1, <2>3, SendsEasy DEF InLoop, Place
  <2> QED
    BY <1>10, <2>2, <2>3 DEF Reflected
<1>11. CASE StepCompletes(r)
  <2>1. UNCHANGED <<sends, consecutive>> /\ pc[r] = "replied" /\ pc[r] \in InLoop
    BY <1>11 DEF StepCompletes, counts, InLoop, Place
  <2>2. CASE UNCHANGED steps
    <3>1. \E p \in {"settling", "announce", "tools"} : Goto(r, p)
      BY <1>11, <2>2 DEF StepCompletes, Ends, LastStep
    <3> QED
      BY <2>1, <2>2, <3>1, SendsEasy DEF InLoop, Place
  <2>3. CASE LastStep(r)
    BY <1>s, <2>1, <2>3
  <2> QED
    BY <1>11, <2>2, <2>3 DEF StepCompletes
<1>12. CASE Announced(r)
  <2>1. UNCHANGED <<sends, consecutive>> /\ pc[r] = "announce" /\ pc[r] \in InLoop
    BY <1>12 DEF Announced, counts, InLoop, Place
  <2>2. CASE Goto(r, "tools") /\ UNCHANGED steps
    BY <2>1, <2>2, SendsEasy DEF InLoop, Place
  <2>3. CASE LastStep(r)
    BY <1>s, <2>1, <2>3
  <2> QED
    BY <1>12, <2>2, <2>3 DEF Announced
<1>13. CASE ToolsAnswered(r)
  <2>1. UNCHANGED <<sends, consecutive>> /\ pc[r] = "tools" /\ pc[r] \in InLoop
    BY <1>13 DEF ToolsAnswered, counts, InLoop, Place
  <2>2. CASE r \notin Streamed
    BY <1>13, <1>n, <2>1, <2>2 DEF ToolsAnswered
  <2>3. CASE r \in Streamed
    BY <1>13, <2>1, <2>3, SendsEasy DEF ToolsAnswered, InLoop, Place
  <2> QED
    BY <2>2, <2>3
<1>14. CASE Reported(r)
  BY <1>14, <1>n DEF Reported, counts, InLoop, Place
<1>15. ASSUME NEW C \in SUBSET Call, ModelReplies(r, C) PROVE SendsLeft'
  <2>1. UNCHANGED <<steps, sends>> /\ pc[r] = "model" /\ Goto(r, "replied") /\ pc[r] \in InLoop
    BY <1>15 DEF ModelReplies, InLoop, Place
  <2> QED
    BY <2>1, SendsEasy DEF InLoop, Place
<1>16. ASSUME NEW C \in SUBSET Call, ModelFumbles(r, C) PROVE SendsLeft'
  <2>1. UNCHANGED <<steps, sends>> /\ pc[r] = "model" /\ Goto(r, "reflecting") /\ pc[r] \in InLoop
        /\ Reflects /\ consecutive' = consecutive + 1
    BY <1>16 DEF ModelFumbles, InLoop, Place
  <2>2. \A q \in Run : q # r => SendsOf(q)'
    BY <1>k, <2>1
  <2>3. pc'[r] = "reflecting" /\ Paid(r)' = Paid(r)
    BY <1>t, <2>1 DEF Goto, Paid
  <2>4. SendsOf(r)'
    BY <1>t, <1>o, <2>1, <2>3 DEF SendsOf, InLoop, Place
  <2> QED
    BY <2>1, <2>2, <2>4 DEF SendsLeft
<1> QED
  BY <1>1, <1>2, <1>3, <1>4, <1>5, <1>6, <1>7, <1>8, <1>9, <1>10, <1>11, <1>12, <1>13, <1>14,
     <1>15, <1>16 DEF RunStep

LEMMA NextSendsLeft == TypeInv /\ SendsLeft /\ [Next]_vars => SendsLeft'
<1> SUFFICES ASSUME TypeInv, SendsLeft, [Next]_vars PROVE SendsLeft'
  OBVIOUS
<1>1. ASSUME UNCHANGED <<pc, steps, sends, consecutive>> PROVE SendsLeft'
  BY <1>1, SendsKept DEF SendsLeft
<1>2. CASE UNCHANGED vars
  BY <1>1, <1>2 DEF vars, frame, counts
<1>3. CASE Stop \/ AddInput \/ ClearPendingInput
  BY <1>1, <1>3 DEF Stop, AddInput, ClearPendingInput, frame, counts
<1>4. ASSUME NEW r \in Run, NEW c \in Call, CallStep(r, c) PROVE SendsLeft'
  BY <1>1, <1>4 DEF CallStep, AnsweredUnrun, CallThrows, RequestApproval, Suspend, Decide,
                Execute, ToolEnds, ToolFrame, frame, counts
<1>5. ASSUME NEW c \in Call, NEW ok \in BOOLEAN, ResumeWithApproval(c, ok) PROVE SendsLeft'
  BY <1>1, <1>5 DEF ResumeWithApproval, frame, counts
<1>6. CASE Crash
  <2>1. UNCHANGED <<steps, sends>> /\ \A q \in Run : pc'[q] = pc[q] \/ pc'[q] = "over"
    BY <1>6 DEF Crash, counts
  <2>2. \A q \in Run : pc'[q] \in {"idle", "over"}
    BY <1>6 DEF Crash
  <2>3. ASSUME NEW q \in Run PROVE SendsOf(q)'
    <3>1. SendsOf(q)
      BY DEF SendsLeft
    <3> QED
      BY <2>1, <2>2, <3>1 DEF SendsOf, InLoop, Place
  <2> QED
    BY <2>1, <2>3 DEF SendsLeft
<1> QED
  BY <1>2, <1>3, <1>4, <1>5, <1>6, RunStepSends DEF Next

LEMMA InitSendsLeft == Init => SendsLeft
<1> SUFFICES ASSUME Init PROVE SendsLeft
  OBVIOUS
<1>1. MaxSteps * (1 + Extra) \in Nat
  BY AgentAssumption, StepsPay
<1> QED
  BY <1>1 DEF Init, SendsLeft, SendsOf, InLoop, Place

-----------------------------------------------------------------------------
(* The conversation.                                                       *)

(* The last message asks for tools and has no answer yet.                  *)
Open(h) == h # <<>> /\ h[Len(h)].role = "assistant" /\ h[Len(h)].calls # {}

Paired(h) ==
  \A i \in DOMAIN h :
    /\ h[i].role = "assistant" /\ h[i].calls # {} /\ i < Len(h) =>
         h[i + 1].role = "tool" /\ h[i].calls \subseteq h[i + 1].calls
    /\ h[i].role = "tool" =>
         /\ i > 1 /\ h[i - 1].role = "assistant" /\ h[i].calls \subseteq h[i - 1].calls

(* No id of a call is used twice.                                          *)
Unrepeated(h) ==
  \A i, j \in DOMAIN h :
    h[i].role = "assistant" /\ h[j].role = "assistant" /\ i # j => h[i].calls \cap h[j].calls = {}

Sound(h) == Paired(h) /\ Unrepeated(h)

HistoryPaired == Sound(history) /\ (checkpoint.saved => Sound(checkpoint.history))

Asking == {"top", "offer", "starting", "model", "reflecting"}
Answering == {"replied", "announce", "tools", "report"}

(* A run asks only a conversation without an open turn, and the calls it   *)
(* carries out are those of the turn it left open.                         *)
TurnOf(r) ==
  /\ pc[r] \in Asking => ~Open(history)
  /\ pc[r] \in Answering /\ Calls(r) # {} =>
       Open(history) /\ history[Len(history)].calls = Calls(r)
  /\ pc[r] \in {"tools", "report"} => Calls(r) # {}
  /\ pc[r] = "reflecting" => Calls(r) \cap Ids("assistant") = {}

TurnsMatch == HistoryPaired /\ \A r \in Run : TurnOf(r)

LEMMA AppendAt ==
  ASSUME NEW h \in Seq(Message), NEW m \in Message
  PROVE  /\ Append(h, m) \in Seq(Message) /\ Len(Append(h, m)) = Len(h) + 1 /\ Len(h) \in Nat
         /\ \A i \in 1 .. Len(h) : Append(h, m)[i] = h[i]
         /\ Append(h, m)[Len(h) + 1] = m
         /\ DOMAIN h = 1 .. Len(h) /\ DOMAIN Append(h, m) = 1 .. Len(h) + 1
         /\ Append(h, m) # <<>>
         /\ h # <<>> => Len(h) \in 1 .. Len(h)
<1>1. /\ Append(h, m) \in Seq(Message) /\ Len(Append(h, m)) = Len(h) + 1 /\ Len(h) \in Nat
      /\ \A i \in 1 .. Len(h) : Append(h, m)[i] = h[i]
      /\ Append(h, m)[Len(h) + 1] = m
  OBVIOUS
<1>2. DOMAIN h = 1 .. Len(h) /\ DOMAIN Append(h, m) = 1 .. Len(h) + 1
  BY <1>1
<1>3. Append(h, m) # <<>>
  BY <1>1
<1>4. h # <<>> => Len(h) \in 1 .. Len(h)
  BY <1>1
<1> QED
  BY <1>1, <1>2, <1>3, <1>4

LEMMA OpenAppend ==
  ASSUME NEW h \in Seq(Message), NEW m \in Message
  PROVE  Open(Append(h, m)) <=> m.role = "assistant" /\ m.calls # {}
  BY AppendAt DEF Open

(* A message that asks when nothing is open, or answers what is open,      *)
(* keeps the conversation sound.                                           *)
LEMMA SoundAppend ==
  ASSUME NEW h \in Seq(Message), NEW m \in Message, Sound(h),
         Open(h) => m.role = "tool" /\ h[Len(h)].calls \subseteq m.calls,
         m.role = "tool" => Open(h) /\ m.calls \subseteq h[Len(h)].calls,
         m.role = "assistant" =>
           \A i \in DOMAIN h : h[i].role = "assistant" => h[i].calls \cap m.calls = {}
  PROVE  Sound(Append(h, m))
<1> DEFINE g == Append(h, m)
<1>1. /\ Len(g) = Len(h) + 1 /\ Len(h) \in Nat
      /\ \A i \in 1 .. Len(h) : g[i] = h[i]
      /\ g[Len(h) + 1] = m
      /\ DOMAIN h = 1 .. Len(h) /\ DOMAIN g = 1 .. Len(h) + 1
      /\ h # <<>> => Len(h) \in 1 .. Len(h)
      /\ h = <<>> => Len(h) = 0
  BY AppendAt
<1> HIDE DEF g
<1>2. Paired(g)
  <2>1. ASSUME NEW i \in 1 .. Len(h), g[i].role = "assistant", g[i].calls # {}, i < Len(g)
        PROVE  g[i + 1].role = "tool" /\ g[i].calls \subseteq g[i + 1].calls
    <3>1. CASE i < Len(h)
      <4>1. i + 1 \in 1 .. Len(h) /\ g[i + 1] = h[i + 1] /\ g[i] = h[i]
        BY <1>1, <3>1
      <4>2. h[i].role = "assistant" /\ h[i].calls # {} /\ i \in DOMAIN h
        BY <1>1, <2>1, <4>1
      <4>3. h[i + 1].role = "tool" /\ h[i].calls \subseteq h[i + 1].calls
        BY <3>1, <4>2 DEF Sound, Paired
      <4> QED
        BY <4>1, <4>3
    <3>2. CASE i = Len(h)
      <4>1. g[i] = h[Len(h)] /\ g[i + 1] = m /\ h # <<>>
        BY <1>1, <3>2
      <4>2. Open(h)
        BY <2>1, <4>1 DEF Open
      <4>3. m.role = "tool" /\ h[Len(h)].calls \subseteq m.calls
        BY <4>2
      <4> QED
        BY <4>1, <4>3
    <3>3. i < Len(h) \/ i = Len(h)
      <4>1. Len(h) \in Nat
        OBVIOUS
      <4> QED
        BY <4>1
    <3> QED
      BY <3>1, <3>2, <3>3
  <2>2. ASSUME NEW i \in 1 .. Len(h), g[i].role = "tool"
        PROVE  i > 1 /\ g[i - 1].role = "assistant" /\ g[i].calls \subseteq g[i - 1].calls
    <3>1. i > 1 /\ h[i - 1].role = "assistant" /\ h[i].calls \subseteq h[i - 1].calls
      BY <1>1, <2>2 DEF Sound, Paired
    <3>2. i - 1 \in 1 .. Len(h)
      BY <1>1, <3>1
    <3> QED
      BY <1>1, <3>1, <3>2
  <2>3. ASSUME NEW i, i = Len(h) + 1, g[i].role = "tool"
        PROVE  i > 1 /\ g[i - 1].role = "assistant" /\ g[i].calls \subseteq g[i - 1].calls
    <3>1. g[i] = m
      BY <1>1, <2>3
    <3>2. Open(h) /\ m.calls \subseteq h[Len(h)].calls
      BY <2>3, <3>1
    <3>3. h # <<>> /\ Len(h) \in 1 .. Len(h) /\ h[Len(h)].role = "assistant"
      BY <1>1, <3>2 DEF Open
    <3>4. i > 1 /\ i - 1 = Len(h) /\ g[i - 1] = h[Len(h)]
      BY <1>1, <2>3, <3>3
    <3> QED
      BY <3>1, <3>2, <3>3, <3>4
  <2>4. \A i \in DOMAIN g : i \in 1 .. Len(h) \/ i = Len(h) + 1
    BY <1>1
  <2>5. \A i \in DOMAIN g : i < Len(g) => i \in 1 .. Len(h)
    BY <1>1
  <2> QED
    BY <2>1, <2>2, <2>3, <2>4, <2>5 DEF Paired
<1>3. Unrepeated(g)
  <2>1. ASSUME NEW i \in DOMAIN g, NEW j \in DOMAIN g,
               g[i].role = "assistant", g[j].role = "assistant", i # j
        PROVE  g[i].calls \cap g[j].calls = {}
    <3>1. CASE i \in 1 .. Len(h) /\ j \in 1 .. Len(h)
      BY <1>1, <2>1, <3>1 DEF Sound, Unrepeated
    <3>2. CASE i \in 1 .. Len(h) /\ j = Len(h) + 1
      BY <1>1, <2>1, <3>2
    <3>3. CASE j \in 1 .. Len(h) /\ i = Len(h) + 1
      BY <1>1, <2>1, <3>3
    <3> QED
      BY <1>1, <2>1, <3>1, <3>2, <3>3
  <2> QED
    BY <2>1 DEF Unrepeated
<1> QED
  BY <1>2, <1>3 DEF Sound, g

(* Messages of the user and of what was staged open nothing.               *)
LEMMA SoundConcat ==
  ASSUME NEW h \in Seq(Message), NEW s \in Seq(Message), Sound(h), ~Open(h),
         \A i \in DOMAIN s : s[i].role \in {"user", "staged"}
  PROVE  Sound(h \o s) /\ ~Open(h \o s)
<1> DEFINE g == h \o s
<1>1. /\ g \in Seq(Message) /\ Len(g) = Len(h) + Len(s) /\ Len(h) \in Nat /\ Len(s) \in Nat
      /\ \A i \in 1 .. Len(h) + Len(s) : g[i] = IF i <= Len(h) THEN h[i] ELSE s[i - Len(h)]
  BY ConcatProperties
<1>2. /\ DOMAIN h = 1 .. Len(h) /\ DOMAIN s = 1 .. Len(s) /\ DOMAIN g = 1 .. Len(h) + Len(s)
      /\ h # <<>> => Len(h) \in 1 .. Len(h)
      /\ h = <<>> => Len(h) = 0
      /\ g # <<>> => Len(g) \in 1 .. Len(g)
  BY <1>1
<1>3. /\ \A i \in 1 .. Len(h) : g[i] = h[i]
      /\ \A i \in Len(h) + 1 .. Len(h) + Len(s) : g[i].role \in {"user", "staged"}
  BY <1>1, <1>2
<1> HIDE DEF g
<1>a. ASSUME NEW i \in DOMAIN g, g[i].role \notin {"user", "staged"}
      PROVE  i \in 1 .. Len(h) /\ g[i] = h[i]
  <2>1. i \in 1 .. Len(h) \/ i \in Len(h) + 1 .. Len(h) + Len(s)
    BY <1>1, <1>2
  <2> QED
    BY <1>3, <1>a, <2>1
<1>4. ~Open(g)
  <2>1. CASE Len(g) \in Len(h) + 1 .. Len(h) + Len(s)
    BY <1>3, <2>1 DEF Open
  <2>2. CASE Len(s) = 0 /\ h # <<>>
    <3>1. g[Len(g)] = h[Len(h)]
      BY <1>1, <1>2, <1>3, <2>2
    <3> QED
      BY <2>2, <3>1 DEF Open
  <2>3. CASE Len(s) = 0 /\ h = <<>>
    BY <1>1, <1>2, <2>3 DEF Open
  <2> QED
    BY <1>1, <2>1, <2>2, <2>3
<1>5. Paired(g)
  <2>1. ASSUME NEW i \in DOMAIN g, g[i].role = "assistant", g[i].calls # {}, i < Len(g)
        PROVE  g[i + 1].role = "tool" /\ g[i].calls \subseteq g[i + 1].calls
    <3>1. i \in 1 .. Len(h) /\ g[i] = h[i]
      BY <1>a, <2>1
    <3>2. i < Len(h)
      BY <1>1, <1>2, <2>1, <3>1 DEF Open
    <3>3. i + 1 \in 1 .. Len(h) /\ g[i + 1] = h[i + 1]
      BY <1>1, <1>3, <3>1, <3>2
    <3> QED
      BY <1>2, <2>1, <3>1, <3>2, <3>3 DEF Sound, Paired
  <2>2. ASSUME NEW i \in DOMAIN g, g[i].role = "tool"
        PROVE  i > 1 /\ g[i - 1].role = "assistant" /\ g[i].calls \subseteq g[i - 1].calls
    <3>1. i \in 1 .. Len(h) /\ g[i] = h[i]
      BY <1>a, <2>2
    <3>2. i > 1 /\ h[i - 1].role = "assistant" /\ h[i].calls \subseteq h[i - 1].calls
      BY <1>2, <2>2, <3>1 DEF Sound, Paired
    <3>3. i - 1 \in 1 .. Len(h) /\ g[i - 1] = h[i - 1]
      BY <1>1, <1>3, <3>1, <3>2
    <3> QED
      BY <3>1, <3>2, <3>3
  <2> QED
    BY <2>1, <2>2 DEF Paired
<1>6. Unrepeated(g)
  <2>1. ASSUME NEW i \in DOMAIN g, NEW j \in DOMAIN g,
               g[i].role = "assistant", g[j].role = "assistant", i # j
        PROVE  g[i].calls \cap g[j].calls = {}
    <3>1. i \in 1 .. Len(h) /\ g[i] = h[i] /\ j \in 1 .. Len(h) /\ g[j] = h[j]
      BY <1>a, <2>1
    <3> QED
      BY <1>2, <2>1, <3>1 DEF Sound, Unrepeated
  <2> QED
    BY <2>1 DEF Unrepeated
<1> QED
  BY <1>4, <1>5, <1>6 DEF Sound, g

LEMMA OrphansAreOpen ==
  ASSUME history \in Seq(Message), Sound(history)
  PROVE  /\ Open(history) => Orphans = history[Len(history)].calls
         /\ ~Open(history) => Orphans = {}
<1> DEFINE n == Len(history)
<1>1. n \in Nat /\ DOMAIN history = 1 .. n /\ (history # <<>> => n \in 1 .. n)
  OBVIOUS
(* A call of any turn but the last one is answered.                        *)
<1>2. ASSUME NEW i \in 1 .. n, history[i].role = "assistant", NEW c \in history[i].calls, i < n
      PROVE  c \in Ids("tool")
  <2>1. history[i + 1].role = "tool" /\ history[i].calls \subseteq history[i + 1].calls
    BY <1>1, <1>2 DEF Sound, Paired
  <2>2. i + 1 \in DOMAIN history
    BY <1>1, <1>2
  <2>3. c \in history[i + 1].calls
    BY <1>2, <2>1
  <2> QED
    BY <2>1, <2>2, <2>3, IdsAt
(* An answer answers the turn before it, which is not the last message.    *)
<1>3. ASSUME NEW i \in 1 .. n, history[i].role = "tool", NEW c \in history[i].calls,
             history[n].role = "assistant"
      PROVE  c \notin history[n].calls
  <2>1. i > 1 /\ history[i - 1].role = "assistant" /\ c \in history[i - 1].calls
    BY <1>1, <1>3 DEF Sound, Paired
  <2>2. i - 1 \in DOMAIN history /\ n \in DOMAIN history /\ i - 1 # n
    BY <1>1, <1>3, <2>1
  <2>3. history[i - 1].calls \cap history[n].calls = {}
    BY <1>3, <2>1, <2>2 DEF Sound, Unrepeated
  <2> QED
    BY <2>1, <2>3
<1>4. ASSUME NEW c \in Orphans PROVE Open(history) /\ c \in history[n].calls
  <2>1. PICK i \in DOMAIN history : history[i].role = "assistant" /\ c \in history[i].calls
    BY <1>4, IdsAt DEF Orphans
  <2>2. ~(i < n)
    BY <1>1, <1>2, <1>4, <2>1 DEF Orphans
  <2>3. i = n /\ history # <<>>
    BY <1>1, <2>1, <2>2
  <2> QED
    BY <2>1, <2>3 DEF Open
<1>5. ASSUME Open(history), NEW c \in history[n].calls PROVE c \in Orphans
  <2>1. n \in DOMAIN history /\ history[n].role = "assistant"
    BY <1>1, <1>5 DEF Open
  <2>2. c \in Ids("assistant")
    BY <1>5, <2>1, IdsAt
  <2>3. c \notin Ids("tool")
    <3> SUFFICES ASSUME c \in Ids("tool") PROVE FALSE
      OBVIOUS
    <3>1. PICK i \in DOMAIN history : history[i].role = "tool" /\ c \in history[i].calls
      BY IdsAt
    <3> QED
      BY <1>1, <1>3, <1>5, <2>1, <3>1
  <2> QED
    BY <2>2, <2>3 DEF Orphans
<1> QED
  BY <1>4, <1>5

LEMMA AdmitIsSound ==
  ASSUME history \in Seq(Message), pendingInput \in Nat, Sound(history)
  PROVE  /\ Sound(history \o Repaired \o <<User>> \o Admitted)
         /\ ~Open(history \o Repaired \o <<User>> \o Admitted)
<1>1. Orphans \subseteq Call /\ Repaired \in Seq(Message) /\ history \o Repaired \in Seq(Message)
  BY RepairTyped, ConcatProperties
<1>2. Sound(history \o Repaired) /\ ~Open(history \o Repaired)
  <2>1. CASE Orphans = {}
    <3>1. history \o Repaired = history
      BY <2>1, ConcatEmptySeq DEF Repaired
    <3>2. ~Open(history)
      BY <2>1, OrphansAreOpen DEF Open
    <3> QED
      BY <3>1, <3>2
  <2>2. CASE Orphans # {}
    <3> DEFINE m == [role |-> "tool", calls |-> Orphans]
    <3>1. Open(history) /\ m.calls = history[Len(history)].calls
      BY <2>2, OrphansAreOpen
    <3>2. m \in Message /\ m.role = "tool"
      BY <1>1, SaysTyped
    <3>3. history \o Repaired = Append(history, m)
      BY <2>2, <3>2 DEF Repaired
    <3> HIDE DEF m
    <3>4. Sound(Append(history, m)) /\ ~Open(Append(history, m))
      BY <3>1, <3>2, SoundAppend, OpenAppend
    <3> QED
      BY <3>3, <3>4
  <2> QED
    BY <2>1, <2>2
<1>3. <<User>> \in Seq(Message) /\ \A one : one = <<User>> => \A i \in DOMAIN one : one[i].role = "user"
  BY SaysTyped DEF User
<1>4. Admitted \in Seq(Message) /\ \A i \in DOMAIN Admitted : Admitted[i].role = "staged"
  BY SaysTyped DEF Admitted
<1>5. /\ Sound(history \o Repaired \o <<User>>) /\ ~Open(history \o Repaired \o <<User>>)
      /\ history \o Repaired \o <<User>> \in Seq(Message)
  BY <1>1, <1>2, <1>3, SoundConcat, ConcatProperties
<1> QED
  BY <1>4, <1>5, SoundConcat

(* Only the run in the loop has a turn of the conversation.                *)
LEMMA TurnsQuiet ==
  ASSUME TypeInv, TurnsMatch, NEW r \in Run, NEW p, Goto(r, p), UNCHANGED <<history, checkpoint>>,
         \A q \in Run : q # r => at'[q] = at[q], TurnOf(r)'
  PROVE  TurnsMatch'
<1>1. ASSUME NEW q \in Run, q # r PROVE TurnOf(q)'
  <2>1. pc'[q] = pc[q] /\ at'[q] = at[q]
    BY <1>1 DEF Goto, TypeInv, RunInv, RunTypes
  <2>2. Calls(q)' = Calls(q) /\ Ids("assistant")' = Ids("assistant")
    BY <2>1 DEF Calls, Ids
  <2>3. TurnOf(q)
    BY DEF TurnsMatch
  <2> QED
    BY <2>1, <2>2, <2>3 DEF TurnOf
<1>2. HistoryPaired'
  BY DEF TurnsMatch, HistoryPaired
<1> QED
  BY <1>1, <1>2 DEF TurnsMatch

LEMMA TurnsSaid ==
  ASSUME TypeInv, NEW r \in Run, pc[r] \in InLoop \cup {"begin"}, NEW p, Goto(r, p),
         HistoryPaired', TurnOf(r)'
  PROVE  TurnsMatch'
<1>1. ASSUME NEW q \in Run, q # r PROVE TurnOf(q)'
  <2>1. pc'[q] = pc[q] /\ pc[q] \notin InLoop
    BY <1>1 DEF Goto, TypeInv, RunInv, RunTypes, OneRunAtATime
  <2> QED
    BY <2>1 DEF TurnOf, InLoop, Place, Asking, Answering
<1> QED
  BY <1>1 DEF TurnsMatch

LEMMA RunStepTurns ==
  ASSUME ~Reissues, TypeInv, TurnsMatch, NEW r \in Run, Begin(r) \/ ConsumerLeaves(r) \/ RunStep(r)
  PROVE  TurnsMatch'
<1>t. /\ pc \in [Run -> Place] /\ at \in [Run -> [Call -> CallPlace]]
      /\ history \in Seq(Message) /\ pendingInput \in Nat
      /\ Sound(history) /\ HistoryPaired /\ TurnOf(r)
  BY DEF TypeInv, RunInv, RunTypes, CallsTyped, Recorded, CountsTyped, TurnsMatch, HistoryPaired
<1>d. Calls(r) \in SUBSET Call
  BY CallsAreCalls
<1>z. at' = [at EXCEPT ![r] = Nothing] =>
        Calls(r)' = {} /\ \A q \in Run : q # r => at'[q] = at[q]
  BY <1>t DEF Calls, Nothing
<1>p. \A p : Goto(r, p) => pc'[r] = p
  BY <1>t DEF Goto
(* Out of the loop, or to a place without a turn.                          *)
<1>o. ASSUME NEW p, Goto(r, p), p \notin Asking \cup Answering, UNCHANGED <<history, checkpoint>>,
             at' = at \/ at' = [at EXCEPT ![r] = Nothing]
      PROVE  TurnsMatch'
  <2>1. TurnOf(r)'
    BY <1>o, <1>p DEF TurnOf, Asking, Answering
  <2> QED
    BY <1>o, <1>z, <2>1, TurnsQuiet
(* From one place that asks to another.                                    *)
<1>a. ASSUME NEW p \in Asking \ {"reflecting"}, Goto(r, p), pc[r] \in Asking,
             UNCHANGED <<history, checkpoint, at>>
      PROVE  TurnsMatch'
  <2>1. TurnOf(r)'
    BY <1>a, <1>p, <1>t DEF TurnOf, Asking, Answering
  <2> QED
    BY <1>a, <2>1, TurnsQuiet
(* From one place that answers to another.                                 *)
<1>w. ASSUME NEW p \in Answering, Goto(r, p), pc[r] \in Answering,
             p \in {"tools", "report"} => Calls(r) # {}, UNCHANGED <<history, checkpoint, at>>
      PROVE  TurnsMatch'
  <2>0. Calls(r)' = Calls(r)
    BY <1>w DEF Calls
  <2>1. TurnOf(r)'
    BY <1>w, <1>p, <1>t, <2>0 DEF TurnOf, Asking, Answering
  <2> QED
    BY <1>w, <2>1, TurnsQuiet
(* A turn is opened, or an open one answered.                              *)
<1>s. ASSUME NEW C \in SUBSET Call, history' = Append(history, Assistant(C)), UNCHANGED checkpoint,
             Goto(r, "replied"), pc[r] \in Asking, C \cap Ids("assistant") = {},
             Calls(r)' \in {C, {}}
      PROVE  TurnsMatch'
  <2>1. Assistant(C) \in Message /\ Assistant(C).role = "assistant" /\ Assistant(C).calls = C
    BY SaysTyped DEF Assistant
  <2>2. ~Open(history)
    BY <1>s, <1>t DEF TurnOf
  <2>3. \A i \in DOMAIN history : history[i].role = "assistant" => history[i].calls \cap C = {}
    BY <1>s, IdsAt
  <2>4. Sound(history')
    BY <1>s, <1>t, <2>1, <2>2, <2>3, SoundAppend
  <2>5. HistoryPaired'
    BY <1>s, <1>t, <2>4 DEF HistoryPaired
  <2>6. C # {} => Open(history') /\ history'[Len(history')].calls = C
    BY <1>s, <1>t, <2>1, OpenAppend, AppendAt
  <2>7. TurnOf(r)'
    BY <1>s, <1>p, <2>6 DEF TurnOf, Asking, Answering
  <2> QED
    BY <1>s, <2>5, <2>7, TurnsSaid DEF Asking, InLoop, Place
<1>n. ASSUME NextStep(r), UNCHANGED checkpoint, pc[r] \in {"tools", "report"}
      PROVE  TurnsMatch'
  <2> DEFINE m == [role |-> "tool", calls |-> Calls(r)]
  <2>1. m \in Message /\ m.role = "tool" /\ m.calls = Calls(r)
    BY <1>d, SaysTyped
  <2>2. history' = Append(history, m) /\ at' = [at EXCEPT ![r] = Nothing]
    BY <1>n DEF NextStep
  <2>3. Open(history) /\ history[Len(history)].calls = Calls(r)
    BY <1>n, <1>t DEF TurnOf, Answering
  <2> HIDE DEF m
  <2>4. Sound(history') /\ ~Open(history')
    BY <1>t, <2>1, <2>2, <2>3, SoundAppend, OpenAppend
  <2>5. HistoryPaired'
    BY <1>n, <1>t, <2>4 DEF HistoryPaired
  <2>6. PICK p \in {"top", "settling"} : Goto(r, p)
    BY <1>n DEF NextStep, Ends
  <2>7. TurnOf(r)'
    BY <1>p, <2>4, <2>6 DEF TurnOf, Asking, Answering
  <2> QED
    BY <1>n, <2>5, <2>6, <2>7, TurnsSaid DEF InLoop, Place
<1>1. CASE Begin(r)
  <2>1. PICK p \in {"begin", "over"} : Goto(r, p)
    BY <1>1 DEF Begin, Goto
  <2> QED
    BY <1>1, <1>o, <2>1 DEF Begin, gate, tooling, Asking, Answering
<1>2. CASE ConsumerLeaves(r)
  BY <1>2, <1>o DEF ConsumerLeaves, Ends, gate, Asking, Answering
<1>3. CASE Admit(r)
  <2>1. /\ history' = history \o Repaired \o <<User>> \o Admitted
        /\ pc[r] = "begin" /\ Goto(r, "top") /\ UNCHANGED checkpoint
    BY <1>3 DEF Admit, gate
  <2>2. Sound(history') /\ ~Open(history')
    BY <1>t, <2>1, AdmitIsSound
  <2>3. HistoryPaired'
    BY <1>t, <2>1, <2>2 DEF HistoryPaired
  <2>4. TurnOf(r)'
    BY <1>p, <2>1, <2>2 DEF TurnOf, Asking, Answering
  <2> QED
    BY <2>1, <2>3, <2>4, TurnsSaid
<1>4. CASE BeginThrows(r) \/ Settled(r) \/ ModelFails(r) \/ ToolsFail(r) \/ StepThrows(r)
  BY <1>4, <1>o DEF BeginThrows, Settled, ModelFails, ToolsFail, StepThrows, gate, tooling,
                    Asking, Answering
<1>5. CASE ErrorRecorded(r)
  BY <1>5, <1>o DEF ErrorRecorded, Ends, gate, tooling, Asking, Answering
<1>6. CASE LoopTop(r)
  <2>1. CASE Ends(r, "stopped")
    BY <1>6, <1>o, <2>1 DEF LoopTop, Ends, gate, tooling, Asking, Answering
  <2>2. CASE Goto(r, IF r \in Streamed THEN "offer" ELSE "starting")
    BY <1>6, <1>a, <2>2 DEF LoopTop, gate, tooling, Asking
  <2> QED
    BY <1>6, <2>1, <2>2 DEF LoopTop
<1>7. CASE Resumed(r)
  BY <1>7, <1>a DEF Resumed, gate, tooling, Asking
<1>8. CASE StepStarts(r)
  <2>1. CASE Ends(r, "guardrail")
    BY <1>8, <1>o, <2>1 DEF StepStarts, Ends, gate, tooling, Asking, Answering
  <2>2. CASE Goto(r, "model")
    BY <1>8, <1>a, <2>2 DEF StepStarts, gate, tooling, Asking
  <2> QED
    BY <1>8, <2>1, <2>2 DEF StepStarts
<1>9. CASE Reflected(r)
  <2>1. UNCHANGED checkpoint /\ pc[r] = "reflecting" /\ pc[r] \in Asking /\ pc[r] \in InLoop
    BY <1>9 DEF Reflected, gate, Asking, InLoop, Place
  <2>2. CASE history' = Append(history, User) /\ Goto(r, "top") /\ at' = [at EXCEPT ![r] = Nothing]
    <3>1. User \in Message /\ User.role = "user"
      BY SaysTyped DEF User
    <3>2. ~Open(history)
      BY <1>t, <2>1 DEF TurnOf
    <3>3. Sound(history') /\ ~Open(history')
      BY <1>t, <2>2, <3>1, <3>2, SoundAppend, OpenAppend
    <3>4. HistoryPaired'
      BY <1>t, <2>1, <3>3 DEF HistoryPaired
    <3>5. TurnOf(r)'
      BY <1>p, <2>2, <3>3 DEF TurnOf, Asking, Answering
    <3> QED
      BY <2>1, <2>2, <3>4, <3>5, TurnsSaid
  <2>3. CASE Goto(r, "failing") /\ UNCHANGED history /\ at' = [at EXCEPT ![r] = Nothing]
    BY <1>o, <2>1, <2>3 DEF Asking, Answering
  <2>4. CASE Replies(r, Calls(r), FALSE) /\ Goto(r, "replied")
    <3>1. history' = Append(history, Assistant(Calls(r))) /\ at' = [at EXCEPT ![r] = Nothing]
      BY <2>4 DEF Replies, Nothing
    <3>2. Calls(r) \cap Ids("assistant") = {}
      BY <1>t, <2>1 DEF TurnOf
    <3> QED
      BY <1>d, <1>s, <1>z, <2>1, <2>4, <3>1, <3>2
  <2> QED
    BY <1>9, <2>2, <2>3, <2>4 DEF Reflected
<1>10. CASE StepCompletes(r)
  <2>1. CASE Ends(r, "guardrail") /\ at' = [at EXCEPT ![r] = Nothing]
    BY <1>10, <1>o, <2>1 DEF StepCompletes, Ends, gate, Asking, Answering
  <2>2. CASE LastStep(r) /\ UNCHANGED at
    BY <1>10, <1>o, <2>2 DEF StepCompletes, LastStep, Ends, gate, Asking, Answering
  <2>3. CASE /\ r \in Streamed \/ Calls(r) # {}
             /\ Goto(r, IF r \in Streamed THEN "announce" ELSE "tools")
             /\ UNCHANGED at
    BY <1>10, <1>w, <2>3 DEF StepCompletes, gate, Answering
  <2> QED
    BY <1>10, <2>1, <2>2, <2>3 DEF StepCompletes
<1>11. CASE Announced(r)
  <2>1. CASE LastStep(r)
    BY <1>11, <1>o, <2>1 DEF Announced, LastStep, Ends, gate, tooling, Asking, Answering
  <2>2. CASE Calls(r) # {} /\ Goto(r, "tools")
    BY <1>11, <1>w, <2>2 DEF Announced, gate, tooling, Answering
  <2> QED
    BY <1>11, <2>1, <2>2 DEF Announced
<1>12. CASE ToolsAnswered(r)
  <2>1. CASE r \notin Streamed
    BY <1>12, <1>n, <2>1 DEF ToolsAnswered, gate
  <2>2. CASE r \in Streamed
    <3>1. Calls(r) # {}
      BY <1>12, <1>t DEF ToolsAnswered, TurnOf
    <3> QED
      BY <1>12, <1>w, <2>2, <3>1 DEF ToolsAnswered, gate, tooling, Answering
  <2> QED
    BY <2>1, <2>2
<1>13. CASE Reported(r)
  BY <1>13, <1>n DEF Reported, gate
<1>14. ASSUME NEW C \in SUBSET Call, ModelReplies(r, C) PROVE TurnsMatch'
  <2>1. PICK usable : Replies(r, C, usable)
    BY <1>14 DEF ModelReplies
  <2>2. /\ C \cap Ids("assistant") = {} /\ Goto(r, "replied") /\ pc[r] \in Asking
        /\ UNCHANGED checkpoint /\ history' = Append(history, Assistant(C))
    BY <1>14, <2>1 DEF ModelReplies, Replies, gate, Asking
  <2>3. at'[r] = [c \in Call |-> IF c \in C /\ usable THEN "asked" ELSE "none"]
    BY <1>t, <2>1 DEF Replies
  <2>4. Calls(r)' \in {C, {}}
    <3>1. Calls(r)' = {c \in Call : c \in C /\ usable}
      BY <2>3 DEF Calls
    <3> QED
      BY <3>1
  <2> QED
    BY <1>s, <2>2, <2>4
<1>15. ASSUME NEW C \in SUBSET Call, ModelFumbles(r, C) PROVE TurnsMatch'
  <2>1. /\ C \cap Ids("assistant") = {} /\ Goto(r, "reflecting") /\ pc[r] = "model"
        /\ UNCHANGED <<checkpoint, history>>
        /\ at' = [at EXCEPT ![r] = [c \in Call |-> IF c \in C THEN "fumbled" ELSE "none"]]
    BY <1>15 DEF ModelFumbles, gate
  <2>2. Calls(r)' = C /\ \A q \in Run : q # r => at'[q] = at[q]
    BY <1>t, <2>1 DEF Calls
  <2>3. ~Open(history) /\ Ids("assistant")' = Ids("assistant")
    BY <1>t, <2>1 DEF TurnOf, Asking, Ids
  <2>4. TurnOf(r)'
    BY <1>p, <2>1, <2>2, <2>3 DEF TurnOf, Asking, Answering
  <2> QED
    BY <2>1, <2>2, <2>4, TurnsQuiet
<1> QED
  BY <1>1, <1>2, <1>3, <1>4, <1>5, <1>6, <1>7, <1>8, <1>9, <1>10, <1>11, <1>12, <1>13, <1>14,
     <1>15 DEF RunStep

LEMMA NextTurnsMatch ==
  ASSUME ~Reissues
  PROVE  TypeInv /\ TurnsMatch /\ [Next]_vars => TurnsMatch'
<1> SUFFICES ASSUME TypeInv, TurnsMatch, [Next]_vars PROVE TurnsMatch'
  OBVIOUS
<1>t. at \in [Run -> [Call -> CallPlace]]
  BY DEF TypeInv, CallsTyped
<1>1. ASSUME UNCHANGED <<pc, history>>, checkpoint' \in {checkpoint, Snapshot},
             \A q \in Run : Calls(q)' = Calls(q)
      PROVE  TurnsMatch'
  <2>1. Ids("assistant")' = Ids("assistant")
    BY <1>1 DEF Ids
  <2>2. HistoryPaired'
    BY <1>1 DEF TurnsMatch, HistoryPaired, Snapshot
  <2>3. ASSUME NEW q \in Run PROVE TurnOf(q)'
    <3>1. TurnOf(q)
      BY DEF TurnsMatch
    <3> QED
      BY <1>1, <2>1, <3>1 DEF TurnOf
  <2> QED
    BY <2>2, <2>3 DEF TurnsMatch
<1>2. CASE UNCHANGED vars
  BY <1>1, <1>2 DEF vars, frame, tooling, gate, Calls
<1>3. CASE Stop \/ AddInput \/ ClearPendingInput
  BY <1>1, <1>3 DEF Stop, AddInput, ClearPendingInput, frame, tooling, gate, Calls
<1>4. ASSUME NEW r \in Run, NEW c \in Call, CallStep(r, c) PROVE TurnsMatch'
  <2>1. UNCHANGED <<pc, history>>
    BY <1>4 DEF CallStep, AnsweredUnrun, CallThrows, RequestApproval, Suspend, Decide,
                Execute, ToolEnds, ToolFrame, frame
  <2>2. checkpoint' \in {checkpoint, Snapshot}
    BY <1>4 DEF CallStep, AnsweredUnrun, CallThrows, RequestApproval, Suspend, Decide,
                Execute, ToolEnds, gate
  <2>3. at[r][c] # "none"
    BY <1>4 DEF CallStep, AnsweredUnrun, CallThrows, RequestApproval, Suspend, Decide,
                Execute, ToolEnds, Dispatched
  <2>4. PICK to : to # "none" /\ at' = [at EXCEPT ![r][c] = to]
    BY <1>4 DEF CallStep, AnsweredUnrun, CallThrows, RequestApproval, Suspend, Decide,
                Execute, ToolEnds, Moves, Resolved
  <2>5. \A q \in Run : Calls(q)' = Calls(q)
    BY <1>t, <2>3, <2>4 DEF Calls
  <2> QED
    BY <1>1, <2>1, <2>2, <2>5
<1>5. ASSUME NEW c \in Call, NEW ok \in BOOLEAN, ResumeWithApproval(c, ok) PROVE TurnsMatch'
  BY <1>1, <1>5 DEF ResumeWithApproval, frame, tooling, Calls
<1>6. CASE Crash
  <2>1. \A q \in Run : pc'[q] \in {"idle", "over"}
    BY <1>6 DEF Crash
  <2>2. \A q \in Run : TurnOf(q)'
    BY <2>1 DEF TurnOf, Asking, Answering
  <2>3. Sound(<<>>)
    BY DEF Sound, Paired, Unrepeated
  <2>4. HistoryPaired'
    BY <1>6, <2>3 DEF Crash, TurnsMatch, HistoryPaired
  <2> QED
    BY <2>2, <2>4 DEF TurnsMatch
<1> QED
  BY <1>2, <1>3, <1>4, <1>5, <1>6, RunStepTurns DEF Next

LEMMA InitTurnsMatch == Init => TurnsMatch
<1> SUFFICES ASSUME Init PROVE TurnsMatch
  OBVIOUS
<1>1. HistoryPaired
  BY DEF Init, HistoryPaired, Sound, Paired, Unrepeated, NoSnapshot
<1>2. \A r \in Run : TurnOf(r)
  BY DEF Init, TurnOf, Asking, Answering
<1> QED
  BY <1>1, <1>2 DEF TurnsMatch

LEMMA TurnsAreSendable == TypeInv /\ TurnsMatch => HistoryIsSendable
<1> SUFFICES ASSUME TypeInv, TurnsMatch, NEW r \in Run, pc[r] = "model"
             PROVE  HistoryIsSendable
  BY DEF HistoryIsSendable
<1>1. ~Open(history) /\ Paired(history) /\ history \in Seq(Message)
  BY DEF TypeInv, Recorded, TurnsMatch, HistoryPaired, Sound, TurnOf, Asking
<1>2. \A i \in DOMAIN history : i \in 1 .. Len(history) /\ (i < Len(history) \/ i = Len(history))
  BY <1>1
<1>3. ASSUME NEW i \in DOMAIN history, history[i].role = "assistant", history[i].calls # {}
      PROVE  i < Len(history)
  BY <1>1, <1>2, <1>3 DEF Open
<1> QED
  BY <1>1, <1>3 DEF HistoryIsSendable, Paired

-----------------------------------------------------------------------------
(* Calls that wait for a human.                                            *)

Said == CallPlace \ {"none", "fumbled"}

(* A call under way was said in the conversation, by one run only.         *)
CallsAreSaid ==
  \A r \in Run, c \in Call : at[r][c] \in Said => c \in Ids("assistant")
OneOwner ==
  \A q, r \in Run, c \in Call : at[q][c] \in Said /\ at[r][c] \in Said => q = r

(* A call waits only in a run that reached its tools.                      *)
WaitsAfterTools ==
  \A r \in Run, c \in Call :
    at[r][c] \in Suspended => pc[r] \in {"tools", "failing", "settling", "over"}

WaitingInv == CallsAreSaid /\ OneOwner /\ WaitsAfterTools /\ SuspendedIsListed

LEMMA IdsAtNext ==
  ASSUME NEW role, NEW c
  PROVE  c \in Ids(role)' <=> \E i \in DOMAIN history' : history'[i].role = role /\ c \in history'[i].calls
  BY DEF Ids, ToSet

LEMMA IdsGrow ==
  ASSUME TypeInv, NEW s \in Seq(Message), history' = history \o s
  PROVE  Ids("assistant") \subseteq Ids("assistant")'
<1>1. history \in Seq(Message)
  BY DEF TypeInv, Recorded
<1>2. /\ history' \in Seq(Message) /\ Len(history') = Len(history) + Len(s)
      /\ \A i \in 1 .. Len(history) + Len(s) :
           history'[i] = IF i <= Len(history) THEN history[i] ELSE s[i - Len(history)]
  BY <1>1, ConcatProperties
<1>3. /\ DOMAIN history = 1 .. Len(history) /\ Len(history) \in Nat /\ Len(s) \in Nat
      /\ DOMAIN history' = 1 .. Len(history) + Len(s)
  BY <1>1, <1>2
<1>4. \A i \in DOMAIN history : i \in DOMAIN history' /\ history'[i] = history[i]
  BY <1>2, <1>3
<1> QED
  BY <1>4, IdsAt, IdsAtNext

LEMMA IdsGrowByOne ==
  ASSUME TypeInv, NEW m \in Message, history' = Append(history, m)
  PROVE  /\ Ids("assistant") \subseteq Ids("assistant")'
         /\ m.role = "assistant" => m.calls \subseteq Ids("assistant")'
<1>1. history \in Seq(Message)
  BY DEF TypeInv, Recorded
<1>2. history' = history \o <<m>> /\ <<m>> \in Seq(Message)
  BY <1>1, AppendIsConcat
<1>3. Len(history) + 1 \in DOMAIN history' /\ history'[Len(history) + 1] = m
  BY <1>1, AppendAt
<1> QED
  BY <1>2, <1>3, IdsGrow, IdsAtNext

LEMMA RunStepIds ==
  ASSUME TypeInv, NEW r \in Run, Begin(r) \/ ConsumerLeaves(r) \/ RunStep(r)
  PROVE  Ids("assistant") \subseteq Ids("assistant")'
<1>1. CASE Admit(r)
  <2>1. history \in Seq(Message) /\ pendingInput \in Nat
    BY DEF TypeInv, Recorded, CountsTyped
  <2>2. /\ Repaired \in Seq(Message) /\ <<User>> \in Seq(Message) /\ Admitted \in Seq(Message)
        /\ Repaired \o <<User>> \in Seq(Message) /\ Repaired \o <<User>> \o Admitted \in Seq(Message)
    BY <2>1, RepairTyped, SaysTyped, ConcatProperties
  <2>3. history' = history \o Repaired \o <<User>> \o Admitted
    BY <1>1 DEF Admit
  <2>4. history \o Repaired \o <<User>> = history \o (Repaired \o <<User>>)
    BY <2>1, <2>2, ConcatAssociative
  <2>5. (history \o (Repaired \o <<User>>)) \o Admitted = history \o ((Repaired \o <<User>>) \o Admitted)
    BY <2>1, <2>2, ConcatAssociative
  <2>6. history' = history \o (Repaired \o <<User>> \o Admitted)
    BY <2>3, <2>4, <2>5
  <2> QED
    BY <2>2, <2>6, IdsGrow
<1>2. CASE ~Admit(r)
  <2>1. CASE history' = history
    BY <2>1 DEF Ids
  <2>2. CASE history' # history
    BY <1>2, <2>2, RunStepSays, IdsGrowByOne
  <2> QED
    BY <2>1, <2>2
<1> QED
  BY <1>1, <1>2

(* A run moves and has no call waiting it did not have before.             *)
LEMMA WaitingKept ==
  ASSUME TypeInv, WaitingInv, NEW r \in Run, NEW p, Goto(r, p), UNCHANGED pending,
         Ids("assistant") \subseteq Ids("assistant")',
         \A q \in Run : q # r => at'[q] = at[q] /\ asked'[q] = asked[q],
         \A c \in Call : at'[r][c] \in Said => at'[r][c] = at[r][c] /\ asked'[r][c] = asked[r][c],
         \A c \in Call : at'[r][c] \in Suspended => p \in {"failing", "settling", "over"}
  PROVE  WaitingInv'
<1>1. pc'[r] = p /\ \A q \in Run : q # r => pc'[q] = pc[q]
  BY DEF Goto, TypeInv, RunInv, RunTypes
<1>2. \A q \in Run, c \in Call : at'[q][c] \in Said => at'[q][c] = at[q][c] /\ asked'[q][c] = asked[q][c]
  OBVIOUS
<1>3. Suspended \subseteq Said
  BY DEF Suspended, Said, CallPlace
<1>s. Said' = Said /\ Suspended' = Suspended
  BY DEF Said, Suspended, CallPlace
<1>4. CallsAreSaid'
  BY <1>2, <1>s DEF WaitingInv, CallsAreSaid
<1>5. OneOwner'
  BY <1>2, <1>s DEF WaitingInv, OneOwner
<1>6. WaitsAfterTools'
  <2>1. ASSUME NEW q \in Run, NEW c \in Call, at'[q][c] \in Suspended
        PROVE  pc'[q] \in {"tools", "failing", "settling", "over"}
    <3>1. CASE q = r
      BY <1>1, <2>1, <3>1
    <3>2. CASE q # r
      BY <1>1, <2>1, <3>2 DEF WaitingInv, WaitsAfterTools
    <3> QED
      BY <3>1, <3>2
  <2> QED
    BY <1>s, <2>1 DEF WaitsAfterTools
<1>7. SuspendedIsListed'
  <2>1. ASSUME NEW q \in Run, NEW c \in Call, pc'[q] = "tools", at'[q][c] \in Suspended
        PROVE  <<c, asked'[q][c]>> \in pending
    <3>1. q # r
      BY <1>1, <2>1
    <3> QED
      BY <1>1, <2>1, <3>1 DEF WaitingInv, SuspendedIsListed
  <2> QED
    BY <1>s, <2>1 DEF SuspendedIsListed
<1> QED
  BY <1>4, <1>5, <1>6, <1>7 DEF WaitingInv

LEMMA RunStepWaits ==
  ASSUME ~Reissues, TypeInv, WaitingInv, NEW r \in Run,
         Begin(r) \/ ConsumerLeaves(r) \/ RunStep(r)
  PROVE  WaitingInv'
<1>t. at \in [Run -> [Call -> CallPlace]] /\ asked \in [Run -> [Call -> Args]] /\ history \in Seq(Message)
  BY DEF TypeInv, CallsTyped, Recorded
<1>i. Ids("assistant") \subseteq Ids("assistant")'
  BY RunStepIds
<1>n. \A c \in Call : Nothing[c] \notin Said
  BY DEF Nothing, Said
<1>x. Suspended \subseteq Said
  BY DEF Suspended, Said, CallPlace
(* The calls are dropped.                                                  *)
<1>d. ASSUME NEW p, Goto(r, p), at' = [at EXCEPT ![r] = Nothing], UNCHANGED pending,
             \A q \in Run : q # r => asked'[q] = asked[q]
      PROVE  WaitingInv'
  <2>1. at'[r] = Nothing /\ \A q \in Run : q # r => at'[q] = at[q]
    BY <1>d, <1>t
  <2> QED
    BY <1>d, <1>i, <1>n, <1>x, <2>1, WaitingKept
(* They are kept, and the run was not at its tools or goes where calls may *)
(* still wait.                                                             *)
<1>k. ASSUME NEW p, Goto(r, p), UNCHANGED <<at, asked, pending>>,
             \/ pc[r] \notin {"tools", "failing", "settling", "over"}
             \/ p \in {"failing", "settling", "over"}
             \/ \A c \in Call : at[r][c] \notin Suspended
      PROVE  WaitingInv'
  <2>1. \A c \in Call : at'[r][c] \in Suspended => p \in {"failing", "settling", "over"}
    BY <1>k DEF WaitingInv, WaitsAfterTools
  <2> QED
    BY <1>i, <1>k, <2>1, WaitingKept
<1>e. ASSUME NextStep(r), UNCHANGED pending PROVE WaitingInv'
  <2>1. /\ at' = [at EXCEPT ![r] = Nothing] /\ \E p : Goto(r, p)
        /\ \A q \in Run : q # r => asked'[q] = asked[q]
    BY <1>e, <1>t DEF NextStep, Ends
  <2> QED
    BY <1>d, <1>e, <2>1
<1>1. CASE Begin(r)
  <2>1. \E p : Goto(r, p)
    BY <1>1 DEF Begin, Goto
  <2> QED
    BY <1>1, <1>k, <2>1 DEF Begin, gate, tooling
<1>2. CASE ConsumerLeaves(r)
  BY <1>2, <1>d DEF ConsumerLeaves, Ends, gate
<1>3. CASE Admit(r) \/ BeginThrows(r) \/ Resumed(r) \/ Settled(r) \/ ModelFails(r) \/ ToolsFail(r)
  BY <1>3, <1>k DEF Admit, BeginThrows, Resumed, Settled, ModelFails, ToolsFail, gate, tooling
<1>4. CASE ErrorRecorded(r)
  BY <1>4, <1>k DEF ErrorRecorded, Ends, gate, tooling
<1>5. CASE LoopTop(r) \/ StepStarts(r)
  BY <1>5, <1>k DEF LoopTop, StepStarts, Ends, gate, tooling
<1>6. CASE StepThrows(r)
  BY <1>6, <1>d DEF StepThrows, gate
<1>7. CASE Announced(r)
  BY <1>7, <1>k DEF Announced, LastStep, Ends, gate, tooling
<1>8. CASE StepCompletes(r)
  <2>1. CASE Ends(r, "guardrail") /\ at' = [at EXCEPT ![r] = Nothing]
    BY <1>8, <1>d, <2>1 DEF StepCompletes, Ends, gate
  <2>2. CASE UNCHANGED at
    <3>1. \E p : Goto(r, p)
      BY <1>8 DEF StepCompletes, LastStep, Ends
    <3> QED
      BY <1>8, <1>k, <2>2, <3>1 DEF StepCompletes, gate
  <2> QED
    BY <1>8, <2>1, <2>2 DEF StepCompletes
<1>9. CASE Reflected(r)
  <2>1. at' = [at EXCEPT ![r] = Nothing] /\ (\E p : Goto(r, p)) /\ UNCHANGED <<asked, pending>>
    BY <1>9 DEF Reflected, Replies, Nothing, gate
  <2> QED
    BY <1>d, <2>1
<1>10. CASE ToolsAnswered(r)
  <2>1. CASE r \notin Streamed
    BY <1>10, <1>e, <2>1 DEF ToolsAnswered, gate
  <2>2. CASE r \in Streamed
    <3>1. \A c \in Call : at[r][c] \notin Suspended
      BY <1>10 DEF ToolsAnswered, Calls, Suspended
    <3> QED
      BY <1>10, <1>k, <2>2, <3>1 DEF ToolsAnswered, gate, tooling
  <2> QED
    BY <2>1, <2>2
<1>11. CASE Reported(r)
  BY <1>11, <1>e DEF Reported, gate
<1>12. ASSUME NEW C \in SUBSET Call, ModelFumbles(r, C) PROVE WaitingInv'
  <2>1. /\ Goto(r, "reflecting") /\ UNCHANGED <<asked, pending>>
        /\ at' = [at EXCEPT ![r] = [c \in Call |-> IF c \in C THEN "fumbled" ELSE "none"]]
    BY <1>12 DEF ModelFumbles, gate
  <2>2. /\ \A c \in Call : at'[r][c] \in {"fumbled", "none"}
        /\ \A q \in Run : q # r => at'[q] = at[q]
    BY <1>t, <2>1
  <2>3. \A c \in Call : at'[r][c] \notin Said
    BY <2>2 DEF Said
  <2> QED
    BY <1>i, <1>x, <2>1, <2>2, <2>3, WaitingKept
<1>13. ASSUME NEW C \in SUBSET Call, ModelReplies(r, C) PROVE WaitingInv'
  <2>1. PICK usable : Replies(r, C, usable)
    BY <1>13 DEF ModelReplies
  <2>2. /\ C \cap Ids("assistant") = {} /\ Goto(r, "replied") /\ UNCHANGED pending
        /\ \A q \in Run : q # r => asked'[q] = asked[q]
    BY <1>13, <1>t DEF ModelReplies, gate
  <2>3. /\ \A c \in Call : at'[r][c] = IF c \in C /\ usable THEN "asked" ELSE "none"
        /\ \A q \in Run : q # r => at'[q] = at[q]
    BY <1>t, <2>1 DEF Replies
  <2>4. C \subseteq Ids("assistant")'
    <3>1. Assistant(C) \in Message /\ Assistant(C).role = "assistant" /\ Assistant(C).calls = C
      BY SaysTyped DEF Assistant
    <3> QED
      BY <2>1, <3>1, IdsGrowByOne DEF Replies
  <2>5. pc'[r] = "replied" /\ \A q \in Run : q # r => pc'[q] = pc[q]
    BY <2>2 DEF Goto, TypeInv, RunInv, RunTypes
  <2>6. \A c \in Call : at'[r][c] \in Said => c \in C
    BY <2>3 DEF Said
  <2>7. \A c \in Call : at'[r][c] \notin Suspended
    BY <2>3 DEF Suspended
  <2>8. CallsAreSaid'
    <3>1. ASSUME NEW q \in Run, NEW c \in Call, at'[q][c] \in Said PROVE c \in Ids("assistant")'
      BY <1>i, <2>3, <2>4, <2>6, <3>1 DEF WaitingInv, CallsAreSaid
    <3> QED
      BY <3>1 DEF CallsAreSaid, Said
  <2>9. OneOwner'
    <3>1. ASSUME NEW q \in Run, NEW o \in Run, NEW c \in Call,
                 at'[q][c] \in Said, at'[o][c] \in Said
          PROVE  q = o
      <4>1. CASE q # r /\ o # r
        BY <2>3, <3>1, <4>1 DEF WaitingInv, OneOwner
      <4>2. ASSUME NEW s \in Run, s # r, at'[s][c] \in Said PROVE c \notin C
        BY <2>2, <2>3, <4>2 DEF WaitingInv, CallsAreSaid
      <4>3. CASE q = r \/ o = r
        BY <2>6, <3>1, <4>2, <4>3
      <4> QED
        BY <4>1, <4>3
    <3> QED
      BY <3>1 DEF OneOwner, Said
  <2>10. WaitsAfterTools' /\ SuspendedIsListed'
    <3>1. ASSUME NEW q \in Run, NEW c \in Call, at'[q][c] \in Suspended
          PROVE  /\ pc'[q] \in {"tools", "failing", "settling", "over"}
                 /\ pc'[q] = "tools" => <<c, asked'[q][c]>> \in pending'
      <4>1. q # r
        BY <2>7, <3>1
      <4> QED
        BY <2>2, <2>3, <2>5, <3>1, <4>1 DEF WaitingInv, WaitsAfterTools, SuspendedIsListed
    <3> QED
      BY <3>1 DEF WaitsAfterTools, SuspendedIsListed, Suspended
  <2> QED
    BY <2>8, <2>9, <2>10 DEF WaitingInv
<1> QED
  BY <1>1, <1>2, <1>3, <1>4, <1>5, <1>6, <1>7, <1>8, <1>9, <1>10, <1>11, <1>12, <1>13 DEF RunStep

LEMMA CallStepWaits ==
  ASSUME TypeInv, WaitingInv, NEW r \in Run, NEW c \in Call, CallStep(r, c)
  PROVE  WaitingInv'
<1>t. at \in [Run -> [Call -> CallPlace]]
  BY DEF TypeInv, CallsTyped
<1>1. UNCHANGED <<pc, asked, history>>
  BY DEF CallStep, AnsweredUnrun, CallThrows, RequestApproval, Suspend, Decide, Execute, ToolEnds,
         ToolFrame, frame
<1>2. at[r][c] \in Said
  BY DEF CallStep, AnsweredUnrun, CallThrows, RequestApproval, Suspend, Decide, Execute, ToolEnds,
         Dispatched, Said, CallPlace
<1>3. Ids("assistant")' = Ids("assistant")
  BY <1>1 DEF Ids
(* One call moves, to wait only where it may and listed.                   *)
<1>m. ASSUME NEW to, at' = [at EXCEPT ![r][c] = to],
             \A p \in pending : p[1] # c => p \in pending',
             to \in Suspended =>
               /\ pc[r] \in {"tools", "failing", "settling", "over"}
               /\ pc[r] = "tools" => <<c, asked[r][c]>> \in pending'
      PROVE  WaitingInv'
  <2>1. /\ at'[r][c] = to
        /\ \A q \in Run, d \in Call : q # r \/ d # c => at'[q][d] = at[q][d]
    BY <1>m, <1>t
  <2>2. \A q \in Run, d \in Call : at'[q][d] \in Said => at[q][d] \in Said
    BY <1>2, <2>1
  <2>3. CallsAreSaid' /\ OneOwner'
    BY <1>3, <2>2 DEF WaitingInv, CallsAreSaid, OneOwner, Said
  <2>4. ASSUME NEW q \in Run, NEW d \in Call, at'[q][d] \in Suspended
        PROVE  /\ pc[q] \in {"tools", "failing", "settling", "over"}
               /\ pc[q] = "tools" => <<d, asked[q][d]>> \in pending'
    <3>1. CASE q = r /\ d = c
      BY <1>m, <2>1, <2>4, <3>1
    <3>2. CASE q # r \/ d # c
      <4>1. at[q][d] \in Suspended /\ at[q][d] \in Said
        BY <2>1, <2>4, <3>2 DEF Suspended, Said, CallPlace
      <4>2. d # c
        BY <1>2, <3>2, <4>1 DEF WaitingInv, OneOwner
      <4>3. pc[q] = "tools" => <<d, asked[q][d]>> \in pending'
        BY <1>m, <4>1, <4>2 DEF WaitingInv, SuspendedIsListed
      <4> QED
        BY <4>1, <4>3 DEF WaitingInv, WaitsAfterTools
    <3> QED
      BY <3>1, <3>2
  <2>5. WaitsAfterTools' /\ SuspendedIsListed'
    BY <1>1, <2>4 DEF WaitsAfterTools, SuspendedIsListed, Suspended
  <2> QED
    BY <2>3, <2>5 DEF WaitingInv
<1>4. CASE AnsweredUnrun(r, c) \/ CallThrows(r, c) \/ Execute(r, c) \/ ToolEnds(r, c)
  <2>1. PICK to \in {"answered", "thrown", "exec"} : at' = [at EXCEPT ![r][c] = to]
    BY <1>4 DEF AnsweredUnrun, CallThrows, Execute, ToolEnds, Moves
  <2>2. UNCHANGED pending
    BY <1>4 DEF AnsweredUnrun, CallThrows, Execute, ToolEnds, gate
  <2> QED
    BY <1>m, <2>1, <2>2 DEF Suspended
<1>5. CASE RequestApproval(r, c)
  <2>1. at' = [at EXCEPT ![r][c] = "gate"] /\ pending' = pending \cup {<<c, asked[r][c]>>}
    BY <1>5 DEF RequestApproval, Moves
  <2>2. pc[r] \in {"tools", "failing", "settling", "over"}
    BY <1>5 DEF RequestApproval, Dispatched
  <2> QED
    BY <1>m, <2>1, <2>2
<1>6. CASE Decide(r, c)
  <2>1. PICK to \in {"approved", "refused"} : at' = [at EXCEPT ![r][c] = to]
    BY <1>6 DEF Decide, Resolved
  <2>2. pending' = WithoutCall(c)
    BY <1>6 DEF Decide, Resolved
  <2> QED
    BY <1>m, <2>1, <2>2 DEF WithoutCall, Suspended
<1>7. CASE Suspend(r, c)
  <2>1. CASE at' = [at EXCEPT ![r][c] = "deciding"] /\ UNCHANGED pending
    <3>1. at[r][c] \in Suspended
      BY <1>7 DEF Suspend, Suspended
    <3> QED
      BY <1>m, <2>1, <3>1 DEF WaitingInv, WaitsAfterTools, SuspendedIsListed
  <2>2. CASE Resolved(r, c, prefed[c].ok)
    <3>1. PICK to \in {"approved", "refused"} : at' = [at EXCEPT ![r][c] = to]
      BY <2>2 DEF Resolved
    <3> QED
      BY <1>m, <2>2, <3>1 DEF Resolved, WithoutCall, Suspended
  <2>3. CASE at' = [at EXCEPT ![r][c] = "thrown"] /\ UNCHANGED pending
    BY <1>m, <2>3 DEF Suspended
  <2> QED
    BY <1>7, <2>1, <2>2, <2>3 DEF Suspend, Moves
<1> QED
  BY <1>4, <1>5, <1>6, <1>7 DEF CallStep

LEMMA NextWaitingInv ==
  ASSUME ~Reissues
  PROVE  TypeInv /\ WaitingInv /\ [Next]_vars => WaitingInv'
<1> SUFFICES ASSUME TypeInv, WaitingInv, [Next]_vars PROVE WaitingInv'
  OBVIOUS
<1> USE DEF WaitingInv, CallsAreSaid, OneOwner, WaitsAfterTools, SuspendedIsListed, Said, Suspended
<1>1. CASE UNCHANGED vars
  BY <1>1 DEF vars, frame, tooling, gate, Ids
<1>2. CASE Stop \/ AddInput \/ ClearPendingInput
  BY <1>2 DEF Stop, AddInput, ClearPendingInput, frame, tooling, gate, Ids
<1>3. ASSUME NEW c \in Call, NEW ok \in BOOLEAN, ResumeWithApproval(c, ok) PROVE WaitingInv'
  <2>1. UNCHANGED <<pc, at, asked, history>> /\ running = Nobody
    BY <1>3 DEF ResumeWithApproval, frame, tooling
  <2>2. \A q \in Run : pc[q] # "tools"
    BY <2>1, AgentAssumption DEF TypeInv, RunInv, OneRunAtATime, InLoop, Place
  <2> QED
    BY <2>1, <2>2 DEF Ids
<1>4. CASE Crash
  <2>1. \A q \in Run, c \in Call : at'[q][c] = "none"
    BY <1>4 DEF Crash, Nothing
  <2> QED
    BY <2>1
<1> QED
  BY <1>1, <1>2, <1>3, <1>4, RunStepWaits, CallStepWaits DEF Next

LEMMA InitWaitingInv == Init => WaitingInv
  BY DEF Init, WaitingInv, CallsAreSaid, OneOwner, WaitsAfterTools, SuspendedIsListed, Said, Suspended

(* As long as the model uses every id once: a run asks the model only a    *)
(* conversation in which every tool call is followed by its answer, at     *)
(* most MaxSteps * (1 + MaxRetries) times, and every call of it that waits *)
(* for a human is listed; errors, leaving consumers, calls in parallel     *)
(* that outlive their run, and restarts from a checkpoint included.        *)
THEOREM SpecRunsAreSound ==
  ASSUME ~Reissues
  PROVE  Spec => []RunsAreSound
<1> DEFINE Inv == TypeInv /\ SendsLeft /\ TurnsMatch /\ WaitingInv
<1>1. Init => Inv
  BY InitTypeInv, InitSendsLeft, InitTurnsMatch, InitWaitingInv
<1>2. Inv /\ [Next]_vars => Inv'
  BY NextTypeInv, NextSendsLeft, NextTurnsMatch, NextWaitingInv
<1>3. Inv => RunsAreSound
  <2>1. SendsLeft => BoundedSends
    BY DEF SendsLeft, SendsOf, BoundedSends, Extra
  <2> QED
    BY <2>1, TurnsAreSendable DEF RunsAreSound, WaitingInv
<1> HIDE DEF Inv
<1> QED
  BY <1>1, <1>2, <1>3, PTL DEF Spec

=============================================================================
