--------------------------- MODULE AgentLoopProofs ---------------------------
(***************************************************************************)
(* Types and one run at a time for every agent, and, for an agent that     *)
(* executes its calls in sequence, the guarantees of the approval gate.    *)
(***************************************************************************)
EXTENDS AgentLoop, SequenceTheorems, TLAPS

RunTypes ==
  /\ pc \in [Run -> Place] /\ reason \in [Run -> EndReason]
  /\ running \in Run \cup {Nobody}

(* A run whose beginRun threw is over: the agent it leaves busy is not     *)
(* given to it a second time.                                              *)
BeginFailedIsOver == \A r \in Run : reason[r] = "begin_failed" => pc[r] = "over"

RunInv == RunTypes /\ OneRunAtATime /\ BeginFailedIsOver

LEMMA InitRunInv == Init => RunInv
  BY DEF Init, RunInv, RunTypes, OneRunAtATime, BeginFailedIsOver, Place, InLoop, EndReason

(* A run goes on in the loop, or it ends and leaves the agent free.        *)
LEMMA RunMoves ==
  ASSUME RunInv, NEW r \in Run, NEW p \in InLoop, pc[r] \in InLoop, Goto(r, p), UNCHANGED running,
         reason' \in [Run -> EndReason], reason'[r] # "begin_failed", \A q \in Run \ {r} : reason'[q] = reason[q]
  PROVE  RunInv'
<1>1. /\ pc' \in [Run -> Place] /\ pc'[r] = p
      /\ \A q \in Run : q # r => pc'[q] = pc[q]
  BY DEF RunInv, RunTypes, Goto, InLoop
<1>2. RunTypes'
  BY <1>1 DEF RunInv, RunTypes
<1>3. BeginFailedIsOver'
  BY <1>1 DEF RunInv, BeginFailedIsOver
<1>4. running = r
  BY DEF RunInv, OneRunAtATime
<1>5. OneRunAtATime'
  BY <1>1, <1>4 DEF RunInv, RunTypes, OneRunAtATime
<1> QED
  BY <1>2, <1>3, <1>5 DEF RunInv

LEMMA RunGoesOn ==
  ASSUME RunInv, NEW r \in Run, NEW p \in InLoop, pc[r] \in InLoop, Goto(r, p), UNCHANGED <<reason, running>>
  PROVE  RunInv'
<1>1. reason \in [Run -> EndReason] /\ reason[r] # "begin_failed"
  BY DEF RunInv, RunTypes, BeginFailedIsOver, InLoop
<1> QED
  BY <1>1, RunMoves

LEMMA RunEnds ==
  ASSUME RunInv, NEW r \in Run, NEW why \in EndReason \ {"begin_failed"}, pc[r] \in InLoop, Ends(r, why)
  PROVE  RunInv'
<1>1. /\ pc' \in [Run -> Place] /\ pc'[r] = "settling" /\ \A q \in Run : q # r => pc'[q] = pc[q]
      /\ reason' \in [Run -> EndReason] /\ reason'[r] = why /\ \A q \in Run : q # r => reason'[q] = reason[q]
      /\ running' = Nobody
  BY DEF RunInv, RunTypes, Ends, Goto, Place
<1>2. running = r
  BY DEF RunInv, OneRunAtATime
<1>3. RunTypes'
  BY <1>1 DEF RunTypes
<1>4. BeginFailedIsOver'
  BY <1>1 DEF RunInv, BeginFailedIsOver
<1>5. \A q \in Run : pc'[q] \notin InLoop \cup {"begin"}
  BY <1>1, <1>2 DEF RunInv, OneRunAtATime, InLoop
<1>6. OneRunAtATime'
  BY <1>1, <1>5 DEF OneRunAtATime
<1> QED
  BY <1>3, <1>4, <1>6 DEF RunInv

LEMMA NextRunInv == RunInv /\ [Next]_vars => RunInv'
<1> SUFFICES ASSUME RunInv, [Next]_vars PROVE RunInv'
  OBVIOUS
<1>9. ASSUME NEW r \in Run, ToolsAnswered(r) \/ Reported(r) PROVE RunInv'
  <2>1. pc[r] \in {"tools", "report"}
    BY <1>9 DEF ToolsAnswered, Reported
  <2>2. \/ Goto(r, "report") /\ UNCHANGED <<reason, running>>
        \/ Goto(r, "top") /\ UNCHANGED <<reason, running>>
        \/ Ends(r, "max_steps")
    BY <1>9 DEF ToolsAnswered, Reported, NextStep
  <2>3. {"tools", "report", "top"} \subseteq InLoop /\ "max_steps" \in EndReason \ {"begin_failed"}
    BY DEF InLoop, Place, EndReason
  <2> QED
    BY <2>1, <2>2, <2>3, RunGoesOn, RunEnds
<1>10. ASSUME NEW r \in Run, NEW C \in SUBSET Call, ModelReplies(r, C) \/ ModelFumbles(r, C) PROVE RunInv'
  <2>1. pc[r] = "model" /\ UNCHANGED <<reason, running>> /\ (Goto(r, "replied") \/ Goto(r, "reflecting"))
    BY <1>10 DEF ModelReplies, ModelFumbles
  <2>2. {"model", "replied", "reflecting"} \subseteq InLoop
    BY DEF InLoop, Place
  <2> QED
    BY <2>1, <2>2, RunGoesOn
<1>11. ASSUME NEW r \in Run, Reflected(r) PROVE RunInv'
  <2>1. /\ pc[r] = "reflecting" /\ UNCHANGED running
        /\ \/ Goto(r, "top") /\ UNCHANGED reason
           \/ Goto(r, "failing") /\ reason' = [reason EXCEPT ![r] = "exhausted"]
           \/ Goto(r, "replied") /\ UNCHANGED reason
    BY <1>11 DEF Reflected
  <2>2. {"reflecting", "top", "failing", "replied"} \subseteq InLoop /\ "exhausted" \in EndReason
    BY DEF InLoop, Place, EndReason
  <2>3. CASE Goto(r, "failing") /\ reason' = [reason EXCEPT ![r] = "exhausted"]
    <3>1. /\ reason' \in [Run -> EndReason] /\ reason'[r] # "begin_failed"
          /\ \A q \in Run \ {r} : reason'[q] = reason[q]
      BY <2>2, <2>3 DEF RunInv, RunTypes
    <3> QED
      BY <2>1, <2>2, <2>3, <3>1, RunMoves
  <2> QED
    BY <2>1, <2>2, <2>3, RunGoesOn
<1> USE AgentAssumption DEF RunInv, RunTypes, OneRunAtATime, BeginFailedIsOver, Place,
    InLoop, EndReason
<1>1. CASE UNCHANGED vars
  BY <1>1 DEF vars, frame
<1>2. ASSUME NEW r \in Run, Begin(r) PROVE RunInv'
  <2>1. CASE running = Nobody
    BY <1>2, <2>1 DEF Begin
  <2>2. CASE running # Nobody
    BY <1>2, <2>2 DEF Begin
  <2> QED
    BY <2>1, <2>2
<1>3. ASSUME NEW r \in Run, ConsumerLeaves(r) PROVE RunInv'
  BY <1>3 DEF ConsumerLeaves, Ends, Goto
<1>4. ASSUME NEW r \in Run, RunStep(r) PROVE RunInv'
  <2>1. CASE Admit(r)
    BY <2>1 DEF Admit, Goto
  <2>2. CASE BeginThrows(r)
    BY <2>2 DEF BeginThrows, Goto
  <2>3. CASE LoopTop(r)
    BY <2>3 DEF LoopTop, Ends, Goto
  <2>4. CASE Resumed(r)
    BY <2>4 DEF Resumed, Goto
  <2>5. CASE StepStarts(r)
    BY <2>5 DEF StepStarts, Ends, Goto
  <2>6. CASE StepThrows(r)
    BY <2>6 DEF StepThrows, Goto
  <2>7. CASE ModelFails(r)
    BY <2>7 DEF ModelFails, Goto
  <2>8. CASE StepCompletes(r)
    BY <2>8 DEF StepCompletes, LastStep, Ends, Goto
  <2>9. CASE Announced(r)
    BY <2>9 DEF Announced, LastStep, Ends, Goto
  <2>10. CASE ToolsFail(r)
    BY <2>10 DEF ToolsFail, Goto
  <2>11. CASE ErrorRecorded(r)
    BY <2>11 DEF ErrorRecorded, Ends, Goto
  <2>12. CASE Settled(r)
    BY <2>12 DEF Settled, Goto
  <2> QED
    BY <1>4, <1>9, <1>10, <1>11, <2>1, <2>2, <2>3, <2>4, <2>5, <2>6, <2>7, <2>8, <2>9, <2>10,
       <2>11, <2>12 DEF RunStep
<1>5. ASSUME NEW r \in Run, NEW c \in Call, CallStep(r, c) PROVE RunInv'
  BY <1>5 DEF CallStep, AnsweredUnrun, CallThrows, RequestApproval, Suspend, Decide,
              Execute, ToolEnds, ToolFrame, frame
<1>6. ASSUME NEW c \in Call, NEW ok \in BOOLEAN, ResumeWithApproval(c, ok) PROVE RunInv'
  BY <1>6 DEF ResumeWithApproval, frame
<1>7. CASE Stop \/ AddInput \/ ClearPendingInput
  BY <1>7 DEF Stop, AddInput, ClearPendingInput, frame
<1>8. CASE Crash
  BY <1>8 DEF Crash
<1> QED
  BY <1>1, <1>2, <1>3, <1>4, <1>5, <1>6, <1>7, <1>8 DEF Next

(* One run at a time: whatever ends a run, errors and a consumer that      *)
(* leaves included, frees the agent, and no second run enters the loop.    *)
THEOREM SpecOneRunAtATime == Spec => []OneRunAtATime
<1>1. RunInv => OneRunAtATime
  BY DEF RunInv
<1> QED
  BY <1>1, InitRunInv, NextRunInv, PTL DEF Spec

-----------------------------------------------------------------------------
(* The approval gate of an agent that executes its calls in sequence.      *)

GateTypes ==
  /\ at \in [Run -> [Call -> CallPlace]] /\ asked \in [Run -> [Call -> Args]]
  /\ pending \subseteq Call \X Gated
  /\ prefed \in [Call -> [by : {"human"}, args : Gated, ok : BOOLEAN] \cup {NoFeed}]
  /\ checkpoint.saved => checkpoint.pending \subseteq Call \X Gated

Begun == Busy \cup {"thrown"}

(* A call is under way only in a run that waits for its tools, and alone.  *)
OnlyInTools ==
  \A r \in Run, c \in Call : at[r][c] \in Busy => pc[r] = "tools"
OneCallAtATime ==
  \A r \in Run, c, d \in Call : at[r][c] \in Begun /\ at[r][d] \in Begun => c = d

(* Whatever waits for a decision is listed, whatever was decided had its   *)
(* consent, and a decision fed in advance is still to be used.             *)
WaitingIsListed ==
  \A r \in Run, c \in Call : at[r][c] \in Suspended => <<c, asked[r][c]>> \in pending
ApprovedHasConsent ==
  \A r \in Run, c \in Call : at[r][c] = "approved" => <<c, asked[r][c]>> \in consents
FedHasConsent ==
  \A c \in Call :
    prefed[c] # NoFeed /\ prefed[c].ok = TRUE => <<c, prefed[c].args>> \in consents
FedIsUnused ==
  \A r \in Run, c \in Call : at[r][c] \in {"deciding", "approved"} => prefed[c] = NoFeed

GateInv ==
  /\ GateTypes /\ OnlyInTools /\ OneCallAtATime
  /\ WaitingIsListed /\ GateIsDurable
  /\ ApprovedHasConsent /\ FedHasConsent /\ FedIsUnused /\ NoRogueExecution

LEMMA InitGateInv == Init => GateInv
  BY AgentAssumption
  DEF Init, GateInv, GateTypes, OnlyInTools, OneCallAtATime, WaitingIsListed, GateIsDurable,
      ApprovedHasConsent, FedHasConsent, FedIsUnused, NoRogueExecution, Begun, Busy,
      Suspended, CallPlace, Unasked, NoSnapshot

(* A step that leaves the gate alone and starts no call keeps GateInv.     *)
LEMMA QuietStep ==
  ASSUME GateInv, GateTypes', UNCHANGED <<gate, consents, rogue>>, OnlyInTools',
         \A r \in Run, c \in Call :
           at'[r][c] \in Begun => at'[r][c] = at[r][c] /\ asked'[r][c] = asked[r][c]
  PROVE  GateInv'
<1> USE DEF GateInv, GateTypes, Begun, Busy, Suspended, gate
<1>1. OneCallAtATime'
  BY DEF OneCallAtATime
<1>2. WaitingIsListed'
  BY DEF WaitingIsListed
<1>3. GateIsDurable'
  BY DEF GateIsDurable
<1>4. ApprovedHasConsent' /\ FedHasConsent' /\ FedIsUnused' /\ NoRogueExecution'
  BY DEF ApprovedHasConsent, FedHasConsent, FedIsUnused, NoRogueExecution
<1> QED
  BY <1>1, <1>2, <1>3, <1>4

(* A run moves on with its calls as they are, none of them under way.      *)
LEMMA QuietMove ==
  ASSUME RunInv, GateInv, NEW r \in Run, NEW p, Goto(r, p), UNCHANGED tooling,
         UNCHANGED <<gate, consents, rogue>>,
         \A c \in Call : at[r][c] \notin Busy
  PROVE  GateInv'
<1>1. GateTypes'
  BY DEF GateInv, GateTypes, tooling, gate
<1>2. OnlyInTools'
  BY DEF GateInv, GateTypes, OnlyInTools, tooling, Goto, RunInv, RunTypes
<1> QED
  BY <1>1, <1>2, QuietStep DEF tooling

(* A run replaces its calls by calls that are not under way.               *)
LEMMA QuietReset ==
  ASSUME RunInv, GateInv, NEW r \in Run, NEW p, Goto(r, p),
         NEW f \in [Call -> CallPlace \ Begun], at' = [at EXCEPT ![r] = f],
         NEW g \in [Call -> Args], asked' = [asked EXCEPT ![r] = g],
         UNCHANGED <<gate, consents, rogue>>
  PROVE  GateInv'
<1>1. GateTypes'
  BY DEF GateInv, GateTypes, gate
<1>2. OnlyInTools'
  BY DEF GateInv, GateTypes, OnlyInTools, Goto, RunInv, RunTypes, Begun
<1>3. \A q \in Run, c \in Call :
        at'[q][c] \in Begun => at'[q][c] = at[q][c] /\ asked'[q][c] = asked[q][c]
  BY DEF GateInv, GateTypes
<1> QED
  BY <1>1, <1>2, <1>3, QuietStep

(* The calls are dropped, the invocations they stood for are kept.         *)
LEMMA QuietDrop ==
  ASSUME RunInv, GateInv, NEW r \in Run, NEW p, Goto(r, p),
         at' = [at EXCEPT ![r] = Nothing], UNCHANGED asked,
         UNCHANGED <<gate, consents, rogue>>
  PROVE  GateInv'
<1>1. Nothing \in [Call -> CallPlace \ Begun]
  BY DEF Nothing, CallPlace, Begun, Busy, Suspended
<1>2. asked[r] \in [Call -> Args] /\ asked' = [asked EXCEPT ![r] = asked[r]]
  BY DEF GateInv, GateTypes
<1> QED
  BY <1>1, <1>2, QuietReset

LEMMA RunStepKeepsGate ==
  ASSUME RunInv, GateInv, NEW r \in Run, Begin(r) \/ ConsumerLeaves(r) \/ RunStep(r)
  PROVE  GateInv'
<1> DEFINE Idle == \A c \in Call : at[r][c] \notin Busy
<1>a. pc[r] # "tools" => Idle
  BY DEF GateInv, OnlyInTools
<1>b. Unasked \in [Call -> Args] /\ Nothing \in [Call -> CallPlace \ Begun]
  BY AgentAssumption DEF Unasked, Nothing, CallPlace, Begun, Busy, Suspended
<1>m. ASSUME NEW p, Goto(r, p), Idle, UNCHANGED tooling, UNCHANGED <<gate, consents, rogue>>
      PROVE  GateInv'
  BY <1>m, QuietMove
<1>d. ASSUME NEW p, Goto(r, p), at' = [at EXCEPT ![r] = Nothing], UNCHANGED asked,
             UNCHANGED <<gate, consents, rogue>>
      PROVE  GateInv'
  BY <1>d, QuietDrop
<1>n. ASSUME NextStep(r), UNCHANGED <<gate, consents, rogue>>
      PROVE  GateInv'
  <2>1. CASE steps[r] + 1 >= MaxSteps
    BY <1>b, <1>n, <2>1, QuietReset DEF NextStep, Ends
  <2>2. CASE ~(steps[r] + 1 >= MaxSteps)
    BY <1>b, <1>n, <2>2, QuietReset DEF NextStep
  <2> QED
    BY <2>1, <2>2
<1> HIDE DEF Idle
<1>1. CASE Begin(r)
  BY <1>1, <1>a, <1>m DEF Begin, Goto, effects
<1>2. CASE ConsumerLeaves(r)
  BY <1>2, <1>d DEF ConsumerLeaves, Ends, effects
<1>3. CASE Admit(r) \/ BeginThrows(r) \/ Resumed(r) \/ ModelFails(r) \/ Settled(r)
  BY <1>3, <1>a, <1>m DEF Admit, BeginThrows, Resumed, ModelFails, Settled, effects
<1>4. CASE LoopTop(r) \/ StepStarts(r)
  BY <1>4, <1>a, <1>m DEF LoopTop, StepStarts, Ends, effects
<1>5. CASE ErrorRecorded(r)
  BY <1>5, <1>a, <1>m DEF ErrorRecorded, Ends, effects
<1>6. CASE Announced(r)
  BY <1>6, <1>a, <1>m DEF Announced, LastStep, Ends, effects
<1>7. CASE StepThrows(r)
  BY <1>7, <1>d DEF StepThrows, effects
<1>8. CASE StepCompletes(r)
  <2>1. CASE at' = [at EXCEPT ![r] = Nothing] /\ Goto(r, "settling")
    BY <1>8, <2>1, <1>d DEF StepCompletes, effects
  <2>2. CASE UNCHANGED at
    <3>1. \E p : Goto(r, p)
      BY <1>8 DEF StepCompletes, LastStep, Ends
    <3> QED
      BY <1>8, <2>2, <3>1, <1>a, <1>m DEF StepCompletes, effects, tooling
  <2> QED
    BY <1>8, <2>1, <2>2 DEF StepCompletes, Ends
<1>9. CASE Reflected(r)
  <2>1. CASE at' = [at EXCEPT ![r] = Nothing]
    <3>1. \E p : Goto(r, p)
      BY <1>9 DEF Reflected
    <3> QED
      BY <1>9, <2>1, <3>1, <1>d DEF Reflected
  <2>2. CASE Replies(r, Calls(r), FALSE) /\ Goto(r, "replied")
    <3>1. at' = [at EXCEPT ![r] = Nothing]
      BY <2>2 DEF Replies, Nothing
    <3> QED
      BY <1>9, <2>2, <3>1, <1>d DEF Reflected
  <2> QED
    BY <1>9, <2>1, <2>2 DEF Reflected
<1>10. CASE ToolsAnswered(r)
  <2>1. CASE r \notin Streamed
    BY <1>10, <2>1, <1>n DEF ToolsAnswered
  <2>2. CASE r \in Streamed
    <3>1. Idle
      BY <1>10 DEF ToolsAnswered, Idle, Calls, Busy, Suspended
    <3> QED
      BY <1>10, <2>2, <3>1, <1>m DEF ToolsAnswered
  <2> QED
    BY <2>1, <2>2
<1>11. CASE Reported(r)
  BY <1>11, <1>n DEF Reported
<1>12. CASE ToolsFail(r)
  <2>1. Idle
    BY <1>12 DEF ToolsFail, Idle, GateInv, OneCallAtATime, Begun, Busy, Suspended
  <2> QED
    BY <1>12, <2>1, <1>m DEF ToolsFail, effects
<1>13. ASSUME NEW C \in SUBSET Call, ModelReplies(r, C) PROVE GateInv'
  <2>1. PICK usable : Replies(r, C, usable)
    BY <1>13 DEF ModelReplies
  <2>2. PICK f \in [C -> Args] :
          asked' = [asked EXCEPT ![r] = [c \in Call |-> IF c \in C THEN f[c] ELSE Unasked[c]]]
    BY <1>13 DEF ModelReplies
  <2> DEFINE F == [c \in Call |-> IF c \in C /\ usable THEN "asked" ELSE "none"]
             G == [c \in Call |-> IF c \in C THEN f[c] ELSE Unasked[c]]
  <2>3. F \in [Call -> CallPlace \ Begun]
    BY DEF CallPlace, Begun, Busy, Suspended
  <2>4. G \in [Call -> Args]
    BY <1>b
  <2>5. at' = [at EXCEPT ![r] = F] /\ asked' = [asked EXCEPT ![r] = G]
    BY <2>1, <2>2 DEF Replies
  <2>6. Goto(r, "replied") /\ UNCHANGED <<gate, consents, rogue>>
    BY <1>13 DEF ModelReplies
  <2> HIDE DEF F, G
  <2> QED
    BY <2>3, <2>4, <2>5, <2>6, QuietReset
<1>14. ASSUME NEW C \in SUBSET Call, ModelFumbles(r, C) PROVE GateInv'
  <2> DEFINE F == [c \in Call |-> IF c \in C THEN "fumbled" ELSE "none"]
  <2>1. F \in [Call -> CallPlace \ Begun]
    BY DEF CallPlace, Begun, Busy, Suspended
  <2>2. asked[r] \in [Call -> Args] /\ asked' = [asked EXCEPT ![r] = asked[r]]
    BY <1>14 DEF ModelFumbles, GateInv, GateTypes
  <2>3. Goto(r, "reflecting") /\ UNCHANGED <<gate, consents, rogue>> /\ at' = [at EXCEPT ![r] = F]
    BY <1>14 DEF ModelFumbles, effects
  <2> HIDE DEF F
  <2> QED
    BY <2>1, <2>2, <2>3, QuietReset
<1> QED
  BY <1>1, <1>2, <1>3, <1>4, <1>5, <1>6, <1>7, <1>8, <1>9, <1>10, <1>11, <1>12, <1>13, <1>14
  DEF RunStep

(* With calls in sequence, a call that is about to move is the only one of *)
(* the agent that is under way.                                            *)
Alone(r, c) ==
  /\ pc[r] = "tools"
  /\ \A q \in Run, d \in Call : at[q][d] \in Busy => q = r /\ d = c
  /\ \A d \in Call : at[r][d] \in Begun => d = c

LEMMA MovesAlone ==
  ASSUME ~Parallel, RunInv, GateInv, NEW r \in Run, NEW c \in Call,
         Dispatched(r, c) \/ at[r][c] \in Busy
  PROVE  Alone(r, c)
<1>1. pc[r] = "tools"
  BY DEF Dispatched, GateInv, OnlyInTools
<1>2. ASSUME NEW d \in Call, at[r][d] \in Begun PROVE d = c
  BY <1>2 DEF Dispatched, GateInv, OneCallAtATime, Begun, Busy, Suspended
<1>3. ASSUME NEW q \in Run, at[q] \in [Call -> CallPlace], NEW d \in Call, at[q][d] \in Busy
      PROVE  q = r
  BY <1>1, <1>3 DEF GateInv, OnlyInTools, RunInv, RunTypes, OneRunAtATime, InLoop, Place
<1> QED
  BY <1>1, <1>2, <1>3 DEF Alone, Begun, GateInv, GateTypes

(* What such a step leaves to show: the call that moved keeps its part.    *)
LEMMA LoneMove ==
  ASSUME RunInv, GateInv, NEW r \in Run, NEW c \in Call, Alone(r, c),
         NEW to \in CallPlace, at' = [at EXCEPT ![r][c] = to], UNCHANGED <<pc, asked>>,
         GateTypes', FedHasConsent', NoRogueExecution',
         to \in Suspended => <<c, asked[r][c]>> \in pending',
         to = "deciding" /\ Checkpointed =>
           checkpoint'.saved /\ <<c, asked[r][c]>> \in checkpoint'.pending,
         to = "approved" => <<c, asked[r][c]>> \in consents',
         to \in {"deciding", "approved"} => prefed'[c] = NoFeed
  PROVE  GateInv'
<1>1. /\ at'[r][c] = to
      /\ \A d \in Call : d # c => at'[r][d] = at[r][d]
      /\ \A q \in Run : q # r => at'[q] = at[q]
  BY DEF GateInv, GateTypes
<1>2. \A q \in Run, d \in Call : at'[q][d] \in Busy => q = r /\ d = c
  BY <1>1 DEF Alone
<1>3. OnlyInTools'
  BY <1>2 DEF OnlyInTools, Alone
<1>4. OneCallAtATime'
  BY <1>1, <1>2 DEF OneCallAtATime, Alone, Begun, GateInv, GateTypes
<1>5. WaitingIsListed' /\ GateIsDurable' /\ ApprovedHasConsent' /\ FedIsUnused'
  BY <1>1, <1>2 DEF WaitingIsListed, GateIsDurable, ApprovedHasConsent, FedIsUnused, Busy,
                    Suspended
<1> QED
  BY <1>3, <1>4, <1>5 DEF GateInv

LEMMA CallStepKeepsGate ==
  ASSUME ~Parallel, RunInv, GateInv, NEW r \in Run, NEW c \in Call, CallStep(r, c)
  PROVE  GateInv'
<1> USE DEF ToolFrame, frame
<1>t. \A to \in CallPlace : at' = [at EXCEPT ![r][c] = to] =>
        at' \in [Run -> [Call -> CallPlace]]
  BY DEF GateInv, GateTypes
<1>q. ASSUME UNCHANGED <<ToolFrame, gate, effects>>, NEW to \in CallPlace \ (Suspended \cup {"approved"}),
             at' = [at EXCEPT ![r][c] = to], Alone(r, c)
      PROVE  GateInv'
  <2>1. GateTypes'
    BY <1>t, <1>q DEF GateInv, GateTypes, gate
  <2>2. FedHasConsent' /\ NoRogueExecution'
    BY <1>q DEF GateInv, FedHasConsent, NoRogueExecution, gate, effects
  <2> QED
    BY <1>q, <2>1, <2>2, LoneMove DEF Suspended
<1>1. CASE AnsweredUnrun(r, c)
  <2>1. Alone(r, c)
    BY <1>1, MovesAlone DEF AnsweredUnrun, Busy
  <2> QED
    BY <1>1, <2>1, <1>q DEF AnsweredUnrun, Moves, CallPlace, Suspended
<1>2. CASE CallThrows(r, c)
  <2>1. Alone(r, c)
    BY <1>2, MovesAlone DEF CallThrows, Busy, Suspended
  <2> QED
    BY <1>2, <2>1, <1>q DEF CallThrows, Moves, CallPlace, Suspended
<1>3. CASE ToolEnds(r, c)
  <2>1. Alone(r, c)
    BY <1>3, MovesAlone DEF ToolEnds, Busy
  <2> QED
    BY <1>3, <2>1, <1>q DEF ToolEnds, Moves, CallPlace, Suspended
<1>4. CASE RequestApproval(r, c)
  <2>1. Alone(r, c)
    BY <1>4, MovesAlone DEF RequestApproval
  <2>2. at' = [at EXCEPT ![r][c] = "gate"] /\ "gate" \in CallPlace
    BY <1>4 DEF RequestApproval, Moves, CallPlace
  <2>3. GateTypes'
    BY <1>4, <1>t, <2>2 DEF RequestApproval, GateInv, GateTypes
  <2>4. FedHasConsent' /\ NoRogueExecution'
    BY <1>4 DEF RequestApproval, GateInv, FedHasConsent, NoRogueExecution, effects
  <2> QED
    BY <1>4, <2>1, <2>2, <2>3, <2>4, LoneMove DEF RequestApproval
<1>5. CASE Decide(r, c)
  <2>1. Alone(r, c)
    BY <1>5, MovesAlone DEF Decide, Busy, Suspended
  <2>2. PICK ok \in BOOLEAN : /\ Resolved(r, c, ok)
                              /\ consents' = IF ok THEN consents \cup {<<c, asked[r][c]>>} ELSE consents
    BY <1>5 DEF Decide
  <2> DEFINE to == IF ok THEN "approved" ELSE "refused"
  <2>3. at' = [at EXCEPT ![r][c] = to] /\ to \in CallPlace
    BY <2>2 DEF Resolved, CallPlace
  <2>4. GateTypes'
    BY <1>5, <1>t, <2>2, <2>3 DEF Decide, Resolved, WithoutCall, GateInv, GateTypes
  <2>5. FedHasConsent' /\ NoRogueExecution'
    BY <1>5, <2>2 DEF Decide, GateInv, FedHasConsent, NoRogueExecution
  <2>6. prefed'[c] = NoFeed
    BY <1>5 DEF Decide, GateInv, FedIsUnused
  <2>7. to \notin Suspended /\ (to = "approved" => <<c, asked[r][c]>> \in consents')
    BY <2>2 DEF Suspended
  <2>8. UNCHANGED <<pc, asked>>
    BY <1>5 DEF Decide
  <2> HIDE DEF to
  <2> QED
    BY <2>1, <2>3, <2>4, <2>5, <2>6, <2>7, <2>8, LoneMove DEF Suspended
<1>6. CASE Execute(r, c)
  <2>1. Alone(r, c)
    BY <1>6, MovesAlone DEF Execute, Busy
  <2>2. at' = [at EXCEPT ![r][c] = "exec"] /\ "exec" \in CallPlace
    BY <1>6 DEF Execute, Moves, CallPlace
  <2>3. GateTypes'
    BY <1>6, <1>t, <2>2 DEF Execute, GateInv, GateTypes, gate
  <2>4. NoRogueExecution'
    BY <1>6 DEF Execute, GateInv, NoRogueExecution, ApprovedHasConsent
  <2>5. prefed[c] # NoFeed => prefed[c].args # asked[r][c]
    BY <1>6 DEF Execute, GateInv, GateTypes, FedIsUnused, Dispatched
  <2>6. FedHasConsent'
    BY <1>6, <2>5 DEF Execute, GateInv, FedHasConsent, gate
  <2> QED
    BY <1>6, <2>1, <2>2, <2>3, <2>4, <2>6, LoneMove DEF Execute, Suspended
<1>7. CASE Suspend(r, c)
  <2>1. Alone(r, c)
    BY <1>7, MovesAlone DEF Suspend, Busy, Suspended
  <2>2. <<c, asked[r][c]>> \in pending /\ UNCHANGED <<pc, asked, rogue>>
    BY <1>7 DEF Suspend, GateInv, WaitingIsListed, Suspended
  <2>3. checkpoint'.saved => checkpoint'.pending \subseteq Call \X Gated
    BY <1>7 DEF Suspend, Snapshot, GateInv, GateTypes
  <2>4. NoRogueExecution'
    BY <2>2 DEF GateInv, NoRogueExecution
  <2>5. CASE prefed[c] = NoFeed
    <3>1. /\ at' = [at EXCEPT ![r][c] = "deciding"] /\ "deciding" \in CallPlace
          /\ UNCHANGED <<pending, prefed, consents>>
      BY <1>7, <2>5 DEF Suspend, Moves, CallPlace
    <3>2. GateTypes' /\ FedHasConsent'
      BY <1>t, <2>2, <2>3, <3>1 DEF GateInv, GateTypes, FedHasConsent
    <3>3. Checkpointed => checkpoint'.saved /\ <<c, asked[r][c]>> \in checkpoint'.pending
      BY <1>7, <2>2 DEF Suspend, Snapshot
    <3> QED
      BY <2>1, <2>2, <2>4, <2>5, <3>1, <3>2, <3>3, LoneMove
  <2>6. CASE prefed[c] # NoFeed /\ prefed[c].args = asked[r][c]
    <3> DEFINE to == IF prefed[c].ok THEN "approved" ELSE "refused"
    <3>0. prefed[c].ok \in BOOLEAN
      BY <2>6 DEF GateInv, GateTypes
    <3>1. /\ at' = [at EXCEPT ![r][c] = to] /\ to \in CallPlace /\ to \notin Suspended
          /\ prefed' = [prefed EXCEPT ![c] = NoFeed] /\ pending' = WithoutCall(c)
          /\ UNCHANGED consents
      BY <1>7, <2>6 DEF Suspend, Resolved, CallPlace, Suspended
    <3>2. to = "approved" => <<c, asked[r][c]>> \in consents'
      BY <2>6, <3>0, <3>1 DEF GateInv, FedHasConsent
    <3> HIDE DEF to
    <3>3. GateTypes'
      BY <1>t, <2>2, <2>3, <3>1 DEF GateInv, GateTypes, WithoutCall
    <3>4. FedHasConsent' /\ prefed'[c] = NoFeed
      BY <3>1 DEF GateInv, GateTypes, FedHasConsent
    <3> QED
      BY <2>1, <2>2, <2>4, <3>1, <3>2, <3>3, <3>4, LoneMove DEF Suspended
  <2>7. CASE prefed[c] # NoFeed /\ prefed[c].args # asked[r][c]
    <3>1. /\ at' = [at EXCEPT ![r][c] = "thrown"] /\ "thrown" \in CallPlace
          /\ prefed' = [prefed EXCEPT ![c] = NoFeed] /\ UNCHANGED pending
          /\ consents' = consents \ {<<c, prefed[c].args>>}
      BY <1>7, <2>7 DEF Suspend, Moves, CallPlace
    <3>2. GateTypes'
      BY <1>t, <2>2, <2>3, <3>1 DEF GateInv, GateTypes
    <3>3. FedHasConsent'
      BY <3>1 DEF GateInv, GateTypes, FedHasConsent
    <3> QED
      BY <2>1, <2>2, <2>4, <3>1, <3>2, <3>3, LoneMove DEF Suspended
  <2> QED
    BY <2>5, <2>6, <2>7
<1> QED
  BY <1>1, <1>2, <1>3, <1>4, <1>5, <1>6, <1>7 DEF CallStep

LEMMA ResumeKeepsGate ==
  ASSUME RunInv, GateInv, NEW c \in Call, NEW ok \in BOOLEAN, ResumeWithApproval(c, ok)
  PROVE  GateInv'
<1>1. PICK p \in pending :
        /\ p[1] = c /\ pending' = pending \ {p}
        /\ prefed' = [prefed EXCEPT ![c] = [by |-> "human", args |-> p[2], ok |-> ok]]
        /\ consents' = IF ok THEN consents \cup {p} ELSE consents
  BY DEF ResumeWithApproval
<1>2. UNCHANGED <<pc, at, asked, checkpoint, rogue>> /\ running = Nobody
  BY DEF ResumeWithApproval, frame, tooling
<1>3. p[2] \in Gated /\ p = <<c, p[2]>>
  BY <1>1 DEF GateInv, GateTypes
<1>4. \A r \in Run, d \in Call : at[r][d] \notin Busy
  BY <1>2, AgentAssumption DEF GateInv, OnlyInTools, RunInv, OneRunAtATime, InLoop, Place
<1>5. GateTypes'
  BY <1>1, <1>2, <1>3 DEF GateInv, GateTypes
<1>6. FedHasConsent'
  BY <1>1, <1>3 DEF GateInv, GateTypes, FedHasConsent
<1>7. OnlyInTools' /\ OneCallAtATime' /\ NoRogueExecution'
  BY <1>2 DEF GateInv, OnlyInTools, OneCallAtATime, NoRogueExecution
<1>8. WaitingIsListed' /\ GateIsDurable' /\ ApprovedHasConsent' /\ FedIsUnused'
  BY <1>2, <1>4 DEF WaitingIsListed, GateIsDurable, ApprovedHasConsent, FedIsUnused, Busy,
                    Suspended
<1> QED
  BY <1>5, <1>6, <1>7, <1>8 DEF GateInv

LEMMA CrashKeepsGate ==
  ASSUME GateInv, Crash
  PROVE  GateInv'
<1>1. \A r \in Run, c \in Call : at'[r][c] \notin Begun
  BY DEF Crash, Nothing, Begun, Busy, Suspended
<1>2. GateTypes'
  BY DEF GateInv, GateTypes, Crash, Nothing, CallPlace
<1>3. FedHasConsent' /\ NoRogueExecution'
  BY DEF GateInv, Crash, FedHasConsent, NoRogueExecution
<1>4. OnlyInTools' /\ OneCallAtATime'
  BY <1>1 DEF OnlyInTools, OneCallAtATime, Begun
<1>5. WaitingIsListed' /\ GateIsDurable' /\ ApprovedHasConsent' /\ FedIsUnused'
  BY <1>1 DEF WaitingIsListed, GateIsDurable, ApprovedHasConsent, FedIsUnused, Begun, Busy,
              Suspended
<1> QED
  BY <1>2, <1>3, <1>4, <1>5 DEF GateInv

LEMMA NextGateInv ==
  ASSUME ~Parallel
  PROVE  RunInv /\ GateInv /\ [Next]_vars => GateInv'
<1> SUFFICES ASSUME RunInv, GateInv, [Next]_vars PROVE GateInv'
  OBVIOUS
<1>1. ASSUME UNCHANGED <<pc, tooling, gate, consents, rogue>> PROVE GateInv'
  <2>1. GateTypes' /\ OnlyInTools'
    BY <1>1 DEF GateInv, GateTypes, OnlyInTools, tooling, gate
  <2> QED
    BY <1>1, <2>1, QuietStep DEF tooling
<1>2. CASE UNCHANGED vars
  BY <1>1, <1>2 DEF vars, frame, effects
<1>3. CASE Stop \/ AddInput \/ ClearPendingInput
  BY <1>1, <1>3 DEF Stop, AddInput, ClearPendingInput, frame, effects
<1> QED
  BY <1>2, <1>3, RunStepKeepsGate, CallStepKeepsGate, ResumeKeepsGate, CrashKeepsGate DEF Next

LEMMA SpecGateInv ==
  ASSUME ~Parallel
  PROVE  Spec => [](RunInv /\ GateInv)
<1>1. RunInv /\ GateInv /\ [Next]_vars => (RunInv /\ GateInv)'
  BY NextRunInv, NextGateInv
<1> QED
  BY <1>1, InitRunInv, InitGateInv, PTL DEF Spec

(* Calls in sequence: a gated tool runs only on an approval of this very   *)
(* invocation, given since the process started and not used before,        *)
(* whatever decisions are fed in advance, ids reused and restarts made.    *)
THEOREM SpecNoRogueExecution ==
  ASSUME ~Parallel
  PROVE  Spec => []NoRogueExecution
<1>1. RunInv /\ GateInv => NoRogueExecution
  BY DEF GateInv
<1> QED
  BY <1>1, SpecGateInv, PTL

(* Calls in sequence: the checkpoint of the moment the approver is asked   *)
(* stays the one in persistence, so a restart can take the decision up.    *)
THEOREM SpecGateIsDurable ==
  ASSUME ~Parallel
  PROVE  Spec => []GateIsDurable
<1>1. RunInv /\ GateInv => GateIsDurable
  BY DEF GateInv
<1> QED
  BY <1>1, SpecGateInv, PTL

(* Calls in sequence: no call is under way outside the run in flight, and  *)
(* none but one, however the run before it ended.                          *)
THEOREM SpecNoToolOutlivesItsRun ==
  ASSUME ~Parallel
  PROVE  Spec => []NoToolOutlivesItsRun
<1>1. RunInv /\ GateInv => NoToolOutlivesItsRun
  BY DEF RunInv, OneRunAtATime, InLoop, Place, GateInv, OnlyInTools, NoToolOutlivesItsRun
<1> QED
  BY <1>1, SpecGateInv, PTL

-----------------------------------------------------------------------------
(* Types.                                                                  *)

(* A run in the loop has a step left.                                      *)
StepsLeft ==
  \A r \in Run : pc[r] \in InLoop \cup {"idle", "begin"} => steps[r] < MaxSteps

Recorded ==
  /\ history \in Seq(Message) /\ reports \in Seq(Run)
  /\ checkpoint.saved =>
       /\ checkpoint.history \in Seq(Message) /\ checkpoint.reports \in Seq(Run)
       /\ checkpoint.pending \subseteq Call \X Args /\ checkpoint.pendingInput \in Nat

CallsTyped ==
  at \in [Run -> [Call -> CallPlace]] /\ asked \in [Run -> [Call -> Args]]
CountsTyped ==
  /\ steps \in [Run -> 0 .. MaxSteps] /\ pendingInput \in Nat /\ consecutive \in Nat
  /\ executed \subseteq Call
FeedsTyped ==
  /\ pending \subseteq Call \X Args /\ prefed \in [Call -> Feed] /\ consents \subseteq Call \X Args

TypeInv ==
  /\ RunInv /\ CallsTyped /\ CountsTyped /\ FeedsTyped /\ Recorded /\ StepsLeft
  /\ stopRequested \in BOOLEAN

LEMMA IdsAt ==
  ASSUME NEW role, NEW c
  PROVE  c \in Ids(role) <=> \E i \in DOMAIN history : history[i].role = role /\ c \in history[i].calls
  BY DEF Ids, ToSet

LEMMA RepairTyped ==
  ASSUME history \in Seq(Message)
  PROVE  Orphans \subseteq Call /\ Repaired \in Seq(Message)
<1>1. ASSUME NEW i \in DOMAIN history PROVE history[i].calls \subseteq Call
  <2>1. i \in 1 .. Len(history)
    BY <1>1
  <2>2. history[i] \in Message
    BY <2>1, ElementOfSeq
  <2> QED
    BY <2>2 DEF Message
<1>2. Orphans \subseteq Call
  BY <1>1, IdsAt DEF Orphans
<1>3. [role |-> "tool", calls |-> Orphans] \in Message
  BY <1>2 DEF Message
<1>4. <<[role |-> "tool", calls |-> Orphans]>> \in Seq(Message) /\ <<>> \in Seq(Message)
  BY <1>3
<1> QED
  BY <1>2, <1>4 DEF Repaired

LEMMA SaysTyped ==
  /\ User \in Message /\ <<User>> \in Seq(Message)
  /\ \A C \in SUBSET Call : Assistant(C) \in Message /\ [role |-> "tool", calls |-> C] \in Message
  /\ pendingInput \in Nat => Admitted \in Seq(Message) /\ Len(Admitted) = pendingInput
<1>1. User \in Message /\ [role |-> "staged", calls |-> {}] \in Message
  BY DEF User, Message
<1>2. \A C \in SUBSET Call : Assistant(C) \in Message /\ [role |-> "tool", calls |-> C] \in Message
  BY DEF Assistant, Message
<1>3. ASSUME pendingInput \in Nat
      PROVE  Admitted \in Seq(Message) /\ Len(Admitted) = pendingInput
  BY <1>1, <1>3 DEF Admitted
<1> QED
  BY <1>1, <1>2, <1>3

LEMMA AdmitTyped ==
  ASSUME history \in Seq(Message), pendingInput \in Nat
  PROVE  history \o Repaired \o <<User>> \o Admitted \in Seq(Message)
<1>1. history \o Repaired \in Seq(Message)
  BY RepairTyped, ConcatProperties
<1>2. history \o Repaired \o <<User>> \in Seq(Message)
  BY <1>1, SaysTyped, ConcatProperties
<1> QED
  BY <1>2, SaysTyped, ConcatProperties

LEMMA InitTypeInv == Init => TypeInv
<1> SUFFICES ASSUME Init PROVE TypeInv
  OBVIOUS
<1>1. RunInv
  BY InitRunInv
<1>2. Unasked \in [Call -> Args]
  BY AgentAssumption DEF Unasked
<1>3. CallsTyped /\ CountsTyped /\ FeedsTyped /\ StepsLeft
  BY <1>2, AgentAssumption DEF Init, CallsTyped, CountsTyped, FeedsTyped, StepsLeft, CallPlace, Feed
<1>4. Recorded
  BY EmptySeq DEF Init, Recorded, NoSnapshot
<1>5. stopRequested \in BOOLEAN
  BY Zenon DEF Init
<1> QED
  BY <1>1, <1>3, <1>4, <1>5 DEF TypeInv

LEMMA CallsAreCalls == \A r \in Run : Calls(r) \subseteq Call
  BY DEF Calls

(* A run whose calls are dropped keeps their types, and the others theirs. *)
LEMMA DroppedTyped ==
  ASSUME CallsTyped, NEW r \in Run, at' = [at EXCEPT ![r] = Nothing] \/ at' = at, asked' = asked
  PROVE  CallsTyped'
  <1>1. Nothing \in [Call -> CallPlace]
    BY DEF Nothing, CallPlace
  <1> QED
    BY <1>1 DEF CallsTyped

LEMMA RunStepTypes ==
  ASSUME TypeInv, NEW r \in Run, Begin(r) \/ ConsumerLeaves(r) \/ RunStep(r)
  PROVE  CallsTyped' /\ CountsTyped' /\ FeedsTyped' /\ Recorded' /\ StepsLeft'
<1> USE AgentAssumption DEF TypeInv, RunInv, RunTypes, CallsTyped, CountsTyped, FeedsTyped, Recorded,
    StepsLeft, Place, InLoop, frame, tooling, gate, effects, counts
<1>a. Unasked \in [Call -> Args] /\ Nothing \in [Call -> CallPlace]
  BY DEF Unasked, Nothing, CallPlace
<1>b. Append(reports, r) \in Seq(Run)
  OBVIOUS
<1>c. \A m \in Message : Append(history, m) \in Seq(Message)
  OBVIOUS
<1>d. Calls(r) \in SUBSET Call
  BY CallsAreCalls
<1>e. ASSUME pc[r] \in InLoop, Goto(r, "settling"),
             steps' = steps \/ steps' = [steps EXCEPT ![r] = @ + 1]
      PROVE  steps' \in [Run -> 0 .. MaxSteps] /\ StepsLeft'
  <2>1. steps[r] \in 0 .. MaxSteps /\ steps[r] + 1 \in 0 .. MaxSteps
    BY <1>e
  <2>2. \A q \in Run : q # r => steps'[q] = steps[q] /\ pc'[q] = pc[q]
    BY <1>e DEF Goto
  <2>3. pc'[r] = "settling"
    BY <1>e DEF Goto
  <2>4. steps' \in [Run -> 0 .. MaxSteps]
    <3>1. CASE steps' = steps
      BY <3>1
    <3>2. CASE steps' = [steps EXCEPT ![r] = steps[r] + 1]
      BY <2>1, <3>2
    <3> QED
      BY <1>e, <3>1, <3>2
  <2> QED
    BY <2>2, <2>3, <2>4
<1>n. ASSUME NextStep(r), UNCHANGED <<pendingInput, consecutive, gate, consents>>, pc[r] \in InLoop
      PROVE  CallsTyped' /\ CountsTyped' /\ FeedsTyped' /\ Recorded' /\ StepsLeft'
  <2>1. history' \in Seq(Message)
    BY <1>c, <1>d, <1>n, SaysTyped DEF NextStep
  <2>2. steps' = [steps EXCEPT ![r] = steps[r] + 1] /\ steps[r] + 1 \in 0 .. MaxSteps
    BY <1>n DEF NextStep
  <2>3. CASE steps[r] + 1 >= MaxSteps
    <3>1. Ends(r, "max_steps") /\ executed' \subseteq Call
      BY <1>n, <2>3 DEF NextStep
    <3>2. steps' \in [Run -> 0 .. MaxSteps] /\ StepsLeft' /\ reports' \in Seq(Run)
      BY <1>b, <1>e, <1>n, <2>2, <3>1 DEF Ends
    <3>3. CallsTyped'
      BY <1>a, <1>n DEF NextStep
    <3> QED
      BY <1>n, <2>1, <3>1, <3>2, <3>3
  <2>4. CASE ~(steps[r] + 1 >= MaxSteps)
    BY <1>a, <1>n, <2>1, <2>2, <2>4 DEF NextStep, Goto
  <2> QED
    BY <2>3, <2>4
<1>1. CASE Begin(r)
  BY <1>1 DEF Begin, Goto
<1>2. CASE ConsumerLeaves(r)
  BY <1>2, <1>a, <1>b DEF ConsumerLeaves, Ends, Goto
<1>3. CASE Admit(r)
  BY <1>3, AdmitTyped DEF Admit, Goto
<1>4. CASE BeginThrows(r) \/ Resumed(r) \/ ModelFails(r) \/ Settled(r) \/ ToolsFail(r)
  BY <1>4 DEF BeginThrows, Resumed, ModelFails, Settled, ToolsFail, Goto
<1>5. CASE LoopTop(r) \/ StepStarts(r)
  BY <1>5, <1>b DEF LoopTop, StepStarts, Ends, Goto
<1>6. CASE ErrorRecorded(r)
  BY <1>6, <1>b DEF ErrorRecorded, Ends, Goto
<1>7. CASE Announced(r)
  <2>1. CASE LastStep(r)
    <3>1. steps' \in [Run -> 0 .. MaxSteps] /\ StepsLeft' /\ reports' \in Seq(Run)
      BY <1>7, <2>1, <1>b, <1>e DEF Announced, LastStep, Ends
    <3> QED
      BY <1>7, <3>1 DEF Announced
  <2>2. CASE Goto(r, "tools") /\ UNCHANGED <<steps, reason, running, reports>>
    BY <1>7, <2>2 DEF Announced, Goto
  <2> QED
    BY <1>7, <2>1, <2>2 DEF Announced
<1>8. CASE StepThrows(r)
  BY <1>8, <1>a DEF StepThrows, Goto
<1>9. CASE StepCompletes(r)
  <2>1. CallsTyped'
    <3>1. (at' = [at EXCEPT ![r] = Nothing] \/ at' = at) /\ asked' = asked
      BY <1>9 DEF StepCompletes
    <3>2. CallsTyped
      BY DEF CallsTyped
    <3> HIDE DEF TypeInv, CallsTyped
    <3> QED
      BY <3>1, <3>2, DroppedTyped
  <2>2. CASE (Ends(r, "guardrail") /\ UNCHANGED steps) \/ LastStep(r)
    <3>1. steps' \in [Run -> 0 .. MaxSteps] /\ StepsLeft' /\ reports' \in Seq(Run)
      BY <1>9, <2>2, <1>b, <1>e DEF StepCompletes, LastStep, Ends
    <3> QED
      BY <1>9, <2>1, <3>1 DEF StepCompletes
  <2>3. CASE (Goto(r, "announce") \/ Goto(r, "tools")) /\ UNCHANGED <<steps, reason, running, reports>>
    BY <1>9, <2>1, <2>3 DEF StepCompletes, Goto
  <2> QED
    BY <1>9, <2>2, <2>3 DEF StepCompletes
<1>10. CASE Reflected(r)
  <2>1. CASE Replies(r, Calls(r), FALSE)
    <3>1. at' = [at EXCEPT ![r] = Nothing] /\ history' \in Seq(Message) /\ executed' \subseteq Call
      BY <1>c, <1>d, <2>1, SaysTyped DEF Replies, Nothing
    <3>2. StepsLeft'
      BY <1>10 DEF Reflected, Goto
    <3> QED
      BY <1>10, <1>a, <3>1, <3>2 DEF Reflected
  <2>2. CASE at' = [at EXCEPT ![r] = Nothing] /\ executed' = executed
             /\ (history' = Append(history, User) \/ history' = history)
    <3>1. history' \in Seq(Message)
      <4>1. Append(history, User) \in Seq(Message)
        BY <1>c, SaysTyped
      <4> QED
        BY <2>2, <4>1
    <3>2. StepsLeft'
      BY <1>10 DEF Reflected, Goto
    <3> QED
      BY <1>10, <1>a, <2>2, <3>1, <3>2 DEF Reflected
  <2> QED
    BY <1>10, <2>1, <2>2 DEF Reflected
<1>11. CASE ToolsAnswered(r)
  <2>1. CASE r \notin Streamed
    BY <1>11, <1>n, <2>1 DEF ToolsAnswered
  <2>2. CASE r \in Streamed
    BY <1>11, <2>2 DEF ToolsAnswered, Goto
  <2> QED
    BY <2>1, <2>2
<1>12. CASE Reported(r)
  BY <1>12, <1>n DEF Reported
<1>13. ASSUME NEW C \in SUBSET Call, ModelReplies(r, C)
       PROVE  CallsTyped' /\ CountsTyped' /\ FeedsTyped' /\ Recorded' /\ StepsLeft'
  <2>1. PICK usable : Replies(r, C, usable)
    BY <1>13 DEF ModelReplies
  <2>2. PICK f \in [C -> Args] :
          asked' = [asked EXCEPT ![r] = [c \in Call |-> IF c \in C THEN f[c] ELSE Unasked[c]]]
    BY <1>13 DEF ModelReplies
  <2>3. [c \in Call |-> IF c \in C /\ usable THEN "asked" ELSE "none"] \in [Call -> CallPlace]
    BY DEF CallPlace
  <2>4. [c \in Call |-> IF c \in C THEN f[c] ELSE Unasked[c]] \in [Call -> Args]
    BY <1>a
  <2>5. CallsTyped' /\ history' \in Seq(Message) /\ executed' \subseteq Call
    BY <1>c, <2>1, <2>2, <2>3, <2>4, SaysTyped DEF Replies
  <2>6. /\ Goto(r, "replied") /\ UNCHANGED <<steps, pendingInput, gate, reports, consents>>
        /\ pc[r] = "model" /\ consecutive' \in Nat
    BY <1>13 DEF ModelReplies
  <2> QED
    BY <2>5, <2>6 DEF Goto
<1>14. ASSUME NEW C \in SUBSET Call, ModelFumbles(r, C)
       PROVE  CallsTyped' /\ CountsTyped' /\ FeedsTyped' /\ Recorded' /\ StepsLeft'
  <2>1. [c \in Call |-> IF c \in C THEN "fumbled" ELSE "none"] \in [Call -> CallPlace]
    BY DEF CallPlace
  <2> QED
    BY <1>14, <2>1 DEF ModelFumbles, Goto
<1> QED
  BY <1>1, <1>2, <1>3, <1>4, <1>5, <1>6, <1>7, <1>8, <1>9, <1>10, <1>11, <1>12, <1>13, <1>14
  DEF RunStep

LEMMA CallStepTypes ==
  ASSUME TypeInv, NEW r \in Run, NEW c \in Call, CallStep(r, c)
  PROVE  CallsTyped' /\ CountsTyped' /\ FeedsTyped' /\ Recorded' /\ StepsLeft'
<1> USE DEF TypeInv, RunInv, RunTypes, CallsTyped, CountsTyped, FeedsTyped, Recorded,
    StepsLeft, ToolFrame, frame, gate, effects, counts
<1>a. ASSUME NEW to \in CallPlace, at' = [at EXCEPT ![r][c] = to], UNCHANGED asked
      PROVE  CallsTyped'
  BY <1>a
<1>b. ASSUME UNCHANGED ToolFrame, executed' \subseteq Call
      PROVE  CountsTyped' /\ StepsLeft' /\ history' \in Seq(Message) /\ reports' \in Seq(Run)
  BY <1>b
<1>1. CASE AnsweredUnrun(r, c)
  <2>1. at' = [at EXCEPT ![r][c] = "answered"] /\ "answered" \in CallPlace
    BY <1>1 DEF AnsweredUnrun, Moves, CallPlace
  <2> QED
    BY <1>1, <1>a, <1>b, <2>1 DEF AnsweredUnrun
<1>2. CASE CallThrows(r, c)
  <2>1. at' = [at EXCEPT ![r][c] = "thrown"] /\ "thrown" \in CallPlace
    BY <1>2 DEF CallThrows, Moves, CallPlace
  <2> QED
    BY <1>2, <1>a, <1>b, <2>1 DEF CallThrows
<1>3. CASE ToolEnds(r, c)
  <2>1. PICK to \in CallPlace : at' = [at EXCEPT ![r][c] = to]
    BY <1>3 DEF ToolEnds, Moves, CallPlace
  <2> QED
    BY <1>3, <1>a, <1>b, <2>1 DEF ToolEnds
<1>4. CASE RequestApproval(r, c)
  <2>1. at' = [at EXCEPT ![r][c] = "gate"] /\ "gate" \in CallPlace
    BY <1>4 DEF RequestApproval, Moves, CallPlace
  <2>2. pending' \subseteq Call \X Args
    BY <1>4 DEF RequestApproval
  <2> QED
    BY <1>4, <1>a, <1>b, <2>1, <2>2 DEF RequestApproval
<1>5. CASE Decide(r, c)
  <2>1. PICK ok \in BOOLEAN : /\ Resolved(r, c, ok)
                              /\ consents' = IF ok THEN consents \cup {<<c, asked[r][c]>>} ELSE consents
    BY <1>5 DEF Decide
  <2>2. PICK to \in CallPlace : at' = [at EXCEPT ![r][c] = to]
    BY <2>1 DEF Resolved, CallPlace
  <2>3. consents' \subseteq Call \X Args /\ pending' \subseteq Call \X Args
    BY <2>1 DEF Resolved, WithoutCall
  <2> QED
    BY <1>5, <1>a, <1>b, <2>2, <2>3 DEF Decide
<1>6. CASE Execute(r, c)
  <2>1. at' = [at EXCEPT ![r][c] = "exec"] /\ "exec" \in CallPlace
    BY <1>6 DEF Execute, Moves, CallPlace
  <2>2. consents' \subseteq Call \X Args /\ executed' \subseteq Call
    BY <1>6 DEF Execute
  <2> QED
    BY <1>6, <1>a, <1>b, <2>1, <2>2 DEF Execute
<1>7. CASE Suspend(r, c)
  <2>1. PICK to \in CallPlace : at' = [at EXCEPT ![r][c] = to]
    BY <1>7 DEF Suspend, Moves, Resolved, CallPlace
  <2>2. pending' \subseteq Call \X Args /\ consents' \subseteq Call \X Args
    BY <1>7 DEF Suspend, Resolved, WithoutCall
  <2>3. prefed' \in [Call -> Feed]
    <3>1. prefed' = prefed \/ prefed' = [prefed EXCEPT ![c] = NoFeed]
      BY <1>7 DEF Suspend
    <3> QED
      BY <3>1 DEF Feed
  <2>4. checkpoint' = checkpoint \/ checkpoint' = Snapshot
    BY <1>7 DEF Suspend
  <2>5. UNCHANGED <<ToolFrame, executed>>
    BY <1>7 DEF Suspend
  <2>6. checkpoint'.saved =>
          /\ checkpoint'.history \in Seq(Message) /\ checkpoint'.reports \in Seq(Run)
          /\ checkpoint'.pending \subseteq Call \X Args /\ checkpoint'.pendingInput \in Nat
    BY <2>4 DEF Snapshot
  <2> QED
    BY <1>a, <1>b, <2>1, <2>2, <2>3, <2>5, <2>6
<1> QED
  BY <1>1, <1>2, <1>3, <1>4, <1>5, <1>6, <1>7 DEF CallStep

LEMMA OtherStepTypes ==
  ASSUME TypeInv,
         \/ \E c \in Call, ok \in BOOLEAN : ResumeWithApproval(c, ok)
         \/ Stop \/ AddInput \/ ClearPendingInput \/ Crash \/ UNCHANGED vars
  PROVE  CallsTyped' /\ CountsTyped' /\ FeedsTyped' /\ Recorded' /\ StepsLeft'
<1> USE AgentAssumption DEF TypeInv, RunInv, RunTypes, CallsTyped, CountsTyped, FeedsTyped, Recorded,
    StepsLeft, frame, tooling, gate, effects, counts
<1>1. CASE UNCHANGED vars
  BY <1>1 DEF vars
<1>2. CASE Stop
  BY <1>2 DEF Stop
<1>3. CASE AddInput \/ ClearPendingInput
  BY <1>3 DEF AddInput, ClearPendingInput
<1>4. ASSUME NEW c \in Call, NEW ok \in BOOLEAN, ResumeWithApproval(c, ok)
      PROVE  CallsTyped' /\ CountsTyped' /\ FeedsTyped' /\ Recorded' /\ StepsLeft'
  <2>1. PICK p \in pending :
          /\ p[1] = c /\ pending' = pending \ {p}
          /\ prefed' = [prefed EXCEPT ![c] = [by |-> "human", args |-> p[2], ok |-> ok]]
          /\ consents' = IF ok THEN consents \cup {p} ELSE consents
    BY <1>4 DEF ResumeWithApproval
  <2>2. [by |-> "human", args |-> p[2], ok |-> ok] \in Feed
    BY <2>1 DEF Feed
  <2>3. FeedsTyped'
    BY <2>1, <2>2
  <2> QED
    BY <1>4, <2>3 DEF ResumeWithApproval
<1>5. CASE Crash
  <2>1. CallsTyped'
    BY <1>5 DEF Crash, Nothing, CallPlace
  <2>2. /\ history' \in Seq(Message) /\ reports' \in Seq(Run)
        /\ pending' \subseteq Call \X Args /\ pendingInput' \in Nat
    <3>1. CASE checkpoint.saved
      BY <1>5, <3>1 DEF Crash
    <3>2. CASE ~checkpoint.saved
      <4>1. /\ history' = <<>> /\ reports' = <<>> /\ pending' = {} /\ pendingInput' = 0
        BY <1>5, <3>2 DEF Crash
      <4> QED
        BY <4>1
    <3> QED
      BY <3>1, <3>2
  <2>3. StepsLeft'
    <3>1. ASSUME NEW r \in Run, pc'[r] \in InLoop \cup {"idle", "begin"} PROVE pc[r] = "idle"
      BY <1>5, <3>1 DEF Crash, InLoop, Place
    <3> QED
      BY <1>5, <3>1 DEF Crash
  <2>4. CountsTyped'
    BY <1>5, <2>2 DEF Crash
  <2>5. FeedsTyped'
    BY <1>5, <2>2 DEF Crash, Feed
  <2>6. Recorded'
    BY <1>5, <2>2 DEF Crash
  <2> QED
    BY <2>1, <2>3, <2>4, <2>5, <2>6
<1> QED
  BY <1>1, <1>2, <1>3, <1>4, <1>5

LEMMA StopIsBoolean ==
  ASSUME stopRequested \in BOOLEAN, [Next]_vars
  PROVE  stopRequested' \in BOOLEAN
<1>1. stopRequested' = stopRequested \/ stopRequested' = TRUE \/ stopRequested' = FALSE
  <2>1. ASSUME NEW r \in Run, Begin(r) \/ ConsumerLeaves(r) \/ RunStep(r)
        PROVE  stopRequested' = stopRequested \/ stopRequested' = FALSE
    BY <2>1, Zenon
    DEF Begin, ConsumerLeaves, RunStep, Admit, BeginThrows, LoopTop, Resumed, StepStarts,
        StepThrows, ModelFails, Reflected, StepCompletes, Announced, ToolsAnswered, Reported,
        ToolsFail, ErrorRecorded, Settled, ModelReplies, ModelFumbles
  <2>2. ASSUME NEW r \in Run, NEW c \in Call, CallStep(r, c)
        PROVE  stopRequested' = stopRequested
    BY <2>2, Zenon
    DEF CallStep, AnsweredUnrun, CallThrows, RequestApproval, Suspend, Decide, Execute,
        ToolEnds, ToolFrame
  <2>3. ASSUME NEW c \in Call, NEW ok \in BOOLEAN, ResumeWithApproval(c, ok)
        PROVE  stopRequested' = stopRequested
    BY <2>3, Zenon DEF ResumeWithApproval
  <2>4. CASE Stop \/ AddInput \/ ClearPendingInput \/ Crash \/ UNCHANGED vars
    BY <2>4, Zenon DEF Stop, AddInput, ClearPendingInput, Crash, vars
  <2> QED
    BY <2>1, <2>2, <2>3, <2>4, Zenon DEF Next
<1> QED
  BY <1>1, Zenon

LEMMA NextTypeInv == TypeInv /\ [Next]_vars => TypeInv'
<1> SUFFICES ASSUME TypeInv, [Next]_vars PROVE TypeInv'
  OBVIOUS
<1>1. RunInv'
  BY NextRunInv DEF TypeInv
<1>2. stopRequested' \in BOOLEAN
  BY StopIsBoolean DEF TypeInv
<1>3. CallsTyped' /\ CountsTyped' /\ FeedsTyped' /\ Recorded' /\ StepsLeft'
  BY RunStepTypes, CallStepTypes, OtherStepTypes DEF Next
<1> QED
  BY <1>1, <1>2, <1>3, Zenon DEF TypeInv

LEMMA SpecTypeInv == Spec => []TypeInv
  BY InitTypeInv, NextTypeInv, PTL DEF Spec

(* Every variable keeps its type: the step count never passes maxSteps,    *)
(* whatever ends a run, and a restart gives back a conversation, a list of *)
(* pending approvals and reports of the kind it saved.                     *)
THEOREM SpecTypeOK == Spec => []TypeOK
<1>1. TypeInv => TypeOK
  <2> SUFFICES ASSUME TypeInv PROVE TypeOK
    OBVIOUS
  <2>1. ToSet(history) \subseteq Message /\ ToSet(reports) \subseteq Run
    BY ElementOfSeq DEF ToSet, TypeInv, Recorded
  <2>2. stopRequested \in BOOLEAN
    BY Zenon DEF TypeInv
  <2> QED
    BY <2>1, <2>2, Zenon DEF TypeInv, RunInv, RunTypes, CallsTyped, CountsTyped, FeedsTyped, TypeOK
<1> QED
  BY <1>1, SpecTypeInv, PTL

=============================================================================
