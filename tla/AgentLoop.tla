------------------------------ MODULE AgentLoop ------------------------------
(***************************************************************************)
(* One agent (agent/loop.ts) and the runs its callers start on it with     *)
(* complete() or stream(): the steps of a run, its tool calls in parallel  *)
(* or in sequence, the approval gate with its checkpoint, stop(), a        *)
(* consumer that leaves a stream, and a restart from the checkpoint.       *)
(*                                                                         *)
(* An action is the code between two awaits (or yields).  A message is     *)
(* its role and the ids of the tool calls it asks or answers; a tool and   *)
(* its arguments are one value of Args, as in approvalDigest.              *)
(***************************************************************************)
EXTENDS Integers, FiniteSets, Sequences, SequencesExt

CONSTANTS
  Run,             \* calls of complete() and stream()
  Streamed,        \* those of them that are calls of stream()
  Call,            \* ids of tool calls
  Args,            \* invocations: a tool with its arguments
  Gated,           \* invocations the policy asks a human about
  Nobody,          \* no run
  Parallel,        \* config.parallelToolCalls
  MaxSteps,        \* config.maxSteps
  Reflects,        \* whether config.reflectAndRetry is set
  MaxRetries,      \* its maxRetries
  ThrowIfExceeded, \* its throwIfExceeded
  Checkpointed,    \* whether config.checkpoint is set
  Throwing,        \* what of the application may throw, see Thrower
  Reissues,        \* whether the model may use an id the history holds
  MaxStaged,       \* bound: messages given to addInput
  MaxCrashes       \* bound: restarts of the process

(* "begin": the system thunk or onRunStart; "step": onStepStart,           *)
(* onStepComplete or a guardrail; "error": onRunError; "end":              *)
(* onRunComplete; "tool": a hook or guardrail around a tool call, or the   *)
(* approver; "tool_error": onToolCallError asks not to continue.           *)
Thrower == {"begin", "step", "error", "end", "tool", "tool_error"}

ASSUME AgentAssumption ==
  /\ IsFiniteSet(Run) /\ IsFiniteSet(Call) /\ Nobody \notin Run
  /\ Streamed \subseteq Run /\ Gated \subseteq Args /\ Args # {}
  /\ MaxSteps \in Nat \ {0} /\ MaxRetries \in Nat
  /\ MaxStaged \in Nat /\ MaxCrashes \in Nat
  /\ {Parallel, Reflects, ThrowIfExceeded, Checkpointed, Reissues} \subseteq BOOLEAN
  /\ Throwing \subseteq Thrower

VARIABLES
  pc,            \* where each run stands, see Place
  steps,         \* stepCount of each run
  reason,        \* how each run ended
  at,            \* where each call of each run stands, see CallPlace
  asked,         \* the invocation each call of each run stands for
  running,       \* the run that set _running and _abortController
  stopRequested, \* _stopRequested
  history,       \* the conversation
  pendingInput,  \* how many messages are staged for the next run
  added,         \* history: how many were ever staged
  consecutive,   \* the reflect policy's count of failures in a row
  pending,       \* _pendingToolCalls: pairs of a call and its invocation
  prefed,        \* _prefedApprovals: the decision fed for each call
  checkpoint,    \* the snapshot in persistence
  reports,       \* runs with a report, in order
  sends,         \* history: model calls of each run
  failures,      \* history: failed replies in a row within the run
  executed,      \* history: calls started since they were asked, not yet answered
  misreported,   \* history: calls executed and repaired as never run
  consents,      \* history: approvals given and not yet used
  rogue,         \* history: gated invocations executed without an approval
  crashes        \* restarts so far

frame == <<pc, steps, reason>>
tooling == <<at, asked>>
gate == <<pending, prefed, checkpoint>>
effects == <<executed, consents, rogue>>
counts == <<sends, failures, misreported, added>>
vars == <<frame, tooling, running, stopRequested, history, pendingInput,
          consecutive, gate, reports, effects, counts, crashes>>

(* "offer", "announce" and "report" are the places where stream() is       *)
(* parked at a yield: step_start; step_end and tool_call_start;            *)
(* tool_call_end.                                                          *)
Place == {"idle", "begin", "top", "offer", "starting", "model", "reflecting",
          "replied", "announce", "tools", "report", "failing", "settling", "over"}
InLoop == Place \ {"idle", "begin", "settling", "over"}

(* "fumbled": part of a reply the reflect policy is to judge; "asked":     *)
(* before onToolCallStart is through; "gate": onApprovalRequested *)
(* and the write of the checkpoint; "deciding": the approver is asked;     *)
(* "approved": onApprovalResolved, the tool is next; "exec": it runs.      *)
CallPlace == {"none", "fumbled", "asked", "gate", "deciding",
              "approved", "refused", "exec", "answered", "thrown"}
Suspended == {"gate", "deciding"}

EndReason == {"none", "refused", "begin_failed", "stopped", "guardrail", "exhausted",
              "error", "aborted", "done", "max_steps", "killed"}

NoFeed == [by |-> "nobody"]
Feed == [by : {"human"}, args : Args, ok : BOOLEAN] \cup {NoFeed}
Message == [role : {"user", "staged", "assistant", "tool"}, calls : SUBSET Call]
NoSnapshot == [saved |-> FALSE]

Ids(role) == UNION {m.calls : m \in {n \in ToSet(history) : n.role = role}}

Unasked == [c \in Call |-> CHOOSE a \in Args : TRUE]

Init ==
  /\ pc = [r \in Run |-> "idle"]
  /\ steps = [r \in Run |-> 0]
  /\ reason = [r \in Run |-> "none"]
  /\ at = [r \in Run |-> [c \in Call |-> "none"]]
  /\ asked = [r \in Run |-> Unasked]
  /\ running = Nobody
  /\ stopRequested = FALSE
  /\ history = <<>>
  /\ pendingInput = 0 /\ added = 0
  /\ consecutive = 0
  /\ pending = {}
  /\ prefed = [c \in Call |-> NoFeed]
  /\ checkpoint = NoSnapshot
  /\ reports = <<>>
  /\ sends = [r \in Run |-> 0]
  /\ failures = [r \in Run |-> 0]
  /\ executed = {} /\ misreported = {} /\ consents = {} /\ rogue = {}
  /\ crashes = 0

-----------------------------------------------------------------------------
(* What the caller does.                                                   *)

(* beginRun up to its first await; a second run is refused.                *)
Begin(r) ==
  /\ pc[r] = "idle"
  /\ IF running = Nobody
       THEN /\ pc' = [pc EXCEPT ![r] = "begin"]
            /\ running' = r
            /\ stopRequested' = FALSE
            /\ UNCHANGED reason
       ELSE /\ pc' = [pc EXCEPT ![r] = "over"]
            /\ reason' = [reason EXCEPT ![r] = "refused"]
            /\ UNCHANGED <<running, stopRequested>>
  /\ UNCHANGED <<steps, tooling, history, pendingInput, consecutive, gate, reports,
                 effects, counts, crashes>>

Stop ==
  /\ running # Nobody /\ ~stopRequested
  /\ stopRequested' = TRUE
  /\ UNCHANGED <<frame, tooling, running, history, pendingInput, consecutive, gate,
                 reports, effects, counts, crashes>>

(* addInput, which throws while a run is in flight.                        *)
AddInput ==
  /\ running = Nobody
  /\ added < MaxStaged
  /\ added' = added + 1
  /\ pendingInput' = pendingInput + 1
  /\ UNCHANGED <<frame, tooling, running, stopRequested, history, consecutive, gate,
                 reports, effects, sends, failures, misreported, crashes>>

(* clearPendingInput; what it discards counts as never staged.             *)
ClearPendingInput ==
  /\ pendingInput > 0
  /\ pendingInput' = 0
  /\ added' = added - pendingInput
  /\ UNCHANGED <<frame, tooling, running, stopRequested, history, consecutive, gate,
                 reports, effects, sends, failures, misreported, crashes>>

(* resumeWithApproval(callId, decision), called where the guide calls it:  *)
(* with no run in flight.                                                  *)
ResumeWithApproval(c, ok) ==
  /\ running = Nobody
  /\ \E p \in pending :
       /\ p[1] = c
       /\ pending' = pending \ {p}
       /\ prefed' = [prefed EXCEPT ![c] = [by |-> "human", args |-> p[2], ok |-> ok]]
       /\ consents' = IF ok THEN consents \cup {p} ELSE consents
  /\ UNCHANGED <<frame, tooling, running, stopRequested, history, pendingInput,
                 consecutive, checkpoint, reports, executed, rogue, counts, crashes>>

-----------------------------------------------------------------------------
(* Beginning, ending and failing.                                          *)

Goto(r, place) == pc' = [pc EXCEPT ![r] = place]

Nothing == [c \in Call |-> "none"]
Calls(r) == {c \in Call : at[r][c] # "none"}

(* repairUnansweredToolCalls: one message that answers every open call.    *)
Orphans == Ids("assistant") \ Ids("tool")
Repaired == IF Orphans = {} THEN <<>> ELSE <<[role |-> "tool", calls |-> Orphans]>>
User == [role |-> "user", calls |-> {}]
Admitted == [i \in 1 .. pendingInput |-> [role |-> "staged", calls |-> {}]]

AdmitRepairsLast(r) ==
  /\ pc[r] = "begin"
  /\ Goto(r, "top")
  /\ history' = history \o <<User>> \o Admitted \o Repaired
  /\ misreported' = misreported \cup (Orphans \cap executed)
  /\ pendingInput' = 0
  /\ UNCHANGED <<steps, reason, tooling, running, stopRequested, consecutive, gate,
                 reports, effects, sends, failures, added, crashes>>

AdmitKeepsStaged(r) ==
  /\ pc[r] = "begin"
  /\ Goto(r, "top")
  /\ history' = history \o Repaired \o <<User>> \o Admitted
  /\ misreported' = misreported \cup (Orphans \cap executed)
  /\ pendingInput' = pendingInput
  /\ UNCHANGED <<steps, reason, tooling, running, stopRequested, consecutive, gate,
                 reports, effects, sends, failures, added, crashes>>

(* The rest of beginRun, after onRunStart.                                 *)
Admit(r) ==
  /\ pc[r] = "begin"
  /\ Goto(r, "top")
  /\ history' = history \o Repaired \o <<User>> \o Admitted
  /\ misreported' = misreported \cup (Orphans \cap executed)
  /\ pendingInput' = 0
  /\ UNCHANGED <<steps, reason, tooling, running, stopRequested, consecutive, gate,
                 reports, effects, sends, failures, added, crashes>>

(* The thunk or onRunStart throws before the try of the run.               *)
BeginThrows(r) ==
  /\ "begin" \in Throwing
  /\ pc[r] = "begin"
  /\ Goto(r, "over")
  /\ reason' = [reason EXCEPT ![r] = "begin_failed"]
  /\ UNCHANGED <<steps, tooling, running, stopRequested, history, pendingInput,
                 consecutive, gate, reports, effects, counts, crashes>>

EndsBusy(r, why) ==
  /\ Goto(r, "settling")
  /\ reason' = [reason EXCEPT ![r] = why]
  /\ running' = IF why = "aborted" THEN running ELSE Nobody
  /\ reports' = Append(reports, r)

(* The finally block and finalizeRun up to onRunComplete.                  *)
Ends(r, why) ==
  /\ Goto(r, "settling")
  /\ reason' = [reason EXCEPT ![r] = why]
  /\ running' = Nobody
  /\ reports' = Append(reports, r)

(* onRunComplete, which may throw: the run is over either way.             *)
Settled(r) ==
  /\ pc[r] = "settling"
  /\ Goto(r, "over")
  /\ UNCHANGED <<steps, reason, tooling, running, stopRequested, history, pendingInput,
                 consecutive, gate, reports, effects, counts, crashes>>

(* recordRunError.  When onRunError itself throws, stream() still settles  *)
(* in its finally block, complete() does not.                              *)
ErrorRecorded(r) ==
  /\ pc[r] = "failing"
  /\ \/ Ends(r, IF reason[r] = "none" THEN "error" ELSE reason[r])
     \/ /\ "error" \in Throwing
        /\ r \notin Streamed
        /\ Goto(r, "over")
        /\ running' = Nobody
        /\ UNCHANGED <<reason, reports>>
  /\ UNCHANGED <<steps, tooling, stopRequested, history, pendingInput, consecutive,
                 gate, effects, counts, crashes>>

(* A hook or a guardrail of the step throws.                               *)
StepThrows(r) ==
  /\ "step" \in Throwing
  /\ pc[r] \in {"starting", "reflecting", "replied"}
  /\ Goto(r, "failing")
  /\ at' = [at EXCEPT ![r] = Nothing]
  /\ UNCHANGED <<steps, reason, asked, running, stopRequested, history, pendingInput,
                 consecutive, gate, reports, effects, counts, crashes>>

ConsumerLeavesDuringTools(r) ==
  /\ r \in Streamed
  /\ pc[r] \in {"offer", "model", "announce", "tools", "report"}
  /\ Ends(r, "aborted")
  /\ at' = at
  /\ UNCHANGED <<steps, asked, stopRequested, history, pendingInput, consecutive,
                 gate, effects, counts, crashes>>

(* The consumer of a stream breaks out of its for await: the generator is  *)
(* closed at the yield it is parked on.                                    *)
ConsumerLeaves(r) ==
  /\ r \in Streamed
  /\ pc[r] \in {"offer", "model", "announce", "report"}
  /\ Ends(r, "aborted")
  /\ at' = [at EXCEPT ![r] = Nothing]
  /\ UNCHANGED <<steps, asked, stopRequested, history, pendingInput, consecutive,
                 gate, effects, counts, crashes>>

-----------------------------------------------------------------------------
(* The steps of a run.                                                     *)

(* The head of the loop.                                                   *)
LoopTop(r) ==
  /\ pc[r] = "top"
  /\ \/ stopRequested /\ Ends(r, "stopped")
     \/ /\ ~stopRequested
        /\ Goto(r, IF r \in Streamed THEN "offer" ELSE "starting")
        /\ UNCHANGED <<reason, running, reports>>
  /\ UNCHANGED <<steps, tooling, stopRequested, history, pendingInput, consecutive,
                 gate, effects, counts, crashes>>

(* A stream's consumer asks for the next event and the generator goes on   *)
(* from step_start.                                                        *)
Resumed(r) ==
  /\ pc[r] = "offer"
  /\ Goto(r, "starting")
  /\ UNCHANGED <<steps, reason, tooling, running, stopRequested, history, pendingInput,
                 consecutive, gate, reports, effects, counts, crashes>>

(* onStepStart and the input guardrails; one of them may trip.             *)
StepStarts(r) ==
  /\ pc[r] = "starting"
  /\ \/ /\ Goto(r, "model")
        /\ sends' = [sends EXCEPT ![r] = @ + 1]
        /\ UNCHANGED <<reason, running, reports>>
     \/ Ends(r, "guardrail") /\ UNCHANGED sends
  /\ UNCHANGED <<steps, tooling, stopRequested, history, pendingInput, consecutive,
                 gate, effects, failures, misreported, added, crashes>>

Assistant(C) == [role |-> "assistant", calls |-> C]

(* A reply is appended.  Only a reply that ended in tool_use, or any       *)
(* streamed one, has its calls executed.                                   *)
Replies(r, C, usable) ==
  /\ history' = Append(history, Assistant(C))
  /\ executed' = executed \ C
  /\ at' = [at EXCEPT ![r] = [c \in Call |-> IF c \in C /\ usable THEN "asked" ELSE "none"]]

(* The model, or a fallback client in its place, replies with the calls C. *)
ModelReplies(r, C) ==
  /\ pc[r] = "model"
  /\ Reissues \/ C \cap Ids("assistant") = {}
  /\ \E usable \in {TRUE} \cup (IF r \in Streamed \/ C = {} THEN {} ELSE {FALSE}) :
       Replies(r, C, usable)
  /\ \E f \in [C -> Args] :
       asked' = [asked EXCEPT ![r] = [c \in Call |-> IF c \in C THEN f[c] ELSE Unasked[c]]]
  /\ Goto(r, "replied")
  /\ consecutive' = IF Reflects /\ r \notin Streamed THEN 0 ELSE consecutive
  /\ failures' = [failures EXCEPT ![r] = 0]
  /\ UNCHANGED <<steps, reason, running, stopRequested, pendingInput, gate, reports,
                 consents, rogue, sends, misreported, added, crashes>>

ModelFumblesUncounted(r, C) ==
  /\ Reflects /\ r \notin Streamed
  /\ pc[r] = "model"
  /\ Reissues \/ C \cap Ids("assistant") = {}
  /\ at' = [at EXCEPT ![r] = [c \in Call |-> IF c \in C THEN "fumbled" ELSE "none"]]
  /\ Goto(r, "reflecting")
  /\ consecutive' = consecutive
  /\ failures' = [failures EXCEPT ![r] = @ + 1]
  /\ UNCHANGED <<steps, reason, asked, running, stopRequested, history, pendingInput,
                 gate, reports, effects, sends, misreported, added, crashes>>

(* The reply ends in a reason the reflect policy handles: recordFailure    *)
(* up to the warning.  Only complete() asks the policy.                    *)
ModelFumbles(r, C) ==
  /\ Reflects /\ r \notin Streamed
  /\ pc[r] = "model"
  /\ Reissues \/ C \cap Ids("assistant") = {}
  /\ at' = [at EXCEPT ![r] = [c \in Call |-> IF c \in C THEN "fumbled" ELSE "none"]]
  /\ Goto(r, "reflecting")
  /\ consecutive' = consecutive + 1
  /\ failures' = [failures EXCEPT ![r] = @ + 1]
  /\ UNCHANGED <<steps, reason, asked, running, stopRequested, history, pendingInput,
                 gate, reports, effects, sends, misreported, added, crashes>>

(* After the warning: guidance and another try, or the end of the budget.  *)
Reflected(r) ==
  /\ pc[r] = "reflecting"
  /\ \/ /\ consecutive <= MaxRetries
        /\ history' = Append(history, User)
        /\ at' = [at EXCEPT ![r] = Nothing]
        /\ Goto(r, "top")
        /\ UNCHANGED <<reason, executed>>
     \/ /\ consecutive > MaxRetries /\ ThrowIfExceeded
        /\ reason' = [reason EXCEPT ![r] = "exhausted"]
        /\ at' = [at EXCEPT ![r] = Nothing]
        /\ Goto(r, "failing")
        /\ UNCHANGED <<history, executed>>
     \/ /\ consecutive > MaxRetries /\ ~ThrowIfExceeded
        /\ Replies(r, Calls(r), FALSE)
        /\ Goto(r, "replied")
        /\ UNCHANGED reason
  /\ UNCHANGED <<steps, asked, running, stopRequested, pendingInput, consecutive, gate,
                 reports, consents, rogue, counts, crashes>>

(* The last client of the chain fails, or the run's signal was aborted.    *)
ModelFails(r) ==
  /\ pc[r] = "model"
  /\ Goto(r, "failing")
  /\ UNCHANGED <<steps, reason, tooling, running, stopRequested, history, pendingInput,
                 consecutive, gate, reports, effects, counts, crashes>>

(* The end of a step without calls.                                        *)
LastStep(r) ==
  /\ Calls(r) = {}
  /\ Ends(r, "done")
  /\ steps' = [steps EXCEPT ![r] = @ + 1]

(* onStepComplete and the output guardrails.                               *)
StepCompletes(r) ==
  /\ pc[r] = "replied"
  /\ \/ /\ Ends(r, "guardrail")
        /\ at' = [at EXCEPT ![r] = Nothing]
        /\ UNCHANGED steps
     \/ r \notin Streamed /\ LastStep(r) /\ UNCHANGED at
     \/ /\ r \in Streamed \/ Calls(r) # {}
        /\ Goto(r, IF r \in Streamed THEN "announce" ELSE "tools")
        /\ UNCHANGED <<steps, reason, at, running, reports>>
  /\ UNCHANGED <<asked, stopRequested, history, pendingInput, consecutive, gate,
                 effects, counts, crashes>>

(* A stream goes on from step_end and tool_call_start.                     *)
Announced(r) ==
  /\ pc[r] = "announce"
  /\ \/ LastStep(r)
     \/ /\ Calls(r) # {}
        /\ Goto(r, "tools")
        /\ UNCHANGED <<steps, reason, running, reports>>
  /\ UNCHANGED <<tooling, stopRequested, history, pendingInput, consecutive, gate,
                 effects, counts, crashes>>

NextStepLate(r) ==
  /\ history' = Append(history, [role |-> "tool", calls |-> Calls(r)])
  /\ at' = [at EXCEPT ![r] = Nothing]
  /\ asked' = [asked EXCEPT ![r] = Unasked]
  /\ executed' = executed \ Calls(r)
  /\ steps' = [steps EXCEPT ![r] = @ + 1]
  /\ IF steps[r] >= MaxSteps
       THEN Ends(r, "max_steps")
       ELSE Goto(r, "top") /\ UNCHANGED <<reason, running, reports>>

(* The results are appended, and the loop goes on or meets its limit.      *)
NextStep(r) ==
  /\ history' = Append(history, [role |-> "tool", calls |-> Calls(r)])
  /\ at' = [at EXCEPT ![r] = Nothing]
  /\ asked' = [asked EXCEPT ![r] = Unasked]
  /\ executed' = executed \ Calls(r)
  /\ steps' = [steps EXCEPT ![r] = @ + 1]
  /\ IF steps[r] + 1 >= MaxSteps
       THEN Ends(r, "max_steps")
       ELSE Goto(r, "top") /\ UNCHANGED <<reason, running, reports>>

(* Every call of the step has its result.                                  *)
ToolsAnswered(r) ==
  /\ pc[r] = "tools"
  /\ \A c \in Calls(r) : at[r][c] = "answered"
  /\ \/ r \notin Streamed /\ NextStep(r)
     \/ /\ r \in Streamed
        /\ Goto(r, "report")
        /\ UNCHANGED <<history, tooling, executed, steps, reason, running, reports>>
  /\ UNCHANGED <<stopRequested, pendingInput, consecutive, gate, consents, rogue, counts,
                 crashes>>

(* A stream goes on from tool_call_end.                                    *)
Reported(r) ==
  /\ pc[r] = "report"
  /\ NextStep(r)
  /\ UNCHANGED <<stopRequested, pendingInput, consecutive, gate, consents, rogue, counts,
                 crashes>>

(* One call threw: the others of a parallel step are not waited for.       *)
ToolsFail(r) ==
  /\ pc[r] = "tools"
  /\ \E c \in Call : at[r][c] = "thrown"
  /\ Goto(r, "failing")
  /\ UNCHANGED <<steps, reason, tooling, running, stopRequested, history, pendingInput,
                 consecutive, gate, reports, effects, counts, crashes>>

-----------------------------------------------------------------------------
(* The calls of a step: executeSingleTool and runApprovalGate.             *)

Moves(r, c, from, to) ==
  /\ at[r][c] \in from
  /\ at' = [at EXCEPT ![r][c] = to]

ToolFrame == <<frame, asked, running, stopRequested, history, pendingInput,
               consecutive, reports, counts, crashes>>

(* A sequential step starts a call when the one before has its result.     *)
Dispatched(r, c) ==
  /\ at[r][c] = "asked"
  /\ \/ Parallel /\ pc[r] \in {"tools", "failing", "settling", "over"}
     \/ pc[r] = "tools" /\ \A d \in Call \ {c} : at[r][d] \in {"none", "asked", "answered"}

(* The call is malformed, skipped, overridden, unknown, denied by a        *)
(* guardrail or the policy, or refused by the human: a result without a    *)
(* run of the tool.                                                        *)
AnsweredUnrun(r, c) ==
  /\ Dispatched(r, c) \/ at[r][c] = "refused"
  /\ Moves(r, c, {"asked", "refused"}, "answered")
  /\ UNCHANGED <<ToolFrame, gate, effects>>

(* A hook, a guardrail, the checkpoint or the approver throws.  The        *)
(* pending record of a call suspended then stays.                          *)
CallThrows(r, c) ==
  /\ "tool" \in Throwing
  /\ Dispatched(r, c) \/ at[r][c] \in {"gate", "deciding", "approved", "refused"}
  /\ Moves(r, c, CallPlace, "thrown")
  /\ UNCHANGED <<ToolFrame, gate, effects>>

RequestApproval(r, c) ==
  /\ Dispatched(r, c)
  /\ asked[r][c] \in Gated
  /\ Moves(r, c, {"asked"}, "gate")
  /\ pending' = pending \cup {<<c, asked[r][c]>>}
  /\ UNCHANGED <<ToolFrame, prefed, checkpoint, effects>>

WithoutAny(c) == {}
WithoutCall(c) == {p \in pending : p[1] # c}

SnapshotWithoutPending ==
  [saved |-> TRUE, history |-> history, pending |-> {},
   pendingInput |-> pendingInput, reports |-> reports]

Snapshot ==
  [saved |-> TRUE, history |-> history, pending |-> pending,
   pendingInput |-> pendingInput, reports |-> reports]

(* A decision reaches the gate: the record goes, onApprovalResolved is     *)
(* emitted.                                                                *)
Resolved(r, c, ok) ==
  /\ at' = [at EXCEPT ![r][c] = IF ok THEN "approved" ELSE "refused"]
  /\ pending' = WithoutCall(c)

SuspendIgnoringDigest(r, c) ==
  /\ at[r][c] = "gate"
  /\ checkpoint' = IF Checkpointed THEN Snapshot ELSE checkpoint
  /\ \/ /\ prefed[c] = NoFeed
        /\ Moves(r, c, {"gate"}, "deciding")
        /\ UNCHANGED <<pending, prefed, consents>>
     \/ /\ prefed[c] # NoFeed
        /\ prefed' = [prefed EXCEPT ![c] = NoFeed]
        /\ Resolved(r, c, prefed[c].ok)
        /\ UNCHANGED consents
  /\ UNCHANGED <<ToolFrame, executed, rogue>>

(* The checkpoint is written and resolveApproval looks for a decision fed  *)
(* before: it is used up, once, by the invocation it was about, and        *)
(* anything else throws.  Without one the approver is asked.               *)
Suspend(r, c) ==
  /\ at[r][c] = "gate"
  /\ checkpoint' = IF Checkpointed THEN Snapshot ELSE checkpoint
  /\ \/ /\ prefed[c] = NoFeed
        /\ Moves(r, c, {"gate"}, "deciding")
        /\ UNCHANGED <<pending, prefed, consents>>
     \/ /\ prefed[c] # NoFeed /\ prefed[c].args = asked[r][c]
        /\ prefed' = [prefed EXCEPT ![c] = NoFeed]
        /\ Resolved(r, c, prefed[c].ok)
        /\ UNCHANGED consents
     \/ /\ prefed[c] # NoFeed /\ prefed[c].args # asked[r][c]
        /\ prefed' = [prefed EXCEPT ![c] = NoFeed]
        /\ Moves(r, c, {"gate"}, "thrown")
        /\ consents' = consents \ {<<c, prefed[c].args>>}
        /\ UNCHANGED pending
  /\ UNCHANGED <<ToolFrame, executed, rogue>>

(* The approver answers.                                                   *)
Decide(r, c) ==
  /\ at[r][c] = "deciding"
  /\ \E ok \in BOOLEAN :
       /\ Resolved(r, c, ok)
       /\ consents' = IF ok THEN consents \cup {<<c, asked[r][c]>>} ELSE consents
  /\ UNCHANGED <<ToolFrame, prefed, checkpoint, executed, rogue>>

(* executeWithTimeout starts the tool, at once or after an approval.       *)
Execute(r, c) ==
  /\ \/ Dispatched(r, c) /\ asked[r][c] \notin Gated
     \/ at[r][c] = "approved"
  /\ Moves(r, c, CallPlace, "exec")
  /\ executed' = executed \cup {c}
  /\ LET used == <<c, asked[r][c]>> IN
       /\ rogue' = IF asked[r][c] \in Gated /\ used \notin consents
                     THEN rogue \cup {used} ELSE rogue
       /\ consents' = consents \ {used}
  /\ UNCHANGED <<ToolFrame, gate>>

(* The tool returns, throws or gives in to its timeout; only a subscriber  *)
(* of onToolCallError can make that the end of the run.                    *)
ToolEnds(r, c) ==
  /\ at[r][c] = "exec"
  /\ \/ Moves(r, c, {"exec"}, "answered")
     \/ "tool_error" \in Throwing /\ Moves(r, c, {"exec"}, "thrown")
  /\ UNCHANGED <<ToolFrame, gate, effects>>

-----------------------------------------------------------------------------
(* The process stops and the application restores the agent from the       *)
(* checkpoint, or starts anew when there is none.                          *)
Crash ==
  /\ crashes < MaxCrashes
  /\ crashes' = crashes + 1
  /\ pc' = [r \in Run |-> IF pc[r] \in {"idle", "over"} THEN pc[r] ELSE "over"]
  /\ reason' = [r \in Run |-> IF pc[r] \in {"idle", "over"} THEN reason[r] ELSE "killed"]
  /\ at' = [r \in Run |-> Nothing]
  /\ running' = Nobody /\ stopRequested' = FALSE
  /\ consecutive' = 0
  /\ prefed' = [c \in Call |-> NoFeed]
  /\ consents' = {}
  /\ IF checkpoint.saved
       THEN /\ history' = checkpoint.history
            /\ pending' = checkpoint.pending
            /\ pendingInput' = checkpoint.pendingInput
            /\ reports' = checkpoint.reports
       ELSE /\ history' = <<>> /\ pending' = {}
            /\ pendingInput' = 0 /\ reports' = <<>>
  /\ UNCHANGED <<steps, asked, checkpoint, executed, rogue, counts>>

RunStep(r) ==
  \/ Admit(r) \/ BeginThrows(r) \/ LoopTop(r) \/ Resumed(r) \/ StepStarts(r)
  \/ StepThrows(r) \/ ModelFails(r) \/ Reflected(r) \/ StepCompletes(r) \/ Announced(r)
  \/ ToolsAnswered(r) \/ Reported(r) \/ ToolsFail(r) \/ ErrorRecorded(r) \/ Settled(r)
  \/ \E C \in SUBSET Call : ModelReplies(r, C) \/ ModelFumbles(r, C)

CallStep(r, c) ==
  \/ AnsweredUnrun(r, c) \/ CallThrows(r, c) \/ RequestApproval(r, c) \/ Suspend(r, c)
  \/ Decide(r, c) \/ Execute(r, c) \/ ToolEnds(r, c)

Next ==
  \/ \E r \in Run : Begin(r) \/ ConsumerLeaves(r) \/ RunStep(r)
  \/ \E r \in Run, c \in Call : CallStep(r, c)
  \/ \E c \in Call, ok \in BOOLEAN : ResumeWithApproval(c, ok)
  \/ Stop \/ AddInput \/ ClearPendingInput \/ Crash

Spec == Init /\ [][Next]_vars

(* Model, hooks, tools and the approver answer in the end, and a consumer  *)
(* reads on or leaves.  Nothing makes a caller act or the process stop.    *)
Fairness ==
  /\ \A r \in Run : WF_vars(RunStep(r))
  /\ \A r \in Run, c \in Call : WF_vars(CallStep(r, c))

FairSpec == Spec /\ Fairness

-----------------------------------------------------------------------------
TypeOK ==
  /\ pc \in [Run -> Place] /\ steps \in [Run -> 0 .. MaxSteps]
  /\ reason \in [Run -> EndReason]
  /\ at \in [Run -> [Call -> CallPlace]] /\ asked \in [Run -> [Call -> Args]]
  /\ running \in Run \cup {Nobody} /\ stopRequested \in BOOLEAN
  /\ ToSet(history) \subseteq Message
  /\ pendingInput \in Nat /\ consecutive \in Nat
  /\ pending \subseteq Call \X Args /\ prefed \in [Call -> Feed]
  /\ ToSet(reports) \subseteq Run
  /\ executed \subseteq Call /\ consents \subseteq Call \X Args

(* One run at a time: whatever ends a run, hands the agent on at once, and *)
(* the agent is busy exactly while a run is between its beginRun and its   *)
(* finally block (a beginRun that throws aside).                           *)
OneRunAtATime ==
  /\ \A r \in Run : pc[r] \in InLoop \cup {"begin"} => running = r
  /\ running # Nobody =>
       pc[running] \in InLoop \cup {"begin"} \/ reason[running] = "begin_failed"

(* Whenever the model is asked, every tool call of the conversation is     *)
(* answered by the message right after it and every answer follows its     *)
(* call: the provider accepts what repairUnansweredToolCalls let through.  *)
HistoryIsSendable ==
  (\E r \in Run : pc[r] = "model") =>
    \A i \in DOMAIN history :
      /\ history[i].role = "assistant" /\ history[i].calls # {} =>
           /\ i < Len(history)
           /\ history[i + 1].role = "tool" /\ history[i].calls \subseteq history[i + 1].calls
      /\ history[i].role = "tool" =>
           /\ i > 1
           /\ history[i - 1].role = "assistant" /\ history[i].calls \subseteq history[i - 1].calls

(* A run asks the model at most once per step and per retry the reflect    *)
(* policy grants: maxSteps stays a bound although a retry is not counted   *)
(* as a step.                                                              *)
BoundedSends ==
  \A r \in Run : sends[r] <= MaxSteps * (1 + IF Reflects THEN MaxRetries ELSE 0)

(* Every call that waits for a human in the run in flight is listed by     *)
(* pendingApprovals.                                                       *)
SuspendedIsListed ==
  \A r \in Run, c \in Call :
    pc[r] = "tools" /\ at[r][c] \in Suspended => <<c, asked[r][c]>> \in pending

(* What a run leaves behind is sound: the conversation can be sent, the    *)
(* model was asked no more often than the steps and the retries allow, and *)
(* a call that waits for a human is listed (loop.ts                        *)
(* repairUnansweredToolCalls, pendingApprovals; reflect-retry.ts).         *)
RunsAreSound == HistoryIsSendable /\ BoundedSends /\ SuspendedIsListed

(* Staged input is said at most once, and is not lost without a restart.   *)
StagedInputSaidOnce ==
  LET said == Cardinality({i \in DOMAIN history : history[i].role = "staged"}) + pendingInput
  IN said <= added /\ (crashes = 0 => said = added)

(* Every run that began ends, with one report: hooks that throw, a policy  *)
(* that retries, calls that wait for each other and a consumer that leaves *)
(* included (a beginRun or an onRunError that throws aside).               *)
EveryRunEndsReported ==
  \A r \in Run :
    pc[r] = "begin" ~>
      /\ pc[r] = "over" /\ running # r
      /\ reason[r] = "killed" \/ Len(SelectSeq(reports, LAMBDA q : q = r)) = 1

(* A tool the policy asks about runs only on an approval of this very      *)
(* invocation that was not used before and did not outlive the process.    *)
NoRogueExecution == rogue = {}

(* A call that waits for its approver can be resumed after a restart: the  *)
(* checkpoint lists it.                                                    *)
GateIsDurable ==
  \A r \in Run, c \in Call :
    Checkpointed /\ at[r][c] = "deciding" =>
      checkpoint.saved /\ <<c, asked[r][c]>> \in checkpoint.pending

Busy == Suspended \cup {"approved", "refused", "exec"}

(* With calls in sequence no call is under way but in the step of the run  *)
(* in flight, so stop() reaches it.                                        *)
NoToolOutlivesItsRun ==
  \A r \in Run, c \in Call :
    at[r][c] \in Busy => pc[r] = "tools" /\ running = r

(* A run is given up only after maxRetries failed retries of its own.      *)
RetryBudgetPerRun ==
  \A r \in Run : reason[r] = "exhausted" => failures[r] > MaxRetries

(* The repair says "never run" only of tools that were not run.            *)
RepairTellsTruth == misreported = {}

=============================================================================
