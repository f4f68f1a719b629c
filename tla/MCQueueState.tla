---------------------------- MODULE MCQueueState ----------------------------
(***************************************************************************)
(* Instances of QueueState small enough for TLC.                           *)
(***************************************************************************)
EXTENDS QueueState

CONSTANT r1  \* one of the requests, the interactive one

OneRetry == [limited |-> 1, transient |-> 1]
UnevenRetries == [limited |-> 2, transient |-> 1]
OneRateLimitRetry == [limited |-> 1, transient |-> 0]

SamePriority == [r \in Req |-> 1]
(* r1 interactive, the others in the background.                           *)
MixedPriority == [r \in Req |-> IF r = r1 THEN 1 ELSE 2]

NoHook == {}
AllHooksButRetry == HookName \ {"onRetry"}
(* The hooks whose throw costs no slot of a stream.                        *)
SurvivableHooks == HookName \ {"onRequestStart"}

=============================================================================
