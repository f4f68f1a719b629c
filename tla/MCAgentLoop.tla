---------------------------- MODULE MCAgentLoop -----------------------------
(***************************************************************************)
(* Instances of AgentLoop small enough for TLC.                            *)
(***************************************************************************)
EXTENDS AgentLoop

NoThrower == {}
(* All but those that end a run without its report.                        *)
MostThrowers == Thrower \ {"begin", "error"}
AllThrowers == Thrower

=============================================================================
