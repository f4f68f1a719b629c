----------------------------- MODULE MCBatcher -----------------------------
(***************************************************************************)
(* Instances of Batcher small enough for TLC: the requests and batch ids   *)
(* are model values of the configurations.                                 *)
(***************************************************************************)
EXTENDS Batcher

EveryFault == FaultName

=============================================================================
