-------------------------- MODULE RequestLifecycle --------------------------
(***************************************************************************)
(* What one network queue promises its callers, without saying how.  A     *)
(* request waits, goes on the wire, may come back to wait for another try, *)
(* and is settled once.  The wire carries at most MaxConcurrent requests,  *)
(* a request is sent at most MaxSends times, one that the provider has     *)
(* accepted is never sent again, and one in Once is never sent again after *)
(* it was on the wire.  QueueState implements this specification.          *)
(***************************************************************************)
EXTENDS Integers, FiniteSets

CONSTANTS
  Actor,          \* the requests, buffered and streamed: a finite set
  Once,           \* requests that must not be sent twice: a subset of Actor
  MaxConcurrent,  \* requests the provider may see at the same time
  MaxSends        \* sends of one request, retries included

VARIABLES
  status,  \* where each request stands
  sends    \* how often each request was put on the wire

lifecycleVars == <<status, sends>>

Status == {"idle", "waiting", "onWire", "accepted", "settled"}

LifecycleTypeOK ==
  /\ status \in [Actor -> Status]
  /\ sends \in [Actor -> 0 .. MaxSends]

(* Requests the provider is working on, or whose answer is being read. *)
Busy == {a \in Actor : status[a] \in {"onWire", "accepted"}}

LifecycleInit ==
  /\ status = [a \in Actor |-> "idle"]
  /\ sends = [a \in Actor |-> 0]

Accept(a) ==
  /\ status[a] = "onWire"
  /\ status' = [status EXCEPT ![a] = "accepted"]
  /\ UNCHANGED sends

Take(a) ==
  /\ status[a] = "idle"
  /\ status' = [status EXCEPT ![a] = "waiting"]
  /\ UNCHANGED sends

Send(a) ==
  /\ status[a] = "waiting"
  /\ Cardinality(Busy) < MaxConcurrent
  /\ sends[a] < MaxSends
  /\ a \in Once => sends[a] = 0
  /\ status' = [status EXCEPT ![a] = "onWire"]
  /\ sends' = [sends EXCEPT ![a] = @ + 1]

TryAgain(a) ==
  /\ status[a] = "onWire"
  /\ a \notin Once
  /\ status' = [status EXCEPT ![a] = "waiting"]
  /\ UNCHANGED sends

(* Several requests may be given up in one turn; none of them twice. *)
Settle(A) ==
  /\ A # {}
  /\ \A a \in A : status[a] # "settled"
  /\ status' = [a \in Actor |-> IF a \in A THEN "settled" ELSE status[a]]
  /\ UNCHANGED sends

LifecycleNext ==
  \/ \E a \in Actor : Take(a) \/ Send(a) \/ TryAgain(a) \/ Accept(a)
  \/ \E A \in SUBSET Actor : Settle(A)

LifecycleSpec == LifecycleInit /\ [][LifecycleNext]_lifecycleVars

=============================================================================
