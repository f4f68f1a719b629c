--------------------------- MODULE SchedulerProofs ---------------------------
(***************************************************************************)
(* What the scheduler keeps for any number of tasks, starts and crashes.   *)
(***************************************************************************)
EXTENDS Scheduler, TLAPS

LEMMA InitTypeOK == Init => TypeOK
<1> SUFFICES ASSUME Init PROVE TypeOK
  OBVIOUS
<1>1. live \in [Task -> Nat] /\ handling \in [Task -> Nat] /\ saving \in [Task -> Nat]
  BY DEF Init, Zero
<1>2. starts \in 0 .. MaxStarts
  BY SchedulerAssumption DEF Init
<1> QED
  BY <1>1, <1>2 DEF Init, TypeOK, Phase

LEMMA NextTypeOK == TypeOK /\ [Next]_vars => TypeOK'
<1> SUFFICES ASSUME TypeOK, [Next]_vars PROVE TypeOK'
  OBVIOUS
<1> USE SchedulerAssumption DEF TypeOK, memory, Phase
<1>1. CASE UNCHANGED vars
  BY <1>1 DEF vars
<1>2. ASSUME NEW t \in Task, Add(t) \/ CancelReturns(t) PROVE TypeOK'
  BY <1>2 DEF Add, CancelReturns
<1>3. ASSUME NEW t \in Task, AddReturns(t) PROVE TypeOK'
  BY <1>3 DEF AddReturns, ScheduleIfRunning, ScheduleTimer
<1>4. ASSUME NEW t \in Task, Cancel(t) PROVE TypeOK'
  <2>1. live' \in [Task -> Nat]
    BY <1>4 DEF Cancel, ClearTimers
  <2>2. mapped' \subseteq {u \in Task : live'[u] > 0}
    BY <1>4 DEF Cancel, ClearTimers
  <2> QED
    BY <1>4, <2>1, <2>2 DEF Cancel
<1>5. CASE Start \/ StartLists \/ StartReturns
  <2>1. starts' \in 0 .. MaxStarts
    BY <1>5 DEF Start, StartLists, StartReturns
  <2> QED
    BY <1>5, <2>1 DEF Start, StartLists, StartReturns
<1>6. ASSUME NEW t \in Task, StartLoads(t) PROVE TypeOK'
  BY <1>6 DEF StartLoads
<1>7. ASSUME NEW t \in Task, StartSchedules(t) PROVE TypeOK'
  BY <1>7 DEF StartSchedules, ScheduleTimer
<1>8. CASE Stop
  <2>1. live' \in [Task -> Nat] /\ mapped' = {}
    BY <1>8 DEF Stop, ClearTimers
  <2> QED
    BY <1>8, <2>1 DEF Stop
<1>9. ASSUME NEW t \in Task, Fire(t) PROVE TypeOK'
  <2>1. live' \in [Task -> Nat] /\ handling' \in [Task -> Nat]
    BY <1>9 DEF Fire
  <2> QED
    BY <1>9, <2>1 DEF Fire
<1>10. ASSUME NEW t \in Task, HandlerEnds(t) PROVE TypeOK'
  <2>1. handling' \in [Task -> Nat] /\ saving' \in [Task -> Nat]
    BY <1>10 DEF HandlerEnds
  <2> QED
    BY <1>10, <2>1 DEF HandlerEnds
<1>11. ASSUME NEW t \in Task, Reschedule(t) PROVE TypeOK'
  BY <1>11 DEF Reschedule, ScheduleIfRunning, ScheduleTimer
<1>12. CASE Crash
  BY <1>12 DEF Crash, Zero
<1>13. ASSUME NEW t \in Task, AddFails(t) \/ CancelFails(t) PROVE TypeOK'
  BY <1>13 DEF AddFails, CancelFails, MayLeave, Drop
<1>14. ASSUME NEW t \in Task, DeletionFails(t) PROVE TypeOK'
  <2>1. handling' \in [Task -> Nat]
    BY <1>14 DEF DeletionFails
  <2> QED
    BY <1>14, <2>1 DEF DeletionFails, Drop
<1>15. ASSUME NEW t \in Task, RescheduleFails(t) PROVE TypeOK'
  <2>1. saving' \in [Task -> Nat]
    BY <1>15 DEF RescheduleFails
  <2> QED
    BY <1>15, <2>1 DEF RescheduleFails, MayLeave, Drop
<1>16. CASE StartFails
  BY <1>16 DEF StartFails, Drop
<1> QED
  BY <1>1, <1>2, <1>3, <1>4, <1>5, <1>6, <1>7, <1>8, <1>9, <1>10, <1>11, <1>12,
     <1>13, <1>14, <1>15, <1>16
  DEF Next, Turn, Rejection

(* The map timers refers only to timers that are set, however many times a *)
(* task was scheduled, so no clearTimeout is spent on one that has fired.  *)
THEOREM SpecTypeOK == Spec => []TypeOK
  BY InitTypeOK, NextTypeOK, PTL DEF Spec

-----------------------------------------------------------------------------
(* Tasks survive.                                                          *)

(* A task is on record from the call on, not only once the caller knows.   *)
TaskKept ==
  \A t \in Task :
    phase[t] \in {"adding", "known"} /\ (t \notin done \/ t \in Periodic) => t \in store

LEMMA NextTaskKept ==
  ASSUME AtomicWrites
  PROVE  TypeOK /\ TaskKept /\ [Next]_vars => TaskKept'
<1> SUFFICES ASSUME TypeOK, TaskKept, [Next]_vars PROVE TaskKept'
  OBVIOUS
<1> USE SchedulerAssumption DEF TypeOK, TaskKept, memory
<1>1. CASE UNCHANGED vars
  BY <1>1 DEF vars
<1>2. ASSUME NEW t \in Task, Add(t) \/ CancelReturns(t) PROVE TaskKept'
  BY <1>2 DEF Add, CancelReturns
<1>3. ASSUME NEW t \in Task, AddReturns(t) \/ Cancel(t) PROVE TaskKept'
  BY <1>3 DEF AddReturns, Cancel
<1>4. CASE Start \/ StartLists \/ StartReturns \/ Stop
  BY <1>4 DEF Start, StartLists, StartReturns, Stop
<1>5. ASSUME NEW t \in Task, StartLoads(t) \/ StartSchedules(t) \/ Fire(t) \/ Reschedule(t)
      PROVE  TaskKept'
  BY <1>5 DEF StartLoads, StartSchedules, Fire, Reschedule
<1>6. ASSUME NEW t \in Task, HandlerEnds(t) PROVE TaskKept'
  BY <1>6 DEF HandlerEnds, Task
<1>7. CASE Crash
  BY <1>7 DEF Crash, Torn
<1>8. ASSUME NEW t \in Task, AddFails(t) \/ CancelFails(t) PROVE TaskKept'
  BY <1>8 DEF AddFails, CancelFails, MayLeave
<1>9. ASSUME NEW t \in Task, DeletionFails(t) PROVE TaskKept'
  BY <1>9 DEF DeletionFails
<1>10. ASSUME NEW t \in Task, RescheduleFails(t) PROVE TaskKept'
  BY <1>10, AtomicWrites DEF RescheduleFails, MayLeave
<1>11. CASE StartFails
  BY <1>11 DEF StartFails
<1> QED
  BY <1>1, <1>2, <1>3, <1>4, <1>5, <1>6, <1>7, <1>8, <1>9, <1>10, <1>11
  DEF Next, Turn, Rejection

(* While a write is seen whole or not at all, a task whose id the caller   *)
(* has and that was not cancelled is in persistence until its handler has  *)
(* run to its end, across any number of crashes, starts and rejections.    *)
THEOREM SpecNoTaskLost ==
  ASSUME AtomicWrites
  PROVE  Spec => []NoTaskLost
<1>1. Init => TypeOK /\ TaskKept
  BY InitTypeOK DEF Init, TaskKept
<1>2. TypeOK /\ TaskKept /\ [Next]_vars => (TypeOK /\ TaskKept)'
  BY NextTypeOK, NextTaskKept
<1>3. TypeOK /\ TaskKept => NoTaskLost
  BY DEF TaskKept, NoTaskLost
<1> QED
  BY <1>1, <1>2, <1>3, PTL DEF Spec

-----------------------------------------------------------------------------
(* Tasks are run.                                                          *)

InHand(t) == live[t] + handling[t] + saving[t] > 0

(* While start is under way it may still come to the task.                 *)
Ahead(t) == starting = "listing" \/ t \in keys \cup loaded

Tended ==
  /\ starting # "looping" => keys = {} /\ loaded = {}
  /\ \A t, u \in loaded : t = u
  /\ running => \A t \in store \cap Registered :
       Wanted(t) /\ t \notin dropped => phase[t] = "adding" \/ InHand(t) \/ Ahead(t)

LEMMA NextTended == TypeOK /\ Tended /\ [Next]_vars => Tended'
<1> SUFFICES ASSUME TypeOK, Tended, [Next]_vars PROVE Tended'
  OBVIOUS
<1> USE SchedulerAssumption DEF TypeOK, Tended, memory, InHand, Ahead, Wanted
<1>1. CASE UNCHANGED vars
  BY <1>1 DEF vars
<1>2. ASSUME NEW t \in Task, Add(t) \/ CancelReturns(t) PROVE Tended'
  BY <1>2 DEF Add, CancelReturns
<1>3. ASSUME NEW t \in Task, AddReturns(t) PROVE Tended'
  BY <1>3 DEF AddReturns, ScheduleIfRunning, ScheduleTimer
<1>4. ASSUME NEW t \in Task, Cancel(t) PROVE Tended'
  BY <1>4 DEF Cancel, ClearTimers
<1>5. CASE Start \/ StartLists \/ StartReturns
  BY <1>5 DEF Start, StartLists, StartReturns
<1>6. ASSUME NEW t \in Task, StartLoads(t) PROVE Tended'
  BY <1>6 DEF StartLoads, Torn
<1>7. ASSUME NEW t \in Task, StartSchedules(t) PROVE Tended'
  BY <1>7 DEF StartSchedules, ScheduleTimer
<1>8. CASE Stop \/ Crash
  BY <1>8 DEF Stop, Crash
<1>9. ASSUME NEW t \in Task, Fire(t) PROVE Tended'
  BY <1>9 DEF Fire
<1>10. ASSUME NEW t \in Task, HandlerEnds(t) PROVE Tended'
  BY <1>10 DEF HandlerEnds, Task
<1>11. ASSUME NEW t \in Task, Reschedule(t) PROVE Tended'
  BY <1>11 DEF Reschedule, ScheduleIfRunning, ScheduleTimer
<1>12. ASSUME NEW t \in Task, AddFails(t) \/ CancelFails(t) PROVE Tended'
  BY <1>12 DEF AddFails, CancelFails, MayLeave, Drop
<1>13. ASSUME NEW t \in Task, DeletionFails(t) PROVE Tended'
  BY <1>13 DEF DeletionFails, Drop
<1>14. ASSUME NEW t \in Task, RescheduleFails(t) PROVE Tended'
  BY <1>14 DEF RescheduleFails, MayLeave, Drop
<1>15. CASE StartFails
  BY <1>15 DEF StartFails, Drop
<1> QED
  BY <1>1, <1>2, <1>3, <1>4, <1>5, <1>6, <1>7, <1>8, <1>9, <1>10, <1>11,
     <1>12, <1>13, <1>14, <1>15
  DEF Next, Turn, Rejection

(* Torn records or not, a running scheduler that has finished starting has *)
(* a timer, a run or a pending write for every stored task it can run, but *)
(* for one the persistence rejected a call for since start last listed it. *)
THEOREM SpecEveryTaskTended == Spec => []EveryTaskTended
<1>1. Init => TypeOK /\ Tended
  BY InitTypeOK DEF Init, Tended
<1>2. TypeOK /\ Tended /\ [Next]_vars => (TypeOK /\ Tended)'
  BY NextTypeOK, NextTended
<1>3. TypeOK /\ Tended => EveryTaskTended
  BY DEF Tended, EveryTaskTended, Ahead, InHand
<1> QED
  BY <1>1, <1>2, <1>3, PTL DEF Spec

=============================================================================
