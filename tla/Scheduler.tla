------------------------------ MODULE Scheduler ------------------------------
(***************************************************************************)
(* The durable task scheduler (plugins/scheduler/scheduler.ts) over a      *)
(* Persistence (plugins/persistence), with the crashes and restarts the    *)
(* persistence is for.                                                     *)
(*                                                                         *)
(* An action is the code between two awaits.  A write or a read takes      *)
(* effect somewhere between its call and the turn that goes on after it:   *)
(* the call and the effect are one action where nothing else can tell.     *)
(* Any of them may reject instead, which nothing here catches.             *)
(* Due times are left to the environment: a timer may fire in any turn     *)
(* after it was set.                                                       *)
(***************************************************************************)
EXTENDS Integers, FiniteSets

CONSTANTS
  Once,        \* tasks given to after and at
  Periodic,    \* tasks given to every
  Registered,  \* tasks whose handler is registered under their name
  AtomicWrites, \* whether a write of the persistence is seen whole or not at all
  MaxStarts    \* bound: calls of start, over all lives of the process

Task == Once \cup Periodic

ASSUME SchedulerAssumption ==
  /\ Once \cap Periodic = {}
  /\ Registered \subseteq Task
  /\ AtomicWrites \in BOOLEAN
  /\ MaxStarts \in Nat

VARIABLES
  store,     \* tasks with a record in persistence
  phase,     \* what the caller knows of each task, see Phase
  done,      \* tasks whose handler has run to its end at least once
  running,   \* the flag running
  live,      \* timers of each task that are set and have not fired
  mapped,    \* tasks with an entry in the map timers
  handling,  \* runs of each task's handler that have not ended
  saving,    \* periodic runs at the await of their write
  starting,  \* where start stands: off, listing, looping
  keys,      \* keys start has still to load
  loaded,    \* task start has read and not scheduled yet
  dropped,   \* tasks left without a timer by a rejection, see Drop
  starts     \* calls of start so far

memory == <<running, live, mapped, handling, saving, starting, keys, loaded, dropped>>
vars == <<store, phase, done, memory, starts>>

(* "unknown": the call rejected, or the process stopped before it returned.*)
Phase == {"new", "adding", "known", "cancelling", "cancelled", "unknown"}

TypeOK ==
  /\ store \subseteq Task
  /\ phase \in [Task -> Phase]
  /\ done \subseteq Task
  /\ running \in BOOLEAN
  /\ live \in [Task -> Nat]
  /\ mapped \subseteq {t \in Task : live[t] > 0}
  /\ handling \in [Task -> Nat]
  /\ saving \in [Task -> Nat]
  /\ starting \in {"off", "listing", "looping"}
  /\ keys \subseteq Task
  /\ loaded \subseteq Task
  /\ dropped \subseteq Task
  /\ starts \in 0 .. MaxStarts

Zero == [t \in Task |-> 0]

Init ==
  /\ store = {}
  /\ phase = [t \in Task |-> "new"]
  /\ done = {}
  /\ running = FALSE
  /\ live = Zero /\ mapped = {}
  /\ handling = Zero /\ saving = Zero
  /\ starting = "off" /\ keys = {} /\ loaded = {} /\ dropped = {}
  /\ starts = 0

-----------------------------------------------------------------------------

ScheduleTimerForgets(t) == UNCHANGED <<live, mapped>> /\ dropped' = dropped \ {t}

(* A second timer of a task takes the place of the first in the map, and   *)
(* the first stays set.                                                    *)
ScheduleTimer(t) ==
  /\ live' = [live EXCEPT ![t] = @ + 1]
  /\ mapped' = mapped \cup {t}
  /\ dropped' = dropped \ {t}

ScheduleIfRunning(t) ==
  IF running THEN ScheduleTimer(t) ELSE UNCHANGED <<live, mapped, dropped>>

ClearTimersKeepsMap(T) ==
  /\ live' = [t \in Task |-> IF t \in T \cap mapped THEN live[t] - 1 ELSE live[t]]
  /\ UNCHANGED mapped

(* Only the timers in the map can be cleared.                              *)
ClearTimers(T) ==
  /\ live' = [t \in Task |-> IF t \in T \cap mapped THEN live[t] - 1 ELSE live[t]]
  /\ mapped' = mapped \ T

(* FilePersistence writes in place: until the write is over a reader may   *)
(* find the record cut short, which get takes for no record.               *)
Torn == IF AtomicWrites THEN {} ELSE {t \in Task : phase[t] = "adding" \/ saving[t] > 0}

(* A call to the persistence made for the tasks T rejects: nothing sets    *)
(* the timers it was to set, until a later start comes to them.            *)
Drop(T) == dropped' = dropped \cup T

(* What a rejected call on t's record may leave: the record or none.       *)
MayLeave(t) == {store, store \ {t}}

(* after, at, every.                                                       *)
Add(t) ==
  /\ phase[t] = "new"
  /\ phase' = [phase EXCEPT ![t] = "adding"]
  /\ store' = store \cup {t}
  /\ UNCHANGED <<done, memory, starts>>

AddReturns(t) ==
  /\ phase[t] = "adding"
  /\ phase' = [phase EXCEPT ![t] = "known"]
  /\ ScheduleIfRunning(t)
  /\ UNCHANGED <<store, done, running, handling, saving, starting, keys, loaded, starts>>

(* The caller has the error, and the record may be there all the same.     *)
AddFails(t) ==
  /\ phase[t] = "adding"
  /\ phase' = [phase EXCEPT ![t] = "unknown"]
  /\ store' \in MayLeave(t)
  /\ Drop({t})
  /\ UNCHANGED <<done, running, live, mapped, handling, saving, starting, keys, loaded, starts>>

Cancel(t) ==
  /\ phase[t] = "known"
  /\ phase' = [phase EXCEPT ![t] = "cancelling"]
  /\ ClearTimers({t})
  /\ UNCHANGED <<store, done, running, handling, saving, starting, keys, loaded, dropped, starts>>

CancelReturns(t) ==
  /\ phase[t] = "cancelling"
  /\ phase' = [phase EXCEPT ![t] = "cancelled"]
  /\ store' = store \ {t}
  /\ UNCHANGED <<done, memory, starts>>

(* The timer is gone, and the record may have stayed.                      *)
CancelFails(t) ==
  /\ phase[t] = "cancelling"
  /\ phase' = [phase EXCEPT ![t] = "unknown"]
  /\ store' \in MayLeave(t)
  /\ Drop({t})
  /\ UNCHANGED <<done, running, live, mapped, handling, saving, starting, keys, loaded, starts>>

(* start, one call at a time.                                              *)
Start ==
  /\ starting = "off"
  /\ starts < MaxStarts
  /\ starts' = starts + 1
  /\ running' = TRUE
  /\ starting' = "listing"
  /\ UNCHANGED <<store, phase, done, live, mapped, handling, saving, keys, loaded, dropped>>

StartLists ==
  /\ starting = "listing"
  /\ keys' = store
  /\ dropped' = {}
  /\ starting' = "looping"
  /\ UNCHANGED <<store, phase, done, running, live, mapped, handling, saving, loaded, starts>>

(* A record that is gone is skipped.                                       *)
StartLoads(t) ==
  /\ starting = "looping"
  /\ loaded = {}
  /\ t \in keys
  /\ keys' = keys \ {t}
  /\ \E readable \in {store, store \ Torn} : loaded' = {t} \cap readable
  /\ UNCHANGED <<store, phase, done, running, live, mapped, handling, saving, starting,
                 dropped, starts>>

StartSchedules(t) ==
  /\ t \in loaded
  /\ loaded' = {}
  /\ ScheduleTimer(t)
  /\ UNCHANGED <<store, phase, done, running, handling, saving, starting, keys, starts>>

StartReturns ==
  /\ starting = "looping" /\ keys = {} /\ loaded = {}
  /\ starting' = "off"
  /\ UNCHANGED <<store, phase, done, running, live, mapped, handling, saving, keys, loaded,
                 dropped, starts>>

(* list or a get rejects: start leaves the keys it had not come to, with   *)
(* running set.                                                            *)
StartFails ==
  /\ starting \in {"listing", "looping"}
  /\ starting' = "off" /\ keys' = {} /\ loaded' = {}
  /\ Drop(IF starting = "listing" THEN store ELSE keys \cup loaded)
  /\ UNCHANGED <<store, phase, done, running, live, mapped, handling, saving, starts>>

Stop ==
  /\ running
  /\ running' = FALSE
  /\ ClearTimers(Task)
  /\ UNCHANGED <<store, phase, done, handling, saving, starting, keys, loaded, dropped, starts>>

FireDeletesFirst(t) ==
  /\ live[t] > 0
  /\ live' = [live EXCEPT ![t] = @ - 1]
  /\ mapped' = mapped \ {t}
  /\ handling' = IF t \in Registered THEN [handling EXCEPT ![t] = @ + 1] ELSE handling
  /\ store' = IF t \in Registered \cap Once THEN store \ {t} ELSE store
  /\ UNCHANGED <<phase, done, running, saving, starting, keys, loaded, dropped, starts>>

(* Whichever timer of the task fires, the map loses its entry.  A task     *)
(* without a handler stays in persistence and is left at that.             *)
Fire(t) ==
  /\ live[t] > 0
  /\ live' = [live EXCEPT ![t] = @ - 1]
  /\ mapped' = mapped \ {t}
  /\ handling' = IF t \in Registered THEN [handling EXCEPT ![t] = @ + 1] ELSE handling
  /\ UNCHANGED <<store, phase, done, running, saving, starting, keys, loaded, dropped, starts>>

(* The handler returned or threw; a periodic task is written back.         *)
HandlerEnds(t) ==
  /\ handling[t] > 0
  /\ handling' = [handling EXCEPT ![t] = @ - 1]
  /\ done' = done \cup {t}
  /\ IF t \in Periodic
     THEN store' = store \cup {t} /\ saving' = [saving EXCEPT ![t] = @ + 1]
     ELSE store' = store \ {t} /\ UNCHANGED saving
  /\ UNCHANGED <<phase, running, live, mapped, starting, keys, loaded, dropped, starts>>

(* The deletion after a run rejects: the record stays and nothing will run *)
(* it before another start.                                                *)
DeletionFails(t) ==
  /\ handling[t] > 0 /\ t \in Once
  /\ handling' = [handling EXCEPT ![t] = @ - 1]
  /\ done' = done \cup {t}
  /\ Drop({t})
  /\ UNCHANGED <<store, phase, running, live, mapped, saving, starting, keys, loaded, starts>>

Reschedule(t) ==
  /\ saving[t] > 0
  /\ saving' = [saving EXCEPT ![t] = @ - 1]
  /\ ScheduleIfRunning(t)
  /\ UNCHANGED <<store, phase, done, running, handling, starting, keys, loaded, starts>>

(* The write rejects, and with it the timer's callback: no timer is set.   *)
(* A record seen whole or not at all is there as before, if no cancel had  *)
(* taken it away.                                                          *)
RescheduleFails(t) ==
  /\ saving[t] > 0
  /\ saving' = [saving EXCEPT ![t] = @ - 1]
  /\ store' \in IF AtomicWrites /\ phase[t] \in {"adding", "known"} THEN {store} ELSE MayLeave(t)
  /\ Drop({t})
  /\ UNCHANGED <<phase, done, running, live, mapped, handling, starting, keys, loaded, starts>>

(* The process stops and a new one begins: what is not in persistence is   *)
(* gone, calls that had not returned never do, records may be left torn.   *)
Crash ==
  /\ store # {}
  /\ \E cut \in SUBSET Torn : store' = store \ cut
  /\ running' = FALSE
  /\ live' = Zero /\ mapped' = {}
  /\ handling' = Zero /\ saving' = Zero
  /\ starting' = "off" /\ keys' = {} /\ loaded' = {} /\ dropped' = {}
  /\ phase' = [t \in Task |-> IF phase[t] \in {"adding", "cancelling"}
                              THEN "unknown" ELSE phase[t]]
  /\ UNCHANGED <<done, starts>>

Turn(t) ==
  \/ AddReturns(t) \/ CancelReturns(t) \/ StartLoads(t) \/ StartSchedules(t)
  \/ Fire(t) \/ HandlerEnds(t) \/ Reschedule(t)

Rejection(t) == AddFails(t) \/ CancelFails(t) \/ DeletionFails(t) \/ RescheduleFails(t)

Next ==
  \/ \E t \in Task : Add(t) \/ Cancel(t) \/ Turn(t) \/ Rejection(t)
  \/ StartFails
  \/ Start \/ StartLists \/ StartReturns \/ Stop \/ Crash

Spec == Init /\ [][Next]_vars

(* Timers fire, and what persistence and handlers promised comes back, if  *)
(* it is not rejected.                                                     *)
Fairness ==
  /\ \A t \in Task : WF_vars(AddReturns(t)) /\ WF_vars(CancelReturns(t))
       /\ WF_vars(StartLoads(t)) /\ WF_vars(StartSchedules(t))
       /\ WF_vars(Fire(t)) /\ WF_vars(HandlerEnds(t)) /\ WF_vars(Reschedule(t))
  /\ WF_vars(StartLists) /\ WF_vars(StartReturns)

FairSpec == Spec /\ Fairness

-----------------------------------------------------------------------------
(* Properties.                                                             *)

Wanted(t) == phase[t] \in {"adding", "known", "unknown"}

(* A task whose id the caller has, and that was not cancelled, is in       *)
(* persistence until its handler has run to its end, and a periodic one    *)
(* for ever: crashes lose none.                                            *)
NoTaskLost ==
  \A t \in Task : phase[t] = "known" /\ (t \notin done \/ t \in Periodic) => t \in store

(* A running scheduler that has finished starting has every task it can    *)
(* run in hand: a timer, a run, or a call that will set a timer.  Out of   *)
(* hand are only tasks an operation of theirs, or the last start, was      *)
(* rejected for, and those no longer than to the next start.               *)
EveryTaskTended ==
  running /\ starting = "off" =>
    \A t \in store \cap Registered :
      Wanted(t) /\ t \notin dropped =>
        phase[t] = "adding" \/ live[t] + handling[t] + saving[t] > 0

(* A stored task runs, if the scheduler stays on, nobody cancels it and    *)
(* the persistence rejects nothing asked of it.                            *)
EveryTaskRuns ==
  \A t \in Registered :
    t \in store /\ running ~>
      handling[t] > 0 \/ ~running \/ ~Wanted(t) \/ t \notin store \/ t \in dropped

(* After cancel returned, the task's handler is not started again.         *)
CancelDisarms ==
  [][\A t \in Task : phase[t] = "cancelled" => handling'[t] <= handling[t]]_vars

=============================================================================
