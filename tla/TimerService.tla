---------------------------- MODULE TimerService ----------------------------
(***************************************************************************)
(* What the timers of a window promise: a timer is armed for a time, its    *)
(* callback runs once and never before that time, one callback at a time;   *)
(* until then it can be disarmed, alone or with all others when the window  *)
(* changes.  There is room for so many timers at once.                      *)
(***************************************************************************)
EXTENDS Integers, FiniteSets

CONSTANTS
  Ids,       \* names of timers
  Delays,    \* how far ahead a timer may be armed
  Capacity   \* timers armed at once, at most

VARIABLES
  time,      \* the clock
  deadline,  \* deadline[id]: when the callback of id may run, or Unarmed
  running    \* the timer whose callback runs, or Nobody

Unarmed == -1
Nobody == 0

Armed == {id \in Ids : deadline[id] # Unarmed}

Tick ==
  /\ time' = time + 1
  /\ UNCHANGED <<deadline, running>>

Arm(id) ==
  /\ id \notin Armed
  /\ Cardinality(Armed) < Capacity
  /\ \E d \in Delays : deadline' = [deadline EXCEPT ![id] = time + d]
  /\ UNCHANGED <<time, running>>

Disarm(id) ==
  /\ id \in Armed
  /\ deadline' = [deadline EXCEPT ![id] = Unarmed]
  /\ UNCHANGED <<time, running>>

DisarmAll ==
  /\ deadline' = [id \in Ids |-> Unarmed]
  /\ UNCHANGED <<time, running>>

Fire(id) ==
  /\ running = Nobody
  /\ id \in Armed
  /\ deadline[id] <= time
  /\ deadline' = [deadline EXCEPT ![id] = Unarmed]
  /\ running' = id
  /\ UNCHANGED time

Return ==
  /\ running' = Nobody
  /\ UNCHANGED <<time, deadline>>

Init ==
  /\ time = 0
  /\ deadline = [id \in Ids |-> Unarmed]
  /\ running = Nobody

Next ==
  \/ Tick \/ DisarmAll \/ Return
  \/ \E id \in Ids : Arm(id) \/ Disarm(id) \/ Fire(id)

Spec == Init /\ [][Next]_<<time, deadline, running>>
=============================================================================
