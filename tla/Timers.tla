------------------------------- MODULE Timers -------------------------------
(***************************************************************************)
(* The timers of the manager (src/tsk/mgr/gui/timer.c): a table of slots,   *)
(* filled and emptied by callbacks, and ProcessTimers, which sweeps it once *)
(* per turn of the main loop with one reading of the clock.  The callbacks  *)
(* the sweep runs may themselves register, deregister and change the window *)
(* and so alter the table under the sweep.  The clock only goes forward:    *)
(* that somebody sets it is left out.                                       *)
(***************************************************************************)
EXTENDS Integers, FiniteSets

CONSTANTS
  GUI_MAX_TIMERS,  \* slots of the table (16 in gui.h)
  TimerIDs,        \* ids the windows use
  TimeOuts,        \* delays they ask for, in milliseconds
  MSEC,            \* milliseconds in a second (1000)
  USEC,            \* microseconds, the unit of the clock, in a millisecond (1000)
  MaxTime          \* bound of the model: the last time of the clock

INVALID_TIMERID == 0

ASSUME TimersAssumption ==
  /\ GUI_MAX_TIMERS \in Nat \ {0}
  /\ TimerIDs \subseteq Nat \ {INVALID_TIMERID}
  /\ TimeOuts \subseteq Nat
  /\ MSEC \in Nat \ {0}
  /\ USEC \in Nat \ {0}
  /\ MaxTime \in Nat

VARIABLES
  time,    \* the system's clock, in microseconds
  timers,  \* gCtxt.timers
  pc,      \* where the manager's thread is
  now,     \* the sweep's reading of the clock
  i,       \* the slot the sweep is at
  saved,   \* the timer whose callback the sweep is running, or INVALID_TIMERID
  fired    \* history: timers that fired in this sweep

vars == <<time, timers, pc, now, i, saved, fired>>
-----------------------------------------------------------------------------
Slots == 0 .. GUI_MAX_TIMERS - 1
Second == MSEC * USEC

Cleared == [TimerID |-> INVALID_TIMERID, pTimerCb |-> "NULL",
            expires |-> [tv_sec |-> 0, tv_usec |-> 0]]

gettimeofday == [tv_sec |-> time \div Second, tv_usec |-> time % Second]

\* mutant: the microseconds are not carried over
AddWithoutCarry(a, b) == [tv_sec |-> a.tv_sec + b.tv_sec, tv_usec |-> a.tv_usec + b.tv_usec]

timeradd(a, b) ==
  LET usec == a.tv_usec + b.tv_usec IN
  IF usec >= Second
  THEN [tv_sec |-> a.tv_sec + b.tv_sec + 1, tv_usec |-> usec - Second]
  ELSE [tv_sec |-> a.tv_sec + b.tv_sec, tv_usec |-> usec]

Interval(TimeOut) == [tv_sec |-> TimeOut \div MSEC, tv_usec |-> (TimeOut % MSEC) * USEC]

IsTimeOver(t, expires) ==
  \/ t.tv_sec > expires.tv_sec
  \/ t.tv_sec = expires.tv_sec /\ t.tv_usec >= expires.tv_usec

FreeSlots == {k \in Slots : timers[k].pTimerCb = "NULL"}
Named(id) == {k \in Slots : timers[k].TimerID = id}

\* the loops over the table stop at the first slot of the kind they look for
First(k, S) == k \in S /\ \A j \in S : k <= j

InCallback == pc \in {"cb", "timercb"}
-----------------------------------------------------------------------------
(* What callbacks do to the table.  A call that fails changes nothing.      *)

\* mutant: the ids in the table are not compared
CanRegisterAnyId(id) == FreeSlots # {}

CanRegister(id) == Named(id) = {} /\ FreeSlots # {}

RegisterTimerCallback(id, TimeOut) ==
  /\ InCallback
  /\ CanRegister(id)
  /\ \E slot \in Slots :
       /\ First(slot, FreeSlots)
       /\ timers' = [timers EXCEPT ![slot] =
                       [TimerID |-> id, pTimerCb |-> "app",
                        expires |-> timeradd(gettimeofday, Interval(TimeOut))]]
  /\ UNCHANGED <<time, pc, now, i, saved, fired>>

DeregisterTimer(id) ==
  /\ InCallback
  /\ \E slot \in Slots : First(slot, Named(id)) /\ timers' = [timers EXCEPT ![slot] = Cleared]
  /\ UNCHANGED <<time, pc, now, i, saved, fired>>

\* LoadWindow(); the callback goes on with the new window's OnLoad
ClearTimers ==
  /\ InCallback
  /\ timers' = [k \in Slots |-> Cleared]
  /\ UNCHANGED <<time, pc, now, i, saved, fired>>
-----------------------------------------------------------------------------
(* The main loop: callbacks of keys, messages and requests, then the sweep. *)
RunCallbacks ==
  /\ pc = "loop"
  /\ pc' = "cb"
  /\ UNCHANGED <<time, timers, now, i, saved, fired>>

CbReturn ==
  /\ pc = "cb"
  /\ pc' = "timers"
  /\ UNCHANGED <<time, timers, now, i, saved, fired>>

StartSweep ==
  /\ pc \in {"loop", "timers"}
  /\ pc' = "sweep"
  /\ now' = gettimeofday
  /\ i' = 0
  /\ fired' = {}
  /\ UNCHANGED <<time, timers, saved>>

Due(k) == timers[k].pTimerCb # "NULL" /\ IsTimeOver(now, timers[k].expires)

SkipTimer ==
  /\ pc = "sweep"
  /\ i \in Slots
  /\ ~Due(i)
  /\ i' = i + 1
  /\ UNCHANGED <<time, timers, pc, now, saved, fired>>

\* mutant: the slot is not cleared before the callback
FireTimerThenClear ==
  /\ pc = "sweep"
  /\ i \in Slots
  /\ Due(i)
  /\ saved' = timers[i].TimerID
  /\ fired' = fired \union {timers[i].TimerID}
  /\ pc' = "timercb"
  /\ UNCHANGED <<time, now, i, timers>>

(* The slot is cleared before the callback runs, to be used again by it.    *)
FireTimer ==
  /\ pc = "sweep"
  /\ i \in Slots
  /\ Due(i)
  /\ saved' = timers[i].TimerID
  /\ fired' = fired \union {timers[i].TimerID}
  /\ timers' = [timers EXCEPT ![i] = Cleared]
  /\ pc' = "timercb"
  /\ UNCHANGED <<time, now, i>>

\* mutant: the clock is read again after every callback
TimerCbReturnNewClock ==
  /\ pc = "timercb"
  /\ pc' = "sweep"
  /\ i' = i + 1
  /\ saved' = INVALID_TIMERID
  /\ now' = gettimeofday
  /\ UNCHANGED <<time, timers, fired>>

TimerCbReturn ==
  /\ pc = "timercb"
  /\ pc' = "sweep"
  /\ i' = i + 1
  /\ saved' = INVALID_TIMERID
  /\ UNCHANGED <<time, timers, now, fired>>

\* mutant: the sweep leaves out the last slot
EndSweepEarly ==
  /\ pc = "sweep"
  /\ i >= GUI_MAX_TIMERS - 1
  /\ pc' = "loop"
  /\ UNCHANGED <<time, timers, now, i, saved, fired>>

EndSweep ==
  /\ pc = "sweep"
  /\ i = GUI_MAX_TIMERS
  /\ pc' = "loop"
  /\ UNCHANGED <<time, timers, now, i, saved, fired>>

(* Time goes on, whatever the manager does.                                 *)
Tick ==
  /\ time < MaxTime      \* bound of the model
  /\ time' = time + 1
  /\ UNCHANGED <<timers, pc, now, i, saved, fired>>

Init ==
  /\ time = 0
  /\ timers = [k \in Slots |-> Cleared]
  /\ pc = "cb"           \* main() loads the first window
  /\ now = [tv_sec |-> 0, tv_usec |-> 0]
  /\ i = 0
  /\ saved = INVALID_TIMERID
  /\ fired = {}

Sweep == StartSweep \/ SkipTimer \/ FireTimer \/ TimerCbReturn \/ EndSweep

Next ==
  \/ Tick
  \/ RunCallbacks \/ CbReturn \/ Sweep
  \/ \E id \in TimerIDs : DeregisterTimer(id) \/ \E t \in TimeOuts : RegisterTimerCallback(id, t)
  \/ ClearTimers

Spec == Init /\ [][Next]_vars

(* Time passes, the loop goes on and callbacks return.                      *)
FairSpec == Spec /\ WF_vars(Tick) /\ WF_vars(CbReturn) /\ WF_vars(Sweep)
-----------------------------------------------------------------------------
timeval == [tv_sec : Nat, tv_usec : 0 .. Second - 1]
Slot == [TimerID : TimerIDs \union {INVALID_TIMERID}, pTimerCb : {"NULL", "app"},
         expires : timeval]

(* Types; that microseconds stay below a second is what IsTimeOver needs.   *)
TypeOK ==
  /\ time \in 0..MaxTime
  /\ timers \in [Slots -> Slot]
  /\ pc \in {"loop", "cb", "timers", "sweep", "timercb"}
  /\ now \in timeval
  /\ i \in 0..GUI_MAX_TIMERS
  /\ saved \in TimerIDs \union {INVALID_TIMERID}
  /\ fired \subseteq TimerIDs

Total(tv) == tv.tv_sec * Second + tv.tv_usec
Microseconds == {t * USEC : t \in TimeOuts}
Holder(id) == CHOOSE k \in Slots : timers[k].TimerID = id
Deadlines ==
  [id \in TimerIDs |-> IF Named(id) = {} THEN -1 ELSE Total(timers[Holder(id)].expires)]

Service == INSTANCE TimerService WITH
  Ids <- TimerIDs, Delays <- Microseconds, Capacity <- GUI_MAX_TIMERS,
  deadline <- Deadlines, running <- saved

(* The table keeps the promise of TimerService, whatever callbacks do to it *)
(* during a sweep: no callback before its time in spite of seconds and      *)
(* microseconds, none twice, no timer lost or moved (timer.c).              *)
KeepsTimeService == Service!Spec

(* The table and its two ways of telling a used slot agree: an id names one *)
(* slot, and a slot has an id exactly while it has a callback.              *)
UniqueTimers ==
  /\ \A k \in Slots : timers[k].TimerID = INVALID_TIMERID <=> timers[k].pTimerCb = "NULL"
  /\ \A j, k \in Slots :
       timers[j].TimerID = timers[k].TimerID /\ timers[k].TimerID # INVALID_TIMERID => j = k

(* A timer's callback can arm its own timer again, even in a full table:    *)
(* "reuse the slot if a register() is called within callback()" (timer.c:68).*)
CanRearm ==
  [][\A id \in TimerIDs : saved # id /\ saved' = id => CanRegister(id)']_vars

(* With one clock reading per sweep, a timer that its callback arms again   *)
(* with a delay above 0 does not fire again in that sweep, be its new slot  *)
(* before or after the sweep's place.                                       *)
OncePerSweep ==
  [][\A id \in TimerIDs : saved # id /\ saved' = id => id \notin fired]_vars

(* No timer is forgotten: it fires once its time has come, unless it is     *)
(* disarmed, whatever the other callbacks do.                               *)
EveryTimerEnds ==
  \A id \in TimerIDs :
    Deadlines[id] \in 0..MaxTime ~> Deadlines[id] = -1
=============================================================================
