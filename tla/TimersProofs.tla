---------------------------- MODULE TimersProofs ----------------------------
(***************************************************************************)
(* Proofs about Timers, for tables of any size, any ids and delays, and any *)
(* units of time.  Unique keeps ids and slots apart, and DeadlineIn reads   *)
(* the table as TimerService does: as deadlines of ids.                     *)
(***************************************************************************)
EXTENDS Timers, TLAPS, FiniteSetTheorems

(* Arithmetic of seconds and microseconds.                                  *)
LEMMA SecondIsPositive == Second \in Nat \ {0}
  BY TimersAssumption, SMT DEF Second

LEMMA DivMod ==
  ASSUME NEW t \in Nat, NEW S \in Nat \ {0}
  PROVE  t \div S \in Nat /\ t % S \in 0 .. S - 1 /\ t = (t \div S) * S + (t % S)
  <1>1. t \div S \in Nat
    BY SMT
  <1>2. t % S \in 0 .. S - 1
    BY SMT
  <1>3. t = (t \div S) * S + (t % S)
    BY SMT
  <1> QED
    BY <1>1, <1>2, <1>3

LEMMA TimeOfDay ==
  ASSUME time \in Nat
  PROVE  gettimeofday \in timeval /\ Total(gettimeofday) = time
  BY DivMod, SecondIsPositive DEF gettimeofday, timeval, Total

LEMMA IntervalTotal ==
  ASSUME NEW t \in Nat
  PROVE  Interval(t) \in timeval /\ Total(Interval(t)) = t * USEC
  <1> DEFINE s == t \div MSEC
             r == t % MSEC
  <1>1. s \in Nat /\ r \in 0 .. MSEC - 1 /\ t = s * MSEC + r
    BY DivMod, TimersAssumption
  <1> HIDE DEF s, r
  <1>2. r * USEC \in Nat /\ r * USEC < MSEC * USEC
    BY <1>1, TimersAssumption, SMT
  <1>3. s * (MSEC * USEC) + r * USEC = (s * MSEC + r) * USEC
    BY <1>1, TimersAssumption, SMT
  <1>4. Interval(t) = [tv_sec |-> s, tv_usec |-> r * USEC]
    BY DEF Interval, s, r
  <1>5. r * USEC \in 0 .. Second - 1
    BY <1>2, SecondIsPositive DEF Second
  <1>6. Total(Interval(t)) = s * Second + r * USEC
    BY <1>4 DEF Total
  <1> QED
    BY <1>1, <1>3, <1>4, <1>5, <1>6 DEF Second, timeval

LEMMA AddTotal ==
  ASSUME NEW a \in timeval, NEW b \in timeval
  PROVE  timeradd(a, b) \in timeval /\ Total(timeradd(a, b)) = Total(a) + Total(b)
  <1>1. /\ a.tv_sec \in Nat /\ a.tv_usec \in 0 .. Second - 1
        /\ b.tv_sec \in Nat /\ b.tv_usec \in 0 .. Second - 1
    BY DEF timeval
  <1> DEFINE u == a.tv_usec + b.tv_usec
  <1>2. \A x, y \in Nat : (x + y) * Second = x * Second + y * Second
    BY SecondIsPositive, SMT
  <1>3. (a.tv_sec + b.tv_sec + 1) * Second = a.tv_sec * Second + b.tv_sec * Second + Second
    BY <1>1, SecondIsPositive, SMT
  <1>4. a.tv_sec * Second \in Nat /\ b.tv_sec * Second \in Nat
    BY <1>1, SecondIsPositive, SMT
  <1>5. CASE u >= Second
    <2>1. timeradd(a, b) = [tv_sec |-> a.tv_sec + b.tv_sec + 1, tv_usec |-> u - Second]
      BY <1>5 DEF timeradd
    <2>2. u - Second \in 0 .. Second - 1
      BY <1>1, <1>5, SecondIsPositive
    <2>3. Total(timeradd(a, b)) = (a.tv_sec + b.tv_sec + 1) * Second + (u - Second)
      BY <2>1 DEF Total
    <2>4. Total(timeradd(a, b)) = Total(a) + Total(b)
      BY <2>3, <1>1, <1>3, <1>4, SecondIsPositive DEF Total
    <2> QED
      BY <1>1, <2>1, <2>2, <2>4 DEF timeval
  <1>6. CASE ~(u >= Second)
    <2>1. timeradd(a, b) = [tv_sec |-> a.tv_sec + b.tv_sec, tv_usec |-> u]
      BY <1>6 DEF timeradd
    <2>2. u \in 0 .. Second - 1
      BY <1>1, <1>6, SecondIsPositive
    <2>3. Total(timeradd(a, b)) = (a.tv_sec + b.tv_sec) * Second + u
      BY <2>1 DEF Total
    <2>4. Total(timeradd(a, b)) = Total(a) + Total(b)
      BY <2>3, <1>1, <1>2, <1>4, SecondIsPositive DEF Total
    <2> QED
      BY <1>1, <2>1, <2>2, <2>4 DEF timeval
  <1> QED
    BY <1>5, <1>6

LEMMA MoreSeconds ==
  ASSUME NEW a \in Nat, NEW b \in Nat, NEW c \in Nat, NEW d \in Nat, NEW S \in Nat \ {0},
         d < S, a > b
  PROVE  b * S + d <= a * S + c
  <1>1. PICK k \in Nat : a = b + 1 + k
    <2>1. a - b - 1 \in Nat /\ a = b + 1 + (a - b - 1)
      BY SMT
    <2> QED
      BY <2>1
  <1>2. a * S = b * S + S + k * S
    BY <1>1, SMT
  <1>3. k * S \in Nat /\ b * S \in Nat
    BY <1>1, SMT
  <1> QED
    BY <1>2, <1>3, SMT

(* IsTimeOver() compares seconds first; with less than a second of          *)
(* microseconds that is the order of the times.                             *)
LEMMA OverIsLater ==
  ASSUME NEW a \in timeval, NEW b \in timeval, IsTimeOver(a, b)
  PROVE  Total(b) <= Total(a)
  <1>1. /\ a.tv_sec \in Nat /\ a.tv_usec \in Nat
        /\ b.tv_sec \in Nat /\ b.tv_usec \in Nat /\ b.tv_usec < Second
    BY SecondIsPositive DEF timeval
  <1>2. CASE a.tv_sec > b.tv_sec
    BY <1>1, <1>2, MoreSeconds, SecondIsPositive DEF Total
  <1>3. CASE a.tv_sec = b.tv_sec /\ a.tv_usec >= b.tv_usec
    <2>1. a.tv_sec * Second \in Nat
      BY <1>1, SecondIsPositive, SMT
    <2> QED
      BY <1>1, <1>3, <2>1 DEF Total
  <1> QED
    BY <1>2, <1>3 DEF IsTimeOver

LEMMA TotalType ==
  ASSUME NEW a \in timeval
  PROVE  Total(a) \in Nat
  <1>1. a.tv_sec \in Nat /\ a.tv_usec \in Nat
    BY SecondIsPositive DEF timeval
  <1>2. a.tv_sec * Second \in Nat
    BY <1>1, SecondIsPositive, SMT
  <1> QED
    BY <1>1, <1>2 DEF Total
-----------------------------------------------------------------------------
(* Tables as deadlines.                                                     *)
Unique(t) ==
  /\ t \in [Slots -> Slot]
  /\ \A k \in Slots : t[k].TimerID = INVALID_TIMERID <=> t[k].pTimerCb = "NULL"
  /\ \A j, k \in Slots :
       t[j].TimerID = t[k].TimerID /\ t[k].TimerID # INVALID_TIMERID => j = k

DeadlineIn(t, id) ==
  IF {k \in Slots : t[k].TimerID = id} = {} THEN -1
  ELSE Total(t[CHOOSE k \in Slots : t[k].TimerID = id].expires)

LEMMA DeadlineOfSlot ==
  ASSUME NEW t, Unique(t), NEW k \in Slots, t[k].TimerID # INVALID_TIMERID
  PROVE  DeadlineIn(t, t[k].TimerID) = Total(t[k].expires)
  <1>1. \A j \in Slots : t[j].TimerID = t[k].TimerID => j = k
    BY DEF Unique
  <1>2. (CHOOSE j \in Slots : t[j].TimerID = t[k].TimerID) = k
    BY <1>1
  <1> QED
    BY <1>2 DEF DeadlineIn

LEMMA DeadlineOfNone ==
  ASSUME NEW t, NEW id, \A k \in Slots : t[k].TimerID # id
  PROVE  DeadlineIn(t, id) = -1
  BY DEF DeadlineIn

LEMMA ClearedIsSlot == Cleared \in Slot
  BY SecondIsPositive DEF Cleared, Slot, timeval, INVALID_TIMERID

LEMMA EmptyTable ==
  /\ Unique([k \in Slots |-> Cleared])
  /\ \A id \in TimerIDs : DeadlineIn([k \in Slots |-> Cleared], id) = -1
  <1>1. \A id \in TimerIDs : id # INVALID_TIMERID
    BY TimersAssumption
  <1> QED
    BY <1>1, ClearedIsSlot, DeadlineOfNone DEF Unique, Cleared

(* Two tables that agree on an id give it the same deadline.                *)
LEMMA SameDeadline ==
  ASSUME NEW t, NEW u, Unique(t), Unique(u), NEW id, id # INVALID_TIMERID,
         \A k \in Slots : (t[k].TimerID = id \/ u[k].TimerID = id) => t[k] = u[k]
  PROVE  DeadlineIn(u, id) = DeadlineIn(t, id)
  <1>1. CASE \E k \in Slots : t[k].TimerID = id
    <2>1. PICK k \in Slots : t[k].TimerID = id
      BY <1>1
    <2>2. u[k] = t[k]
      BY <2>1
    <2> QED
      BY <2>1, <2>2, DeadlineOfSlot
  <1>2. CASE ~ \E k \in Slots : t[k].TimerID = id
    <2>1. \A k \in Slots : u[k].TimerID # id
      BY <1>2
    <2> QED
      BY <1>2, <2>1, DeadlineOfNone
  <1> QED
    BY <1>1, <1>2

LEMMA ClearSlot ==
  ASSUME NEW t, Unique(t), NEW k \in Slots, t[k].TimerID # INVALID_TIMERID
  PROVE  LET u == [t EXCEPT ![k] = Cleared] IN
         /\ Unique(u)
         /\ \A id \in TimerIDs :
              DeadlineIn(u, id) = IF id = t[k].TimerID THEN -1 ELSE DeadlineIn(t, id)
  <1> DEFINE u == [t EXCEPT ![k] = Cleared]
  <1>1. /\ \A j \in Slots : u[j] = IF j = k THEN Cleared ELSE t[j]
        /\ u \in [Slots -> Slot]
    BY ClearedIsSlot DEF Unique
  <1> HIDE DEF u
  <1>2. Unique(u)
    BY <1>1 DEF Unique, Cleared
  <1>3. ASSUME NEW id \in TimerIDs
        PROVE  DeadlineIn(u, id) = IF id = t[k].TimerID THEN -1 ELSE DeadlineIn(t, id)
    <2>1. id # INVALID_TIMERID
      BY TimersAssumption
    <2>2. CASE id = t[k].TimerID
      <3>1. \A j \in Slots : u[j].TimerID # id
        BY <1>1, <2>1, <2>2 DEF Unique, Cleared
      <3> QED
        BY <2>2, <3>1, DeadlineOfNone
    <2>3. CASE id # t[k].TimerID
      <3>1. \A j \in Slots : (t[j].TimerID = id \/ u[j].TimerID = id) => t[j] = u[j]
        BY <1>1, <2>1, <2>3 DEF Cleared
      <3> QED
        BY <2>1, <2>3, <3>1, <1>2, SameDeadline
    <2> QED
      BY <2>2, <2>3
  <1> QED
    BY <1>2, <1>3 DEF u

LEMMA FillSlot ==
  ASSUME NEW t, Unique(t), NEW k \in Slots, t[k].pTimerCb = "NULL",
         NEW id \in TimerIDs, \A j \in Slots : t[j].TimerID # id, NEW e \in timeval
  PROVE  LET u == [t EXCEPT ![k] = [TimerID |-> id, pTimerCb |-> "app", expires |-> e]] IN
         /\ Unique(u)
         /\ \A other \in TimerIDs :
              DeadlineIn(u, other) = IF other = id THEN Total(e) ELSE DeadlineIn(t, other)
  <1> DEFINE s == [TimerID |-> id, pTimerCb |-> "app", expires |-> e]
             u == [t EXCEPT ![k] = s]
  <1>1. id # INVALID_TIMERID /\ t[k].TimerID = INVALID_TIMERID
    BY TimersAssumption DEF Unique
  <1>2. s \in Slot /\ s.TimerID = id /\ s.pTimerCb = "app" /\ s.expires = e
    BY DEF Slot
  <1> HIDE DEF s
  <1>3. /\ \A j \in Slots : u[j] = IF j = k THEN s ELSE t[j]
        /\ u \in [Slots -> Slot]
    BY <1>2 DEF Unique
  <1> HIDE DEF u
  <1>4. Unique(u)
    BY <1>1, <1>2, <1>3 DEF Unique
  <1>5. ASSUME NEW other \in TimerIDs
        PROVE  DeadlineIn(u, other) = IF other = id THEN Total(e) ELSE DeadlineIn(t, other)
    <2>1. other # INVALID_TIMERID
      BY TimersAssumption
    <2>2. CASE other = id
      BY <1>1, <1>2, <1>3, <1>4, <2>2, DeadlineOfSlot
    <2>3. CASE other # id
      <3>1. \A j \in Slots : (t[j].TimerID = other \/ u[j].TimerID = other) => t[j] = u[j]
        BY <1>1, <1>2, <1>3, <2>1, <2>3
      <3> QED
        BY <2>1, <2>3, <3>1, <1>4, SameDeadline
    <2> QED
      BY <2>2, <2>3
  <1> QED
    BY <1>4, <1>5 DEF u, s
-----------------------------------------------------------------------------
(* The inductive invariant.                                                 *)
TimersInv ==
  /\ TypeOK
  /\ UniqueTimers
  /\ pc # "timercb" => saved = INVALID_TIMERID
  /\ pc = "timercb" => i \in Slots
  /\ pc \in {"sweep", "timercb"} => Total(now) <= time

LEMMA InvUnique ==
  /\ TypeOK /\ UniqueTimers <=> TypeOK /\ Unique(timers)
  /\ (TypeOK /\ UniqueTimers)' <=> (TypeOK /\ Unique(timers))'
  BY DEF TypeOK, UniqueTimers, Unique

LEMMA DeadlinesAre ==
  /\ Deadlines = [id \in TimerIDs |-> DeadlineIn(timers, id)]
  /\ Deadlines' = [id \in TimerIDs |-> DeadlineIn(timers', id)]
  BY DEF Deadlines, DeadlineIn, Named, Holder

LEMMA TimersInit == Init => TimersInv
  <1> SUFFICES ASSUME Init PROVE TimersInv
    OBVIOUS
  <1>1. [tv_sec |-> 0, tv_usec |-> 0] \in timeval
    BY SecondIsPositive DEF timeval
  <1>2. Unique(timers)
    BY EmptyTable DEF Init
  <1>3. TypeOK
    BY <1>1, <1>2, TimersAssumption DEF Init, TypeOK, Unique
  <1> QED
    BY <1>2, <1>3, InvUnique DEF Init, TimersInv

LEMMA RegisterTable ==
  ASSUME TimersInv, NEW id \in TimerIDs, NEW t \in TimeOuts, RegisterTimerCallback(id, t)
  PROVE  /\ Unique(timers')
         /\ Deadlines[id] = -1
         /\ Deadlines' = [Deadlines EXCEPT ![id] = time + t * USEC]
         /\ \E slot \in Slots : timers[slot].TimerID = INVALID_TIMERID
  <1> DEFINE e == timeradd(gettimeofday, Interval(t))
  <1>1. t \in Nat /\ time \in Nat /\ Unique(timers)
    BY TimersAssumption, InvUnique DEF TimersInv, TypeOK
  <1>2. e \in timeval /\ Total(e) = time + t * USEC
    BY <1>1, TimeOfDay, IntervalTotal, AddTotal
  <1> HIDE DEF e
  <1>3. PICK slot \in Slots :
          /\ timers[slot].pTimerCb = "NULL"
          /\ timers' = [timers EXCEPT ![slot] = [TimerID |-> id, pTimerCb |-> "app", expires |-> e]]
    BY DEF RegisterTimerCallback, First, FreeSlots, e
  <1>4. \A j \in Slots : timers[j].TimerID # id
    BY DEF RegisterTimerCallback, CanRegister, Named
  <1>5. /\ Unique(timers')
        /\ \A other \in TimerIDs :
             DeadlineIn(timers', other) =
               IF other = id THEN Total(e) ELSE DeadlineIn(timers, other)
    <2> DEFINE u == [timers EXCEPT ![slot] =
                       [TimerID |-> id, pTimerCb |-> "app", expires |-> e]]
    <2>1. /\ Unique(u)
          /\ \A other \in TimerIDs :
               DeadlineIn(u, other) = IF other = id THEN Total(e) ELSE DeadlineIn(timers, other)
      BY <1>1, <1>2, <1>3, <1>4, FillSlot, ZenonT(30)
    <2>2. timers' = u
      BY <1>3
    <2> HIDE DEF u
    <2> QED
      BY <2>1, <2>2
  <1>6. Deadlines[id] = -1
    BY <1>4, DeadlinesAre, DeadlineOfNone
  <1>7. Deadlines' = [Deadlines EXCEPT ![id] = time + t * USEC]
    BY <1>2, <1>5, DeadlinesAre
  <1>8. timers[slot].TimerID = INVALID_TIMERID
    BY <1>1, <1>3 DEF Unique
  <1> QED
    BY <1>5, <1>6, <1>7, <1>8

LEMMA ClearTable ==
  ASSUME TimersInv, NEW k \in Slots, timers[k].TimerID # INVALID_TIMERID,
         timers' = [timers EXCEPT ![k] = Cleared]
  PROVE  /\ Unique(timers')
         /\ timers[k].TimerID \in TimerIDs
         /\ Deadlines[timers[k].TimerID] = Total(timers[k].expires)
         /\ Deadlines' = [Deadlines EXCEPT ![timers[k].TimerID] = -1]
         /\ \A j \in Slots : timers'[j].TimerID # timers[k].TimerID
  <1>1. Unique(timers) /\ timers[k] \in Slot
    BY InvUnique DEF TimersInv, Unique
  <1>2. timers[k].TimerID \in TimerIDs
    BY <1>1 DEF Slot
  <1>3. /\ Unique(timers')
        /\ \A id \in TimerIDs : DeadlineIn(timers', id) =
             IF id = timers[k].TimerID THEN -1 ELSE DeadlineIn(timers, id)
    BY <1>1, ClearSlot
  <1>4. Deadlines[timers[k].TimerID] = Total(timers[k].expires)
    BY <1>1, <1>2, DeadlineOfSlot, DeadlinesAre
  <1>5. Deadlines' = [Deadlines EXCEPT ![timers[k].TimerID] = -1]
    BY <1>3, DeadlinesAre
  <1>6. \A j \in Slots : timers'[j].TimerID # timers[k].TimerID
    BY <1>1 DEF Unique, Cleared
  <1> QED
    BY <1>2, <1>3, <1>4, <1>5, <1>6

LEMMA DueSlot ==
  ASSUME TimersInv, NEW k \in Slots, Due(k)
  PROVE  timers[k].TimerID # INVALID_TIMERID /\ timers[k].TimerID \in TimerIDs
  BY DEF TimersInv, TypeOK, UniqueTimers, Due, Slot

(* Every step keeps the invariant.       *)
LEMMA TimersStep == TimersInv /\ [Next]_vars => TimersInv'
  <1> SUFFICES ASSUME TimersInv, [Next]_vars PROVE TimersInv'
    OBVIOUS
  <1> USE DEF TimersInv
  <1>0. time \in Nat /\ GUI_MAX_TIMERS \in Nat
        /\ (pc \in {"sweep", "timercb"} => Total(now) \in Nat)
    BY TotalType, TimersAssumption DEF TypeOK
  <1>1. CASE Tick
    <2>1. time' \in 0..MaxTime /\ time' = time + 1
      BY <1>0, <1>1, TimersAssumption DEF Tick
    <2>2. pc' \in {"sweep", "timercb"} => Total(now)' <= time'
      BY <1>0, <1>1, <2>1 DEF Tick, Total
    <2> QED
      BY <1>1, <2>1, <2>2 DEF Tick, TypeOK, UniqueTimers
  <1>2. CASE RunCallbacks \/ CbReturn
    BY <1>2 DEF RunCallbacks, CbReturn, TypeOK, UniqueTimers
  <1>3. CASE StartSweep
    <2>1. now' \in timeval /\ Total(now') <= time'
      BY <1>0, <1>3, TimeOfDay DEF StartSweep
    <2> QED
      BY <1>0, <1>3, <2>1 DEF StartSweep, TypeOK, UniqueTimers, Total
  <1>4. CASE SkipTimer \/ EndSweep
    BY <1>0, <1>4 DEF SkipTimer, EndSweep, TypeOK, UniqueTimers, Slots, Total
  <1>5. CASE FireTimer
    <2>1. i \in Slots /\ Due(i) /\ timers' = [timers EXCEPT ![i] = Cleared]
      BY <1>5 DEF FireTimer
    <2>2. timers[i].TimerID # INVALID_TIMERID /\ timers[i].TimerID \in TimerIDs
      BY <2>1, DueSlot
    <2>3. Unique(timers')
      BY <2>1, <2>2, ClearTable
    <2>4. TypeOK'
      BY <1>5, <2>2, <2>3 DEF FireTimer, TypeOK, Unique
    <2>5. pc = "sweep" /\ Total(now)' = Total(now) /\ time' = time
      BY <1>5 DEF FireTimer, Total
    <2> QED
      BY <1>5, <2>3, <2>4, <2>5, InvUnique DEF FireTimer
  <1>6. CASE TimerCbReturn
    <2>1. pc = "timercb"
      BY <1>6 DEF TimerCbReturn
    <2>2. i' \in 0..GUI_MAX_TIMERS
      BY <1>0, <1>6 DEF TimerCbReturn, Slots
    <2> QED
      BY <1>6, <2>1, <2>2 DEF TimerCbReturn, TypeOK, UniqueTimers, Total
  <1>7. CASE \E id \in TimerIDs : DeregisterTimer(id)
    <2>1. PICK id \in TimerIDs : DeregisterTimer(id)
      BY <1>7
    <2>2. PICK k \in Slots : timers[k].TimerID = id /\ timers' = [timers EXCEPT ![k] = Cleared]
      BY <2>1 DEF DeregisterTimer, First, Named
    <2>3. Unique(timers')
      BY <2>2, ClearTable, TimersAssumption
    <2>4. TypeOK'
      BY <2>1, <2>3 DEF DeregisterTimer, TypeOK, Unique
    <2> QED
      BY <2>1, <2>3, <2>4, InvUnique DEF DeregisterTimer, Total
  <1>8. CASE \E id \in TimerIDs, t \in TimeOuts : RegisterTimerCallback(id, t)
    <2>1. PICK id \in TimerIDs, t \in TimeOuts : RegisterTimerCallback(id, t)
      BY <1>8
    <2>2. Unique(timers')
      BY <2>1, RegisterTable
    <2>3. TypeOK'
      BY <2>1, <2>2 DEF RegisterTimerCallback, TypeOK, Unique
    <2> QED
      BY <2>1, <2>2, <2>3, InvUnique DEF RegisterTimerCallback, Total
  <1>9. CASE ClearTimers
    <2>1. Unique(timers')
      BY <1>9, EmptyTable DEF ClearTimers
    <2>2. TypeOK'
      BY <1>9, <2>1 DEF ClearTimers, TypeOK, Unique
    <2> QED
      BY <1>9, <2>1, <2>2, InvUnique DEF ClearTimers, Total
  <1>10. CASE UNCHANGED vars
    BY <1>10 DEF vars, TypeOK, UniqueTimers, Total
  <1> QED
    BY <1>1, <1>2, <1>3, <1>4, <1>5, <1>6, <1>7, <1>8, <1>9, <1>10 DEF Next, Sweep

(* The table keeps its types, microseconds below a second among them, in    *)
(* every behaviour (timer.c).                                               *)
THEOREM TimersTypeCorrect == Spec => []TypeOK
  <1>1. TimersInv => TypeOK
    BY DEF TimersInv
  <1> QED
    BY TimersInit, TimersStep, <1>1, PTL DEF Spec

\* FireTimer gives the timer of its slot to the callback, and only it does
LEMMA FiresDueTimer ==
  ASSUME TimersInv, [Next]_vars, NEW id \in TimerIDs, saved # id, saved' = id
  PROVE  FireTimer /\ timers[i].TimerID = id
  <1>1. id # INVALID_TIMERID
    BY TimersAssumption
  <1>2. FireTimer
    BY <1>1 DEF Next, Sweep, Tick, RunCallbacks, CbReturn, StartSweep, SkipTimer,
       TimerCbReturn, EndSweep, DeregisterTimer, RegisterTimerCallback, ClearTimers, vars
  <1> QED
    BY <1>2 DEF FireTimer

(* A timer's callback finds its own id and a slot free, even in a table     *)
(* that was full: FireTimer clears the slot before it (timer.c:68-75).      *)
THEOREM TimerCanRearm == Spec => CanRearm
  <1>1. ASSUME TimersInv, [Next]_vars, NEW id \in TimerIDs, saved # id, saved' = id
        PROVE  CanRegister(id)'
    <2>1. FireTimer /\ timers[i].TimerID = id
      BY <1>1, FiresDueTimer
    <2>2. i \in Slots /\ Due(i) /\ timers' = [timers EXCEPT ![i] = Cleared]
      BY <2>1 DEF FireTimer
    <2>3. \A j \in Slots : timers'[j].TimerID # id
      BY <1>1, <2>1, <2>2, DueSlot, ClearTable
    <2>4. timers'[i].pTimerCb = "NULL"
      BY <1>1, <2>2 DEF TimersInv, TypeOK, Cleared
    <2> QED
      BY <2>2, <2>3, <2>4 DEF CanRegister, Named, FreeSlots
  <1>2. TimersInv /\ [Next]_vars =>
          [\A id \in TimerIDs : saved # id /\ saved' = id => CanRegister(id)']_vars
    BY <1>1
  <1> QED
    BY <1>2, TimersInit, TimersStep, PTL DEF Spec, CanRearm
-----------------------------------------------------------------------------
(* A timer that has fired in this sweep is not armed, or armed for a time   *)
(* after the sweep's clock reading.                                         *)
Rearmed ==
  pc \in {"sweep", "timercb"} =>
    \A id \in fired : Deadlines[id] = -1 \/ Total(now) < Deadlines[id]

LEMMA RearmedStep ==
  ASSUME 0 \notin TimeOuts, TimersInv, Rearmed, [Next]_vars
  PROVE  Rearmed'
  <1>0. /\ time \in Nat /\ fired \subseteq TimerIDs
        /\ pc \in {"sweep", "timercb"} => Total(now) \in Nat /\ Total(now) <= time
    BY TotalType DEF TimersInv, TypeOK
  <1>1. CASE UNCHANGED <<timers, pc, now, fired>>
    BY <1>1 DEF Rearmed, Deadlines, Named, Holder, Total
  <1>2. CASE RunCallbacks \/ CbReturn \/ EndSweep
    BY <1>2 DEF RunCallbacks, CbReturn, EndSweep, Rearmed
  <1>3. CASE StartSweep
    BY <1>3 DEF StartSweep, Rearmed
  <1>4. CASE TimerCbReturn
    BY <1>4 DEF TimerCbReturn, Rearmed, Deadlines, Named, Holder, Total
  <1>5. CASE FireTimer
    <2> DEFINE id == timers[i].TimerID
    <2>1. /\ i \in Slots /\ Due(i) /\ timers' = [timers EXCEPT ![i] = Cleared]
          /\ fired' = fired \union {id} /\ pc = "sweep" /\ now' = now
      BY <1>5 DEF FireTimer
    <2>2. id # INVALID_TIMERID /\ id \in TimerIDs
      BY <2>1, DueSlot
    <2>3. Deadlines' = [Deadlines EXCEPT ![id] = -1]
      BY <2>1, <2>2, ClearTable
    <2>4. \A k \in TimerIDs : Deadlines'[k] = IF k = id THEN -1 ELSE Deadlines[k]
      BY <2>3, DeadlinesAre
    <2> HIDE DEF id
    <2> QED
      BY <1>0, <2>1, <2>2, <2>4 DEF Rearmed, Total
  <1>6. ASSUME NEW id \in TimerIDs, DeregisterTimer(id) PROVE Rearmed'
    <2>1. PICK k \in Slots : timers[k].TimerID = id /\ timers' = [timers EXCEPT ![k] = Cleared]
      BY <1>6 DEF DeregisterTimer, First, Named
    <2>2. Deadlines' = [Deadlines EXCEPT ![id] = -1]
      BY <2>1, ClearTable, TimersAssumption
    <2>3. \A other \in TimerIDs : Deadlines'[other] = IF other = id THEN -1 ELSE Deadlines[other]
      BY <2>2, DeadlinesAre
    <2>4. UNCHANGED <<pc, now, fired>>
      BY <1>6 DEF DeregisterTimer
    <2> QED
      BY <1>0, <2>3, <2>4 DEF Rearmed, Total
  <1>7. ASSUME NEW id \in TimerIDs, NEW t \in TimeOuts, RegisterTimerCallback(id, t)
        PROVE  Rearmed'
    <2>1. Deadlines' = [Deadlines EXCEPT ![id] = time + t * USEC]
      BY <1>7, RegisterTable
    <2>2. \A k \in TimerIDs : Deadlines'[k] = IF k = id THEN time + t * USEC ELSE Deadlines[k]
      BY <2>1, DeadlinesAre
    <2>3. UNCHANGED <<pc, now, fired>>
      BY <1>7 DEF RegisterTimerCallback
    <2>4. t * USEC \in Nat \ {0}
      <3>1. t \in Nat \ {0} /\ USEC \in Nat \ {0}
        BY TimersAssumption
      <3> QED
        BY <3>1, SMT
    <2> DEFINE d == t * USEC
    <2> HIDE DEF d
    <2>5. d \in Nat \ {0} /\ \A k \in TimerIDs : Deadlines'[k] = IF k = id THEN time + d ELSE Deadlines[k]
      BY <2>2, <2>4 DEF d
    <2> QED
      BY <1>0, <2>3, <2>5 DEF Rearmed, Total
  <1>8. CASE ClearTimers
    <2>1. \A k \in TimerIDs : Deadlines'[k] = -1
      BY <1>8, EmptyTable, DeadlinesAre DEF ClearTimers
    <2>2. UNCHANGED <<pc, now, fired>>
      BY <1>8 DEF ClearTimers
    <2> QED
      BY <1>0, <2>1, <2>2 DEF Rearmed
  <1> QED
    BY <1>1, <1>2, <1>3, <1>4, <1>5, <1>6, <1>7, <1>8 DEF Next, Sweep, Tick, SkipTimer, vars

(* If no delay is 0, no timer fires twice in a sweep, whatever its callback *)
(* and the others do to the table meanwhile (ProcessTimers, timer.c).       *)
THEOREM TimersFireOncePerSweep ==
  ASSUME 0 \notin TimeOuts
  PROVE  Spec => OncePerSweep
  <1>1. Init => Rearmed
    BY DEF Init, Rearmed
  <1>2. TimersInv /\ Rearmed /\ [Next]_vars => (TimersInv /\ Rearmed)'
    BY TimersStep, RearmedStep
  <1>3. ASSUME TimersInv, Rearmed, [Next]_vars, NEW id \in TimerIDs, saved # id, saved' = id
        PROVE  id \notin fired
    <2>1. FireTimer /\ timers[i].TimerID = id
      BY <1>3, FiresDueTimer
    <2>2. /\ pc = "sweep" /\ i \in Slots /\ timers[i].expires \in timeval /\ now \in timeval
          /\ IsTimeOver(now, timers[i].expires)
      BY <1>3, <2>1 DEF FireTimer, Due, TimersInv, TypeOK, Slot
    <2>3. Deadlines[id] = Total(timers[i].expires)
      <3>1. Unique(timers) /\ id # INVALID_TIMERID
        BY <1>3, InvUnique, TimersAssumption DEF TimersInv
      <3> QED
        BY <2>1, <2>2, <3>1, DeadlineOfSlot, DeadlinesAre
    <2>4. Deadlines[id] \in Nat /\ Total(now) \in Nat /\ Deadlines[id] <= Total(now)
      BY <2>2, <2>3, OverIsLater, TotalType
    <2> QED
      BY <1>3, <2>2, <2>4 DEF Rearmed
  <1>4. TimersInv /\ Rearmed /\ [Next]_vars =>
          [\A id \in TimerIDs : saved # id /\ saved' = id => id \notin fired]_vars
    BY <1>3
  <1> QED
    BY <1>1, <1>2, <1>4, TimersInit, PTL DEF Spec, OncePerSweep
-----------------------------------------------------------------------------
(* The sweep leaves no timer behind it that was due at its clock reading.   *)
Passed(k) == k < i \/ (pc = "timercb" /\ k = i)

Swept == pc \in {"sweep", "timercb"} => \A k \in Slots : Passed(k) => ~Due(k)

\* a callback arms a timer for a time after the clock reading
LEMMA ArmedLater ==
  ASSUME 0 \notin TimeOuts, TimersInv, pc \in {"sweep", "timercb"},
         NEW id \in TimerIDs, NEW t \in TimeOuts, RegisterTimerCallback(id, t)
  PROVE  \A k \in Slots : timers'[k] = timers[k] \/ ~Due(k)'
  <1> DEFINE e == timeradd(gettimeofday, Interval(t))
  <1>1. t \in Nat \ {0} /\ USEC \in Nat \ {0} /\ time \in Nat
    BY TimersAssumption DEF TimersInv, TypeOK
  <1>2. e \in timeval /\ Total(e) = time + t * USEC
    BY <1>1, TimeOfDay, IntervalTotal, AddTotal
  <1>3. t * USEC \in Nat \ {0}
    BY <1>1, SMT
  <1>4. now \in timeval /\ Total(now) <= time /\ Total(now) \in Nat /\ now' = now
    BY TotalType DEF TimersInv, TypeOK, RegisterTimerCallback
  <1> HIDE DEF e
  <1>5. ~IsTimeOver(now, e)
    <2> SUFFICES ASSUME IsTimeOver(now, e) PROVE FALSE
      OBVIOUS
    <2>1. Total(e) <= Total(now)
      BY <1>2, <1>4, OverIsLater
    <2> DEFINE d == t * USEC
    <2>2. d \in Nat \ {0} /\ Total(e) = time + d
      BY <1>2, <1>3
    <2> HIDE DEF d
    <2> QED
      BY <1>1, <1>4, <2>1, <2>2
  <1>6. PICK slot \in Slots :
          timers' = [timers EXCEPT ![slot] = [TimerID |-> id, pTimerCb |-> "app", expires |-> e]]
    BY DEF RegisterTimerCallback, e
  <1>7. timers \in [Slots -> Slot]
    BY DEF TimersInv, TypeOK
  <1>8. \A k \in Slots : k # slot => timers'[k] = timers[k]
    BY <1>6, <1>7
  <1>9. timers'[slot].expires = e
    BY <1>6, <1>7
  <1>10. ~Due(slot)'
    BY <1>4, <1>5, <1>9 DEF Due
  <1> QED
    BY <1>8, <1>10

LEMMA SweptStep ==
  ASSUME 0 \notin TimeOuts, TimersInv, Swept, [Next]_vars
  PROVE  Swept'
  <1>0. i \in 0..GUI_MAX_TIMERS /\ GUI_MAX_TIMERS \in Nat /\ timers \in [Slots -> Slot]
    BY TimersAssumption DEF TimersInv, TypeOK
  <1>1. CASE Tick \/ UNCHANGED vars
    BY <1>1 DEF Tick, vars, Swept, Passed, Due
  <1>2. CASE RunCallbacks \/ CbReturn \/ EndSweep
    BY <1>2 DEF RunCallbacks, CbReturn, EndSweep, Swept
  <1>3. CASE StartSweep
    BY <1>0, <1>3 DEF StartSweep, Swept, Passed, Slots
  <1>4. CASE SkipTimer
    BY <1>0, <1>4 DEF SkipTimer, Swept, Passed, Slots, Due
  <1>5. CASE TimerCbReturn
    BY <1>0, <1>5 DEF TimerCbReturn, Swept, Passed, Slots, Due
  <1>6. \A k \in Slots : timers'[k] = Cleared => ~Due(k)'
    BY DEF Due, Cleared
  <1>7. CASE FireTimer
    <2>1. /\ pc = "sweep" /\ pc' = "timercb" /\ i \in Slots /\ now' = now /\ i' = i
          /\ timers' = [timers EXCEPT ![i] = Cleared]
      BY <1>7 DEF FireTimer
    <2>2. timers'[i] = Cleared /\ \A k \in Slots : k # i => timers'[k] = timers[k]
      BY <1>0, <2>1
    <2>3. \A k \in Slots : Passed(k)' => k = i \/ Passed(k)
      BY <2>1 DEF Passed
    <2>4. \A k \in Slots : k # i /\ ~Due(k) => ~Due(k)'
      BY <2>1, <2>2 DEF Due
    <2> QED
      BY <1>6, <2>1, <2>2, <2>3, <2>4 DEF Swept
  <1>8. ASSUME NEW id \in TimerIDs, DeregisterTimer(id) PROVE Swept'
    <2>1. PICK slot \in Slots : timers' = [timers EXCEPT ![slot] = Cleared]
      BY <1>8 DEF DeregisterTimer
    <2>2. \A k \in Slots : timers'[k] = Cleared \/ timers'[k] = timers[k]
      BY <1>0, <2>1
    <2>3. UNCHANGED <<pc, now, i>>
      BY <1>8 DEF DeregisterTimer
    <2> QED
      BY <1>6, <2>2, <2>3 DEF Swept, Passed, Due
  <1>9. ASSUME NEW id \in TimerIDs, NEW t \in TimeOuts, RegisterTimerCallback(id, t)
        PROVE  Swept'
    <2>1. UNCHANGED <<pc, now, i>>
      BY <1>9 DEF RegisterTimerCallback
    <2>2. pc \in {"sweep", "timercb"} => \A k \in Slots : timers'[k] = timers[k] \/ ~Due(k)'
      BY <1>9, ArmedLater
    <2> QED
      BY <2>1, <2>2 DEF Swept, Passed, Due
  <1>10. CASE ClearTimers
    <2>1. \A k \in Slots : timers'[k] = Cleared
      BY <1>10 DEF ClearTimers
    <2> QED
      BY <1>6, <2>1 DEF Swept
  <1> QED
    BY <1>1, <1>2, <1>3, <1>4, <1>5, <1>7, <1>8, <1>9, <1>10 DEF Next, Sweep

(* Where a sweep ends, no timer in the table was due at the time it read:   *)
(* none is passed over by a slot that a callback clears or fills behind or  *)
(* before the sweep's place (ProcessTimers, timer.c), if no delay is 0.     *)
THEOREM SweepLeavesNoneDue ==
  ASSUME 0 \notin TimeOuts
  PROVE  Spec => [](pc = "sweep" /\ i = GUI_MAX_TIMERS => \A k \in Slots : ~Due(k))
  <1>1. Init => Swept
    BY DEF Init, Swept
  <1>2. TimersInv /\ Swept /\ [Next]_vars => (TimersInv /\ Swept)'
    BY TimersStep, SweptStep
  <1>3. TimersInv /\ Swept =>
          (pc = "sweep" /\ i = GUI_MAX_TIMERS => \A k \in Slots : ~Due(k))
    <2>1. i = GUI_MAX_TIMERS => \A k \in Slots : Passed(k)
      BY TimersAssumption DEF Passed, Slots
    <2> QED
      BY <2>1 DEF Swept
  <1> QED
    BY <1>1, <1>2, <1>3, TimersInit, PTL DEF Spec
-----------------------------------------------------------------------------
(* Refinement.  A table with a free slot has room for one more timer.       *)
LEMMA RoomForOne ==
  ASSUME Unique(timers), NEW slot \in Slots, timers[slot].TimerID = INVALID_TIMERID
  PROVE  Cardinality(Service!Armed) < GUI_MAX_TIMERS
  <1> DEFINE Others == Slots \ {slot}
             Names == {timers[k].TimerID : k \in Others}
  <1>1. IsFiniteSet(Others) /\ Cardinality(Others) = GUI_MAX_TIMERS - 1
    <2>1. IsFiniteSet(Slots) /\ Cardinality(Slots) = GUI_MAX_TIMERS
      BY FS_Interval, TimersAssumption DEF Slots
    <2> QED
      BY <2>1, FS_RemoveElement
  <1>2. IsFiniteSet(Names) /\ Cardinality(Names) <= Cardinality(Others)
    <2> DEFINE f == [k \in Others |-> timers[k].TimerID]
    <2>1. f \in Surjection(Others, Names)
      BY DEF Surjection
    <2> QED
      BY <1>1, <2>1, FS_Surjection
  <1>3. Service!Armed \subseteq Names
    <2> SUFFICES ASSUME NEW id \in TimerIDs, Deadlines[id] # -1
                 PROVE  id \in Names
      BY DEF Service!Armed, Service!Unarmed
    <2>1. PICK k \in Slots : timers[k].TimerID = id
      BY DeadlinesAre, DeadlineOfNone
    <2>2. k # slot
      BY <2>1, TimersAssumption
    <2> QED
      BY <2>1, <2>2
  <1>4. Cardinality(Service!Armed) <= Cardinality(Names) /\ Cardinality(Service!Armed) \in Nat
        /\ Cardinality(Names) \in Nat
    BY <1>2, <1>3, FS_Subset, FS_CardinalityType
  <1> QED
    BY <1>1, <1>2, <1>4, TimersAssumption

LEMMA SameDeadlines ==
  ASSUME UNCHANGED timers
  PROVE  UNCHANGED Deadlines
  BY DeadlinesAre

LEMMA ServiceInit == Init => Service!Init
  <1> SUFFICES ASSUME Init PROVE Service!Init
    OBVIOUS
  <1>1. Deadlines = [id \in TimerIDs |-> -1]
    BY EmptyTable, DeadlinesAre DEF Init
  <1> QED
    BY <1>1 DEF Init, Service!Init, Service!Unarmed, Service!Nobody, INVALID_TIMERID

(* Every step of the table is a step of the service or changes nothing the  *)
(* service knows.                                                           *)
LEMMA ServiceStep ==
  TimersInv /\ [Next]_vars => [Service!Next]_<<time, Deadlines, saved>>
  <1> SUFFICES ASSUME TimersInv, [Next]_vars
               PROVE  [Service!Next]_<<time, Deadlines, saved>>
    OBVIOUS
  <1> USE DEF TimersInv
  <1>1. CASE Tick
    BY <1>1, SameDeadlines DEF Tick, Service!Next, Service!Tick
  <1>2. CASE RunCallbacks \/ CbReturn \/ StartSweep \/ SkipTimer \/ EndSweep \/ UNCHANGED vars
    BY <1>2, SameDeadlines DEF RunCallbacks, CbReturn, StartSweep, SkipTimer, EndSweep, vars
  <1>3. CASE FireTimer
    <2> DEFINE id == timers[i].TimerID
    <2>1. /\ i \in Slots /\ Due(i) /\ timers' = [timers EXCEPT ![i] = Cleared]
          /\ saved' = id /\ saved = INVALID_TIMERID /\ time' = time /\ pc = "sweep"
      BY <1>3 DEF FireTimer
    <2>2. id # INVALID_TIMERID /\ id \in TimerIDs
      BY <2>1, DueSlot
    <2>3. Deadlines[id] = Total(timers[i].expires) /\ Deadlines' = [Deadlines EXCEPT ![id] = -1]
      BY <2>1, <2>2, ClearTable
    <2>4. timers[i].expires \in timeval /\ now \in timeval /\ time \in Nat
      BY <2>1, TimersAssumption DEF TypeOK, Slot
    <2>5. Total(timers[i].expires) \in Nat /\ Total(timers[i].expires) <= time
      <3>1. Total(timers[i].expires) <= Total(now) /\ Total(now) <= time
        BY <2>1, <2>4, OverIsLater DEF Due
      <3> QED
        BY <3>1, <2>4, TotalType
    <2> HIDE DEF id
    <2>6. Service!Fire(id)
      BY <2>1, <2>2, <2>3, <2>5 DEF Service!Fire, Service!Armed, Service!Unarmed,
         Service!Nobody, INVALID_TIMERID
    <2> QED
      BY <2>2, <2>6 DEF Service!Next
  <1>4. CASE TimerCbReturn
    BY <1>4, SameDeadlines
       DEF TimerCbReturn, Service!Next, Service!Return, Service!Nobody, INVALID_TIMERID
  <1>5. CASE \E id \in TimerIDs : DeregisterTimer(id)
    <2>1. PICK id \in TimerIDs : DeregisterTimer(id)
      BY <1>5
    <2>2. PICK k \in Slots : timers[k].TimerID = id /\ timers' = [timers EXCEPT ![k] = Cleared]
      BY <2>1 DEF DeregisterTimer, First, Named
    <2>3. Deadlines[id] = Total(timers[k].expires) /\ Deadlines' = [Deadlines EXCEPT ![id] = -1]
      BY <2>2, ClearTable, TimersAssumption
    <2>4. Deadlines[id] # -1
      <3>1. timers[k].expires \in timeval
        BY <2>2 DEF TypeOK, Slot
      <3>2. Total(timers[k].expires) \in Nat
        BY <3>1, TotalType
      <3> QED
        BY <2>3, <3>2
    <2>5. Service!Disarm(id)
      BY <2>1, <2>3, <2>4 DEF DeregisterTimer, Service!Disarm, Service!Armed, Service!Unarmed
    <2> QED
      BY <2>5 DEF Service!Next
  <1>6. CASE \E id \in TimerIDs, t \in TimeOuts : RegisterTimerCallback(id, t)
    <2>1. PICK id \in TimerIDs, t \in TimeOuts : RegisterTimerCallback(id, t)
      BY <1>6
    <2>2. /\ Deadlines[id] = -1
          /\ Deadlines' = [Deadlines EXCEPT ![id] = time + t * USEC]
          /\ \E slot \in Slots : timers[slot].TimerID = INVALID_TIMERID
      BY <2>1, RegisterTable
    <2>3. Service!Cardinality(Service!Armed) < GUI_MAX_TIMERS
      <3>1. Cardinality(Service!Armed) < GUI_MAX_TIMERS
        BY <2>2, RoomForOne, InvUnique
      <3>2. \A S : Service!Cardinality(S) = Cardinality(S)
        BY DEF Service!Cardinality, Cardinality
      <3> QED
        BY <3>1, <3>2
    <2>4. t * USEC \in Microseconds
      BY DEF Microseconds
    <2>5. Service!Arm(id)
      <3> DEFINE d == t * USEC
      <3>1. id \notin Service!Armed
        BY <2>2 DEF Service!Armed, Service!Unarmed
      <3>2. UNCHANGED <<time, saved>>
        BY <2>1 DEF RegisterTimerCallback
      <3>3. d \in Microseconds /\ Deadlines' = [Deadlines EXCEPT ![id] = time + d]
        BY <2>2, <2>4
      <3> HIDE DEF d
      <3> QED
        BY <3>1, <3>2, <3>3, <2>3 DEF Service!Arm
    <2> QED
      BY <2>5 DEF Service!Next
  <1>7. CASE ClearTimers
    <2>1. Deadlines' = [id \in TimerIDs |-> -1]
      BY <1>7, EmptyTable, DeadlinesAre DEF ClearTimers
    <2> QED
      BY <1>7, <2>1 DEF ClearTimers, Service!Next, Service!DisarmAll, Service!Unarmed
  <1> QED
    BY <1>1, <1>2, <1>3, <1>4, <1>5, <1>6, <1>7 DEF Next, Sweep

(* For tables of any size and any units of time, the timers of timer.c keep *)
(* the promise of TimerService: no callback before its time, none twice,    *)
(* one at a time, none lost but by disarming or a window change.            *)
THEOREM TimersImplementService == Spec => KeepsTimeService
  BY TimersInit, TimersStep, ServiceInit, ServiceStep, PTL
     DEF Spec, KeepsTimeService, Service!Spec
=============================================================================
