----------------------------- MODULE KeysProofs -----------------------------
(***************************************************************************)
(* Proofs about Keys, for every number of slots and keys, every width of    *)
(* the USHORT and holds of any length.                                      *)
(***************************************************************************)
EXTENDS Keys, TLAPS, FiniteSetTheorems, WellFoundedInduction

(* The inductive invariant.  That the shared counter is the hold's own is   *)
(* what bounds it, and no callback of the keys runs while an event waits.   *)
KeysInv ==
  /\ TypeOK
  /\ CountsOwnHold
  /\ longs <= reps
  /\ pc = "loop" => running = NoState
  /\ ReleaseMeansUp

LEMMA StateType ==
  /\ NoState \in State
  /\ \A k \in KeyCodes : [type |-> k, time |-> 0] \in State /\ [type |-> k, time |-> 1] \in State
  /\ \A k \in KeyCodes, c \in Nat : Time(c) \in 0 .. USHORT_SPAN - 1
                                    /\ [type |-> k, time |-> Time(c)] \in State
  <1>1. \A c \in Nat : (c * 100) % USHORT_SPAN \in 0 .. USHORT_SPAN - 1
    BY KeysAssumption, SMT
  <1> QED
    BY <1>1, KeysAssumption DEF State, NoState, Time

LEMMA LoadedKeysType ==
  /\ LoadedKeys \in [Slots -> [state : State, pKeyCb : {"NULL", "app"}]]
  /\ \A k \in Slots : LoadedKeys[k].pKeyCb = "NULL" => LoadedKeys[k] = Cleared
  <1>1. \A k \in Slots : k + 1 \in DOMAIN WindowStates => WindowStates[k + 1] \in State
    BY KeysAssumption
  <1> QED
    BY <1>1, StateType DEF LoadedKeys, Cleared

LEMMA KeysInit == Init => KeysInv
  <1> SUFFICES ASSUME Init PROVE KeysInv
    OBVIOUS
  <1> USE DEF Init
  <1>1. TypeOK
    BY LoadedKeysType, StateType, KeysAssumption DEF TypeOK, FreeSlots
  <1> QED
    BY <1>1 DEF KeysInv, CountsOwnHold, ReleaseMeansUp

(* What a call from a callback leaves of the invariant, if it only changes  *)
(* the table, and keeps its type.                                           *)
LEMMA TableCallKeeps ==
  ASSUME KeysInv,
         key_reserves' \in [Slots -> [state : State, pKeyCb : {"NULL", "app"}]],
         \A k \in Slots : key_reserves'[k].pKeyCb = "NULL" => key_reserves'[k] = Cleared,
         ret' \in {GUI_SUCCESS, GUI_ERR_AREAS_FULL, GUI_ERR_AREA_INVALID},
         UNCHANGED <<count, pc, running, pressed, repeat_key, reps, longs>>
  PROVE  KeysInv'
  BY DEF KeysInv, TypeOK, FreeSlots, CountsOwnHold, ReleaseMeansUp

LEMMA RegisterKeeps ==
  ASSUME KeysInv, NEW st \in State, Register(st)
  PROVE  KeysInv'
  <1>1. CASE FreeSlots = {}
    BY <1>1, TableCallKeeps DEF Register, KeysInv, TypeOK, FreeSlots
  <1>2. CASE FreeSlots # {}
    <2>1. PICK slot \in Slots :
            key_reserves' = [key_reserves EXCEPT ![slot] = [state |-> st, pKeyCb |-> "app"]]
      BY <1>2 DEF Register
    <2>2. [state |-> st, pKeyCb |-> "app"] \in [state : State, pKeyCb : {"NULL", "app"}]
      OBVIOUS
    <2>3. /\ key_reserves' \in [Slots -> [state : State, pKeyCb : {"NULL", "app"}]]
          /\ \A k \in Slots : key_reserves'[k].pKeyCb = "NULL" => key_reserves'[k] = Cleared
      BY <2>1, <2>2 DEF KeysInv, TypeOK, FreeSlots
    <2> QED
      BY <1>2, <2>3, TableCallKeeps DEF Register
  <1> QED
    BY <1>1, <1>2

LEMMA DeregisterKeeps ==
  ASSUME KeysInv, NEW st \in State, Deregister(st)
  PROVE  KeysInv'
  <1>1. CASE SlotsWith(st) = {}
    BY <1>1, TableCallKeeps DEF Deregister, KeysInv, TypeOK, FreeSlots
  <1>2. CASE SlotsWith(st) # {}
    <2>1. PICK slot \in Slots : key_reserves' = [key_reserves EXCEPT ![slot] = Cleared]
      BY <1>2 DEF Deregister, Without
    <2>2. Cleared \in [state : State, pKeyCb : {"NULL", "app"}]
      BY StateType DEF Cleared
    <2>3. /\ key_reserves' \in [Slots -> [state : State, pKeyCb : {"NULL", "app"}]]
          /\ \A k \in Slots : key_reserves'[k].pKeyCb = "NULL" => key_reserves'[k] = Cleared
      BY <2>1, <2>2 DEF KeysInv, TypeOK, FreeSlots
    <2> QED
      BY <1>2, <2>3, TableCallKeeps DEF Deregister
  <1> QED
    BY <1>1, <1>2

LEMMA KeyPushKeeps ==
  ASSUME KeysInv, NEW k \in KeyCodes, KeyPush(k)
  PROVE  KeysInv'
  <1>1. pc' \in {"loop", "cb"} /\ running' \in State /\ (pc' = "loop" => running' = NoState)
        /\ (running' = NoState \/ running'.time = 1)
    <2> DEFINE st == [type |-> k, time |-> 1]
    <2>1. st \in State /\ NoState \in State /\ st.time = 1
      BY StateType
    <2>2. running = NoState /\ pc = "loop"
      BY DEF KeyPush, KeysInv
    <2>3. ProccessKeyState(st)
      BY DEF KeyPush
    <2> HIDE DEF st
    <2> QED
      BY <2>1, <2>2, <2>3 DEF ProccessKeyState
  <1>2. TypeOK'
    BY <1>1, KeysAssumption DEF KeyPush, KeysInv, TypeOK, FreeSlots
  <1>3. CountsOwnHold' /\ longs' <= reps'
    BY DEF KeyPush, CountsOwnHold
  <1>4. ReleaseMeansUp'
    BY <1>1 DEF ReleaseMeansUp
  <1> QED
    BY <1>1, <1>2, <1>3, <1>4 DEF KeysInv

LEMMA KeyRepeatKeeps ==
  ASSUME KeysInv, KeyRepeat
  PROVE  KeysInv'
  <1> DEFINE st == [type |-> repeat_key, time |-> Time(count')]
  <1>1. /\ repeat_key \in KeyCodes
        /\ reps \in Nat /\ reps < MaxReps /\ longs \in Nat /\ longs <= reps
        /\ count = reps + 1 /\ count' = count + 1 /\ reps' = reps + 1 /\ repeat_key' = repeat_key
    BY KeysAssumption DEF KeysInv, TypeOK, CountsOwnHold, KeyRepeat, NextCount
  <1>2. count' = reps' + 1 /\ count' \in 1 .. MaxReps + 1 /\ reps' \in 0..MaxReps
    BY <1>1, KeysAssumption
  <1>3. longs' \in 0..MaxReps /\ longs' <= reps'
    <2>1. longs' = longs \/ longs' = longs + 1
      BY DEF KeyRepeat
    <2> QED
      BY <2>1, <1>1, KeysAssumption
  <1>4. st \in State
    BY <1>1, <1>2, StateType
  <1>5. /\ pc' \in {"loop", "cb"} /\ running' \in State
        /\ pc' = "loop" => running' = NoState
        /\ running' = NoState \/ running' = st
    BY <1>4, StateType DEF KeyRepeat, ProccessKeyState, KeysInv, TypeOK
  <1>6. TypeOK'
    BY <1>1, <1>2, <1>3, <1>5 DEF KeyRepeat, KeysInv, TypeOK, FreeSlots
  <1>7. ReleaseMeansUp'
    <2>1. Time(count') = 0 => count' \in CutToZero
      BY <1>2 DEF CutToZero, Time
    <2>2. CutToZero' = CutToZero
      BY DEF CutToZero
    <2>3. st.time = Time(count')
      OBVIOUS
    <2> HIDE DEF st
    <2>4. running' = st /\ running'.time = 0 => Time(count') = 0
      BY <2>3
    <2>5. ~(reps' + 1 < count')
      <3>1. reps \in Nat /\ reps' = reps + 1 /\ count' = reps + 1 + 1
        BY <1>1
      <3> QED
        BY <3>1
    <2> QED
      BY <2>1, <2>2, <2>4, <2>5, <1>5 DEF ReleaseMeansUp
  <1> QED
    BY <1>1, <1>2, <1>3, <1>5, <1>6, <1>7 DEF KeysInv, CountsOwnHold

LEMMA KeyReleaseKeeps ==
  ASSUME KeysInv, NEW k \in KeyCodes, KeyRelease(k)
  PROVE  KeysInv'
  <1>1. /\ pc' \in {"loop", "cb"} /\ running' \in State
        /\ pc' = "loop" => running' = NoState
        /\ running' = NoState \/ running' = [type |-> k, time |-> 0]
    BY StateType DEF KeyRelease, ProccessKeyState, KeysInv, TypeOK
  <1>2. TypeOK'
    BY <1>1 DEF KeyRelease, KeysInv, TypeOK, FreeSlots
  <1>3. ReleaseMeansUp'
    BY <1>1 DEF ReleaseMeansUp, KeyRelease
  <1> QED
    BY <1>1, <1>2, <1>3 DEF KeyRelease, KeysInv, CountsOwnHold

LEMMA KeysStep == KeysInv /\ [Next]_vars => KeysInv'
  <1> SUFFICES ASSUME KeysInv, [Next]_vars PROVE KeysInv'
    OBVIOUS
  <1>1. CASE \E k \in KeyCodes : KeyPush(k) \/ KeyRelease(k)
    BY <1>1, KeyPushKeeps, KeyReleaseKeeps
  <1>2. CASE KeyRepeat
    BY <1>2, KeyRepeatKeeps
  <1>3. CASE \E st \in MoreStates \ {NoState} : Register(st)
    BY <1>3, RegisterKeeps, KeysAssumption
  <1>4. CASE \E st \in MoreStates : Deregister(st)
    BY <1>4, DeregisterKeeps, KeysAssumption
  <1>5. CASE LoadWindow
    BY <1>5, LoadedKeysType, TableCallKeeps DEF LoadWindow
  <1>6. CASE OtherCallback
    BY <1>6 DEF OtherCallback, KeysInv, TypeOK, FreeSlots, CountsOwnHold, ReleaseMeansUp
  <1>7. CASE CbReturn
    BY <1>7, StateType DEF CbReturn, KeysInv, TypeOK, FreeSlots, CountsOwnHold, ReleaseMeansUp
  <1>8. CASE UNCHANGED vars
    BY <1>8 DEF vars, KeysInv, TypeOK, FreeSlots, CountsOwnHold, ReleaseMeansUp
  <1> QED
    BY <1>1, <1>2, <1>3, <1>4, <1>5, <1>6, <1>7, <1>8 DEF Next

(* The table, the counter and the device keep their types in every          *)
(* behaviour; a slot without a callback is a cleared one (key.c:20-62).     *)
THEOREM KeysTypeCorrect == Spec => []TypeOK
  <1>1. KeysInv => TypeOK
    BY DEF KeysInv
  <1> QED
    BY KeysInit, KeysStep, <1>1, PTL DEF Spec

(* For every width of the USHORT and every order of pushes, repeats and     *)
(* releases of any keys, a callback for a release runs with its key up,     *)
(* until the first event whose time is cut to 0 (key.c:94-111).             *)
THEOREM ReleaseIsTold == Spec => []ReleaseMeansUp
  <1>1. KeysInv => ReleaseMeansUp
    BY DEF KeysInv
  <1> QED
    BY KeysInit, KeysStep, <1>1, PTL DEF Spec
-----------------------------------------------------------------------------
LEMMA RegisteredIsFinite ==
  ASSUME NEW st
  PROVE  IsFiniteSet(Registered(st))
  <1>1. IsFiniteSet(Slots)
    BY FS_Interval, KeysAssumption DEF Slots
  <1> QED
    BY <1>1, FS_Subset DEF Registered, SlotsWith

(* Deregistering a state other than {0, 0} takes the callbacks for it down  *)
(* by one slot, that of the first, and those for other states by none.      *)
LEMMA DeregisterRegistered ==
  ASSUME TypeOK, NEW st \in State \ {NoState}, NEW other \in State,
         Deregister(st)
  PROVE  IF SlotsWith(st) = {} THEN Registered(other)' = Registered(other)
         ELSE \E slot \in SlotsWith(st) :
                Registered(other)' = IF other = st THEN Registered(other) \ {slot}
                                     ELSE Registered(other)
  <1>1. CASE SlotsWith(st) = {}
    BY <1>1 DEF Deregister, Registered, SlotsWith, FreeSlots
  <1>2. CASE SlotsWith(st) # {}
    <2>1. PICK slot \in SlotsWith(st) : key_reserves' = [key_reserves EXCEPT ![slot] = Cleared]
      BY <1>2 DEF Deregister, Without, First
    <2>2. slot \in Slots /\ key_reserves[slot].state = st
      BY DEF SlotsWith
    <2>3. Registered(other)' = {k \in Slots : key_reserves'[k].state = other
                                              /\ key_reserves'[k].pKeyCb # "NULL"}
      BY DEF Registered, SlotsWith, FreeSlots
    <2>4. Registered(other) = {k \in Slots : key_reserves[k].state = other
                                             /\ key_reserves[k].pKeyCb # "NULL"}
      BY DEF Registered, SlotsWith, FreeSlots
    <2>5. /\ key_reserves'[slot].pKeyCb = "NULL"
          /\ \A k \in Slots \ {slot} : key_reserves'[k] = key_reserves[k]
      BY <2>1, <2>2 DEF TypeOK, Cleared
    <2>6. Registered(other)' = IF other = st THEN Registered(other) \ {slot}
                               ELSE Registered(other)
      BY <2>2, <2>3, <2>4, <2>5
    <2> QED
      BY <1>2, <2>6
  <1> QED
    BY <1>1, <1>2

LEMMA WithIsRegistered ==
  ASSUME TypeOK, NEW st \in State \ {NoState}
  PROVE  SlotsWith(st) = Registered(st)
  BY DEF TypeOK, SlotsWith, Registered, Cleared

(* For tables of any size: deregistering a state that exists removes one    *)
(* callback for it and no other, and reports a success exactly if there was *)
(* one (key.c:41-50).                                                       *)
THEOREM DeregisteringIsExact == Spec => DeregisterIsExact
  <1>1. ASSUME TypeOK, [Next]_vars,
               NEW st \in MoreStates \ {NoState}, Deregister(st)
        PROVE  /\ ret' = GUI_SUCCESS <=> Registered(st) # {}
               /\ \A other \in MoreStates :
                    Cardinality(Registered(other)') =
                      Cardinality(Registered(other))
                        - IF other = st /\ Registered(st) # {} THEN 1 ELSE 0
    <2>1. st \in State \ {NoState} /\ MoreStates \subseteq State
      BY KeysAssumption
    <2>2. SlotsWith(st) = Registered(st)
      BY <2>1, WithIsRegistered, <1>1
    <2>3. ret' = GUI_SUCCESS <=> Registered(st) # {}
      BY <1>1, <2>2 DEF Deregister, GUI_SUCCESS, GUI_ERR_AREA_INVALID
    <2>4. ASSUME NEW other \in MoreStates
          PROVE  Cardinality(Registered(other)') =
                   Cardinality(Registered(other))
                     - IF other = st /\ Registered(st) # {} THEN 1 ELSE 0
      <3>1. Cardinality(Registered(other)) \in Nat
        BY RegisteredIsFinite, FS_CardinalityType
      <3>2. CASE Registered(st) = {} \/ other # st
        <4>1. Registered(other)' = Registered(other)
          BY <3>2, <2>1, <2>2, <1>1, DeregisterRegistered
        <4> QED
          BY <4>1, <3>1, <3>2
      <3>3. CASE Registered(st) # {} /\ other = st
        <4>1. PICK slot \in Registered(st) : Registered(st)' = Registered(st) \ {slot}
          BY <3>3, <2>1, <2>2, <1>1, DeregisterRegistered
        <4>2. Cardinality(Registered(st) \ {slot}) = Cardinality(Registered(st)) - 1
          BY <4>1, RegisteredIsFinite, FS_RemoveElement
        <4> QED
          BY <3>3, <4>1, <4>2
      <3> QED
        BY <3>2, <3>3
    <2> QED
      BY <2>3, <2>4
  <1>2. TypeOK /\ [Next]_vars =>
          [\A st \in MoreStates \ {NoState} :
             Deregister(st) =>
               /\ ret' = GUI_SUCCESS <=> Registered(st) # {}
               /\ \A other \in MoreStates :
                    Cardinality(Registered(other)') =
                      Cardinality(Registered(other))
                        - IF other = st /\ Registered(st) # {} THEN 1 ELSE 0]_vars
    BY <1>1
  <1> QED
    BY <1>2, KeysTypeCorrect, PTL DEF Spec, DeregisterIsExact
-----------------------------------------------------------------------------
(* Arithmetic: least numbers, quotients and remainders.                     *)
LEMMA LeastNatural ==
  ASSUME NEW T \in SUBSET Nat, T # {}
  PROVE  \E n \in T : \A m \in T : n <= m
  <1> DEFINE R == OpToRel(<, Nat)
  <1>1. \A m, n \in Nat : <<m, n>> \in R <=> m < n
    BY DEF OpToRel
  <1>2. IsWellFoundedOn(R, Nat)
    BY NatLessThanWellFounded
  <1> HIDE DEF R
  <1>3. PICK n \in T : \A m \in T : ~ (<<m, n>> \in R)
    BY <1>2, WFMin
  <1>4. n \in Nat /\ \A m \in T : m \in Nat
    OBVIOUS
  <1>5. \A m \in T : ~ (m < n)
    BY <1>1, <1>3, <1>4
  <1> QED
    BY <1>4, <1>5

LEMMA DivModOf ==
  ASSUME NEW a \in Int, NEW n \in Nat \ {0}
  PROVE  a \div n \in Int /\ a % n \in 0 .. n - 1 /\ a = n * (a \div n) + (a % n)
  <1>1. a \div n \in Int
    BY SMT
  <1>2. a % n \in 0 .. n - 1
    BY SMT
  <1>3. a = n * (a \div n) + (a % n)
    BY SMT
  <1> QED
    BY <1>1, <1>2, <1>3

LEMMA DivModIs ==
  ASSUME NEW n \in Nat \ {0}, NEW q \in Int, NEW r \in 0 .. n - 1, NEW a \in Int,
         a = n * q + r
  PROVE  a \div n = q /\ a % n = r
  <1> DEFINE p == a \div n
             s == a % n
  <1>1. p \in Int /\ s \in 0 .. n - 1 /\ a = n * p + s
    BY DivModOf
  <1> HIDE DEF p, s
  <1>2. n * (p - q) = r - s
    BY <1>1, SMT
  <1>3. ASSUME p - q >= 1 PROVE FALSE
    <2>1. n * (p - q) >= n
      BY <1>1, <1>3, SMT
    <2> QED
      BY <1>1, <1>2, <2>1
  <1>4. ASSUME p - q <= -1 PROVE FALSE
    <2>1. n * (p - q) <= -n
      BY <1>1, <1>4, SMT
    <2> QED
      BY <1>1, <1>2, <2>1
  <1>5. p = q
    BY <1>1, <1>3, <1>4
  <1>6. s = r
    BY <1>1, <1>2, <1>5
  <1> QED
    BY <1>5, <1>6 DEF p, s

LEMMA NoRemainder ==
  ASSUME NEW n \in Nat \ {0}, NEW q \in Int, NEW a \in Int, a = n * q
  PROVE  a % n = 0
  <1>1. 0 \in 0 .. n - 1
    OBVIOUS
  <1>2. a = n * q + 0
    <2>1. n * q \in Int
      BY SMT
    <2> QED
      BY <2>1
  <1> QED
    BY <1>1, <1>2, DivModIs

LEMMA Divided ==
  ASSUME NEW a \in Int, NEW n \in Nat \ {0}
  PROVE  \E q \in Int : \E r \in 0 .. n - 1 : a = n * q + r /\ a % n = r
  <1> DEFINE p == a \div n
             s == a % n
  <1>1. p \in Int /\ s \in 0 .. n - 1 /\ a = n * p + s /\ a % n = s
    BY DivModOf
  <1> HIDE DEF p, s
  <1> QED
    BY <1>1

LEMMA Multiple ==
  ASSUME NEW a \in Int, NEW n \in Nat \ {0}, a % n = 0
  PROVE  \E q \in Int : a = n * q
  <1>1. PICK q \in Int : \E r \in 0 .. n - 1 : a = n * q + r /\ a % n = r
    BY Divided
  <1>2. PICK r \in 0 .. n - 1 : a = n * q + r /\ a % n = r
    BY <1>1
  <1>3. r = 0
    BY <1>2
  <1>4. a = n * q
    <2>1. n * q \in Int
      BY SMT
    <2> QED
      BY <1>2, <1>3, <2>1
  <1> QED
    BY <1>4

(* After Period events a time comes again, and only after multiples of it.  *)
LEMMA PeriodIs ==
  /\ Period \in 1..USHORT_SPAN
  /\ (Period * 100) % USHORT_SPAN = 0
  /\ \A k \in 1 .. Period - 1 : (k * 100) % USHORT_SPAN # 0
  <1> DEFINE T == {n \in 1..USHORT_SPAN : (n * 100) % USHORT_SPAN = 0}
  <1>1. USHORT_SPAN \in Nat \ {0, 1}
    BY KeysAssumption
  <1>2. (USHORT_SPAN * 100) % USHORT_SPAN = 0
    <2>1. USHORT_SPAN * 100 \in Int /\ 100 \in Int /\ USHORT_SPAN \in Nat \ {0}
      BY <1>1
    <2> QED
      BY <2>1, NoRemainder
  <1>3. USHORT_SPAN \in T
    BY <1>1, <1>2
  <1>a. T \in SUBSET Nat /\ T # {}
    BY <1>3
  <1>4. PICK n \in T : \A m \in T : n <= m
    <2> HIDE DEF T
    <2> QED
      BY <1>a, LeastNatural
  <1>5. n \in 1..USHORT_SPAN /\ (n * 100) % USHORT_SPAN = 0
    BY <1>4
  <1>6. \A k \in 1 .. n - 1 : (k * 100) % USHORT_SPAN # 0
    <2> SUFFICES ASSUME NEW k \in 1 .. n - 1, (k * 100) % USHORT_SPAN = 0 PROVE FALSE
      OBVIOUS
    <2>1. k \in T /\ k < n
      BY <1>1, <1>5
    <2> HIDE DEF T
    <2> QED
      BY <1>4, <1>5, <2>1
  <1> HIDE DEF T
  <1> QED
    BY <1>5, <1>6 DEF Period

LEMMA PeriodDivides ==
  ASSUME NEW m \in Int, (m * 100) % USHORT_SPAN = 0
  PROVE  \E q \in Int : m = Period * q
  <1> DEFINE S == USHORT_SPAN
             P == Period
  <1>1. S \in Nat \ {0} /\ P \in Nat \ {0}
    BY PeriodIs, KeysAssumption
  <1>p. (P * 100) % S = 0 /\ \A k \in 1 .. P - 1 : (k * 100) % S # 0
    BY PeriodIs
  <1>m. (m * 100) % S = 0
    OBVIOUS
  <1> HIDE DEF S, P
  <1>2a. PICK q \in Int : \E r \in 0 .. P - 1 : m = P * q + r /\ m % P = r
    BY <1>1, Divided
  <1>2. PICK r \in 0 .. P - 1 : m = P * q + r
    BY <1>2a
  <1>3. PICK a \in Int : m * 100 = S * a
    <2>1. m * 100 \in Int
      OBVIOUS
    <2> QED
      BY <1>1, <1>m, <2>1, Multiple
  <1>4. PICK b \in Int : P * 100 = S * b
    <2>1. P * 100 \in Int
      BY <1>1
    <2> QED
      BY <1>1, <1>p, <2>1, Multiple
  <1>5. r * 100 = S * (a - b * q)
    <2>1. r * 100 = m * 100 - (P * 100) * q
      BY <1>1, <1>2, SMT
    <2>2. (P * 100) * q = S * (b * q)
      BY <1>1, <1>4, SMT
    <2>3. b * q \in Int /\ S * a - S * (b * q) = S * (a - b * q)
      BY <1>1, SMT
    <2> QED
      BY <1>3, <2>1, <2>2, <2>3
  <1>6. (r * 100) % S = 0
    <2> DEFINE t == a - b * q
    <2>1. t \in Int
      BY SMT
    <2>2. r * 100 \in Int
      BY <1>1, <1>2
    <2>3. r * 100 = S * t
      BY <1>5
    <2> HIDE DEF t
    <2> QED
      BY <1>1, <2>1, <2>2, <2>3, NoRemainder
  <1>7. r = 0
    BY <1>1, <1>2, <1>6, <1>p
  <1>8. m = P * q
    <2>1. P * q \in Int
      BY <1>1, SMT
    <2> QED
      BY <1>2, <1>7, <2>1
  <1> QED
    BY <1>8 DEF P

LEMMA LongTime ==
  ASSUME NEW c \in Nat, Time(c) = LONG_PRESS
  PROVE  \E q \in Int : c - 5 = Period * q
  <1>1. USHORT_SPAN \in Nat \ {0}
    BY KeysAssumption
  <1> DEFINE S == USHORT_SPAN
  <1>2. (c * 100) % S = 500
    BY DEF Time, LONG_PRESS
  <1> HIDE DEF S
  <1>3. S \in Nat \ {0}
    BY <1>1 DEF S
  <1>4. PICK a \in Int : \E r \in 0 .. S - 1 : c * 100 = S * a + r /\ (c * 100) % S = r
    <2>1. c * 100 \in Int
      OBVIOUS
    <2> QED
      BY <1>3, <2>1, Divided
  <1>5. S * a \in Int /\ c * 100 = S * a + 500
    BY <1>2, <1>3, <1>4, SMT
  <1>6. (c - 5) * 100 \in Int /\ (c - 5) * 100 = S * a
    BY <1>5
  <1>7. ((c - 5) * 100) % S = 0
    BY <1>3, <1>6, NoRemainder
  <1>8. c - 5 \in Int
    OBVIOUS
  <1> QED
    BY <1>7, <1>8, PeriodDivides DEF S

LEMMA PeriodIsLong ==
  ASSUME LONG_PRESS < USHORT_SPAN
  PROVE  Period \in Nat /\ Period >= 6
  <1>1. USHORT_SPAN \in Nat \ {0} /\ USHORT_SPAN > 500
    BY KeysAssumption DEF LONG_PRESS
  <1>3. Period \in Nat \ {0} /\ (Period * 100) % USHORT_SPAN = 0
    BY <1>1, PeriodIs
  <1>2. PICK b \in Int : Period * 100 = USHORT_SPAN * b
    <2>1. Period * 100 \in Int
      BY <1>3
    <2> QED
      BY <1>1, <1>3, <2>1, Multiple
  <1>4. b >= 1
    <2>1. ASSUME b <= 0 PROVE FALSE
      <3>1. USHORT_SPAN * b <= 0
        BY <1>1, <2>1, SMT
      <3> QED
        BY <1>2, <1>3, <3>1
    <2> QED
      BY <2>1
  <1>5. USHORT_SPAN * b >= USHORT_SPAN
    BY <1>1, <1>4, SMT
  <1> QED
    BY <1>1, <1>2, <1>3, <1>5

(* The bound on long presses, one event later.                              *)
LEMMA LongBound ==
  ASSUME NEW P \in Nat, P >= 6, NEW x \in Int
  PROVE  /\ (x - 1) \div P <= x \div P
         /\ \A q \in Int : x = P * q => x \div P = q /\ (x - 1) \div P = q - 1
         /\ (0 + 1 - 5) \div P = -1
  <1>1. ASSUME NEW q \in Int, x = P * q PROVE x \div P = q /\ (x - 1) \div P = q - 1
    <2>1. x \div P = q
      BY <1>1, DivModIs
    <2>2. x - 1 = P * (q - 1) + (P - 1)
      BY <1>1, SMT
    <2> QED
      BY <2>1, <2>2, DivModIs
  <1>2. (x - 1) \div P <= x \div P
    <2>a. PICK q \in Int : \E r \in 0 .. P - 1 : x = P * q + r /\ x % P = r
      BY Divided
    <2>1. PICK r \in 0 .. P - 1 : x = P * q + r
      BY <2>a
    <2>2. CASE r = 0
      <3>1. P * q \in Int /\ x = P * q
        BY <2>1, <2>2, SMT
      <3> QED
        BY <1>1, <3>1
    <2>3. CASE r # 0
      <3>1. x - 1 = P * q + (r - 1) /\ r - 1 \in 0 .. P - 1
        BY <2>1, <2>3
      <3>2. x \div P = q /\ (x - 1) \div P = q
        BY <2>1, <3>1, DivModIs
      <3> QED
        BY <3>2
    <2> QED
      BY <2>2, <2>3
  <1>3. (0 + 1 - 5) \div P = -1
    <2>1. 0 + 1 - 5 = P * (-1) + (P - 4) /\ P - 4 \in 0 .. P - 1
      BY SMT
    <2> QED
      BY <2>1, DivModIs
  <1> QED
    BY <1>1, <1>2, <1>3

LEMMA LongPressStep ==
  ASSUME LONG_PRESS < USHORT_SPAN, KeysInv, LongPressOnce, [Next]_vars
  PROVE  LongPressOnce'
  <1> DEFINE P == Period
  <1>1. P \in Nat /\ P >= 6 /\ UNCHANGED P
    BY PeriodIsLong DEF Period
  <1> HIDE DEF P
  <1>2. longs \in Nat /\ reps \in Nat
    BY DEF KeysInv, TypeOK
  <1>3. longs <= 1 + (reps + 1 - 5) \div P
    BY DEF LongPressOnce, P
  <1> SUFFICES longs' <= 1 + (reps' + 1 - 5) \div P
    BY <1>1 DEF LongPressOnce, P
  <1>4. CASE \E k \in KeyCodes : KeyPush(k)
    <2>1. longs' = 0 /\ reps' = 0
      BY <1>4 DEF KeyPush
    <2> QED
      BY <1>1, <2>1, LongBound
  <1>5. CASE KeyRepeat
    <2> DEFINE x == reps' + 1 - 5
    <2>1. reps' = reps + 1 /\ count' = reps' + 1 /\ count' \in Nat
      BY <1>2, <1>5 DEF KeyRepeat, NextCount, KeysInv, CountsOwnHold
    <2>2. x \in Int /\ x - 1 = reps + 1 - 5 /\ x = count' - 5
      BY <1>2, <2>1
    <2>3. /\ longs' = longs \/ (longs' = longs + 1 /\ Time(count') = LONG_PRESS)
      BY <1>5 DEF KeyRepeat
    <2> HIDE DEF x
    <2>4. CASE longs' = longs
      <3>1. (x - 1) \div P <= x \div P /\ (x - 1) \div P \in Int /\ x \div P \in Int
        <4>1. P \in Nat \ {0} /\ x - 1 \in Int
          BY <1>1, <2>2
        <4>2. (x - 1) \div P \in Int
          BY <4>1, DivModOf
        <4>3. x \div P \in Int
          BY <4>1, <2>2, DivModOf
        <4>4. (x - 1) \div P <= x \div P
          BY <1>1, <2>2, LongBound
        <4> QED
          BY <4>2, <4>3, <4>4
      <3> QED
        BY <1>2, <1>3, <2>2, <2>4, <3>1 DEF x
    <2>5. CASE longs' = longs + 1 /\ Time(count') = LONG_PRESS
      <3>1. PICK q \in Int : x = P * q
        BY <2>1, <2>2, <2>5, LongTime DEF P
      <3>2. x \div P = q /\ (x - 1) \div P = q - 1
        BY <1>1, <2>2, <3>1, LongBound
      <3> QED
        BY <1>2, <1>3, <2>2, <2>5, <3>2 DEF x
    <2> QED
      BY <2>3, <2>4, <2>5
  <1>6. CASE UNCHANGED <<reps, longs>>
    BY <1>3, <1>6
  <1> QED
    BY <1>4, <1>5, <1>6 DEF Next, vars, KeyRelease, Register, Deregister, LoadWindow,
       OtherCallback, CbReturn

(* For holds of any length and every USHORT that 500 fits in: a callback    *)
(* for a long press runs once in the first Period events of a hold, and at  *)
(* most once more in each Period that follows (key.c:94-111).               *)
THEOREM LongPressIsToldOnce ==
  ASSUME LONG_PRESS < USHORT_SPAN
  PROVE  Spec => []LongPressOnce
  <1>1. Init => LongPressOnce
    <2>1. Period \in Nat /\ Period >= 6
      BY PeriodIsLong
    <2>2. (0 + 1 - 5) \div Period = -1
      BY <2>1, LongBound
    <2> QED
      BY <2>2 DEF Init, LongPressOnce
  <1>2. KeysInv /\ LongPressOnce /\ [Next]_vars => (KeysInv /\ LongPressOnce)'
    BY KeysStep, LongPressStep
  <1> QED
    BY <1>1, <1>2, KeysInit, PTL DEF Spec
=============================================================================
