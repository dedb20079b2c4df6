-------------------------------- MODULE Keys --------------------------------
(***************************************************************************)
(* The keys of the manager (src/tsk/mgr/gui/key.c): the table of callbacks  *)
(* for key states, and ProcessKeyEvents, which turns the device's push,     *)
(* repeat and release events into states.  A state is a key and a time: 1   *)
(* for a push, 0 for a release, 100 for each event of a key held down; the  *)
(* counter behind it is shared by all keys, the time is a USHORT.           *)
(***************************************************************************)
EXTENDS Integers, FiniteSets, Sequences

CONSTANTS
  GUI_MAX_KEY_RESERVES,  \* slots of the table (16 in gui.h)
  KeyCodes,              \* keys of the device
  USHORT_SPAN,           \* number of values of a USHORT (65536)
  WindowStates,          \* the states the window's OnLoad registers, in this order
  MoreStates,            \* states its callbacks register and deregister
  MaxReps                \* bound of the model: repeats of one hold

State == [type : Nat, time : 0 .. USHORT_SPAN - 1]
NoState == [type |-> 0, time |-> 0]

ASSUME KeysAssumption ==
  /\ GUI_MAX_KEY_RESERVES \in Nat \ {0}
  /\ KeyCodes \subseteq Nat \ {0}
  /\ USHORT_SPAN \in Nat \ {0, 1}
  /\ WindowStates \in Seq(State \ {NoState})
  /\ Len(WindowStates) <= GUI_MAX_KEY_RESERVES
  /\ MoreStates \subseteq State
  /\ MaxReps \in Nat

VARIABLES
  key_reserves,  \* gCtxt.key_reserves
  count,         \* events of the current hold, the push included
  pc,            \* where the manager's thread is
  running,       \* the state whose callback runs, or NoState
  ret,           \* what the last call of RegisterKeyPushCallback returned
  pressed,       \* device: the keys that are down
  repeat_key,    \* device: the key that repeats, or 0
  reps,          \* history: how often it has repeated since its push
  longs          \* history: callbacks for a time of LONG_PRESS since that push

vars == <<key_reserves, count, pc, running, ret, pressed, repeat_key, reps, longs>>
-----------------------------------------------------------------------------
Slots == 0 .. GUI_MAX_KEY_RESERVES - 1
Cleared == [state |-> NoState, pKeyCb |-> "NULL"]
GUI_SUCCESS == 0
GUI_ERR_AREAS_FULL == 1
GUI_ERR_AREA_INVALID == 6
LONG_PRESS == 500

First(k, S) == k \in S /\ \A j \in S : k <= j
FreeSlots == {k \in Slots : key_reserves[k].pKeyCb = "NULL"}

\* mutant: the times are not compared
SlotsOfType(st) == {k \in Slots : key_reserves[k].state.type = st.type}

\* CompareStates; the state of a cleared slot is NoState
SlotsWith(st) == {k \in Slots : key_reserves[k].state = st}

Registered(st) == SlotsWith(st) \ FreeSlots

\* mutant: the time is a byte
TimeInByte(c) == (c * 100) % 256

(* state.time = count * 100 is cut to a USHORT.                             *)
Time(c) == (c * 100) % USHORT_SPAN
-----------------------------------------------------------------------------
(* RegisterKeyPushCallback(), from callbacks; NULL deregisters.             *)
Register(st) ==
  /\ pc = "cb"
  /\ IF FreeSlots = {}
     THEN ret' = GUI_ERR_AREAS_FULL /\ UNCHANGED key_reserves
     ELSE /\ ret' = GUI_SUCCESS
          /\ \E slot \in Slots :
               /\ First(slot, FreeSlots)
               /\ key_reserves' = [key_reserves EXCEPT ![slot] = [state |-> st, pKeyCb |-> "app"]]
  /\ UNCHANGED <<count, pc, running, pressed, repeat_key, reps, longs>>

\* mutant: only the callback is taken out
WithoutCallback(slot) == [key_reserves EXCEPT ![slot].pKeyCb = "NULL"]

Without(slot) == [key_reserves EXCEPT ![slot] = Cleared]

Deregister(st) ==
  /\ pc = "cb"
  /\ IF SlotsWith(st) = {}
     THEN ret' = GUI_ERR_AREA_INVALID /\ UNCHANGED key_reserves
     ELSE /\ ret' = GUI_SUCCESS
          /\ \E slot \in Slots :
               /\ First(slot, SlotsWith(st))
               /\ key_reserves' = Without(slot)
  /\ UNCHANGED <<count, pc, running, pressed, repeat_key, reps, longs>>

LoadedKeys ==
  [k \in Slots |-> IF k + 1 \in DOMAIN WindowStates
                   THEN [state |-> WindowStates[k + 1], pKeyCb |-> "app"] ELSE Cleared]

(* LoadWindow() from a callback: ClearKeyStates, then OnLoad.               *)
LoadWindow ==
  /\ pc = "cb"
  /\ MoreStates # {}
  /\ key_reserves' = LoadedKeys
  /\ ret' = GUI_SUCCESS
  /\ UNCHANGED <<count, pc, running, pressed, repeat_key, reps, longs>>

CbReturn ==
  /\ pc = "cb"
  /\ pc' = "loop"
  /\ running' = NoState
  /\ UNCHANGED <<key_reserves, count, ret, pressed, repeat_key, reps, longs>>

\* callbacks of timers and messages
OtherCallback ==
  /\ pc = "loop"
  /\ MoreStates # {}
  /\ pc' = "cb"
  /\ UNCHANGED <<key_reserves, count, running, ret, pressed, repeat_key, reps, longs>>
-----------------------------------------------------------------------------
(* ProcessKeyEvents().  The first callback registered for the state runs.   *)
ProccessKeyState(st) ==
  IF Registered(st) = {}
  THEN UNCHANGED <<pc, running>>
  ELSE pc' = "cb" /\ running' = st

(* The device sends repeats for the key pushed last, until a key is         *)
(* released; the manager handles events in their order.                     *)
KeyPush(k) ==
  /\ pc = "loop"
  /\ k \notin pressed
  /\ pressed' = pressed \union {k}
  /\ repeat_key' = k
  /\ ProccessKeyState([type |-> k, time |-> 1])
  /\ count' = 1
  /\ reps' = 0
  /\ longs' = 0
  /\ UNCHANGED <<key_reserves, ret>>

\* mutant: the counter stops at the long press
NextCountCapped(c) == IF c < 5 THEN c + 1 ELSE c

NextCount(c) == c + 1

KeyRepeat ==
  /\ pc = "loop"
  /\ repeat_key # 0
  /\ reps < MaxReps      \* bound of the model
  /\ count' = NextCount(count)
  /\ reps' = reps + 1
  /\ LET st == [type |-> repeat_key, time |-> Time(count')] IN
     /\ ProccessKeyState(st)
     /\ longs' = IF st.time = LONG_PRESS /\ Registered(st) # {} THEN longs + 1 ELSE longs
  /\ UNCHANGED <<key_reserves, ret, pressed, repeat_key>>

KeyRelease(k) ==
  /\ pc = "loop"
  /\ k \in pressed
  /\ pressed' = pressed \ {k}
  /\ repeat_key' = 0
  /\ ProccessKeyState([type |-> k, time |-> 0])
  /\ UNCHANGED <<key_reserves, ret, count, reps, longs>>

Init ==
  /\ key_reserves = LoadedKeys
  /\ count = 0
  /\ pc = "loop"
  /\ running = NoState
  /\ ret = GUI_SUCCESS
  /\ pressed = {}
  /\ repeat_key = 0
  /\ reps = 0
  /\ longs = 0

Next ==
  \/ \E k \in KeyCodes : KeyPush(k) \/ KeyRelease(k)
  \/ KeyRepeat
  \/ \E st \in MoreStates \ {NoState} : Register(st)
  \/ \E st \in MoreStates : Deregister(st)
  \/ LoadWindow \/ OtherCallback \/ CbReturn

Spec == Init /\ [][Next]_vars
-----------------------------------------------------------------------------
(* Types, and a slot without a callback holds the state {0, 0}.             *)
TypeOK ==
  /\ key_reserves \in [Slots -> [state : State, pKeyCb : {"NULL", "app"}]]
  /\ \A k \in FreeSlots : key_reserves[k] = Cleared
  /\ count \in 0 .. MaxReps + 1
  /\ pc \in {"loop", "cb"}
  /\ running \in State
  /\ ret \in {GUI_SUCCESS, GUI_ERR_AREAS_FULL, GUI_ERR_AREA_INVALID}
  /\ pressed \subseteq KeyCodes
  /\ repeat_key \in pressed \union {0}
  /\ reps \in 0..MaxReps
  /\ longs \in 0..MaxReps

\* count * 100 takes a value again after so many events (16384)
Period ==
  CHOOSE n \in 1..USHORT_SPAN :
    /\ (n * 100) % USHORT_SPAN = 0
    /\ \A k \in 1 .. n - 1 : (k * 100) % USHORT_SPAN # 0

\* the counter all keys share counts the hold of the key that repeats
CountsOwnHold == repeat_key # 0 => count = reps + 1

\* events of a hold whose time is cut to 0, the time of a release (every 16384th)
CutToZero == {n \in 1 .. MaxReps + 1 : (n * 100) % USHORT_SPAN = 0}

(* A callback for a release runs only when the key is up.  The cut to a     *)
(* USHORT breaks this, but not before the first event whose time is cut to  *)
(* 0 (key.c:94-111).                                                        *)
ReleaseMeansUp ==
  (running # NoState /\ running.time = 0 /\ \A n \in CutToZero : reps + 1 < n)
    => running.type \notin pressed

(* A callback for a long press runs once in a hold; again only if the hold  *)
(* goes on for Period events more.                                          *)
LongPressOnce == longs <= 1 + (reps + 1 - 5) \div Period

(* Deregistering a state that exists removes one callback for it and no     *)
(* other, and is reported as a success exactly if there was one.  (For the  *)
(* state {0, 0} a cleared slot is taken for a callback.)                    *)
DeregisterIsExact ==
  [][\A st \in MoreStates \ {NoState} :
       Deregister(st) =>
         /\ ret' = GUI_SUCCESS <=> Registered(st) # {}
         /\ \A other \in MoreStates :
              Cardinality(Registered(other)') =
                Cardinality(Registered(other))
                  - IF other = st /\ Registered(st) # {} THEN 1 ELSE 0]_vars
=============================================================================
