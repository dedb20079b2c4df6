--------------------------- MODULE WindowsProofs ---------------------------
(***************************************************************************)
(* Proofs about Windows, for tables of any capacity, any registrations and  *)
(* any number of loads.                                                     *)
(***************************************************************************)
EXTENDS Windows, TLAPS, SequenceTheorems

(* The tables have an entry in every slot, whatever the keys are.           *)
Shaped == tables = [k \in Kinds |-> [s \in Slots(k) |-> tables[k][s]]]

(* Code below the top of the stack only returns; a callback is at the       *)
(* bottom, and an OnLoad that loaded a window is the opening's, which loads *)
(* the menu.                                                                *)
Below ==
  \A n \in 1 .. Len(frames) - 1 :
    /\ frames[n].leaving
    /\ frames[n + 1].code = "OnLoad"
    /\ frames[n].code = "OnLoad"
         => frames[n].win = WINID_OPENING /\ frames[n + 1].win = WINID_MENU

(* Code that goes on belongs to the window that is shown.                   *)
TopIsCurrent ==
  frames # <<>> /\ ~Top.leaving => Top.win = current /\ Top.load = loads

Stack == frames \in Seq(Frame) /\ Below /\ TopIsCurrent

LoopTypes ==
  /\ current \in gWindowTbl
  /\ loads \in 1..MaxLoads
  /\ phase \in {"events", "timers", "requests"}
  /\ visit \subseteq Slots("timers") \union Slots("requests")
  /\ exited \in BOOLEAN

WinInv == LoopTypes /\ Shaped /\ OnlyCurrentWindow /\ Stack

(* An entry is free, or belongs to the window shown.                        *)
Owned(e) == e = Cleared \/ (e.win = current /\ e.load = loads)

LEMMA OwnedEntries ==
  OnlyCurrentWindow <=> \A k \in Kinds : \A s \in Slots(k) : Owned(tables[k][s])
  BY DEF OnlyCurrentWindow, Owned, Used

LEMMA SetEntry ==
  ASSUME Shaped, NEW k \in Kinds, NEW s \in Slots(k), NEW e,
         tables' = [tables EXCEPT ![k][s] = e]
  PROVE  /\ Shaped'
         /\ \A j \in Kinds : \A r \in Slots(j) :
              tables'[j][r] = IF j = k /\ r = s THEN e ELSE tables[j][r]
  <1>1. \A j \in Kinds : tables[j] = [r \in Slots(j) |-> tables[j][r]]
    BY DEF Shaped
  <1>2. tables' = [j \in Kinds |-> IF j = k THEN [tables[k] EXCEPT ![s] = e] ELSE tables[j]]
    BY DEF Shaped
  <1>3. [tables[k] EXCEPT ![s] = e] = [r \in Slots(k) |-> IF r = s THEN e ELSE tables[k][r]]
    BY <1>1
  <1>4. \A j \in Kinds :
          tables'[j] = [r \in Slots(j) |-> IF j = k /\ r = s THEN e ELSE tables[j][r]]
    BY <1>1, <1>2, <1>3
  <1>5. \A j \in Kinds : tables'[j] = [r \in Slots(j) |-> tables'[j][r]]
    <2> SUFFICES ASSUME NEW j \in Kinds PROVE tables'[j] = [r \in Slots(j) |-> tables'[j][r]]
      OBVIOUS
    <2> DEFINE h == [r \in Slots(j) |-> IF j = k /\ r = s THEN e ELSE tables[j][r]]
    <2>1. tables'[j] = h
      BY <1>4
    <2>2. h = [r \in Slots(j) |-> h[r]]
      OBVIOUS
    <2> HIDE DEF h
    <2> QED
      BY <2>1, <2>2
  <1>6. tables' = [j \in Kinds |-> tables'[j]]
    BY <1>2
  <1> QED
    BY <1>4, <1>5, <1>6 DEF Shaped

LEMMA SetOwned ==
  ASSUME Shaped, OnlyCurrentWindow, NEW k \in Kinds, NEW s \in Slots(k), NEW e, Owned(e),
         tables' = [tables EXCEPT ![k][s] = e], UNCHANGED <<current, loads>>
  PROVE  Shaped' /\ OnlyCurrentWindow'
  <1>1. \A j \in Kinds : \A r \in Slots(j) : Owned(tables[j][r])'
    BY SetEntry, OwnedEntries DEF Owned
  <1>2. OnlyCurrentWindow'
    BY <1>1 DEF OnlyCurrentWindow, Owned, Used
  <1> QED
    BY <1>2, SetEntry

LEMMA RegisterOwned ==
  ASSUME WinInv, NEW kind \in Kinds, NEW key, Register(kind, key), ~Top.leaving,
         frames # <<>>, UNCHANGED <<current, loads>>
  PROVE  Shaped' /\ OnlyCurrentWindow'
  <1> DEFINE e == [key |-> key, win |-> Top.win, load |-> loads]
  <1>1. Owned(e)
    BY DEF Owned, WinInv, Stack, TopIsCurrent
  <1>2. CASE UNCHANGED tables
    BY <1>2 DEF WinInv, Shaped, OnlyCurrentWindow, Used
  <1>3. CASE \E s \in Slots(kind) : tables' = [tables EXCEPT ![kind][s] = e]
    BY <1>1, <1>3, SetOwned DEF WinInv
  <1> QED
    BY <1>2, <1>3 DEF Register

LEMMA Emptied ==
  ASSUME tables' = EmptyTables
  PROVE  Shaped' /\ OnlyCurrentWindow'
  BY DEF EmptyTables, Shaped, OnlyCurrentWindow, Used

LEMMA SameTables ==
  ASSUME Shaped, OnlyCurrentWindow, UNCHANGED <<tables, current, loads>>
  PROVE  Shaped' /\ OnlyCurrentWindow'
  BY DEF Shaped, OnlyCurrentWindow, Used
-----------------------------------------------------------------------------
(* The stack.                                                               *)
LEMMA SameStack ==
  ASSUME Stack, UNCHANGED <<frames, current, loads>>
  PROVE  Stack'
  BY DEF Stack, Below, TopIsCurrent, Top

LEMMA EmptyStack ==
  ASSUME frames' = <<>>
  PROVE  Stack'
  BY DEF Stack, Below, TopIsCurrent

LEMMA StartsStack ==
  ASSUME NEW f \in Frame, f.win = current', f.load = loads', frames' = <<f>>
  PROVE  Stack'
  BY DEF Stack, Below, TopIsCurrent, Top

LEMMA PopStack ==
  ASSUME Stack, frames # <<>>, frames' = SubSeq(frames, 1, Len(frames) - 1)
  PROVE  Stack'
  <1> DEFINE L == Len(frames)
  <1>1. L \in Nat \ {0} /\ \A n \in 1..L : frames[n] \in Frame
    BY DEF Stack
  <1>2. /\ frames' \in Seq(Frame) /\ Len(frames') = L - 1
        /\ \A n \in 1 .. L - 1 : frames'[n] = frames[n]
    <2>1. \A n \in 1 .. L - 1 : frames[n] \in Frame
      BY <1>1
    <2>2. frames' = SubSeq(frames, 1, L - 1) /\ L - 1 \in Int /\ 1 \in Int
      BY <1>1
    <2> HIDE DEF L
    <2>3. /\ frames' \in Seq(Frame)
          /\ Len(frames') = IF 1 <= L - 1 THEN (L - 1) - 1 + 1 ELSE 0
          /\ \A n \in 1 .. (L - 1) - 1 + 1 : frames'[n] = frames[1 + n - 1]
      BY <2>1, <2>2, SubSeqProperties
    <2> QED
      BY <1>1, <2>3
  <1>3. \A n \in 1 .. L - 1 : frames[n].leaving
    BY DEF Stack, Below
  <1> HIDE DEF L
  <1>4. Below'
    <2> SUFFICES ASSUME NEW n \in 1 .. Len(frames') - 1
                 PROVE  /\ frames'[n].leaving
                        /\ frames'[n + 1].code = "OnLoad"
                        /\ frames'[n].code = "OnLoad"
                             => /\ frames'[n].win = WINID_OPENING
                                /\ frames'[n + 1].win = WINID_MENU
      BY DEF Below
    <2>1. n \in 1 .. L - 1 /\ n + 1 \in 1 .. L - 1
      BY <1>1, <1>2
    <2> QED
      BY <1>2, <2>1 DEF Stack, Below, L
  <1>5. TopIsCurrent'
    <2>1. frames' # <<>> => L - 1 \in 1 .. L - 1
      BY <1>1, <1>2
    <2> QED
      BY <1>2, <1>3, <2>1 DEF TopIsCurrent, Top
  <1> QED
    BY <1>2, <1>4, <1>5 DEF Stack

(* One OnLoad more, the code under it leaving.                              *)
LEMMA LeavingStack ==
  ASSUME Stack, frames # <<>>
  PROVE  /\ LeavesAfterLoad(frames) \in Seq(Frame)
         /\ Len(LeavesAfterLoad(frames)) = Len(frames)
         /\ \A n \in 1 .. Len(frames) - 1 : LeavesAfterLoad(frames)[n] = frames[n]
         /\ LeavesAfterLoad(frames)[Len(frames)] = [Top EXCEPT !.leaving = TRUE]
         /\ Top \in Frame /\ [Top EXCEPT !.leaving = TRUE] \in Frame
  <1> DEFINE L == Len(frames)
             f == [frames[L] EXCEPT !.leaving = TRUE]
             stack == LeavesAfterLoad(frames)
  <1>1. L \in Nat \ {0} /\ \A n \in 1..L : frames[n] \in Frame
    BY DEF Stack
  <1>2. frames[L] \in Frame /\ f \in Frame
    <2>1. frames[L] \in Frame
      BY <1>1
    <2> HIDE DEF L
    <2> QED
      BY <2>1 DEF Frame
  <1>3. stack = [n \in 1..L |-> IF n = L THEN f ELSE frames[n]]
    <2>1. frames = [n \in 1..L |-> frames[n]]
      BY DEF Stack
    <2> QED
      BY <1>1, <2>1 DEF LeavesAfterLoad
  <1>4. /\ stack \in Seq(Frame) /\ Len(stack) = L /\ stack[L] = f
        /\ \A n \in 1 .. L - 1 : stack[n] = frames[n]
    <2> HIDE DEF stack, f
    <2> QED
      BY <1>1, <1>2, <1>3
  <1> QED
    BY <1>2, <1>4 DEF Top

LEMMA NewOnLoad ==
  ASSUME NEW id \in gWindowTbl, NEW load \in 1..MaxLoads
  PROVE  /\ OnLoadOf(id, load) \in Frame /\ OnLoadOf(id, load).code = "OnLoad"
         /\ OnLoadOf(id, load).win = id /\ OnLoadOf(id, load).load = load
  <1>1. Len(MenuOnLoad) \in Nat
    BY WindowsAssumption
  <1> QED
    BY <1>1 DEF OnLoadOf, Frame

LEMMA PushStack ==
  ASSUME Stack, frames # <<>>, ~Top.leaving, loads' \in 1..MaxLoads, current' \in gWindowTbl,
         frames' = Append(LeavesAfterLoad(frames), OnLoadOf(current', loads')),
         Top.code = "OnLoad" => Top.win = WINID_OPENING /\ current' = WINID_MENU
  PROVE  Stack'
  <1> DEFINE L == Len(frames)
             f == [Top EXCEPT !.leaving = TRUE]
             g == OnLoadOf(current', loads')
             stack == LeavesAfterLoad(frames)
  <1>1. L \in Nat \ {0}
    BY DEF Stack
  <1>2. f.leaving /\ f.code = Top.code /\ f.win = Top.win
    BY LeavingStack DEF Frame
  <1>3. g \in Frame /\ g.code = "OnLoad" /\ g.win = current' /\ g.load = loads'
    BY NewOnLoad
  <1>4. /\ stack \in Seq(Frame) /\ Len(stack) = L /\ stack[L] = f
        /\ \A n \in 1 .. L - 1 : stack[n] = frames[n]
    BY LeavingStack
  <1>5. frames' = Append(stack, g)
    OBVIOUS
  <1> HIDE DEF stack, g, f
  <1>6. /\ frames' \in Seq(Frame) /\ Len(frames') = L + 1 /\ frames'[L + 1] = g
        /\ frames'[L] = f /\ \A n \in 1 .. L - 1 : frames'[n] = frames[n]
    <2> HIDE DEF L
    <2> QED
      BY <1>1, <1>3, <1>4, <1>5
  <1>7. \A n \in 1 .. L - 1 :
          /\ frames[n].leaving
          /\ frames[n + 1].code = "OnLoad"
          /\ frames[n].code = "OnLoad"
               => frames[n].win = WINID_OPENING /\ frames[n + 1].win = WINID_MENU
    BY DEF Stack, Below
  <1>8. Top = frames[L]
    BY DEF Top
  <1> HIDE DEF L
  <1>9. Below'
    <2> SUFFICES ASSUME NEW n \in 1 .. L
                 PROVE  /\ frames'[n].leaving
                        /\ frames'[n + 1].code = "OnLoad"
                        /\ frames'[n].code = "OnLoad"
                             => /\ frames'[n].win = WINID_OPENING
                                /\ frames'[n + 1].win = WINID_MENU
      BY <1>1, <1>6 DEF Below
    <2>1. CASE n = L
      BY <1>2, <1>3, <1>6, <2>1
    <2>2. CASE n = L - 1
      BY <1>1, <1>2, <1>6, <1>7, <1>8, <2>2, SMTT(30)
    <2>3. CASE n < L - 1
      <3>1. n \in 1 .. L - 1 /\ n + 1 \in 1 .. L - 1
        BY <1>1, <2>3
      <3> QED
        BY <1>6, <1>7, <3>1
    <2>4. n = L \/ n = L - 1 \/ n < L - 1
      BY <1>1
    <2> QED
      BY <2>1, <2>2, <2>3, <2>4
  <1>10. TopIsCurrent'
    BY <1>3, <1>6 DEF TopIsCurrent, Top
  <1> QED
    BY <1>6, <1>9, <1>10 DEF Stack

(* One registration of the menu more.                                       *)
LEMMA AdvanceStack ==
  ASSUME Stack, frames # <<>>, Top.at < Len(MenuOnLoad), UNCHANGED <<current, loads>>,
         frames' = [frames EXCEPT ![Len(frames)].at = @ + 1]
  PROVE  Stack'
  <1> DEFINE L == Len(frames)
             f == [frames[L] EXCEPT !.at = @ + 1]
  <1>1. L \in Nat \ {0} /\ \A n \in 1..L : frames[n] \in Frame
    BY DEF Stack
  <1>2. /\ f \in Frame /\ f.code = frames[L].code /\ f.win = frames[L].win
        /\ f.leaving = frames[L].leaving /\ f.load = frames[L].load
    <2>1. Len(MenuOnLoad) \in Nat /\ frames[L].at < Len(MenuOnLoad)
      BY WindowsAssumption DEF Top
    <2>2. frames[L] \in Frame
      BY <1>1
    <2> HIDE DEF L
    <2>3. frames[L].at + 1 \in 0 .. Len(MenuOnLoad)
      BY <2>1, <2>2 DEF Frame
    <2> QED
      BY <2>2, <2>3 DEF Frame
  <1>3. frames' = [n \in 1..L |-> IF n = L THEN f ELSE frames[n]]
    <2>1. frames = [n \in 1..L |-> frames[n]]
      BY DEF Stack
    <2> QED
      BY <1>1, <2>1
  <1> HIDE DEF f
  <1>4. /\ frames' \in Seq(Frame) /\ Len(frames') = L /\ frames'[L] = f
        /\ \A n \in 1 .. L - 1 : frames'[n] = frames[n]
    <2>1. \A n \in 1 .. L : (IF n = L THEN f ELSE frames[n]) \in Frame
      BY <1>1, <1>2
    <2> DEFINE h == [n \in 1..L |-> IF n = L THEN f ELSE frames[n]]
    <2>2. frames' = h /\ L \in Nat \ {0}
      BY <1>1, <1>3
    <2> HIDE DEF L
    <2>3. h \in Seq(Frame) /\ Len(h) = L
      BY <2>1, <2>2
    <2>4. h[L] = f /\ \A n \in 1 .. L - 1 : h[n] = frames[n]
      BY <2>2
    <2> HIDE DEF h
    <2> QED
      BY <2>2, <2>3, <2>4
  <1>5. \A n \in 1 .. L :
          /\ frames'[n].leaving = frames[n].leaving /\ frames'[n].code = frames[n].code
          /\ frames'[n].win = frames[n].win /\ frames'[n].load = frames[n].load
    BY <1>1, <1>2, <1>4
  <1>6. Below'
    <2> SUFFICES ASSUME NEW n \in 1 .. L - 1
                 PROVE  /\ frames'[n].leaving
                        /\ frames'[n + 1].code = "OnLoad"
                        /\ frames'[n].code = "OnLoad"
                             => /\ frames'[n].win = WINID_OPENING
                                /\ frames'[n + 1].win = WINID_MENU
      BY <1>4 DEF Below
    <2>1. n \in 1 .. L /\ n + 1 \in 1 .. L
      BY <1>1
    <2> QED
      BY <1>5, <2>1 DEF Stack, Below
  <1>7. TopIsCurrent'
    BY <1>1, <1>4, <1>5 DEF Stack, TopIsCurrent, Top
  <1> QED
    BY <1>4, <1>6, <1>7 DEF Stack
-----------------------------------------------------------------------------
(* The steps.                                                               *)
LEMMA InitWin == Init => WinInv
  <1> SUFFICES ASSUME Init PROVE WinInv
    OBVIOUS
  <1>1. Shaped /\ OnlyCurrentWindow
    BY DEF Init, EmptyTables, Shaped, OnlyCurrentWindow, Used
  <1>2. LoopTypes
    <2>1. MaxLoads \in Nat \ {0}
      BY WindowsAssumption
    <2>2. current \in gWindowTbl /\ loads \in 1..MaxLoads
      BY <2>1 DEF Init, gWindowTbl
    <2>3. phase = "events" /\ visit = {} /\ exited = FALSE
      BY DEF Init
    <2> QED
      BY <2>2, <2>3 DEF LoopTypes
  <1>3. Stack
    <2>1. WINID_OPENING \in gWindowTbl /\ 1 \in 1..MaxLoads
      BY WindowsAssumption DEF gWindowTbl
    <2> QED
      BY <2>1, NewOnLoad, StartsStack DEF Init, Stack, Below, TopIsCurrent, Top
  <1> QED
    BY <1>1, <1>2, <1>3 DEF WinInv

LEMMA LoadWindowWin ==
  ASSUME WinInv, frames # <<>>, ~Top.leaving, NEW id,
         id \in gWindowTbl => loads + 1 \in 1..MaxLoads,
         Top.code = "OnLoad" => Top.win = WINID_OPENING /\ id = WINID_MENU,
         LoadWindow(id, LeavesAfterLoad(frames))
  PROVE  WinInv'
  <1>1. Shaped' /\ OnlyCurrentWindow'
    BY Emptied DEF LoadWindow, ClearedTables
  <1>2. CASE id \in gWindowTbl
    <2>1. /\ current' = id /\ loads' = loads + 1 /\ UNCHANGED <<exited, phase, visit>>
          /\ frames' = Append(LeavesAfterLoad(frames), OnLoadOf(current', loads'))
      BY <1>2 DEF LoadWindow
    <2>2. Stack'
      BY <1>2, <2>1, PushStack DEF WinInv
    <2>3. LoopTypes'
      BY <1>2, <2>1 DEF WinInv, LoopTypes
    <2> QED
      BY <1>1, <2>2, <2>3 DEF WinInv
  <1>3. CASE id \notin gWindowTbl
    <2>1. exited' = TRUE /\ UNCHANGED <<current, loads, frames, phase, visit>>
      BY <1>3 DEF LoadWindow
    <2>2. LoopTypes' /\ Stack'
      BY <2>1, SameStack DEF WinInv, LoopTypes
    <2> QED
      BY <1>1, <2>2 DEF WinInv
  <1> QED
    BY <1>2, <1>3

LEMMA CodeWin ==
  ASSUME WinInv, OnLoad \/ Callback
  PROVE  WinInv'
  <1>1. CASE OpeningOnLoad
    <2>1. /\ frames # <<>> /\ ~Top.leaving /\ Top.win = WINID_OPENING
          /\ loads + 1 \in 1..MaxLoads
          /\ LoadWindow(WINID_MENU, LeavesAfterLoad(frames))
      BY <1>1, WindowsAssumption
         DEF OpeningOnLoad, InCode, Running, NextOfOpening, WinInv, LoopTypes
    <2> QED
      BY <2>1, LoadWindowWin
  <1>2. CASE MenuOnLoadStep
    <2>1. /\ frames # <<>> /\ ~Top.leaving /\ Top.at < Len(MenuOnLoad)
          /\ UNCHANGED <<current, loads, phase, visit, exited>>
          /\ frames' = [frames EXCEPT ![Len(frames)].at = @ + 1]
      BY <1>2 DEF MenuOnLoadStep, InCode, Running
    <2>2. Top.at + 1 \in DOMAIN MenuOnLoad
      <3>1. Top \in Frame
        BY <2>1 DEF Top, WinInv, Stack
      <3> QED
        BY <2>1, <3>1, WindowsAssumption DEF Frame
    <2>3. MenuOnLoad[Top.at + 1][1] \in Kinds
      BY <2>2, WindowsAssumption
    <2>4. Register(MenuOnLoad[Top.at + 1][1], MenuOnLoad[Top.at + 1][2])
      BY <1>2 DEF MenuOnLoadStep
    <2>5. Shaped' /\ OnlyCurrentWindow'
      BY <2>1, <2>3, <2>4, RegisterOwned
    <2>6. LoopTypes' /\ Stack'
      BY <2>1, AdvanceStack DEF WinInv, LoopTypes
    <2> QED
      BY <2>5, <2>6 DEF WinInv
  <1>3. CASE Return
    <2>1. LoopTypes' /\ Shaped' /\ OnlyCurrentWindow' /\ Stack'
      BY <1>3, PopStack, SameTables DEF Return, Running, WinInv, LoopTypes
    <2> QED
      BY <2>1 DEF WinInv
  <1>4. CASE CallbackRegisters
    <2>1. /\ frames # <<>> /\ ~Top.leaving
          /\ UNCHANGED <<current, loads, frames, phase, visit, exited>>
      BY <1>4 DEF CallbackRegisters, InCode, Running
    <2>2. PICK reg \in CallbackKeys : Register(reg[1], reg[2])
      BY <1>4 DEF CallbackRegisters
    <2>3. Shaped' /\ OnlyCurrentWindow'
      BY <2>1, <2>2, RegisterOwned, WindowsAssumption
    <2>4. LoopTypes' /\ Stack'
      BY <2>1, SameStack DEF WinInv, LoopTypes
    <2> QED
      BY <2>3, <2>4 DEF WinInv
  <1>5. CASE CallbackDeregisters
    <2>1. UNCHANGED <<current, loads, frames, phase, visit, exited>>
      BY <1>5 DEF CallbackDeregisters
    <2>2. PICK kind \in Kinds :
             \E s \in Slots(kind) : tables' = [tables EXCEPT ![kind][s] = Cleared]
      BY <1>5, WindowsAssumption DEF CallbackDeregisters
    <2>3. Shaped' /\ OnlyCurrentWindow'
      BY <2>1, <2>2, SetOwned DEF Owned, WinInv
    <2>4. LoopTypes' /\ Stack'
      BY <2>1, SameStack DEF WinInv, LoopTypes
    <2> QED
      BY <2>3, <2>4 DEF WinInv
  <1>6. CASE CallbackLoadsWindow
    <2>1. frames # <<>> /\ ~Top.leaving /\ Top.code # "OnLoad" /\ loads + 1 \in 1..MaxLoads
      BY <1>6, WindowsAssumption DEF CallbackLoadsWindow, InCode, Running, WinInv, LoopTypes
    <2> QED
      BY <1>6, <2>1, LoadWindowWin DEF CallbackLoadsWindow
  <1> QED
    BY <1>1, <1>2, <1>3, <1>4, <1>5, <1>6 DEF OnLoad, Callback

(* The loop calls what the tables hold, which is of the window shown.       *)
LEMMA CallCurrent ==
  ASSUME WinInv, NEW kind \in Kinds, NEW s \in Used(kind), Call(kind, s),
         UNCHANGED <<current, loads>>
  PROVE  /\ Stack'
         /\ Len(frames') = 1 /\ frames'[1].load = loads
  <1> DEFINE f == CallbackOf(tables[kind][s])
  <1>1. tables[kind][s].win = current /\ tables[kind][s].load = loads
    BY DEF WinInv, OnlyCurrentWindow
  <1>2. f \in Frame /\ f.win = current /\ f.load = loads
    <2>1. Len(MenuOnLoad) \in Nat
      BY WindowsAssumption
    <2> QED
      BY <1>1, <2>1 DEF WinInv, LoopTypes, CallbackOf, Frame
  <1>3. frames' = <<f>>
    BY DEF Call
  <1> HIDE DEF f
  <1> QED
    BY <1>2, <1>3, StartsStack

(* What a step of the loop may do to the stack: call one callback.          *)
Calls ==
  \/ UNCHANGED frames
  \/ \E kind \in Kinds : \E s \in Used(kind) : Call(kind, s)

LEMMA LoopWin ==
  ASSUME WinInv, Loop
  PROVE  WinInv' /\ Calls /\ UNCHANGED <<current, loads>>
  <1> UNCHANGED <<current, loads, exited>>
    BY DEF Loop, ProcessEvent, ProcessResponse, StartSweep, SweepSlot, EndSweep
  <1>1. Calls
    <2>1. CASE ProcessEvent \/ ProcessResponse
      BY <2>1 DEF ProcessEvent, ProcessResponse, Calls, Kinds
    <2>2. CASE SweepSlot
      BY <2>2 DEF SweepSlot, Calls, Kinds
    <2>3. CASE StartSweep \/ EndSweep
      BY <2>3 DEF StartSweep, EndSweep, Calls
    <2> QED
      BY <2>1, <2>2, <2>3 DEF Loop
  <1>2. Stack'
    BY <1>1, CallCurrent, SameStack DEF Calls, WinInv
  <1>3. Shaped' /\ OnlyCurrentWindow'
    <2>1. CASE UNCHANGED tables
      BY <2>1, SameTables DEF WinInv
    <2>2. CASE \E kind \in Kinds : \E s \in Slots(kind) :
                 tables' = [tables EXCEPT ![kind][s] = Cleared]
      BY <2>2, SetOwned DEF Owned, WinInv
    <2>3. CASE ProcessResponse
      BY <2>2, <2>3 DEF ProcessResponse, Used, Kinds
    <2>4. CASE SweepSlot
      BY <2>1, <2>2, <2>4 DEF SweepSlot, Used, Kinds
    <2> QED
      BY <2>1, <2>3, <2>4 DEF Loop, ProcessEvent, StartSweep, EndSweep
  <1>4. LoopTypes'
    BY DEF Loop, ProcessEvent, ProcessResponse, StartSweep, SweepSlot, EndSweep, WinInv,
       LoopTypes
  <1> QED
    BY <1>1, <1>2, <1>3, <1>4 DEF WinInv

LEMMA NextWin == WinInv /\ [Next]_vars => WinInv'
  <1> SUFFICES ASSUME WinInv, [Next]_vars PROVE WinInv'
    OBVIOUS
  <1>1. CASE OnLoad \/ Callback
    BY <1>1, CodeWin
  <1>2. CASE Loop
    BY <1>2, LoopWin
  <1>3. CASE UNCHANGED vars
    BY <1>3, SameTables, SameStack DEF vars, WinInv, LoopTypes
  <1> QED
    BY <1>1, <1>2, <1>3 DEF Next

LEMMA WinIsInv == Spec => []WinInv
  BY InitWin, NextWin, PTL DEF Spec

(* Types; in particular window code is never nested more than three deep: a *)
(* callback, the opening it loads, the menu that the opening loads.         *)
THEOREM WindowsTypeCorrect == Spec => []TypeOK
  <1>1. WinInv => TypeOK
    <2> SUFFICES ASSUME WinInv PROVE TypeOK
      OBVIOUS
    <2>1. \A k \in Kinds : \A s \in Slots(k) :
            /\ tables[k][s].win \in gWindowTbl \union {WINID_INVALID}
            /\ tables[k][s].load \in 0..MaxLoads
      <3> SUFFICES ASSUME NEW k \in Kinds, NEW s \in Slots(k)
                   PROVE  /\ tables[k][s].win \in gWindowTbl \union {WINID_INVALID}
                          /\ tables[k][s].load \in 0..MaxLoads
        OBVIOUS
      <3>1. Owned(tables[k][s])
        BY OwnedEntries DEF WinInv
      <3> QED
        BY <3>1, WindowsAssumption DEF Owned, Cleared, WinInv, LoopTypes
    <2>2. Len(frames) \in Nat /\ \A n \in DOMAIN frames : frames[n] \in Frame
      BY DEF WinInv, Stack
    <2>3. Len(frames) <= 3
      <3>1. ASSUME Len(frames) > 3 PROVE FALSE
        <4>1. 1 \in 1 .. Len(frames) - 1 /\ 2 \in 1 .. Len(frames) - 1 /\ 3 \in 1 .. Len(frames) - 1
          BY <2>2, <3>1
        <4>2. frames[1 + 1].code = "OnLoad" /\ frames[2 + 1].code = "OnLoad"
          BY <4>1 DEF WinInv, Stack, Below
        <4>3. frames[2 + 1].win = WINID_MENU /\ frames[3].win = WINID_OPENING
          BY <4>1, <4>2 DEF WinInv, Stack, Below
        <4> QED
          BY <4>3 DEF WINID_MENU, WINID_OPENING
      <3> QED
        BY <2>2, <3>1
    <2> QED
      BY <2>1, <2>2, <2>3 DEF WinInv, LoopTypes, TypeOK
  <1> QED
    BY <1>1, WinIsInv, PTL

(* The callbacks in the tables are those of the window that is shown, put   *)
(* there since it was loaded, whatever loads what from where.               *)
THEOREM TablesAreCurrent == Spec => []OnlyCurrentWindow
  <1>1. WinInv => OnlyCurrentWindow
    BY DEF WinInv
  <1> QED
    BY <1>1, WinIsInv, PTL

(* No callback of a window runs after another window has been loaded.       *)
THEOREM CallbacksAreCurrent == Spec => NoStaleCallback
  <1> DEFINE Fresh == (Len(frames') > Len(frames) /\ frames'[Len(frames')].code = "callback")
                        => frames'[Len(frames')].load = loads
  <1>1. WinInv /\ [Next]_vars => [Fresh]_vars
    <2> SUFFICES ASSUME WinInv, Next PROVE Fresh
      OBVIOUS
    <2>1. frames \in Seq(Frame) /\ Len(frames) \in Nat
      BY DEF WinInv, Stack
    <2>2. CASE UNCHANGED frames
      BY <2>1, <2>2
    <2>3. ASSUME NEW id, Running, LoadWindow(id, LeavesAfterLoad(frames)) PROVE Fresh
      <3>1. CASE UNCHANGED frames
        BY <2>2, <3>1
      <3>2. CASE frames' = Append(LeavesAfterLoad(frames), OnLoadOf(id, loads + 1))
        <4> DEFINE g == OnLoadOf(id, loads + 1)
                   stack == LeavesAfterLoad(frames)
        <4>1. g.code = "OnLoad" /\ frames' = Append(stack, g) /\ stack \in Seq(Frame)
          BY <2>3, <3>2, LeavingStack DEF OnLoadOf, Running, WinInv
        <4> HIDE DEF g, stack
        <4>2. frames'[Len(frames')] = g
          BY <4>1
        <4> QED
          BY <4>1, <4>2
      <3> QED
        BY <2>3, <3>1, <3>2 DEF LoadWindow
    <2>4. CASE MenuOnLoadStep
      BY <2>1, <2>4 DEF MenuOnLoadStep
    <2>5. CASE Return
      BY <2>1, <2>5 DEF Return, Running
    <2>6. CASE Loop
      <3>1. Calls /\ UNCHANGED <<current, loads>>
        BY <2>6, LoopWin
      <3>2. CASE \E kind \in Kinds : \E s \in Used(kind) : Call(kind, s)
        <4>1. Len(frames') = 1 /\ frames'[1].load = loads
          BY <3>1, <3>2, CallCurrent
        <4> QED
          BY <4>1
      <3> QED
        BY <2>2, <3>1, <3>2 DEF Calls
    <2> QED
      BY <2>2, <2>3, <2>4, <2>5, <2>6
         DEF Next, OnLoad, Callback, OpeningOnLoad, InCode, CallbackRegisters,
             CallbackDeregisters, CallbackLoadsWindow
  <1>2. NoStaleCallback <=> [][Fresh]_vars
    BY DEF NoStaleCallback
  <1> QED
    BY <1>1, <1>2, WinIsInv, PTL DEF Spec
-----------------------------------------------------------------------------
(* How many steps window code has before it at most: a routine on the stack *)
(* has its return, and the one at the top what it still registers or loads. *)
ToDo(f) ==
  IF f.leaving THEN 0
  ELSE IF f.code = "callback" THEN Len(MenuOnLoad) + 4
  ELSE IF f.win = WINID_OPENING THEN Len(MenuOnLoad) + 2
  ELSE IF f.win = WINID_MENU THEN Len(MenuOnLoad) - f.at
  ELSE 0

StepsLeft == IF frames = <<>> THEN 0 ELSE Len(frames) + ToDo(Top)

LEMMA ToDoIs ==
  /\ Len(MenuOnLoad) \in Nat
  /\ \A f \in Frame :
       /\ ToDo(f) \in Nat
       /\ f.leaving => ToDo(f) = 0
       /\ ~f.leaving /\ f.code = "callback" => ToDo(f) = Len(MenuOnLoad) + 4
       /\ ~f.leaving /\ f.code = "OnLoad" =>
            /\ f.win = WINID_OPENING => ToDo(f) = Len(MenuOnLoad) + 2
            /\ f.win = WINID_MENU => ToDo(f) = Len(MenuOnLoad) - f.at
            /\ ToDo(f) <= Len(MenuOnLoad) + 2
  <1>1. Len(MenuOnLoad) \in Nat
    BY WindowsAssumption
  <1> QED
    BY <1>1 DEF ToDo, Frame, WINID_OPENING, WINID_MENU

LEMMA StepsAreNat ==
  ASSUME Stack
  PROVE  /\ StepsLeft \in Nat
         /\ Len(frames) \in Nat
         /\ frames # <<>> => /\ Top \in Frame
                             /\ Len(frames) > 0
                             /\ StepsLeft = Len(frames) + ToDo(Top)
  <1>1. Len(frames) \in Nat /\ (frames # <<>> => Len(frames) > 0)
    BY DEF Stack
  <1>2. frames # <<>> => Top \in Frame
    BY DEF Stack, Top
  <1>3. frames # <<>> => ToDo(Top) \in Nat
    BY <1>2, ToDoIs
  <1> QED
    BY <1>1, <1>2, <1>3 DEF StepsLeft

LEMMA StepsAreNatNext ==
  ASSUME Stack'
  PROVE  /\ StepsLeft' \in Nat
         /\ frames' # <<>> => Top' \in Frame /\ StepsLeft' = Len(frames') + ToDo(Top')
  <1>1. Len(frames') \in Nat /\ (frames' # <<>> => Len(frames') > 0)
    BY DEF Stack
  <1>2. frames' # <<>> => Top' \in Frame
    BY DEF Stack, Top
  <1>3. frames' # <<>> => ToDo(Top') \in Nat
    BY <1>2, ToDoIs
  <1> QED
    BY <1>1, <1>2, <1>3 DEF StepsLeft

(* A window more on the stack is less to do, the menu after the opening and *)
(* any window after a callback.                                             *)
LEMMA PushShrinks ==
  ASSUME Stack, Stack', frames # <<>>, ~Top.leaving, NEW id \in gWindowTbl, NEW load \in 1..MaxLoads,
         frames' = Append(LeavesAfterLoad(frames), OnLoadOf(id, load)),
         Top.code = "OnLoad" => Top.win = WINID_OPENING /\ id = WINID_MENU
  PROVE  StepsLeft' < StepsLeft
  <1> DEFINE g == OnLoadOf(id, load)
             stack == LeavesAfterLoad(frames)
             L == Len(frames)
             M == Len(MenuOnLoad)
  <1>1. stack \in Seq(Frame) /\ Len(stack) = L
    BY LeavingStack
  <1>2. g \in Frame /\ g.code = "OnLoad" /\ g.win = id /\ g.at = 0 /\ ~g.leaving
    BY NewOnLoad DEF OnLoadOf
  <1>3. frames' = Append(stack, g)
    OBVIOUS
  <1> HIDE DEF g, stack
  <1>4. frames' # <<>> /\ Len(frames') = L + 1 /\ Top' = g
    BY <1>1, <1>2, <1>3 DEF Top
  <1>5. L \in Nat /\ StepsLeft = L + ToDo(Top) /\ Top \in Frame
    BY StepsAreNat
  <1>6. StepsLeft' = L + 1 + ToDo(g)
    BY <1>4 DEF StepsLeft
  <1>7. M \in Nat /\ ToDo(g) \in Nat /\ ToDo(g) <= M + 2 /\ (id = WINID_MENU => ToDo(g) = M - 0)
    BY <1>2, ToDoIs
  <1>8. CASE Top.code = "OnLoad"
    <2>1. ToDo(Top) = M + 2
      BY <1>5, <1>8, ToDoIs
    <2> HIDE DEF L, M
    <2> QED
      BY <1>5, <1>6, <1>7, <1>8, <2>1
  <1>9. CASE Top.code = "callback"
    <2>1. ToDo(Top) = M + 4
      BY <1>5, <1>9, ToDoIs
    <2> HIDE DEF L, M
    <2> QED
      BY <1>5, <1>6, <1>7, <2>1
  <1> QED
    BY <1>5, <1>8, <1>9 DEF Frame

LEMMA CodeShrinks ==
  ASSUME WinInv, WinInv', OnLoad \/ Callback
  PROVE  /\ OnLoad => StepsLeft' < StepsLeft
         /\ Callback => StepsLeft' <= StepsLeft
  <1>0. Stack /\ Stack' /\ StepsLeft \in Nat /\ StepsLeft' \in Nat
    <2>1. Stack /\ Stack'
      BY DEF WinInv
    <2> QED
      BY <2>1, StepsAreNat, StepsAreNatNext
  <1>1. CASE OpeningOnLoad
    <2>1. /\ frames # <<>> /\ ~Top.leaving /\ Top.win = WINID_OPENING
          /\ loads + 1 \in 1..MaxLoads /\ WINID_MENU \in gWindowTbl
          /\ frames' = Append(LeavesAfterLoad(frames), OnLoadOf(WINID_MENU, loads + 1))
      BY <1>1, WindowsAssumption
         DEF OpeningOnLoad, InCode, Running, NextOfOpening, LoadWindow, gWindowTbl, WinInv, LoopTypes
    <2>2. StepsLeft' < StepsLeft
      BY <1>0, <2>1, PushShrinks
    <2> QED
      BY <1>0, <2>2
  <1>2. CASE MenuOnLoadStep
    <2> DEFINE L == Len(frames)
    <2>1. /\ frames # <<>> /\ ~Top.leaving /\ Top.code = "OnLoad" /\ Top.win = WINID_MENU
          /\ frames' = [frames EXCEPT ![L].at = @ + 1]
      BY <1>2 DEF MenuOnLoadStep, InCode, Running
    <2>2. L \in Nat /\ L > 0 /\ Top \in Frame /\ StepsLeft = L + ToDo(Top)
      BY <1>0, <2>1, StepsAreNat
    <2>3. frames' # <<>> /\ Len(frames') = L /\ frames'[L] = [frames[L] EXCEPT !.at = @ + 1]
      <3>1. frames \in Seq(Frame) /\ L \in 1 .. Len(frames)
        BY <1>0, <2>2 DEF Stack
      <3> DEFINE g == [frames[L] EXCEPT !.at = @ + 1]
                 h == [n \in 1..L |-> IF n = L THEN g ELSE frames[n]]
      <3>2. frames' = h
        <4>1. frames = [n \in 1..L |-> frames[n]]
          BY <3>1
        <4> QED
          BY <2>1, <2>2, <4>1
      <3> HIDE DEF L, g
      <3>3. h # <<>> /\ Len(h) = L /\ h[L] = g
        BY <2>2
      <3> QED
        BY <3>2, <3>3 DEF g
    <2>4. /\ Top'.at = Top.at + 1 /\ Top'.win = Top.win /\ Top'.code = Top.code
          /\ Top'.leaving = Top.leaving
      <3>1. frames[L] \in Frame
        BY <2>2 DEF Top
      <3> HIDE DEF L
      <3>2. /\ frames'[L].at = frames[L].at + 1 /\ frames'[L].win = frames[L].win
            /\ frames'[L].code = frames[L].code /\ frames'[L].leaving = frames[L].leaving
        BY <2>3, <3>1 DEF Frame
      <3> QED
        BY <2>3, <3>2 DEF Top, L
    <2>5. Top' \in Frame /\ StepsLeft' = L + ToDo(Top')
      BY <1>0, <2>3, StepsAreNatNext
    <2>6. ToDo(Top') = Len(MenuOnLoad) - (Top.at + 1) /\ ToDo(Top) = Len(MenuOnLoad) - Top.at
      BY <2>1, <2>2, <2>4, <2>5, ToDoIs
    <2>7. Len(MenuOnLoad) \in Nat /\ Top.at \in Nat
      BY <2>2, ToDoIs DEF Frame
    <2> HIDE DEF L
    <2> QED
      BY <2>2, <2>5, <2>6, <2>7
  <1>3. CASE Return
    <2> DEFINE L == Len(frames)
    <2>1. frames # <<>> /\ frames' = SubSeq(frames, 1, L - 1)
      BY <1>3 DEF Return, Running
    <2>2. L \in Nat /\ L > 0 /\ Top \in Frame /\ StepsLeft = L + ToDo(Top) /\ ToDo(Top) \in Nat
      BY <1>0, <2>1, StepsAreNat, ToDoIs
    <2>3. CASE frames' = <<>>
      BY <2>2, <2>3 DEF StepsLeft
    <2>4. CASE frames' # <<>>
      <3>1. Len(frames') = L - 1 /\ L - 1 > 0 /\ frames'[L - 1] = frames[L - 1]
        <4>1. frames \in Seq(Frame)
          BY <1>0 DEF Stack
        <4> HIDE DEF L
        <4> QED
          BY <2>1, <2>2, <2>4, <4>1 DEF L
      <3>2. Top'.leaving
        <4>1. L - 1 \in 1 .. L - 1
          BY <2>2, <3>1
        <4>2. frames[L - 1].leaving
          BY <1>0, <4>1 DEF Stack, Below
        <4> QED
          BY <3>1, <4>2 DEF Top
      <3>3. Top' \in Frame /\ StepsLeft' = Len(frames') + ToDo(Top')
        BY <1>0, <2>4, StepsAreNatNext
      <3>4. ToDo(Top') = 0
        BY <3>2, <3>3, ToDoIs
      <3> QED
        BY <2>2, <3>1, <3>3, <3>4
    <2> QED
      BY <1>0, <2>3, <2>4
  <1>4. ASSUME Callback PROVE StepsLeft' <= StepsLeft
    <2>1. CASE UNCHANGED frames
      <3>1. StepsLeft' = StepsLeft
        BY <2>1, Zenon DEF StepsLeft, Top
      <3> QED
        BY <1>0, <3>1
    <2>2. CASE CallbackLoadsWindow /\ ~UNCHANGED frames
      <3>1. PICK id : LoadWindow(id, LeavesAfterLoad(frames))
        BY <2>2 DEF CallbackLoadsWindow
      <3>2. /\ frames # <<>> /\ ~Top.leaving /\ Top.code = "callback"
            /\ loads + 1 \in 1..MaxLoads
        BY <2>2, WindowsAssumption DEF CallbackLoadsWindow, InCode, Running, WinInv, LoopTypes
      <3>3. /\ id \in gWindowTbl
            /\ frames' = Append(LeavesAfterLoad(frames), OnLoadOf(id, loads + 1))
        BY <2>2, <3>1 DEF LoadWindow
      <3>4. StepsLeft' < StepsLeft
        BY <1>0, <3>2, <3>3, PushShrinks
      <3> QED
        BY <1>0, <3>4
    <2> QED
      BY <1>4, <2>1, <2>2 DEF Callback, CallbackRegisters, CallbackDeregisters
  <1> QED
    BY <1>1, <1>2, <1>3, <1>4 DEF OnLoad

(* Window code comes to its end: each step of it leaves less to do, and no  *)
(* other step leaves more while it is on the stack; with the fairness of    *)
(* OnLoad this is why LoadingEnds holds (main.c:64-95, opening.c:17-25,     *)
(* menu.c:150-174).                                                         *)
THEOREM WindowCodeIsFinite ==
  Spec => [][/\ StepsLeft \in Nat /\ StepsLeft' \in Nat
             /\ OnLoad => StepsLeft' < StepsLeft
             /\ frames # <<>> => StepsLeft' <= StepsLeft]_vars
  <1> DEFINE Shrinks == /\ StepsLeft \in Nat /\ StepsLeft' \in Nat
                        /\ OnLoad => StepsLeft' < StepsLeft
                        /\ frames # <<>> => StepsLeft' <= StepsLeft
  <1>1. WinInv /\ WinInv' /\ [Next]_vars => [Shrinks]_vars
    <2> SUFFICES ASSUME WinInv, WinInv', Next PROVE Shrinks
      OBVIOUS
    <2>1. StepsLeft \in Nat /\ StepsLeft' \in Nat
      BY StepsAreNat, StepsAreNatNext DEF WinInv
    <2>2. OnLoad => StepsLeft' < StepsLeft
      BY CodeShrinks
    <2>3. Callback => StepsLeft' <= StepsLeft
      BY CodeShrinks
    <2>4. Loop => frames = <<>>
      BY DEF Loop, ProcessEvent, ProcessResponse, StartSweep, SweepSlot, EndSweep, Idle
    <2> QED
      BY <2>1, <2>2, <2>3, <2>4 DEF Next
  <1> QED
    BY <1>1, WinIsInv, PTL DEF Spec
=============================================================================
