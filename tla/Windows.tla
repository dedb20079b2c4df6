------------------------------ MODULE Windows ------------------------------
(***************************************************************************)
(* The windows of the manager and the callbacks they register (LoadWindow   *)
(* in main.c, notify.c, touch.c, win/*.c).  A window is the set of callbacks*)
(* its code has put into five tables; LoadWindow() empties them and runs the*)
(* new window's OnLoad, which may load yet another window, while the code   *)
(* that called it, of the old window, is still on the stack and returns     *)
(* later.  What keeps the windows apart is that such code only returns.     *)
(***************************************************************************)
EXTENDS Integers, Sequences, FiniteSets

CONSTANTS
  Capacity,      \* Capacity[kind]: slots of a table (16 each in gui.h)
  MenuOnLoad,    \* what the menu's OnLoad registers: a sequence of <<kind, key>>
  CallbackKeys,  \* <<kind, key>> that callbacks register and deregister
  MaxLoads       \* bound of the model: how often a window is loaded

GUI_MAX_WIDTH == 400
GUI_MAX_HEIGHT == 240
WINID_INVALID == 0
WINID_OPENING == 1
WINID_MENU == 2
WINID_ERROR == 3
gWindowTbl == {WINID_OPENING, WINID_MENU, WINID_ERROR}

Kinds == {"timers", "requests", "notifies", "touches", "keys"}

ASSUME WindowsAssumption ==
  /\ Capacity \in [Kinds -> Nat \ {0}]
  /\ MenuOnLoad \in Seq({MenuOnLoad[n] : n \in DOMAIN MenuOnLoad})
  /\ \A n \in DOMAIN MenuOnLoad : MenuOnLoad[n][1] \in Kinds
  /\ \A reg \in CallbackKeys : reg[1] \in Kinds
  /\ MaxLoads \in Nat \ {0}

VARIABLES
  tables,   \* the tables of gCtxt, with the load that each entry belongs to
  current,  \* gCtxt.current_win.win_id
  loads,    \* history: number of windows loaded so far
  frames,   \* the stack of window code: OnLoad routines and callbacks
  phase,    \* where the main loop is
  visit,    \* slots the sweep of timers or requests has yet to visit
  exited    \* has LoadWindow ended the process?

vars == <<tables, current, loads, frames, phase, visit, exited>>
-----------------------------------------------------------------------------
(* An entry's key is what names it: an id, an area, a key state.            *)
Slots(kind) == 0 .. Capacity[kind] - 1
Cleared == [key |-> <<>>, win |-> WINID_INVALID, load |-> 0]
Used(kind) == {s \in Slots(kind) : tables[kind][s] # Cleared}
Free(kind) == Slots(kind) \ Used(kind)
With(kind, key) == {s \in Slots(kind) : tables[kind][s].key = key}
First(s, S) == s \in S /\ \A r \in S : s <= r

Top == frames[Len(frames)]
Running == frames # <<>> /\ ~exited
InCode(what) == Running /\ Top.code = what /\ ~Top.leaving

ValidArea(a) ==
  /\ a # <<0, 0, 0, 0>>
  /\ a[1] <= GUI_MAX_WIDTH /\ a[2] <= GUI_MAX_HEIGHT
  /\ a[3] <= GUI_MAX_WIDTH /\ a[4] <= GUI_MAX_HEIGHT

(* Ids of timers and notifications are unique in their tables, areas are    *)
(* checked, key states and requests are taken as they are.                  *)
Accepts(kind, key) ==
  /\ kind \in {"timers", "notifies"} => With(kind, key) = {}
  /\ kind = "touches" => ValidArea(key)

(* Register...Callback(), Request(): the first free slot; if there is none, *)
(* or the key is not accepted, an error that GUICHECK only prints.          *)
Register(kind, key) ==
  IF Accepts(kind, key) /\ Free(kind) # {}
  THEN \E s \in Slots(kind) :
         /\ First(s, Free(kind))
         /\ tables' = [tables EXCEPT ![kind][s] =
                         [key |-> key, win |-> Top.win, load |-> loads]]
  ELSE UNCHANGED tables

EmptyTables == [k \in Kinds |-> [s \in Slots(k) |-> Cleared]]

\* mutant: the table of notifications is left as it is
ClearedButNotifies == [EmptyTables EXCEPT !["notifies"] = tables["notifies"]]

\* ClearTimers, ClearRequests, ClearNotifies, ClearTouchAreas, ClearKeyStates
ClearedTables == EmptyTables

OnLoadOf(id, load) == [win |-> id, load |-> load, code |-> "OnLoad", at |-> 0, leaving |-> FALSE]
CallbackOf(e) == [win |-> e.win, load |-> e.load, code |-> "callback", at |-> 0, leaving |-> FALSE]

\* mutant: a callback goes on after LoadWindow (GUI_ERR without its return)
StaysAfterLoad(stack) == [stack EXCEPT ![Len(stack)].leaving = (Top.code = "OnLoad")]

\* after LoadWindow() window code only returns
LeavesAfterLoad(stack) == [stack EXCEPT ![Len(stack)].leaving = TRUE]

LoadWindow(id, stack) ==
  /\ tables' = ClearedTables
  /\ IF id \in gWindowTbl
     THEN /\ current' = id
          /\ loads' = loads + 1
          /\ frames' = Append(stack, OnLoadOf(id, loads + 1))
          /\ UNCHANGED exited
     ELSE exited' = TRUE /\ UNCHANGED <<current, loads, frames>>
  /\ UNCHANGED <<phase, visit>>
-----------------------------------------------------------------------------
(* OnLoad routines.                                                         *)

\* mutant: the opening loads itself
NextOfOpeningIsOpening == WINID_OPENING

NextOfOpening == WINID_MENU

OpeningOnLoad ==
  /\ InCode("OnLoad")
  /\ Top.win = WINID_OPENING
  /\ loads < MaxLoads
  /\ LoadWindow(NextOfOpening, LeavesAfterLoad(frames))

MenuOnLoadStep ==
  /\ InCode("OnLoad")
  /\ Top.win = WINID_MENU
  /\ Top.at < Len(MenuOnLoad)
  /\ LET reg == MenuOnLoad[Top.at + 1] IN Register(reg[1], reg[2])
  /\ frames' = [frames EXCEPT ![Len(frames)].at = @ + 1]
  /\ UNCHANGED <<current, loads, phase, visit, exited>>

OnLoadEnds ==
  \/ Top.leaving
  \/ Top.code = "callback"
  \/ Top.win = WINID_MENU /\ Top.at = Len(MenuOnLoad)
  \/ Top.win = WINID_ERROR

Return ==
  /\ Running
  /\ OnLoadEnds
  /\ frames' = SubSeq(frames, 1, Len(frames) - 1)
  /\ UNCHANGED <<tables, current, loads, phase, visit, exited>>
-----------------------------------------------------------------------------
(* Callbacks of the windows.                                                *)
CallbackRegisters ==
  /\ InCode("callback")
  /\ \E reg \in CallbackKeys : Register(reg[1], reg[2])
  /\ UNCHANGED <<current, loads, frames, phase, visit, exited>>

(* Timers, touch areas and keys can be taken back, notifications cannot.    *)
CallbackDeregisters ==
  /\ InCode("callback")
  /\ \E reg \in CallbackKeys :
       /\ reg[1] \in {"timers", "touches", "keys"}
       /\ \E s \in Slots(reg[1]) :
            /\ First(s, With(reg[1], reg[2]))
            /\ tables' = [tables EXCEPT ![reg[1]][s] = Cleared]
  /\ UNCHANGED <<current, loads, frames, phase, visit, exited>>

(* With WINID_INVALID, LoadWindow does nothing.                             *)
CallbackLoadsWindow ==
  /\ InCode("callback")
  /\ loads < MaxLoads - 1
  /\ \E id \in gWindowTbl \union {4} : LoadWindow(id, LeavesAfterLoad(frames))
-----------------------------------------------------------------------------
(* The main loop.  An event runs the first callback registered for it.      *)
Idle == frames = <<>> /\ ~exited

Call(kind, s) == frames' = <<CallbackOf(tables[kind][s])>>

ProcessEvent ==
  /\ Idle
  /\ phase = "events"
  /\ phase' \in {"events", "timers"}       \* a key event may be followed by a message
  /\ \E kind \in {"keys", "notifies"} : \E s \in Used(kind) :
       First(s, With(kind, tables[kind][s].key)) /\ Call(kind, s)
  /\ visit' = Slots("timers")
  /\ UNCHANGED <<tables, current, loads, exited>>

(* The slot of an answered request is cleared before its callback runs.     *)
ProcessResponse ==
  /\ Idle
  /\ phase = "events"
  /\ phase' = "timers"
  /\ \E s \in Used("requests") :
       /\ Call("requests", s)
       /\ tables' = [tables EXCEPT !["requests"][s] = Cleared]
  /\ visit' = Slots("timers")
  /\ UNCHANGED <<current, loads, exited>>

StartSweep ==
  /\ Idle
  /\ phase = "events"
  /\ phase' = "timers"
  /\ visit' = Slots("timers")
  /\ UNCHANGED <<tables, current, loads, frames, exited>>

(* ProcessTimers, ProcessResponseTimeouts: the slots in order, each seen as *)
(* the callbacks before it have left it; those that are due fire.           *)
SweepSlot ==
  /\ Idle
  /\ phase \in {"timers", "requests"}
  /\ \E s \in visit :
       /\ First(s, visit)
       /\ visit' = visit \ {s}
       /\ \/ /\ s \in Used(phase)
             /\ Call(phase, s)
             /\ tables' = [tables EXCEPT ![phase][s] = Cleared]
          \/ UNCHANGED <<tables, frames>>
  /\ UNCHANGED <<current, loads, phase, exited>>

EndSweep ==
  /\ Idle
  /\ phase \in {"timers", "requests"}
  /\ visit = {}
  /\ IF phase = "timers"
     THEN phase' = "requests" /\ visit' = Slots("requests")
     ELSE phase' = "events" /\ UNCHANGED visit
  /\ UNCHANGED <<tables, current, loads, frames, exited>>

\* main() loads the first window before its loop
Init ==
  /\ tables = EmptyTables
  /\ current = WINID_OPENING
  /\ loads = 1
  /\ frames = <<OnLoadOf(WINID_OPENING, 1)>>
  /\ phase = "events"
  /\ visit = {}
  /\ exited = FALSE

OnLoad == OpeningOnLoad \/ MenuOnLoadStep \/ Return
Callback == CallbackRegisters \/ CallbackDeregisters \/ CallbackLoadsWindow
Loop == ProcessEvent \/ ProcessResponse \/ StartSweep \/ SweepSlot \/ EndSweep

Next == OnLoad \/ Callback \/ Loop

Spec == Init /\ [][Next]_vars

(* Routines come to their end.                                              *)
FairSpec == Spec /\ WF_vars(OnLoad)
-----------------------------------------------------------------------------
Frame == [win : gWindowTbl, load : 1..MaxLoads, code : {"OnLoad", "callback"},
          at : 0..Len(MenuOnLoad), leaving : BOOLEAN]

(* Types.  Opening loads the menu and that is the longest chain: the stack  *)
(* never holds more than three routines.                                    *)
TypeOK ==
  /\ \A k \in Kinds : \A s \in Slots(k) :
       tables[k][s].win \in gWindowTbl \union {WINID_INVALID} /\ tables[k][s].load \in 0..MaxLoads
  /\ current \in gWindowTbl
  /\ loads \in 1..MaxLoads
  /\ Len(frames) <= 3
  /\ \A n \in DOMAIN frames : frames[n] \in Frame
  /\ phase \in {"events", "timers", "requests"}
  /\ visit \subseteq Slots("timers") \union Slots("requests")
  /\ exited \in BOOLEAN

(* Every callback in the tables was put there by code of the window that is *)
(* shown, since it was loaded, however windows replace each other while     *)
(* older code is on the stack (main.c:64-95, gui_err.h:25-35).              *)
OnlyCurrentWindow ==
  \A k \in Kinds : \A s \in Used(k) :
    tables[k][s].win = current /\ tables[k][s].load = loads

(* A callback of a window that has been replaced never runs, not even from  *)
(* a sweep that began while it was shown.                                   *)
NoStaleCallback ==
  [][(Len(frames') > Len(frames) /\ frames'[Len(frames')].code = "callback")
       => frames'[Len(frames')].load = loads]_vars

(* Loading a window ends: the manager is never caught in windows that load  *)
(* each other.                                                              *)
LoadingEnds == frames # <<>> ~> (frames = <<>> \/ exited)
=============================================================================
