------------------------------- MODULE MCKeys -------------------------------
(***************************************************************************)
(* The instances of Keys that TLC checks.                                   *)
(***************************************************************************)
EXTENDS Keys

LF == 1
UP == 14

KeyState(type, time) == [type |-> type, time |-> time]

\* the states of menu.c for the keys LF and UP
MenuStates ==
  <<KeyState(LF, 1), KeyState(UP, 1), KeyState(LF, 500), KeyState(LF, 0)>>

\* callbacks register states twice, and deregister the state {0, 0} too
ChangedStates == {KeyState(LF, 1), KeyState(LF, 500), NoState}
=============================================================================
