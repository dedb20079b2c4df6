------------------------------- MODULE MCDbgx -------------------------------
(***************************************************************************)
(* The instance of Dbgx that TLC checks: param[] has its smallest room, two *)
(* places, and a line holds up to three numbers.                            *)
(***************************************************************************)
EXTENDS Dbgx

TypedCommands == {Request, Kill}

\* a request of task 1 with a bit more than a USHORT has (as a size it is too
\* large), and a size that fits
TypedValues == {TASK1_REQUEST1 + 65536, 10}

\* an id and a size that were not typed
GarbageValues == {7}
=============================================================================
