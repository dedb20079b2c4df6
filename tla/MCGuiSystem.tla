---------------------------- MODULE MCGuiSystem ----------------------------
(***************************************************************************)
(* The instances of GuiSystem that TLC checks.  The cfg files give ids and  *)
(* sizes as the numbers of the code: 769 is TASK1_REQUEST1, 1025 is         *)
(* TASK2_REQUEST1, 257 names the manager and 2 no task; 8 is the size       *)
(* MenuOnLf500Push() sends, 32 the one both tasks answer with, and 505 does *)
(* not fit a queue but fits the servers' buffers of 513 bytes.              *)
(***************************************************************************)
EXTENDS GuiSystem

ASSUME IdsOfTheInstances ==
  /\ TASK1_REQUEST1 = 769
  /\ TASK2_REQUEST1 = 1025
  /\ DECLARE_REQ_ID(TSKID_MGR, 1) = 257
  /\ ~ValidTask(TSKID_FROM_REQID(2))
  /\ FitsQueue(8) /\ FitsQueue(32) /\ ~FitsQueue(505)
=============================================================================
