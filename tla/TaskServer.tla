----------------------------- MODULE TaskServer -----------------------------
(***************************************************************************)
(* The request servers (src/tsk/task1, src/tsk/task2): a loop around        *)
(* WaitForRequest() and ProcessRequest(), which answers with Response().    *)
(* The watch process starts a server once and never again, so a server that *)
(* exits is dead for good while its queue lives on.                         *)
(***************************************************************************)
EXTENDS Ipc

CONSTANTS
  Servers,       \* ids of the tasks that run
  RespSizes,     \* sizes of the data they answer with (32 in both)
  InitReqSizes,  \* what the uninitialised ReqSize of main() may hold
  CanKill        \* may a server be killed?

ASSUME TaskAssumption ==
  /\ Servers \subseteq TaskIds \ {TSKID_MGR}
  /\ RespSizes \subseteq Nat
  /\ InitReqSizes \subseteq Nat
  /\ CanKill \in BOOLEAN

VARIABLES
  tpc,      \* where the server is
  hold,     \* the request it works on, then the response it is sending
  ReqSize   \* main()'s variable: in, room for the data; out, size of the data

taskVars == <<tpc, hold, ReqSize>>
-----------------------------------------------------------------------------
Die(t) == tpc' = [tpc EXCEPT ![t] = "dead"]

\* mutant: >= for >
TooLargeOrEqual(t, m) == m.Size >= ReqSize[t]

(* WaitForRequest(): ReqSize bounds the request that is accepted and is     *)
(* then overwritten with its size.                                          *)
TooLarge(t, m) == m.Size > ReqSize[t]

Take(t) ==
  /\ tpc[t] = "wait"
  /\ Dequeue(t)
  /\ hold' = [hold EXCEPT ![t] = Head(mq[t])]

AcceptSize(t, m) ==
  /\ ReqSize' = [ReqSize EXCEPT ![t] = m.Size]
  /\ tpc' = [tpc EXCEPT ![t] = "process"]

\* mutant: a server takes a request only when it could answer at once
ReceiveWaitsForRoom(t) ==
  /\ Take(t)
  /\ CanSend(TSKID_MGR)
  /\ LET m == Head(mq[t]) IN
     /\ m.Type = MSG_TYPE_SHORT_REQUEST
     /\ ~TooLarge(t, m)
     /\ AcceptSize(t, m)
  /\ UNCHANGED shm

ReceiveShortRequest(t) ==
  /\ Take(t)
  /\ LET m == Head(mq[t]) IN
     /\ m.Type = MSG_TYPE_SHORT_REQUEST
     /\ ~TooLarge(t, m)
     /\ AcceptSize(t, m)
  /\ UNCHANGED shm

\* mutant: IPC_RMID is missing
ReceiveLongWithoutRemove(t) ==
  /\ Take(t)
  /\ LET m == Head(mq[t]) IN
     /\ m.Type = MSG_TYPE_LONG_REQUEST
     /\ ~TooLarge(t, m)
     /\ CanGet(m.SeqNum, m.Size)
     /\ AcceptSize(t, m)
  /\ UNCHANGED shm

(* The segment is made if it is missing, read and removed.                  *)
ReceiveLongRequest(t) ==
  /\ Take(t)
  /\ LET m == Head(mq[t]) IN
     /\ m.Type = MSG_TYPE_LONG_REQUEST
     /\ ~TooLarge(t, m)
     /\ CanGet(m.SeqNum, m.Size)
     /\ AcceptSize(t, m)
     /\ Remove(m.SeqNum)

(* Every other outcome but the timeout of an empty queue ends the process.  *)
RejectMessage(t) ==
  /\ Take(t)
  /\ LET m == Head(mq[t]) IN
     \/ TooLarge(t, m)
     \/ m.Type \notin RequestTypes
     \/ (m.Type = MSG_TYPE_LONG_REQUEST /\ ~CanGet(m.SeqNum, m.Size))
  /\ Die(t)
  /\ UNCHANGED <<ReqSize, shm>>
-----------------------------------------------------------------------------
(* ProcessRequest(): the one id that the switch of both tasks knows.        *)
KnownRequests == {TASK1_REQUEST1}

SendShortResponse(t, size) ==
  /\ FitsQueue(size)
  /\ UNCHANGED shm

\* mutant: a failing shmget is ignored
SendLongUnchecked(t, size) ==
  /\ ~FitsQueue(size)
  /\ IF CanGet(hold[t].SeqNum, size) THEN Write(hold[t].SeqNum, size, "resp") ELSE UNCHANGED shm

SendLongResponse(t, size) ==
  /\ ~FitsQueue(size)
  /\ CanGet(hold[t].SeqNum, size)
  /\ Write(hold[t].SeqNum, size, "resp")

Response(t, size) ==
  /\ size # 0
  /\ SendShortResponse(t, size) \/ SendLongResponse(t, size)
  /\ hold' = [hold EXCEPT ![t] = ResponseMsg(@.SeqNum, size)]
  /\ tpc' = [tpc EXCEPT ![t] = "send"]

ResponseFails(t, size) ==
  size = 0 \/ (~FitsQueue(size) /\ ~CanGet(hold[t].SeqNum, size))

ProcessRequest(t) ==
  /\ tpc[t] = "process"
  /\ \/ /\ hold[t].RequestID \in KnownRequests
        /\ \E size \in RespSizes :
             \/ Response(t, size)
             \/ ResponseFails(t, size) /\ Die(t) /\ UNCHANGED <<hold, shm>>
     \/ /\ hold[t].RequestID \notin KnownRequests
        /\ Die(t)
        /\ UNCHANGED <<hold, shm>>
  /\ UNCHANGED <<ReqSize, mq>>

\* mutant: the answer is sent again
TaskSendsTwice(t) ==
  /\ tpc[t] = "send"
  /\ Enqueue(TSKID_MGR, hold[t])
  /\ UNCHANGED <<tpc, hold, ReqSize, shm>>

TaskMqSend(t) ==
  /\ tpc[t] = "send"
  /\ Enqueue(TSKID_MGR, hold[t])
  /\ hold' = [hold EXCEPT ![t] = NoMsg]
  /\ tpc' = [tpc EXCEPT ![t] = "wait"]
  /\ UNCHANGED <<ReqSize, shm>>

(* Response() returns an error: main() exits; a segment written stays.      *)
TaskSendFails(t) ==
  /\ tpc[t] = "send"
  /\ SendMayFail
  /\ Die(t)
  /\ UNCHANGED <<hold, ReqSize, ipcVars>>

(* A signal ends the process wherever it is.                                *)
TaskKilled(t) ==
  /\ CanKill
  /\ tpc[t] # "dead"
  /\ Die(t)
  /\ UNCHANGED <<hold, ReqSize, ipcVars>>
-----------------------------------------------------------------------------
TaskInit ==
  /\ tpc = [t \in Servers |-> "wait"]
  /\ hold = [t \in Servers |-> NoMsg]
  /\ ReqSize \in [Servers -> InitReqSizes]

TaskStep(t) ==
  \/ ReceiveShortRequest(t) \/ ReceiveLongRequest(t) \/ RejectMessage(t)
  \/ ProcessRequest(t) \/ TaskMqSend(t)

TaskNext ==
  \E t \in Servers : TaskStep(t) \/ TaskSendFails(t) \/ TaskKilled(t)

TaskTypeOK ==
  /\ tpc \in [Servers -> {"wait", "process", "send", "dead"}]
  /\ hold \in [Servers -> Message]
  /\ ReqSize \in [Servers -> Nat]
=============================================================================
