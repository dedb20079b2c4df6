-------------------------------- MODULE Ipc --------------------------------
(***************************************************************************)
(* The message layer of src/lib/ipc: one POSIX message queue per task id,   *)
(* and System V shared memory segments that carry the data of messages too  *)
(* long for a queue.  Every process of the system works on the same queues  *)
(* and the same segments; this module holds that shared state and the       *)
(* operators the components use on it.                                      *)
(*                                                                         *)
(* A definition marked "mutant", here and in the other modules, is a faulty *)
(* variant of the one after it and no part of the specification: it serves  *)
(* to show that a property notices the fault.                               *)
(***************************************************************************)
EXTENDS Integers, Sequences, FiniteSets

CONSTANTS
  NUM_MAX_MESSAGES,  \* capacity of a queue (32 in ipc.h)
  SHMMNI,            \* the kernel's limit on shared memory segments
  MaxSeq,            \* bound of the model: highest sequence number given out
  SendMayFail        \* may calloc() or mq_send() fail?

ASSUME IpcAssumption ==
  /\ NUM_MAX_MESSAGES \in Nat \ {0}
  /\ SHMMNI \in Nat
  /\ MaxSeq \in Nat \ {0}
  /\ SendMayFail \in BOOLEAN

VARIABLES
  mq,   \* mq[t]: the queue of task t, oldest message first
  shm   \* shm[k]: the segment under key k, or NoSeg

ipcVars == <<mq, shm>>
-----------------------------------------------------------------------------
TSK_NUM == 11
TSKID_INVALID == 0
TSKID_MGR == 1
TSKID_TASK1 == 3
TSKID_TASK2 == 4
TaskIds == 1..TSK_NUM

MAX_MESSAGE_SIZE == 512
MSG_HDR_SIZE == 12

MSG_TYPE_SHORT_NOTIFY == 1
MSG_TYPE_SHORT_REQUEST == 3
MSG_TYPE_LONG_REQUEST == 4
MSG_TYPE_SHORT_RESPONSE == 5
MSG_TYPE_LONG_RESPONSE == 6
RequestTypes == {MSG_TYPE_SHORT_REQUEST, MSG_TYPE_LONG_REQUEST}
ResponseTypes == {MSG_TYPE_SHORT_RESPONSE, MSG_TYPE_LONG_RESPONSE}

\* A request id is a USHORT: the task in the high byte, a number in the low one.
RequestIds == 0..65535
DECLARE_REQ_ID(task, n) == task * 256 + n
TSKID_FROM_REQID(id) == id \div 256
INVALID_REQUESTID == 0
TASK1_REQUEST1 == DECLARE_REQ_ID(TSKID_TASK1, 1)
TASK2_REQUEST1 == DECLARE_REQ_ID(TSKID_TASK2, 1)
-----------------------------------------------------------------------------
(* Messages.  A response carries no request id, a notification no number.   *)
MessageTypes == 1..6
Numbers == 0..MaxSeq
Message == [Type : MessageTypes, SeqNum : Numbers, RequestID : RequestIds, Size : Nat]

NoMsg == [Type |-> 1, SeqNum |-> 0, RequestID |-> 0, Size |-> 0]

FitsQueue(size) == size + MSG_HDR_SIZE <= MAX_MESSAGE_SIZE

RequestMsg(seq, id, size) ==
  [Type |-> IF FitsQueue(size) THEN MSG_TYPE_SHORT_REQUEST ELSE MSG_TYPE_LONG_REQUEST,
   SeqNum |-> seq, RequestID |-> id, Size |-> size]

ResponseMsg(seq, size) ==
  [Type |-> IF FitsQueue(size) THEN MSG_TYPE_SHORT_RESPONSE ELSE MSG_TYPE_LONG_RESPONSE,
   SeqNum |-> seq, RequestID |-> 0, Size |-> size]

IsLong(m) == m.Type \in {MSG_TYPE_LONG_REQUEST, MSG_TYPE_LONG_RESPONSE}
-----------------------------------------------------------------------------
(* Queues.  SendIpcMessage refuses a task id that has no queue, and blocks  *)
(* while the queue is full; nothing else is ever tested before mq_send.     *)
ValidTask(t) == t \in TaskIds

\* mutant: the queue is opened one message short
CanSendOneLess(t) == Len(mq[t]) < NUM_MAX_MESSAGES - 1

CanSend(t) == Len(mq[t]) < NUM_MAX_MESSAGES

\* mutant: the queue takes any number of messages
EnqueueUnbounded(t, m) == mq' = [mq EXCEPT ![t] = Append(@, m)]

\* mutant: the table of queues is indexed by task_id, not task_id - 1
EnqueueNextQueue(t, m) ==
  /\ CanSend(t)
  /\ mq' = [mq EXCEPT ![t + 1] = Append(@, m)]

Enqueue(t, m) ==
  /\ CanSend(t)
  /\ mq' = [mq EXCEPT ![t] = Append(@, m)]

Dequeue(t) ==
  /\ mq[t] # <<>>
  /\ mq' = [mq EXCEPT ![t] = Tail(@)]

Queued(t) == {mq[t][n] : n \in DOMAIN mq[t]}

(* The debug console posts what the user types as a request to the manager, *)
(* with sequence number 0.                                                  *)
FakeMsg(id, size) ==
  [Type |-> MSG_TYPE_SHORT_REQUEST, SeqNum |-> 0, RequestID |-> id, Size |-> size]

FakeRequest(id, size) == FitsQueue(size) /\ Enqueue(TSKID_MGR, FakeMsg(id, size))
-----------------------------------------------------------------------------
(* Segments.  The key is the number of the request that the data belongs    *)
(* to; `data' says who wrote the segment last.                              *)
NoSeg == [size |-> 0, data |-> "none"]
Segment == [size : Nat, data : {"none", "req", "resp"}]
Segments == {k \in Numbers : shm[k] # NoSeg}

\* shmget(key, size, IPC_CREAT) succeeds
CanGet(k, size) ==
  IF shm[k] # NoSeg THEN size <= shm[k].size ELSE Cardinality(Segments) < SHMMNI

\* shmget, shmat, memcpy, shmdt: the segment keeps the size it was made with
Write(k, size, data) ==
  shm' = [shm EXCEPT ![k] =
            IF @ # NoSeg THEN [@ EXCEPT !.data = data] ELSE [size |-> size, data |-> data]]

Remove(k) == shm' = [shm EXCEPT ![k] = NoSeg]

IpcTypeOK ==
  /\ mq \in [TaskIds -> Seq(Message)]
  /\ \A t \in TaskIds : Len(mq[t]) <= NUM_MAX_MESSAGES
  /\ shm \in [Numbers -> Segment]

IpcInit ==
  /\ mq = [t \in TaskIds |-> <<>>]
  /\ shm = [k \in Numbers |-> NoSeg]
=============================================================================
