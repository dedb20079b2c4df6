-------------------------- MODULE GuiSystemProofs --------------------------
(***************************************************************************)
(* Proofs about GuiSystem, for every value of its constants.                *)
(***************************************************************************)
EXTENDS GuiSystem, TLAPS, FiniteSetTheorems

(* The high byte of an id names one task of 0..255, and declaring an id for *)
(* a task and a number of one byte gives an id that leads back to the task. *)
LEMMA RequestIdNamesTask ==
  ASSUME NEW t \in 0..255, NEW n \in 0..255
  PROVE  TSKID_FROM_REQID(DECLARE_REQ_ID(t, n)) = t
  BY SMT DEF TSKID_FROM_REQID, DECLARE_REQ_ID

LEMMA Zeros == 0 \in Numbers /\ 0 \in RequestIds
  BY IpcAssumption DEF Numbers, RequestIds

LEMMA NoMsgType == NoMsg \in Message
  BY Zeros DEF NoMsg, Message, MessageTypes

LEMMA RequestMsgType ==
  ASSUME NEW seq \in Numbers, NEW id \in RequestIds, NEW size \in Nat
  PROVE  RequestMsg(seq, id, size) \in Message
  <1> DEFINE type == IF FitsQueue(size) THEN 3 ELSE 4
  <1>1. type \in MessageTypes
    BY DEF MessageTypes
  <1> HIDE DEF type
  <1>2. [Type |-> type, SeqNum |-> seq, RequestID |-> id, Size |-> size] \in Message
    BY <1>1 DEF Message
  <1> QED
    BY <1>2 DEF RequestMsg, type, MSG_TYPE_SHORT_REQUEST, MSG_TYPE_LONG_REQUEST

LEMMA ResponseMsgType ==
  ASSUME NEW seq \in Numbers, NEW size \in Nat
  PROVE  ResponseMsg(seq, size) \in Message
  <1> DEFINE type == IF FitsQueue(size) THEN 5 ELSE 6
  <1>1. type \in MessageTypes
    BY DEF MessageTypes
  <1> HIDE DEF type
  <1>2. [Type |-> type, SeqNum |-> seq, RequestID |-> 0, Size |-> size] \in Message
    BY <1>1, Zeros DEF Message
  <1> QED
    BY <1>2 DEF ResponseMsg, type, MSG_TYPE_SHORT_RESPONSE, MSG_TYPE_LONG_RESPONSE

(* What the queue operators do to the type of the queues.                   *)
LEMMA EnqueueType ==
  ASSUME IpcTypeOK, NEW t \in TaskIds, NEW m \in Message, Enqueue(t, m)
  PROVE  /\ mq' \in [TaskIds -> Seq(Message)]
         /\ \A u \in TaskIds : Len(mq'[u]) <= NUM_MAX_MESSAGES
  <1>1. mq' = [mq EXCEPT ![t] = Append(mq[t], m)] /\ Len(mq[t]) < NUM_MAX_MESSAGES
    BY DEF Enqueue, CanSend
  <1>2. mq \in [TaskIds -> Seq(Message)] /\ \A u \in TaskIds : Len(mq[u]) <= NUM_MAX_MESSAGES
    BY DEF IpcTypeOK
  <1>3. Append(mq[t], m) \in Seq(Message) /\ Len(Append(mq[t], m)) = Len(mq[t]) + 1
    BY <1>2
  <1> QED
    BY <1>1, <1>2, <1>3, IpcAssumption

LEMMA DequeueType ==
  ASSUME IpcTypeOK, NEW t \in TaskIds, Dequeue(t)
  PROVE  /\ mq' \in [TaskIds -> Seq(Message)]
         /\ \A u \in TaskIds : Len(mq'[u]) <= NUM_MAX_MESSAGES
         /\ Head(mq[t]) \in Message
  <1>1. mq' = [mq EXCEPT ![t] = Tail(mq[t])] /\ mq[t] # <<>>
    BY DEF Dequeue
  <1>2. mq \in [TaskIds -> Seq(Message)] /\ \A u \in TaskIds : Len(mq[u]) <= NUM_MAX_MESSAGES
    BY DEF IpcTypeOK
  <1>3. /\ Tail(mq[t]) \in Seq(Message) /\ Len(Tail(mq[t])) = Len(mq[t]) - 1
        /\ Head(mq[t]) \in Message
    BY <1>1, <1>2
  <1> QED
    BY <1>1, <1>2, <1>3, IpcAssumption

(* What the segment operators do to the type of the segments.               *)
LEMMA NoSegType == NoSeg \in Segment
  BY DEF NoSeg, Segment

LEMMA WriteType ==
  ASSUME IpcTypeOK, NEW k \in Numbers, NEW size \in Nat, NEW data \in {"req", "resp"},
         Write(k, size, data)
  PROVE  shm' \in [Numbers -> Segment]
  <1> DEFINE new == IF shm[k] # NoSeg THEN [shm[k] EXCEPT !.data = data]
                                      ELSE [size |-> size, data |-> data]
  <1>1. shm \in [Numbers -> Segment] /\ shm[k] \in Segment
    BY DEF IpcTypeOK
  <1>2. new \in Segment
    BY <1>1 DEF Segment
  <1>3. shm' = [shm EXCEPT ![k] = new]
    BY DEF Write
  <1> HIDE DEF new
  <1> QED
    BY <1>1, <1>2, <1>3

LEMMA RemoveType ==
  ASSUME IpcTypeOK, NEW k \in Numbers, Remove(k)
  PROVE  shm' \in [Numbers -> Segment]
  BY NoSegType DEF IpcTypeOK, Remove

(* What the operators of the request table do to its type.                  *)
LEMMA ClearedType == Cleared \in Slot
  BY Zeros DEF Cleared, Slot, Callbacks, INVALID_REQUESTID

LEMMA RetireType ==
  ASSUME MgrTypeOK, NEW S \in SUBSET Slots, NEW why \in Outcomes, Retire(S, why)
  PROVE  requests' \in [Slots -> Slot] /\ fate' \in [SeqNums -> Fates]
  BY ClearedType DEF MgrTypeOK, Retire, Fates

LEMMA TaskOfRequest ==
  ASSUME NEW id \in RequestIds, ValidTask(TSKID_FROM_REQID(id))
  PROVE  TSKID_FROM_REQID(id) \in TaskIds
  BY DEF ValidTask

LEMMA NumberType ==
  ASSUME MgrTypeOK, gSeqNum <= MaxSeq
  PROVE  gSeqNum \in SeqNums /\ gSeqNum \in Numbers /\ gSeqNum + 1 \in 1 .. MaxSeq + 1
  BY IpcAssumption DEF MgrTypeOK, SeqNums, Numbers

LEMMA PostRequestType ==
  ASSUME MgrTypeOK, gSeqNum <= MaxSeq, NEW id \in RequestIds, NEW size \in Nat,
         NEW cb \in Callbacks, NEW ret \in Places \ {"send"}, PostRequest(id, size, cb, ret)
  PROVE  /\ requests' \in [Slots -> Slot]
         /\ fate' \in [SeqNums -> Fates]
         /\ mpc' \in Places
         /\ out' \in Sending
  <1>1. gSeqNum \in SeqNums /\ gSeqNum \in Numbers
    BY NumberType
  <1>2. requests' \in [Slots -> Slot]
    <2>1. PICK slot \in Slots :
             requests' = [requests EXCEPT ![slot] =
                           [SeqNum |-> gSeqNum, RequestID |-> id, pRespCb |-> cb]]
      BY DEF PostRequest
    <2>2. [SeqNum |-> gSeqNum, RequestID |-> id, pRespCb |-> cb] \in Slot
      BY <1>1 DEF Slot
    <2> QED
      BY <2>1, <2>2 DEF MgrTypeOK
  <1>3. fate' \in [SeqNums -> Fates]
    BY <1>1 DEF PostRequest, MgrTypeOK, Fates
  <1>4. out' \in Sending
    <2>1. RequestMsg(gSeqNum, id, size) \in Message
      BY <1>1, RequestMsgType
    <2>2. TSKID_FROM_REQID(id) \in TaskIds
      BY TaskOfRequest DEF PostRequest
    <2> QED
      BY <2>1, <2>2 DEF PostRequest, Sending
  <1> QED
    BY <1>2, <1>3, <1>4 DEF PostRequest, Places

LEMMA DropRequestType ==
  ASSUME MgrTypeOK, gSeqNum <= MaxSeq, NEW ret \in Places \ {"send"}, DropRequest(ret)
  PROVE  /\ requests' \in [Slots -> Slot]
         /\ fate' \in [SeqNums -> Fates]
         /\ mpc' \in Places
         /\ out' \in Sending
  BY NumberType DEF DropRequest, MgrTypeOK, Fates, Outcomes

LEMMA RequestType ==
  ASSUME IpcTypeOK, MgrTypeOK, gSeqNum <= MaxSeq, NEW id \in RequestIds, NEW size \in Nat,
         NEW cb \in Callbacks, NEW ret \in Places \ {"send"}, Request(id, size, cb, ret)
  PROVE  /\ requests' \in [Slots -> Slot]
         /\ fate' \in [SeqNums -> Fates]
         /\ mpc' \in Places
         /\ out' \in Sending
         /\ gSeqNum' \in 1 .. MaxSeq + 1
         /\ shm' \in [Numbers -> Segment]
  <1>1. gSeqNum' \in 1 .. MaxSeq + 1 /\ gSeqNum \in Numbers
    BY NumberType DEF Request
  <1>2. PostRequest(id, size, cb, ret) \/ DropRequest(ret)
    BY DEF Request, SendShortRequest, SendLongRequest
  <1>3. UNCHANGED shm \/ Write(gSeqNum, size, "req")
    BY DEF Request, SendShortRequest, SendLongRequest
  <1>4. shm' \in [Numbers -> Segment]
    BY <1>1, <1>3, WriteType DEF IpcTypeOK
  <1> QED
    BY <1>1, <1>2, <1>4, PostRequestType, DropRequestType

(* The guard of AppRequest and ConsoleRequest keeps the numbers in range.   *)
LEMMA NumbersLeftBound ==
  ASSUME IpcTypeOK, MgrTypeOK, NumbersLeft > 0
  PROVE  gSeqNum <= MaxSeq
  <1> DEFINE q == mq[TSKID_MGR]
             waiting == {n \in DOMAIN q : q[n].Type = MSG_TYPE_SHORT_REQUEST}
  <1>1. q \in Seq(Message)
    BY DEF IpcTypeOK, TaskIds, TSK_NUM, TSKID_MGR
  <1>2. IsFiniteSet(DOMAIN q)
    <2>1. Len(q) \in Nat /\ DOMAIN q = 1..Len(q)
      BY <1>1
    <2> QED
      BY <2>1, FS_Interval
  <1>3. Cardinality(waiting) \in Nat
    BY <1>2, FS_Subset, FS_CardinalityType
  <1>4. MaxSeq + 1 - gSeqNum - Cardinality(waiting) > 0
    BY DEF NumbersLeft
  <1> HIDE DEF q, waiting
  <1> QED
    BY <1>3, <1>4, IpcAssumption DEF MgrTypeOK

LEMMA TruncatedType ==
  ASSUME NEW s \in Numbers
  PROVE  Truncated(s) \in Numbers
  <1>1. s \in Nat /\ s <= MaxSeq /\ USHORT_SPAN \in Nat /\ USHORT_SPAN > 0
    BY IpcAssumption, MgrAssumption DEF Numbers
  <1>2. s % USHORT_SPAN \in 0 .. USHORT_SPAN - 1 /\ s % USHORT_SPAN <= s
    BY <1>1
  <1> QED
    BY <1>1, <1>2, IpcAssumption DEF Truncated, Numbers

LEMMA ProcessResponseType ==
  ASSUME MgrTypeOK, NEW k, ProcessResponse(k)
  PROVE  /\ requests' \in [Slots -> Slot]
         /\ fate' \in [SeqNums -> Fates]
         /\ mpc' \in Places
         /\ mret' \in Places \ {"cb", "send"}
  <1>1. Answered(k) \in SUBSET Slots
    BY DEF Answered, Matches
  <1>2. requests' \in [Slots -> Slot] /\ fate' \in [SeqNums -> Fates]
    BY <1>1, RetireType DEF ProcessResponse, Outcomes
  <1> QED
    BY <1>2 DEF ProcessResponse, MgrTypeOK, Places

(* What the manager finds at the head of its queue when it reads a message. *)
LEMMA MgrDequeueType ==
  ASSUME IpcTypeOK, Dequeue(TSKID_MGR)
  PROVE  /\ mq' \in [TaskIds -> Seq(Message)]
         /\ \A u \in TaskIds : Len(mq'[u]) <= NUM_MAX_MESSAGES
         /\ Head(mq[TSKID_MGR]).SeqNum \in Numbers
         /\ Head(mq[TSKID_MGR]).RequestID \in RequestIds
         /\ Head(mq[TSKID_MGR]).Size \in Nat
  <1>1. TSKID_MGR \in TaskIds
    BY DEF TSKID_MGR, TaskIds, TSK_NUM
  <1> QED
    BY <1>1, DequeueType DEF Message

(* A step of the manager keeps the types of what it works on.               *)
LEMMA MgrStepType ==
  ASSUME IpcTypeOK, MgrTypeOK, MgrNext
  PROVE  IpcTypeOK' /\ MgrTypeOK'
  <1>1. CASE Select \/ SelectKey \/ ProcessTimers \/ EndTimeouts \/ CbReturn
    BY <1>1 DEF Select, SelectKey, ProcessTimers, EndTimeouts, CbReturn, AfterKeys,
       IpcTypeOK, MgrTypeOK, Places, ipcVars
  <1>2. CASE RelayRequest
    <2> DEFINE m == Head(mq[TSKID_MGR])
    <2>1. m.RequestID \in RequestIds /\ m.Size \in Nat /\ Dequeue(TSKID_MGR)
      BY <1>2, MgrDequeueType DEF RelayRequest
    <2>2. CASE gSeqNum <= MaxSeq /\ Request(m.RequestID, m.Size, "console", "timers")
      <3>1. "console" \in Callbacks /\ "timers" \in Places \ {"send"}
        BY DEF Callbacks, Places
      <3> HIDE DEF m
      <3> QED
        BY <1>2, <2>1, <2>2, <3>1, MgrDequeueType, RequestType
           DEF RelayRequest, IpcTypeOK, MgrTypeOK
    <2>3. CASE UNCHANGED <<requests, gSeqNum, out, fate, shm>> /\ mpc' = "timers"
      BY <1>2, <2>1, <2>3, MgrDequeueType DEF RelayRequest, IpcTypeOK, MgrTypeOK, Places
    <2> QED
      BY <1>2, <2>2, <2>3 DEF RelayRequest
  <1>3. CASE ProcessShortResponses
    BY <1>3, MgrDequeueType, ProcessResponseType
       DEF ProcessShortResponses, IpcTypeOK, MgrTypeOK
  <1>4. CASE ProcessLongResponses
    <2> DEFINE k == Truncated(Head(mq[TSKID_MGR]).SeqNum)
    <2>1. k \in Numbers /\ Dequeue(TSKID_MGR)
      BY <1>4, MgrDequeueType, TruncatedType DEF ProcessLongResponses
    <2>2. CASE Remove(k) /\ ProcessResponse(k)
      BY <1>4, <2>1, <2>2, MgrDequeueType, ProcessResponseType, RemoveType
         DEF ProcessLongResponses, IpcTypeOK, MgrTypeOK
    <2>3. CASE mpc' = "timers" /\ UNCHANGED <<requests, fate, mret, shm>>
      BY <1>4, <2>1, <2>3, MgrDequeueType
         DEF ProcessLongResponses, IpcTypeOK, MgrTypeOK, Places
    <2> QED
      BY <1>4, <2>2, <2>3 DEF ProcessLongResponses
  <1>5. CASE ProcessOtherMessage
    BY <1>5, MgrDequeueType DEF ProcessOtherMessage, IpcTypeOK, MgrTypeOK, Places
  <1>6. CASE \E expired \in SUBSET Slots : ReadClock(expired)
    BY <1>6 DEF ReadClock, IpcTypeOK, MgrTypeOK, Places, ipcVars
  <1>7. CASE TimeOutRequest
    <2>1. PICK i \in due : /\ due' = due \ {i} /\ Retire({i}, "timedout")
                           /\ mpc' \in {"cb", "timeouts"}
                           /\ mret' \in {"timeouts", mret}
      BY <1>7 DEF TimeOutRequest
    <2>2. {i} \in SUBSET Slots /\ "timedout" \in Outcomes
      BY DEF MgrTypeOK, Outcomes
    <2> QED
      BY <1>7, <2>1, <2>2, RetireType DEF TimeOutRequest, IpcTypeOK, MgrTypeOK, Places, ipcVars
  <1>8. CASE AppRequest
    <2>1. PICK id \in AppRequestIds, size \in AppSizes, cb \in {"NULL", "app"} :
             Request(id, size, cb, "cb")
      BY <1>8 DEF AppRequest
    <2>2. gSeqNum <= MaxSeq
      BY <1>8, NumbersLeftBound DEF AppRequest
    <2>3. /\ id \in RequestIds /\ size \in Nat
          /\ cb \in Callbacks /\ "cb" \in Places \ {"send"}
      BY MgrAssumption DEF Callbacks, Places
    <2> QED
      BY <1>8, <2>1, <2>2, <2>3, RequestType DEF AppRequest, IpcTypeOK, MgrTypeOK
  <1>9. CASE LoadWindow
    BY <1>9, RetireType DEF LoadWindow, IpcTypeOK, MgrTypeOK, ipcVars, UsedSlots, Outcomes
  <1>10. CASE MqSend
    <2>1. NoOut \in Sending
      BY NoMsgType DEF NoOut, Sending, TSKID_MGR, TaskIds, TSK_NUM, Places
    <2>2. out.to \in TaskIds /\ out.msg \in Message /\ out.ret \in Places
      BY DEF MgrTypeOK, Sending
    <2> QED
      BY <1>10, <2>1, <2>2, EnqueueType DEF MqSend, IpcTypeOK, MgrTypeOK
  <1> QED
    BY <1>1, <1>2, <1>3, <1>4, <1>5, <1>6, <1>7, <1>8, <1>9, <1>10 DEF MgrNext

(* A step of a server keeps the types of what it works on.                  *)
LEMMA TakeType ==
  ASSUME IpcTypeOK, TaskTypeOK, NEW t \in Servers, Take(t)
  PROVE  /\ mq' \in [TaskIds -> Seq(Message)]
         /\ \A u \in TaskIds : Len(mq'[u]) <= NUM_MAX_MESSAGES
         /\ Head(mq[t]).SeqNum \in Numbers
         /\ Head(mq[t]).Size \in Nat
         /\ hold' \in [Servers -> Message]
  <1>1. t \in TaskIds /\ Dequeue(t)
    BY TaskAssumption DEF Take
  <1>2. Head(mq[t]) \in Message
    BY <1>1, DequeueType
  <1> QED
    BY <1>1, <1>2, DequeueType DEF Take, TaskTypeOK, Message

LEMMA ResponseType ==
  ASSUME IpcTypeOK, TaskTypeOK, NEW t \in Servers, NEW size \in RespSizes, Response(t, size)
  PROVE  /\ shm' \in [Numbers -> Segment]
         /\ hold' \in [Servers -> Message]
         /\ tpc' \in [Servers -> {"wait", "process", "send", "dead"}]
  <1>1. size \in Nat /\ hold[t].SeqNum \in Numbers
    BY TaskAssumption DEF TaskTypeOK, Message
  <1>2. ResponseMsg(hold[t].SeqNum, size) \in Message
    BY <1>1, ResponseMsgType
  <1>3. UNCHANGED shm \/ Write(hold[t].SeqNum, size, "resp")
    BY DEF Response, SendShortResponse, SendLongResponse
  <1>4. shm' \in [Numbers -> Segment]
    BY <1>1, <1>3, WriteType DEF IpcTypeOK
  <1> QED
    BY <1>2, <1>4 DEF Response, TaskTypeOK

LEMMA TaskStepType ==
  ASSUME IpcTypeOK, TaskTypeOK, TaskNext
  PROVE  IpcTypeOK' /\ TaskTypeOK'
  <1>1. PICK t \in Servers : TaskStep(t) \/ TaskSendFails(t) \/ TaskKilled(t)
    BY DEF TaskNext
  <1>2. CASE ReceiveShortRequest(t)
    BY <1>2, TakeType DEF ReceiveShortRequest, AcceptSize, IpcTypeOK, TaskTypeOK
  <1>3. CASE ReceiveLongRequest(t)
    BY <1>3, TakeType, RemoveType DEF ReceiveLongRequest, AcceptSize, IpcTypeOK, TaskTypeOK
  <1>4. CASE RejectMessage(t)
    BY <1>4, TakeType DEF RejectMessage, Die, IpcTypeOK, TaskTypeOK
  <1>5. CASE ProcessRequest(t)
    <2>1. CASE \E size \in RespSizes : Response(t, size)
      BY <1>5, <2>1, ResponseType DEF ProcessRequest, IpcTypeOK, TaskTypeOK
    <2>2. CASE Die(t) /\ UNCHANGED <<hold, shm>>
      BY <1>5, <2>2 DEF ProcessRequest, Die, IpcTypeOK, TaskTypeOK
    <2> QED
      BY <1>5, <2>1, <2>2 DEF ProcessRequest
  <1>6. CASE TaskMqSend(t)
    <2>1. TSKID_MGR \in TaskIds /\ hold[t] \in Message
      BY DEF TSKID_MGR, TaskIds, TSK_NUM, TaskTypeOK
    <2> QED
      BY <1>6, <2>1, EnqueueType, NoMsgType DEF TaskMqSend, IpcTypeOK, TaskTypeOK
  <1>7. CASE TaskSendFails(t) \/ TaskKilled(t)
    BY <1>7 DEF TaskSendFails, TaskKilled, Die, IpcTypeOK, TaskTypeOK, ipcVars
  <1> QED
    BY <1>1, <1>2, <1>3, <1>4, <1>5, <1>6, <1>7 DEF TaskStep

LEMMA ConsoleType ==
  ASSUME IpcTypeOK, NEW id \in RequestIds, NEW size \in Nat, FakeRequest(id, size),
         UNCHANGED shm
  PROVE  IpcTypeOK'
  <1>1. FakeMsg(id, size) \in Message
    BY Zeros DEF FakeMsg, Message, MessageTypes, MSG_TYPE_SHORT_REQUEST
  <1>2. TSKID_MGR \in TaskIds
    BY DEF TSKID_MGR, TaskIds, TSK_NUM
  <1> QED
    BY <1>1, <1>2, EnqueueType DEF FakeRequest, IpcTypeOK

LEMMA InitTypeOK == Init => TypeOK
  <1> SUFFICES ASSUME Init PROVE TypeOK
    OBVIOUS
  <1>1. IpcTypeOK
    BY NoSegType, IpcAssumption DEF Init, IpcInit, IpcTypeOK
  <1>2. NoOut \in Sending
    BY NoMsgType DEF NoOut, Sending, TSKID_MGR, TaskIds, TSK_NUM, Places
  <1>3. MgrTypeOK
    BY <1>2, ClearedType, IpcAssumption DEF Init, MgrInit, MgrTypeOK, Places, Fates
  <1>4. TaskTypeOK
    BY NoMsgType, TaskAssumption DEF Init, TaskInit, TaskTypeOK
  <1> QED
    BY <1>1, <1>3, <1>4 DEF TypeOK

LEMMA NextTypeOK == TypeOK /\ [Next]_vars => TypeOK'
  <1> SUFFICES ASSUME TypeOK, [Next]_vars PROVE TypeOK'
    OBVIOUS
  <1>1. CASE MgrStep
    BY <1>1, MgrStepType DEF MgrStep, TypeOK, TaskTypeOK, taskVars
  <1>2. CASE ServerStep
    BY <1>2, TaskStepType DEF ServerStep, TypeOK, MgrTypeOK, mgrVars
  <1>3. CASE ConsoleRequest
    <2>1. IpcTypeOK'
      BY <1>3, ConsoleType, ConsoleAssumption DEF ConsoleRequest, TypeOK
    <2> QED
      BY <1>3, <2>1 DEF ConsoleRequest, TypeOK, MgrTypeOK, TaskTypeOK, mgrVars, taskVars
  <1>4. CASE UNCHANGED vars
    BY <1>4 DEF vars, ipcVars, mgrVars, taskVars, TypeOK, IpcTypeOK, MgrTypeOK, TaskTypeOK
  <1> QED
    BY <1>1, <1>2, <1>3, <1>4 DEF Next

(* The variables keep their types; in particular no queue ever holds more   *)
(* than NUM_MAX_MESSAGES messages and no number outgrows the model's bound. *)
THEOREM TypeCorrect == Spec => []TypeOK
  BY InitTypeOK, NextTypeOK, PTL DEF Spec
-----------------------------------------------------------------------------
(* The table of requests.                                                   *)
FinalStep ==
  \A s \in SeqNums : fate[s] \notin {"none", "pending"} => fate'[s] = fate[s]

LEMMA SameTable ==
  ASSUME TableInv, UNCHANGED <<requests, gSeqNum, fate>>
  PROVE  TableInv' /\ FinalStep
  BY DEF TableInv, FinalStep, OneSlotPerRequest, FreeSlots, UsedSlots, Pending

LEMMA RetireTable ==
  ASSUME MgrTypeOK, TableInv, UNCHANGED gSeqNum,
         NEW S \in SUBSET Slots, NEW why \in Outcomes, Retire(S, why)
  PROVE  TableInv' /\ FinalStep
  <1>1. \A i \in Slots : requests'[i] = IF i \in S THEN Cleared ELSE requests[i]
    BY DEF Retire
  <1>2. \A s \in SeqNums :
          fate'[s] = IF \E i \in S : requests[i].SeqNum = s THEN why ELSE fate[s]
    BY DEF Retire
  <1>3. UsedSlots' = UsedSlots \ S
    BY <1>1 DEF UsedSlots, FreeSlots, Cleared
  <1>4. \A i \in FreeSlots' : requests'[i].SeqNum = 0
    BY <1>1 DEF TableInv, FreeSlots, Cleared
  <1>5. \A i \in Slots : requests[i].SeqNum \in SeqNums => i \in UsedSlots
    BY IpcAssumption DEF TableInv, UsedSlots, SeqNums
  <1>6. Pending' = {s \in Pending : ~ \E i \in S : requests[i].SeqNum = s}
    BY <1>2 DEF Pending, Outcomes
  <1>7. \A i \in UsedSlots' : requests'[i] = requests[i] /\ i \in UsedSlots \ S
    BY <1>1, <1>3 DEF UsedSlots
  <1>8. OneSlotPerRequest'
    <2>1. \A i \in UsedSlots' : requests'[i].SeqNum \in Pending'
      BY <1>6, <1>7 DEF TableInv, OneSlotPerRequest, UsedSlots, Pending, SeqNums
    <2>2. \A i, j \in UsedSlots' : requests'[i].SeqNum = requests'[j].SeqNum => i = j
      BY <1>7 DEF TableInv, OneSlotPerRequest
    <2>3. \A s \in Pending' : \E i \in UsedSlots' : requests'[i].SeqNum = s
      BY <1>3, <1>6, <1>7 DEF TableInv, OneSlotPerRequest
    <2> QED
      BY <2>1, <2>2, <2>3 DEF OneSlotPerRequest
  <1>9. \A s \in SeqNums : (\E i \in S : requests[i].SeqNum = s) => fate[s] = "pending"
    BY <1>5 DEF TableInv, OneSlotPerRequest, Pending
  <1>10. \A s \in SeqNums : s >= gSeqNum' => fate'[s] = "none"
    BY <1>2, <1>9 DEF TableInv
  <1>11. FinalStep
    BY <1>2, <1>9 DEF FinalStep
  <1> QED
    BY <1>4, <1>8, <1>10, <1>11 DEF TableInv

LEMMA PostRequestTable ==
  ASSUME MgrTypeOK, TableInv, gSeqNum <= MaxSeq, gSeqNum' = gSeqNum + 1,
         NEW id, id # INVALID_REQUESTID, NEW size, NEW cb, NEW ret,
         PostRequest(id, size, cb, ret)
  PROVE  TableInv' /\ FinalStep
  <1>1. gSeqNum \in SeqNums /\ fate[gSeqNum] = "none"
    BY NumberType DEF TableInv, MgrTypeOK
  <1>2. PICK slot \in FreeSlots :
           requests' = [requests EXCEPT ![slot] =
                         [SeqNum |-> gSeqNum, RequestID |-> id, pRespCb |-> cb]]
    BY DEF PostRequest, First
  <1>3. fate' = [fate EXCEPT ![gSeqNum] = "pending"]
    BY DEF PostRequest
  <1>4. slot \in Slots /\ requests'[slot].SeqNum = gSeqNum /\ requests'[slot].RequestID = id
    BY <1>2 DEF MgrTypeOK, FreeSlots
  <1>5. \A i \in Slots \ {slot} : requests'[i] = requests[i]
    BY <1>2, <1>4 DEF MgrTypeOK
  <1>6. UsedSlots' = UsedSlots \union {slot}
    BY <1>4, <1>5 DEF UsedSlots, FreeSlots
  <1>7. Pending' = Pending \union {gSeqNum} /\ gSeqNum \notin Pending
    BY <1>1, <1>3 DEF Pending, MgrTypeOK
  <1>8. OneSlotPerRequest'
    <2>1. \A i \in UsedSlots : i \in Slots \ {slot} /\ requests'[i].SeqNum \in Pending
      BY <1>2, <1>5 DEF TableInv, OneSlotPerRequest, UsedSlots
    <2>2. \A i \in UsedSlots' : requests'[i].SeqNum \in Pending'
      BY <1>4, <1>6, <1>7, <2>1
    <2>3. \A i, j \in UsedSlots' : requests'[i].SeqNum = requests'[j].SeqNum => i = j
      BY <1>4, <1>5, <1>6, <1>7, <2>1 DEF TableInv, OneSlotPerRequest
    <2>4. \A s \in Pending' : \E i \in UsedSlots' : requests'[i].SeqNum = s
      BY <1>4, <1>5, <1>6, <1>7, <2>1 DEF TableInv, OneSlotPerRequest
    <2> QED
      BY <2>2, <2>3, <2>4 DEF OneSlotPerRequest
  <1>9. \A i \in FreeSlots' : requests'[i].SeqNum = 0
    BY <1>4, <1>5 DEF TableInv, FreeSlots
  <1>10. \A s \in SeqNums : s >= gSeqNum' => fate'[s] = "none"
    BY <1>1, <1>3 DEF TableInv, MgrTypeOK, SeqNums
  <1>11. FinalStep
    BY <1>1, <1>3 DEF FinalStep, MgrTypeOK
  <1> QED
    BY <1>8, <1>9, <1>10, <1>11 DEF TableInv

LEMMA DropRequestTable ==
  ASSUME MgrTypeOK, TableInv, gSeqNum <= MaxSeq, gSeqNum' = gSeqNum + 1,
         NEW ret, DropRequest(ret)
  PROVE  TableInv' /\ FinalStep
  <1>1. gSeqNum \in SeqNums /\ fate[gSeqNum] = "none"
    BY NumberType DEF TableInv, MgrTypeOK
  <1>2. fate' = [fate EXCEPT ![gSeqNum] = "refused"] /\ requests' = requests
    BY DEF DropRequest
  <1>3. Pending' = Pending
    BY <1>1, <1>2 DEF Pending, MgrTypeOK
  <1>4. OneSlotPerRequest'
    BY <1>2, <1>3 DEF TableInv, OneSlotPerRequest, UsedSlots, FreeSlots
  <1>5. \A s \in SeqNums : s >= gSeqNum' => fate'[s] = "none"
    BY <1>1, <1>2 DEF TableInv, MgrTypeOK, SeqNums
  <1>6. FinalStep
    BY <1>1, <1>2 DEF FinalStep, MgrTypeOK
  <1> QED
    BY <1>2, <1>4, <1>5, <1>6 DEF TableInv, FreeSlots

LEMMA RequestTable ==
  ASSUME MgrTypeOK, TableInv, gSeqNum <= MaxSeq,
         NEW id, NEW size, NEW cb, NEW ret, Request(id, size, cb, ret)
  PROVE  TableInv' /\ FinalStep
  <1>1. id # INVALID_REQUESTID /\ gSeqNum' = gSeqNum + 1
    BY DEF Request
  <1>2. PostRequest(id, size, cb, ret) \/ DropRequest(ret)
    BY DEF Request, SendShortRequest, SendLongRequest
  <1> QED
    BY <1>1, <1>2, PostRequestTable, DropRequestTable

LEMMA MgrStepTable ==
  ASSUME IpcTypeOK, MgrTypeOK, TableInv, MgrNext
  PROVE  TableInv' /\ FinalStep
  <1>1. CASE Select \/ SelectKey \/ ProcessTimers \/ EndTimeouts \/ CbReturn
             \/ ProcessOtherMessage \/ MqSend
             \/ \E expired \in SUBSET Slots : ReadClock(expired)
    BY <1>1, SameTable DEF Select, SelectKey, ProcessTimers, EndTimeouts, CbReturn,
       ProcessOtherMessage, MqSend, ReadClock
  <1>2. CASE RelayRequest
    BY <1>2, RequestTable, SameTable DEF RelayRequest
  <1>3. ASSUME NEW k, ProcessResponse(k), UNCHANGED gSeqNum
        PROVE  TableInv' /\ FinalStep
    <2>1. Answered(k) \in SUBSET Slots /\ "answered" \in Outcomes
      BY DEF Answered, Matches, Outcomes
    <2> QED
      BY <1>3, <2>1, RetireTable DEF ProcessResponse
  <1>4. CASE ProcessShortResponses
    BY <1>3, <1>4 DEF ProcessShortResponses
  <1>5. CASE ProcessLongResponses
    BY <1>3, <1>5, SameTable DEF ProcessLongResponses
  <1>6. CASE TimeOutRequest
    <2>1. PICK i \in due : Retire({i}, "timedout")
      BY <1>6 DEF TimeOutRequest
    <2>2. {i} \in SUBSET Slots /\ "timedout" \in Outcomes
      BY DEF MgrTypeOK, Outcomes
    <2> QED
      BY <1>6, <2>1, <2>2, RetireTable DEF TimeOutRequest
  <1>7. CASE AppRequest
    BY <1>7, RequestTable, NumbersLeftBound DEF AppRequest
  <1>8. CASE LoadWindow
    BY <1>8, RetireTable DEF LoadWindow, UsedSlots, Outcomes
  <1> QED
    BY <1>1, <1>2, <1>4, <1>5, <1>6, <1>7, <1>8 DEF MgrNext

LEMMA InitTable == Init => TableInv
  BY IpcAssumption DEF Init, MgrInit, TableInv, OneSlotPerRequest, FreeSlots, UsedSlots,
     Pending, Cleared

LEMMA NextTable == TypeOK /\ TableInv /\ [Next]_vars => TableInv' /\ FinalStep
  <1> SUFFICES ASSUME TypeOK, TableInv, [Next]_vars PROVE TableInv' /\ FinalStep
    OBVIOUS
  <1>1. CASE MgrStep
    BY <1>1, MgrStepTable DEF MgrStep, TypeOK
  <1>2. CASE ServerStep \/ ConsoleRequest \/ UNCHANGED vars
    BY <1>2, SameTable DEF ServerStep, ConsoleRequest, vars, mgrVars
  <1> QED
    BY <1>1, <1>2 DEF Next

(* The table holds exactly the requests that have no outcome yet, each in   *)
(* one slot.                                                                *)
THEOREM TableIsExact == Spec => []OneSlotPerRequest
  <1>1. Init => TypeOK /\ TableInv
    BY InitTypeOK, InitTable
  <1>2. TypeOK /\ TableInv /\ [Next]_vars => (TypeOK /\ TableInv)'
    BY NextTypeOK, NextTable
  <1>3. TableInv => OneSlotPerRequest
    BY DEF TableInv
  <1> QED
    BY <1>1, <1>2, <1>3, PTL DEF Spec

(* A request that was answered, timed out, cleared or refused stays so: no  *)
(* late answer, sweep or window change gives it a second outcome.           *)
THEOREM OutcomesAreFinal == Spec => OutcomeIsFinal
  <1>1. Init => TypeOK /\ TableInv
    BY InitTypeOK, InitTable
  <1>2. TypeOK /\ TableInv /\ [Next]_vars => (TypeOK /\ TableInv)' /\ [FinalStep]_vars
    BY NextTypeOK, NextTable
  <1>3. OutcomeIsFinal <=> [][FinalStep]_vars
    BY DEF OutcomeIsFinal, FinalStep
  <1> QED
    BY <1>1, <1>2, <1>3, PTL DEF Spec
-----------------------------------------------------------------------------
(* Routing.  What the manager is about to send fits the queue it is for.    *)
Routed(t, m) == m.Type \in RequestTypes /\ TSKID_FROM_REQID(m.RequestID) = t

RouteInv ==
  /\ \A t \in TaskIds \ {TSKID_MGR} : \A n \in DOMAIN mq[t] : Routed(t, mq[t][n])
  /\ out.to # TSKID_MGR => Routed(out.to, out.msg)

LEMMA RoutedMessages == RouteInv => RoutedToOwner
  BY DEF RouteInv, RoutedToOwner, Routed, Queued

LEMMA EnqueueRoute ==
  ASSUME IpcTypeOK, RouteInv, NEW t \in TaskIds, NEW m \in Message, Enqueue(t, m),
         t # TSKID_MGR => Routed(t, m)
  PROVE  \A u \in TaskIds \ {TSKID_MGR} : \A n \in DOMAIN mq'[u] : Routed(u, mq'[u][n])
  <1>1. mq \in [TaskIds -> Seq(Message)]
    BY DEF IpcTypeOK
  <1>2. mq' = [mq EXCEPT ![t] = Append(mq[t], m)]
    BY DEF Enqueue
  <1> SUFFICES ASSUME NEW u \in TaskIds \ {TSKID_MGR}, NEW n \in DOMAIN mq'[u]
               PROVE  Routed(u, mq'[u][n])
    OBVIOUS
  <1>3. CASE u # t
    BY <1>1, <1>2, <1>3 DEF RouteInv
  <1>4. CASE u = t
    <2>1. mq[t] \in Seq(Message) /\ mq'[t] = Append(mq[t], m)
      BY <1>1, <1>2
    <2>2. (n \in DOMAIN mq[t] /\ mq'[t][n] = mq[t][n]) \/ mq'[t][n] = m
      BY <1>4, <2>1
    <2> QED
      BY <1>4, <2>2 DEF RouteInv
  <1> QED
    BY <1>3, <1>4

LEMMA DequeueRoute ==
  ASSUME IpcTypeOK, RouteInv, NEW t \in TaskIds, Dequeue(t)
  PROVE  \A u \in TaskIds \ {TSKID_MGR} : \A n \in DOMAIN mq'[u] : Routed(u, mq'[u][n])
  <1>1. mq \in [TaskIds -> Seq(Message)]
    BY DEF IpcTypeOK
  <1>2. mq' = [mq EXCEPT ![t] = Tail(mq[t])] /\ mq[t] # <<>>
    BY DEF Dequeue
  <1> SUFFICES ASSUME NEW u \in TaskIds \ {TSKID_MGR}, NEW n \in DOMAIN mq'[u]
               PROVE  Routed(u, mq'[u][n])
    OBVIOUS
  <1>3. CASE u # t
    BY <1>1, <1>2, <1>3 DEF RouteInv
  <1>4. CASE u = t
    <2>1. mq[t] \in Seq(Message) /\ mq'[t] = Tail(mq[t])
      BY <1>1, <1>2
    <2>2. n + 1 \in DOMAIN mq[t] /\ mq'[t][n] = mq[t][n + 1]
      <3> DEFINE q == mq[t]
      <3>1. q \in Seq(Message) /\ q # <<>> /\ n \in DOMAIN Tail(q)
        BY <1>2, <1>4, <2>1
      <3>2. n \in 1 .. Len(q) - 1 /\ Tail(q)[n] = q[n + 1]
        <4> HIDE DEF q
        <4> QED
          BY <3>1
      <3> QED
        BY <2>1, <1>4, <3>1, <3>2
    <2> QED
      BY <1>4, <2>2 DEF RouteInv
  <1> QED
    BY <1>3, <1>4

LEMMA RequestRoute ==
  ASSUME RouteInv, NEW id, NEW size, NEW cb, NEW ret, Request(id, size, cb, ret)
  PROVE  out'.to # TSKID_MGR => Routed(out'.to, out'.msg)
  <1>1. CASE PostRequest(id, size, cb, ret)
    <2>1. Routed(TSKID_FROM_REQID(id), RequestMsg(gSeqNum, id, size))
      BY DEF Routed, RequestMsg, RequestTypes
    <2>2. /\ out'.to = TSKID_FROM_REQID(id)
          /\ out'.msg = RequestMsg(gSeqNum, id, size)
      BY <1>1 DEF PostRequest
    <2> QED
      BY <2>1, <2>2
  <1>2. CASE DropRequest(ret)
    BY <1>2 DEF DropRequest, RouteInv
  <1> QED
    BY <1>1, <1>2 DEF Request, SendShortRequest, SendLongRequest

LEMMA MgrStepRoute ==
  ASSUME IpcTypeOK, MgrTypeOK, RouteInv, MgrNext
  PROVE  RouteInv'
  <1>1. TSKID_MGR \in TaskIds
    BY DEF TSKID_MGR, TaskIds, TSK_NUM
  <1>2. CASE UNCHANGED <<mq, out>>
    BY <1>2 DEF RouteInv
  <1>3. CASE Dequeue(TSKID_MGR) /\ UNCHANGED out
    BY <1>1, <1>3, DequeueRoute DEF RouteInv
  <1>4. CASE RelayRequest
    <2>1. Dequeue(TSKID_MGR)
      BY <1>4 DEF RelayRequest
    <2>2. UNCHANGED out \/ \E id \in RequestIds, size \in Nat :
                              Request(id, size, "console", "timers")
      BY <1>4, <2>1, MgrDequeueType DEF RelayRequest
    <2> QED
      BY <1>1, <2>1, <2>2, DequeueRoute, RequestRoute DEF RouteInv
  <1>5. CASE AppRequest
    BY <1>5, RequestRoute DEF AppRequest, RouteInv
  <1>6. CASE MqSend
    <2>1. out.to \in TaskIds /\ out.msg \in Message /\ Enqueue(out.to, out.msg)
      BY <1>6 DEF MqSend, MgrTypeOK, Sending
    <2>2. out'.to = TSKID_MGR
      BY <1>6 DEF MqSend, NoOut
    <2> QED
      BY <2>1, <2>2, EnqueueRoute DEF RouteInv
  <1>7. CASE ProcessShortResponses \/ ProcessLongResponses \/ ProcessOtherMessage
    BY <1>3, <1>7 DEF ProcessShortResponses, ProcessLongResponses, ProcessOtherMessage
  <1>8. CASE \/ Select \/ SelectKey \/ ProcessTimers
             \/ \E expired \in SUBSET Slots : ReadClock(expired)
             \/ TimeOutRequest \/ EndTimeouts \/ LoadWindow \/ CbReturn
    BY <1>2, <1>8 DEF Select, SelectKey, ProcessTimers, ReadClock, TimeOutRequest,
       EndTimeouts, LoadWindow, CbReturn, ipcVars
  <1> QED
    BY <1>4, <1>5, <1>6, <1>7, <1>8 DEF MgrNext

LEMMA TaskStepRoute ==
  ASSUME IpcTypeOK, TaskTypeOK, RouteInv, TaskNext, UNCHANGED out
  PROVE  RouteInv'
  <1>1. PICK t \in Servers : TaskStep(t) \/ TaskSendFails(t) \/ TaskKilled(t)
    BY DEF TaskNext
  <1>2. t \in TaskIds /\ TSKID_MGR \in TaskIds /\ hold[t] \in Message
    BY TaskAssumption DEF TSKID_MGR, TaskIds, TSK_NUM, TaskTypeOK
  <1>3. Dequeue(t) \/ Enqueue(TSKID_MGR, hold[t]) \/ UNCHANGED mq
    BY <1>1 DEF TaskStep, ReceiveShortRequest, ReceiveLongRequest, RejectMessage, Take,
       ProcessRequest, TaskMqSend, TaskSendFails, TaskKilled, ipcVars
  <1> QED
    BY <1>2, <1>3, DequeueRoute, EnqueueRoute DEF RouteInv

LEMMA InitRoute == Init => RouteInv
  BY DEF Init, IpcInit, MgrInit, NoOut, RouteInv

LEMMA NextRoute == TypeOK /\ RouteInv /\ [Next]_vars => RouteInv'
  <1> SUFFICES ASSUME TypeOK, RouteInv, [Next]_vars PROVE RouteInv'
    OBVIOUS
  <1>1. CASE MgrStep
    BY <1>1, MgrStepRoute DEF MgrStep, TypeOK
  <1>2. CASE ServerStep
    BY <1>2, TaskStepRoute DEF ServerStep, TypeOK, mgrVars
  <1>3. CASE ConsoleRequest
    <2>1. PICK id \in ConsoleRequestIds, size \in ConsoleSizes : FakeRequest(id, size)
      BY <1>3 DEF ConsoleRequest
    <2>2. FakeMsg(id, size) \in Message
      BY Zeros, ConsoleAssumption DEF FakeMsg, Message, MessageTypes, MSG_TYPE_SHORT_REQUEST
    <2>3. TSKID_MGR \in TaskIds
      BY DEF TSKID_MGR, TaskIds, TSK_NUM
    <2> QED
      BY <1>3, <2>1, <2>2, <2>3, EnqueueRoute
         DEF FakeRequest, ConsoleRequest, RouteInv, TypeOK, mgrVars
  <1>4. CASE UNCHANGED vars
    BY <1>4 DEF vars, ipcVars, mgrVars, RouteInv
  <1> QED
    BY <1>1, <1>2, <1>3, <1>4 DEF Next

(* Nothing but requests for it ever stands in the queue of a task other     *)
(* than the manager, whatever id a window or the console names.             *)
THEOREM RoutingIsCorrect == Spec => []RoutedToOwner
  <1>1. Init => TypeOK /\ RouteInv
    BY InitTypeOK, InitRoute
  <1>2. TypeOK /\ RouteInv /\ [Next]_vars => (TypeOK /\ RouteInv)'
    BY NextTypeOK, NextRoute
  <1> QED
    BY <1>1, <1>2, RoutedMessages, PTL DEF Spec
-----------------------------------------------------------------------------
(* The requests seen through their numbers: RequestService.                 *)
LEMMA ServicePending == Service!Pending = Pending
  BY DEF Service!Pending, Pending

LEMMA SlotCount ==
  ASSUME NEW slot \in Slots
  PROVE  /\ IsFiniteSet(Slots \ {slot}) /\ Cardinality(Slots \ {slot}) \in Nat
         /\ Cardinality(Slots \ {slot}) < GUI_MAX_REQUESTS
  <1>1. IsFiniteSet(Slots) /\ Cardinality(Slots) = GUI_MAX_REQUESTS
    BY FS_Interval, MgrAssumption DEF Slots
  <1> QED
    BY <1>1, FS_RemoveElement, MgrAssumption

(* While a slot is free, fewer requests are pending than there are slots.   *)
LEMMA RoomForRequest ==
  ASSUME TableInv, NEW slot \in FreeSlots
  PROVE  Cardinality(Pending) < GUI_MAX_REQUESTS
  <1> DEFINE f == [s \in Pending |-> CHOOSE i \in UsedSlots : requests[i].SeqNum = s]
  <1>1. \A s \in Pending : f[s] \in UsedSlots /\ requests[f[s]].SeqNum = s
    BY DEF TableInv, OneSlotPerRequest
  <1>2. slot \in Slots /\ UsedSlots \subseteq Slots \ {slot}
    BY DEF FreeSlots, UsedSlots
  <1>3. f \in [Pending -> Slots \ {slot}]
    BY <1>1, <1>2
  <1> HIDE DEF f
  <1>4. \A r, s \in Pending : f[r] = f[s] => r = s
    BY <1>1
  <1>5. f \in Injection(Pending, Slots \ {slot})
    BY <1>3, <1>4 DEF Injection, IsInjective
  <1>6. IsFiniteSet(Pending) /\ Cardinality(Pending) <= Cardinality(Slots \ {slot})
    BY <1>2, <1>5, SlotCount, FS_Injection
  <1>7. Cardinality(Pending) \in Nat
    BY <1>6, FS_CardinalityType
  <1> QED
    BY <1>2, <1>6, <1>7, SlotCount, MgrAssumption

(* A step that retires slots of one number ends that request, or nothing.   *)
LEMMA RetireNumber ==
  ASSUME MgrTypeOK, TableInv, UNCHANGED gSeqNum, NEW S \in SUBSET Slots, NEW k,
         \A i \in S : requests[i].SeqNum = k,
         NEW why \in {"answered", "timedout"}, Retire(S, why)
  PROVE  [Service!Next]_<<gSeqNum, fate>>
  <1>1. /\ fate \in [SeqNums -> Fates]
        /\ fate' = [s \in SeqNums |->
                      IF \E i \in S : requests[i].SeqNum = s THEN why ELSE fate[s]]
    BY DEF MgrTypeOK, Retire
  <1>2. CASE k \in Pending /\ S # {}
    <2>1. k \in SeqNums /\ \A s \in SeqNums : (\E i \in S : requests[i].SeqNum = s) <=> s = k
      BY <1>2 DEF Pending
    <2>2. fate' = [fate EXCEPT ![k] = why]
      BY <1>1, <2>1
    <2>3. Service!End(k)
      BY <1>2, <2>2, ServicePending DEF Service!End
    <2> QED
      BY <2>1, <2>3 DEF Service!Next
  <1>3. CASE ~ (k \in Pending /\ S # {})
    <2>1. ASSUME NEW i \in S, requests[i].SeqNum \in SeqNums
          PROVE  FALSE
      <3>1. i \in UsedSlots
        BY <2>1 DEF TableInv, UsedSlots, SeqNums
      <3>2. requests[i].SeqNum \in Pending
        BY <3>1 DEF TableInv, OneSlotPerRequest
      <3> QED
        BY <1>3, <3>2
    <2>2. fate' = fate
      BY <1>1, <2>1
    <2> QED
      BY <2>2
  <1> QED
    BY <1>2, <1>3

LEMMA RequestService ==
  ASSUME MgrTypeOK, TableInv, gSeqNum <= MaxSeq,
         NEW id, NEW size, NEW cb, NEW ret, Request(id, size, cb, ret)
  PROVE  Service!Next
  <1>1. gSeqNum' = gSeqNum + 1 /\ (PostRequest(id, size, cb, ret) \/ DropRequest(ret))
    BY DEF Request, SendShortRequest, SendLongRequest
  <1>2. gSeqNum \in SeqNums /\ fate[gSeqNum] = "none"
    BY NumberType DEF TableInv, MgrTypeOK
  <1>3. CASE PostRequest(id, size, cb, ret)
    <2>1. PICK slot \in Slots : slot \in FreeSlots
      BY <1>3 DEF PostRequest, First
    <2>2. Cardinality(Pending) < GUI_MAX_REQUESTS
      BY <2>1, RoomForRequest
    <2>3. \A T : Service!Cardinality(T) = Cardinality(T)
      BY DEF Service!Cardinality, Cardinality
    <2>4. Service!Accept
      BY <1>1, <1>2, <1>3, <2>2, <2>3, ServicePending
         DEF Service!Accept, Service!Issue, PostRequest
    <2> QED
      BY <2>4 DEF Service!Next
  <1>4. CASE DropRequest(ret)
    BY <1>1, <1>2, <1>4 DEF Service!Next, Service!Refuse, Service!Issue, DropRequest
  <1> QED
    BY <1>1, <1>3, <1>4

LEMMA MgrStepService ==
  ASSUME IpcTypeOK, MgrTypeOK, TableInv, MgrNext
  PROVE  [Service!Next]_<<gSeqNum, fate>>
  <1>1. CASE Select \/ SelectKey \/ ProcessTimers \/ EndTimeouts \/ CbReturn
             \/ ProcessOtherMessage \/ MqSend
             \/ \E expired \in SUBSET Slots : ReadClock(expired)
    BY <1>1 DEF Select, SelectKey, ProcessTimers, EndTimeouts, CbReturn,
       ProcessOtherMessage, MqSend, ReadClock
  <1>2. CASE RelayRequest
    BY <1>2, RequestService DEF RelayRequest
  <1>3. ASSUME NEW k, ProcessResponse(k), UNCHANGED gSeqNum
        PROVE  [Service!Next]_<<gSeqNum, fate>>
    <2>1. Answered(k) \in SUBSET Slots /\ \A i \in Answered(k) : requests[i].SeqNum = k
      BY DEF Answered, Matches
    <2>2. Retire(Answered(k), "answered")
      BY <1>3 DEF ProcessResponse
    <2> QED
      BY <1>3, <2>1, <2>2, RetireNumber
  <1>4. CASE ProcessShortResponses
    BY <1>3, <1>4 DEF ProcessShortResponses
  <1>5. CASE ProcessLongResponses
    BY <1>3, <1>5 DEF ProcessLongResponses
  <1>6. CASE TimeOutRequest
    <2>1. PICK i \in due : Retire({i}, "timedout")
      BY <1>6 DEF TimeOutRequest
    <2>2. {i} \in SUBSET Slots
      BY DEF MgrTypeOK
    <2>3. UNCHANGED gSeqNum /\ \A j \in {i} : requests[j].SeqNum = requests[i].SeqNum
      BY <1>6 DEF TimeOutRequest
    <2> QED
      BY <2>1, <2>2, <2>3, RetireNumber
  <1>7. CASE AppRequest
    BY <1>7, RequestService, NumbersLeftBound DEF AppRequest
  <1>8. CASE LoadWindow
    <2>1. \A s \in SeqNums : (\E i \in UsedSlots : requests[i].SeqNum = s) <=> s \in Pending
      BY DEF TableInv, OneSlotPerRequest
    <2>2. Service!Clear
      BY <1>8, <2>1, ServicePending DEF LoadWindow, Retire, Service!Clear
    <2> QED
      BY <2>2 DEF Service!Next
  <1> QED
    BY <1>1, <1>2, <1>4, <1>5, <1>6, <1>7, <1>8 DEF MgrNext

(* The manager implements RequestService: every step of the system ends one *)
(* request, clears them all, accepts one while fewer than GUI_MAX_REQUESTS  *)
(* are pending, refuses one, or leaves the requests alone.                  *)
THEOREM ImplementsRequestService == Spec => KeepsRequestService
  <1>1. Init => TypeOK /\ TableInv /\ Service!Init
    BY InitTypeOK, InitTable DEF Init, MgrInit, Service!Init
  <1>2. TypeOK /\ TableInv /\ [Next]_vars
          => (TypeOK /\ TableInv)' /\ [Service!Next]_<<gSeqNum, fate>>
    <2> SUFFICES ASSUME TypeOK, TableInv, [Next]_vars
                 PROVE  [Service!Next]_<<gSeqNum, fate>>
      BY NextTypeOK, NextTable
    <2>1. CASE MgrStep
      BY <2>1, MgrStepService DEF MgrStep, TypeOK
    <2>2. CASE ServerStep \/ ConsoleRequest \/ UNCHANGED vars
      BY <2>2 DEF ServerStep, ConsoleRequest, vars, mgrVars
    <2> QED
      BY <2>1, <2>2 DEF Next
  <1> QED
    BY <1>1, <1>2, PTL DEF Spec, KeepsRequestService, Service!Spec
-----------------------------------------------------------------------------
(* A server on whose full queue the manager is blocked: steps it is away    *)
(* from taking the next message.                                            *)
Turn(place) == IF place = "process" THEN 2 ELSE IF place = "send" THEN 1 ELSE 0

\* no handler of the manager runs while it is in mq_send, which cannot return
LEMMA BlockedMgrStands == MgrBlocked => ~MgrNext
  BY DEF MgrBlocked, MgrNext, Select, SelectKey, RelayRequest, ProcessShortResponses,
     ProcessLongResponses, ProcessOtherMessage, ProcessTimers, ReadClock, TimeOutRequest,
     EndTimeouts, AppRequest, LoadWindow, CbReturn, MqSend, Enqueue

LEMMA TakingMakesRoom ==
  ASSUME TypeOK, NEW t \in TaskIds, Dequeue(t)
  PROVE  CanSend(t)'
  <1>1. mq[t] \in Seq(Message) /\ Len(mq[t]) <= NUM_MAX_MESSAGES
    BY DEF TypeOK, IpcTypeOK
  <1>2. mq[t] # <<>> /\ mq'[t] = Tail(mq[t])
    BY DEF TypeOK, IpcTypeOK, Dequeue
  <1>3. Len(mq'[t]) = Len(mq[t]) - 1
    BY <1>1, <1>2
  <1> QED
    BY <1>1, <1>3, IpcAssumption DEF CanSend

\* a server's own step takes a message, or brings it nearer to that, or ends it
LEMMA ServerTurn ==
  ASSUME TypeOK, NEW t \in Servers, TaskStep(t)
  PROVE  \/ CanSend(t)'
         \/ tpc'[t] = "dead"
         \/ Turn(tpc'[t]) < Turn(tpc[t])
  <1>1. tpc \in [Servers -> {"wait", "process", "send", "dead"}] /\ t \in TaskIds
    BY TaskAssumption DEF TypeOK, TaskTypeOK
  <1>2. CASE ReceiveShortRequest(t) \/ ReceiveLongRequest(t) \/ RejectMessage(t)
    BY <1>1, <1>2, TakingMakesRoom DEF ReceiveShortRequest, ReceiveLongRequest, RejectMessage, Take
  <1>3. CASE ProcessRequest(t)
    <2>1. tpc[t] = "process" /\ (tpc'[t] = "send" \/ tpc'[t] = "dead")
      BY <1>1, <1>3 DEF ProcessRequest, Response, Die
    <2> QED
      BY <2>1 DEF Turn
  <1>4. CASE TaskMqSend(t)
    BY <1>1, <1>4 DEF TaskMqSend, Turn
  <1> QED
    BY <1>2, <1>3, <1>4 DEF TaskStep

(* A manager blocked on a server's full queue keeps blocked only on that    *)
(* server, with that message, until the server dies or takes a message; and *)
(* each step of the server brings it nearer to that, with nothing throwing  *)
(* it back: at most three of its steps pass (mq_send in SendIpcMessage,     *)
(* ipc.c, against the loops of task1.c and task2.c).                        *)
THEOREM BlockingServerMakesRoom ==
  Spec => [][MgrBlocked /\ out.to \in Servers =>
               \/ ~MgrBlocked'
               \/ tpc'[out.to] = "dead"
               \/ /\ UNCHANGED <<mpc, out>>
                  /\ Turn(tpc'[out.to]) <= Turn(tpc[out.to])
                  /\ TaskStep(out.to) => Turn(tpc'[out.to]) < Turn(tpc[out.to])]_vars
  <1> DEFINE Nearer ==
        MgrBlocked /\ out.to \in Servers =>
          \/ ~MgrBlocked'
          \/ tpc'[out.to] = "dead"
          \/ /\ UNCHANGED <<mpc, out>>
             /\ Turn(tpc'[out.to]) <= Turn(tpc[out.to])
             /\ TaskStep(out.to) => Turn(tpc'[out.to]) < Turn(tpc[out.to])
  <1>1. ASSUME TypeOK, Next PROVE Nearer
    <2> SUFFICES ASSUME MgrBlocked, out.to \in Servers, MgrBlocked', tpc'[out.to] # "dead"
                 PROVE  /\ UNCHANGED <<mpc, out>>
                        /\ Turn(tpc'[out.to]) <= Turn(tpc[out.to])
                        /\ TaskStep(out.to) => Turn(tpc'[out.to]) < Turn(tpc[out.to])
      OBVIOUS
    <2>0. PICK t \in Servers : out.to = t
      OBVIOUS
    <2>1. UNCHANGED <<mpc, out>>
      BY <1>1, BlockedMgrStands DEF Next, MgrStep, ServerStep, ConsoleRequest, mgrVars
    <2>2. ~CanSend(t)'
      BY <2>0, <2>1 DEF MgrBlocked, CanSend
    <2>3. TaskStep(t) => Turn(tpc'[t]) < Turn(tpc[t])
      <3>1. tpc'[t] # "dead"
        BY <2>0
      <3> QED
        BY <1>1, <2>2, <3>1, ServerTurn
    <2>4. TaskStep(t) \/ tpc'[t] = tpc[t]
      <3>1. tpc \in [Servers -> {"wait", "process", "send", "dead"}]
        BY <1>1 DEF TypeOK, TaskTypeOK
      <3>2. CASE ServerStep
        <4>1. PICK u \in Servers : TaskStep(u) \/ TaskSendFails(u) \/ TaskKilled(u)
          BY <3>2 DEF ServerStep, TaskNext
        <4>2. CASE u = t
          BY <2>0, <3>1, <4>1, <4>2 DEF TaskSendFails, TaskKilled, Die
        <4>3. CASE u # t
          <5>1. \E place : tpc' = [tpc EXCEPT ![u] = place]
            BY <4>1 DEF TaskStep, ReceiveShortRequest, ReceiveLongRequest, RejectMessage,
               AcceptSize, ProcessRequest, Response, TaskMqSend, TaskSendFails, TaskKilled, Die
          <5> QED
            BY <3>1, <4>3, <5>1
        <4> QED
          BY <4>2, <4>3
      <3>3. CASE UNCHANGED taskVars
        BY <3>3 DEF taskVars
      <3> QED
        BY <1>1, <3>2, <3>3 DEF Next, MgrStep, ConsoleRequest
    <2>5. \A place : Turn(place) \in Nat
      BY DEF Turn
    <2>6. Turn(tpc'[t]) <= Turn(tpc[t])
      <3> DEFINE a == Turn(tpc'[t])
                 b == Turn(tpc[t])
      <3>1. a \in Nat /\ b \in Nat
        BY <2>5
      <3>2. a < b \/ a = b
        BY <2>3, <2>4
      <3> HIDE DEF a, b
      <3>3. a <= b
        BY <3>1, <3>2
      <3> QED
        BY <3>3 DEF a, b
    <2> QED
      BY <2>0, <2>1, <2>3, <2>6
  <1>2. TypeOK /\ [Next]_vars => [Nearer]_vars
    BY <1>1
  <1> HIDE DEF Nearer
  <1>3. Spec => [][Nearer]_vars
    BY <1>2, TypeCorrect, PTL DEF Spec
  <1> QED
    BY <1>3 DEF Nearer
-----------------------------------------------------------------------------
(* The sweep over expired requests.                                         *)

\* the manager is in the sweep, or in a callback that will return to it
InSweep ==
  \/ mpc = "timeouts"
  \/ mpc = "cb" /\ mret = "timeouts"
  \/ mpc = "send" /\ out.ret = "cb" /\ mret = "timeouts"

(* What the sweep relies on: the slots its clock reading marked still hold  *)
(* requests.                                                                *)
SweepInv == due \subseteq UsedSlots /\ (due # {} => InSweep)

\* a marked slot keeps its request, or the request times out or is cleared
SweepStep ==
  \A i \in due :
    \/ i \in due' /\ requests'[i] = requests[i]
    \/ /\ i \notin due'
       /\ fate[requests[i].SeqNum] = "pending"
       /\ fate'[requests[i].SeqNum] \in {"timedout", "cleared"}

LEMMA SameSweep ==
  ASSUME SweepInv, UNCHANGED <<requests, due>>, due # {} => InSweep'
  PROVE  SweepInv' /\ SweepStep
  BY DEF SweepInv, SweepStep, UsedSlots, FreeSlots

\* what is removed from the table and from `due' together
LEMMA RetireSweep ==
  ASSUME MgrTypeOK, TableInv, SweepInv,
         NEW S \in SUBSET UsedSlots, NEW why \in {"timedout", "cleared"},
         Retire(S, why), due' = due \ S, due' # {} => InSweep'
  PROVE  SweepInv' /\ SweepStep
  <1>1. \A i \in Slots : requests'[i] = IF i \in S THEN Cleared ELSE requests[i]
    BY DEF Retire
  <1>2. UsedSlots' = UsedSlots \ S
    BY <1>1 DEF UsedSlots, FreeSlots, Cleared
  <1>3. ASSUME NEW i \in S
        PROVE  /\ fate[requests[i].SeqNum] = "pending"
               /\ fate'[requests[i].SeqNum] = why
    <2>1. requests[i].SeqNum \in SeqNums /\ fate[requests[i].SeqNum] = "pending"
      BY <1>3 DEF TableInv, OneSlotPerRequest, Pending
    <2> QED
      BY <1>3, <2>1 DEF Retire
  <1>4. \A i \in due \ S : requests'[i] = requests[i]
    BY <1>1 DEF SweepInv, UsedSlots
  <1> QED
    BY <1>2, <1>3, <1>4 DEF SweepInv, SweepStep

\* a request from a callback takes a slot that was free
LEMMA RequestSweep ==
  ASSUME MgrTypeOK, SweepInv, mpc = "cb", UNCHANGED <<mret, due>>,
         NEW id, NEW size, NEW cb, Request(id, size, cb, "cb")
  PROVE  SweepInv' /\ SweepStep
  <1>1. PostRequest(id, size, cb, "cb") \/ DropRequest("cb")
    BY DEF Request, SendShortRequest, SendLongRequest
  <1>2. CASE PostRequest(id, size, cb, "cb")
    <2>1. PICK slot \in FreeSlots :
             requests' = [requests EXCEPT ![slot] =
                           [SeqNum |-> gSeqNum, RequestID |-> id, pRespCb |-> cb]]
      BY <1>2 DEF PostRequest, First
    <2>2. \A i \in UsedSlots : requests'[i] = requests[i]
      BY <2>1 DEF UsedSlots, MgrTypeOK
    <2>3. due \subseteq UsedSlots'
      BY <2>2 DEF SweepInv, UsedSlots, FreeSlots
    <2>4. due # {} => InSweep'
      BY <1>2 DEF SweepInv, InSweep, PostRequest
    <2> QED
      BY <2>2, <2>3, <2>4 DEF SweepInv, SweepStep
  <1>3. CASE DropRequest("cb")
    BY <1>3, SameSweep DEF DropRequest, SweepInv, InSweep
  <1> QED
    BY <1>1, <1>2, <1>3

LEMMA MgrStepSweep ==
  ASSUME MgrTypeOK, TableInv, SweepInv, MgrNext
  PROVE  SweepInv' /\ SweepStep
  <1>1. CASE Select \/ SelectKey \/ RelayRequest \/ ProcessShortResponses
             \/ ProcessLongResponses \/ ProcessOtherMessage \/ ProcessTimers
    <2>1. due = {} /\ due' = {}
      BY <1>1 DEF SweepInv, InSweep, Select, SelectKey, RelayRequest, ProcessShortResponses,
         ProcessLongResponses, ProcessOtherMessage, ProcessTimers
    <2> QED
      BY <2>1 DEF SweepInv, SweepStep
  <1>2. CASE \E expired \in SUBSET Slots : ReadClock(expired)
    <2>1. due = {} /\ due' \subseteq UsedSlots /\ mpc' = "timeouts" /\ requests' = requests
      BY <1>2 DEF SweepInv, InSweep, ReadClock
    <2> QED
      BY <2>1 DEF SweepInv, SweepStep, InSweep, UsedSlots, FreeSlots
  <1>3. CASE TimeOutRequest
    <2>1. PICK i \in due : Retire({i}, "timedout") /\ due' = due \ {i}
      BY <1>3 DEF TimeOutRequest
    <2>2. {i} \in SUBSET UsedSlots
      BY DEF SweepInv
    <2>3. InSweep'
      BY <1>3 DEF TimeOutRequest, InSweep
    <2> QED
      BY <2>1, <2>2, <2>3, RetireSweep
  <1>4. CASE EndTimeouts
    BY <1>4, SameSweep DEF EndTimeouts
  <1>5. CASE AppRequest
    BY <1>5, RequestSweep DEF AppRequest
  <1>6. CASE LoadWindow
    <2>1. due' = due \ UsedSlots /\ due' = {}
      BY <1>6 DEF LoadWindow, SweepInv
    <2> QED
      BY <1>6, <2>1, RetireSweep DEF LoadWindow
  <1>7. CASE CbReturn \/ MqSend
    BY <1>7, SameSweep DEF CbReturn, MqSend, SweepInv, InSweep
  <1> QED
    BY <1>1, <1>2, <1>3, <1>4, <1>5, <1>6, <1>7 DEF MgrNext

(* The sweep acts on a clock reading taken before the callbacks it runs,    *)
(* and those fill slots and change the window.  Even so, a slot found       *)
(* expired holds the request it was marked for until that request times out *)
(* or is cleared with its window, and the sweep is over only when no marked *)
(* slot is left: once past its deadline when the clock is read, a request   *)
(* ends before the next turn (ProcessResponseTimeouts).                     *)
THEOREM ExpiredRequestsEnd == Spec => [](due # {} => InSweep) /\ [][SweepStep]_vars
  <1>1. Init => TypeOK /\ TableInv /\ SweepInv
    <2>1. Init => SweepInv
      BY DEF Init, MgrInit, SweepInv
    <2> QED
      BY <2>1, InitTypeOK, InitTable
  <1>2. TypeOK /\ TableInv /\ SweepInv /\ [Next]_vars => SweepInv' /\ SweepStep
    <2> SUFFICES ASSUME TypeOK, TableInv, SweepInv, [Next]_vars PROVE SweepInv' /\ SweepStep
      OBVIOUS
    <2>1. CASE MgrStep
      BY <2>1, MgrStepSweep DEF MgrStep, TypeOK
    <2>2. CASE ServerStep \/ ConsoleRequest \/ UNCHANGED vars
      <3>1. UNCHANGED mgrVars
        BY <2>2 DEF ServerStep, ConsoleRequest, vars
      <3> QED
        BY <3>1, SameSweep DEF mgrVars, SweepInv, InSweep
    <2> QED
      BY <2>1, <2>2 DEF Next
  <1>3. TypeOK /\ TableInv /\ SweepInv /\ [Next]_vars
          => (TypeOK /\ TableInv /\ SweepInv)' /\ [SweepStep]_vars
    BY <1>2, NextTypeOK, NextTable
  <1>4. SweepInv => (due # {} => InSweep)
    BY DEF SweepInv
  <1> QED
    BY <1>1, <1>3, <1>4, PTL DEF Spec
=============================================================================
