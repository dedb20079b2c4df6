---------------------------- MODULE MgrRequests ----------------------------
(***************************************************************************)
(* The manager (src/tsk/mgr/gui): one thread, one loop.  Each turn handles  *)
(* at most one key event and one IPC message, runs the timers that are due  *)
(* and then the requests whose time is over.  A request lives in a slot of  *)
(* the table `requests' from Request() until its answer, its timeout or a   *)
(* window change removes it.  Callbacks run inside the loop and may call    *)
(* Request() and LoadWindow(); sending to a full queue blocks the thread    *)
(* wherever it is.                                                          *)
(***************************************************************************)
EXTENDS Ipc

CONSTANTS
  GUI_MAX_REQUESTS,  \* slots of the request table (16 in gui.h)
  USHORT_SPAN,       \* number of values of a USHORT (65536)
  AppRequestIds,     \* ids the windows pass to Request()
  AppSizes,          \* sizes of the data they pass
  CanTimeOut,        \* does time pass far enough for a request to expire?
  CanLoadWindow      \* do callbacks change the window?

ASSUME MgrAssumption ==
  /\ GUI_MAX_REQUESTS \in Nat \ {0}
  /\ USHORT_SPAN \in Nat \ {0}
  /\ AppRequestIds \subseteq RequestIds
  /\ AppSizes \subseteq Nat
  /\ CanTimeOut \in BOOLEAN
  /\ CanLoadWindow \in BOOLEAN

VARIABLES
  requests,  \* gCtxt.requests
  gSeqNum,   \* number of the next request
  mpc,       \* where the manager's thread is
  mret,      \* where the running callback returns to
  due,       \* slots seen expired when the sweep read the clock, still to visit
  out,       \* the message SendIpcMessage is sending
  fate       \* history: what became of each sequence number

mgrVars == <<requests, gSeqNum, mpc, mret, due, out, fate>>
-----------------------------------------------------------------------------
Slots == 0 .. GUI_MAX_REQUESTS - 1
SeqNums == 1..MaxSeq
Callbacks == {"NULL", "app", "console"}

Cleared == [SeqNum |-> 0, RequestID |-> INVALID_REQUESTID, pRespCb |-> "NULL"]

NoOut == [to |-> TSKID_MGR, msg |-> NoMsg, ret |-> "select"]

FreeSlots == {i \in Slots : requests[i].RequestID = INVALID_REQUESTID}
UsedSlots == Slots \ FreeSlots

\* the loops over the table stop at the first slot of the kind they look for
First(i, S) == i \in S /\ \A j \in S : i <= j

Pending == {s \in SeqNums : fate[s] = "pending"}

(* Remove the requests in the slots S from the table and record why.        *)
Retire(S, why) ==
  /\ requests' = [i \in Slots |-> IF i \in S THEN Cleared ELSE requests[i]]
  /\ fate' = [s \in SeqNums |->
                IF \E i \in S : requests[i].SeqNum = s THEN why ELSE fate[s]]
-----------------------------------------------------------------------------
(* Request(): the first free slot takes the request under the next number.  *)
(* A long request's data goes to the segment under that number before the   *)
(* message is sent.  Control continues at `ret'.                            *)
PostRequest(id, size, cb, ret) ==
  /\ ValidTask(TSKID_FROM_REQID(id))
  /\ \E slot \in Slots :
       /\ First(slot, FreeSlots)
       /\ requests' = [requests EXCEPT ![slot] =
                         [SeqNum |-> gSeqNum, RequestID |-> id, pRespCb |-> cb]]
  /\ fate' = [fate EXCEPT ![gSeqNum] = "pending"]
  /\ out' = [to |-> TSKID_FROM_REQID(id), msg |-> RequestMsg(gSeqNum, id, size),
             ret |-> ret]
  /\ mpc' = "send"

\* mutant: the slot is not cleared on failure
DropRequestKeepsSlot(ret) ==
  /\ \E slot \in Slots :
       /\ First(slot, FreeSlots)
       /\ requests' = [requests EXCEPT ![slot] =
                         [SeqNum |-> gSeqNum, RequestID |-> TASK1_REQUEST1, pRespCb |-> "NULL"]]
  /\ fate' = [fate EXCEPT ![gSeqNum] = "refused"]
  /\ mpc' = ret
  /\ UNCHANGED out

(* Any failure clears the slot again; a segment already written stays.      *)
DropRequest(ret) ==
  /\ fate' = [fate EXCEPT ![gSeqNum] = "refused"]
  /\ mpc' = ret
  /\ UNCHANGED <<requests, out>>

SendShortRequest(id, size, cb, ret) ==
  /\ FitsQueue(size)
  /\ UNCHANGED shm
  /\ \/ PostRequest(id, size, cb, ret)
     \/ (SendMayFail \/ ~ValidTask(TSKID_FROM_REQID(id))) /\ DropRequest(ret)

SendLongRequest(id, size, cb, ret) ==
  /\ ~FitsQueue(size)
  /\ \/ /\ CanGet(gSeqNum, size)
        /\ Write(gSeqNum, size, "req")
        /\ \/ PostRequest(id, size, cb, ret)
           \/ (SendMayFail \/ ~ValidTask(TSKID_FROM_REQID(id))) /\ DropRequest(ret)
     \/ ~CanGet(gSeqNum, size) /\ DropRequest(ret) /\ UNCHANGED shm

\* mutant: the number is not counted up
RequestKeepsNumber(id, size, cb, ret) ==
  /\ id # INVALID_REQUESTID
  /\ FreeSlots # {}
  /\ gSeqNum' = gSeqNum
  /\ SendShortRequest(id, size, cb, ret) \/ SendLongRequest(id, size, cb, ret)

Request(id, size, cb, ret) ==
  /\ id # INVALID_REQUESTID
  /\ FreeSlots # {}
  /\ gSeqNum' = gSeqNum + 1
  /\ SendShortRequest(id, size, cb, ret) \/ SendLongRequest(id, size, cb, ret)

RequestRefused(id) == id = INVALID_REQUESTID \/ FreeSlots = {}

(* mq_send returns once the queue has room.                                 *)
MqSend ==
  /\ mpc = "send"
  /\ Enqueue(out.to, out.msg)
  /\ mpc' = out.ret
  /\ out' = NoOut
  /\ UNCHANGED <<requests, gSeqNum, mret, due, fate, shm>>
-----------------------------------------------------------------------------
(* The loop.  select() decides, before the key event's callbacks run,       *)
(* whether this turn reads an IPC message.                                  *)
AfterKeys == IF mq[TSKID_MGR] # <<>> THEN "ipc" ELSE "timers"

Select ==
  /\ mpc = "select"
  /\ mpc' = AfterKeys
  /\ UNCHANGED <<requests, gSeqNum, mret, due, out, fate, ipcVars>>

SelectKey ==
  /\ mpc = "select"
  /\ mpc' = "cb"
  /\ mret' = AfterKeys
  /\ UNCHANGED <<requests, gSeqNum, due, out, fate, ipcVars>>

(* A console request is sent on under a number of the manager's own.        *)
RelayRequest ==
  /\ mpc = "ipc"
  /\ Dequeue(TSKID_MGR)
  /\ LET m == Head(mq[TSKID_MGR]) IN
     /\ m.Type = MSG_TYPE_SHORT_REQUEST
     /\ \/ /\ gSeqNum <= MaxSeq      \* bound of the model
           /\ Request(m.RequestID, m.Size, "console", "timers")
        \/ /\ RequestRefused(m.RequestID)
           /\ mpc' = "timers"
           /\ UNCHANGED <<requests, gSeqNum, out, fate, shm>>
  /\ UNCHANGED <<mret, due>>

\* mutant: requests without a callback are skipped
MatchesWithCallback(k) ==
  {i \in Slots : requests[i].SeqNum = k /\ requests[i].pRespCb # "NULL"}

\* mutant: the number is not compared
MatchesAnyRequest(k) == UsedSlots

(* Every slot that holds the number is cleared, up to and including the     *)
(* first one with a callback.                                               *)
Matches(k) == {i \in Slots : requests[i].SeqNum = k}

Answered(k) ==
  {i \in Matches(k) : \A j \in Matches(k) : j < i => requests[j].pRespCb = "NULL"}

ProcessResponse(k) ==
  /\ Retire(Answered(k), "answered")
  /\ IF \E i \in Answered(k) : requests[i].pRespCb = "app"
     THEN mpc' = "cb" /\ mret' = "timers"
     ELSE mpc' = "timers" /\ UNCHANGED mret

(* The parameter SeqNum of both functions is a USHORT.                      *)
Truncated(s) == s % USHORT_SPAN

ProcessShortResponses ==
  /\ mpc = "ipc"
  /\ Dequeue(TSKID_MGR)
  /\ LET m == Head(mq[TSKID_MGR]) IN
     /\ m.Type = MSG_TYPE_SHORT_RESPONSE
     /\ ProcessResponse(Truncated(m.SeqNum))
  /\ UNCHANGED <<gSeqNum, due, out, shm>>

(* Key 0 is IPC_PRIVATE: shmget makes a new segment, removed right after.   *)
CanAttach(k, size) ==
  IF k = 0 THEN Cardinality(Segments) < SHMMNI
  ELSE shm[k] # NoSeg /\ size <= shm[k].size

ProcessLongResponses ==
  /\ mpc = "ipc"
  /\ Dequeue(TSKID_MGR)
  /\ LET m == Head(mq[TSKID_MGR])
         k == Truncated(m.SeqNum)
     IN
     /\ m.Type = MSG_TYPE_LONG_RESPONSE
     /\ \/ CanAttach(k, m.Size) /\ Remove(k) /\ ProcessResponse(k)
        \/ ~CanAttach(k, m.Size) /\ mpc' = "timers" /\ UNCHANGED <<requests, fate, mret, shm>>
  /\ UNCHANGED <<gSeqNum, due, out>>

(* Notifications run callbacks of the window; other types are dropped.      *)
ProcessOtherMessage ==
  /\ mpc = "ipc"
  /\ Dequeue(TSKID_MGR)
  /\ LET m == Head(mq[TSKID_MGR]) IN
     /\ m.Type \notin ResponseTypes \union {MSG_TYPE_SHORT_REQUEST}
     /\ IF m.Type = MSG_TYPE_SHORT_NOTIFY
        THEN mpc' = "cb" /\ mret' = "timers"
        ELSE mpc' = "timers" /\ UNCHANGED mret
  /\ UNCHANGED <<requests, gSeqNum, due, out, fate, shm>>

(* Callbacks of the timers that are due, or none.                           *)
ProcessTimers ==
  /\ mpc = "timers"
  /\ \/ mpc' = "clock" /\ UNCHANGED mret
     \/ mpc' = "cb" /\ mret' = "clock"
  /\ UNCHANGED <<requests, gSeqNum, due, out, fate, ipcVars>>

\* mutant: the sweep stops one slot early
ReadClockSkipsLast(expired) ==
  /\ mpc = "clock"
  /\ expired \subseteq UsedSlots \ {GUI_MAX_REQUESTS - 1}
  /\ CanTimeOut \/ expired = {}
  /\ due' = expired
  /\ mpc' = "timeouts"
  /\ UNCHANGED <<requests, gSeqNum, mret, out, fate, ipcVars>>

(* ProcessResponseTimeouts reads the clock once and then visits the slots   *)
(* in order: a slot filled during the sweep expires after that reading.     *)
ReadClock(expired) ==
  /\ mpc = "clock"
  /\ expired \subseteq UsedSlots
  /\ CanTimeOut \/ expired = {}
  /\ due' = expired
  /\ mpc' = "timeouts"
  /\ UNCHANGED <<requests, gSeqNum, mret, out, fate, ipcVars>>

TimeOutRequest ==
  /\ mpc = "timeouts"
  /\ \E i \in due :
       /\ First(i, due)
       /\ due' = due \ {i}
       /\ Retire({i}, "timedout")
       /\ IF requests[i].pRespCb = "app"
          THEN mpc' = "cb" /\ mret' = "timeouts"
          ELSE mpc' = "timeouts" /\ UNCHANGED mret
  /\ UNCHANGED <<gSeqNum, out, ipcVars>>

EndTimeouts ==
  /\ mpc = "timeouts"
  /\ due = {}
  /\ mpc' = "select"
  /\ UNCHANGED <<requests, gSeqNum, mret, due, out, fate, ipcVars>>
-----------------------------------------------------------------------------
(* Callbacks: any number of calls of Request() and LoadWindow(), then a     *)
(* return.  Requests stop when the numbers still free are as many as the    *)
(* console requests waiting to be sent on: a bound of the model.            *)
NumbersLeft ==
  MaxSeq + 1 - gSeqNum
    - Cardinality({n \in DOMAIN mq[TSKID_MGR] :
                     mq[TSKID_MGR][n].Type = MSG_TYPE_SHORT_REQUEST})

AppRequest ==
  /\ mpc = "cb"
  /\ NumbersLeft > 0
  /\ \E id \in AppRequestIds, size \in AppSizes, cb \in {"NULL", "app"} :
       Request(id, size, cb, "cb")
  /\ UNCHANGED <<mret, due, mq>>

(* LoadWindow() clears the tables.  A sweep under way then finds every slot *)
(* free, or filled later than its clock reading.                            *)
LoadWindow ==
  /\ mpc = "cb"
  /\ CanLoadWindow
  /\ Retire(UsedSlots, "cleared")
  /\ due' = {}
  /\ UNCHANGED <<gSeqNum, mpc, mret, out, ipcVars>>

CbReturn ==
  /\ mpc = "cb"
  /\ mpc' = mret
  /\ UNCHANGED <<requests, gSeqNum, mret, due, out, fate, ipcVars>>
-----------------------------------------------------------------------------
(* main() starts by loading the first window.                               *)
MgrInit ==
  /\ requests = [i \in Slots |-> Cleared]
  /\ gSeqNum = 1
  /\ mpc = "cb"
  /\ mret = "select"
  /\ due = {}
  /\ out = NoOut
  /\ fate = [s \in SeqNums |-> "none"]

MgrNext ==
  \/ Select \/ SelectKey
  \/ RelayRequest \/ ProcessShortResponses \/ ProcessLongResponses \/ ProcessOtherMessage
  \/ ProcessTimers
  \/ \E expired \in SUBSET Slots : ReadClock(expired)
  \/ TimeOutRequest \/ EndTimeouts
  \/ AppRequest \/ LoadWindow \/ CbReturn \/ MqSend

Places == {"select", "ipc", "timers", "clock", "timeouts", "cb", "send"}
Slot == [SeqNum : Numbers, RequestID : RequestIds, pRespCb : Callbacks]
Outcomes == {"answered", "timedout", "cleared", "refused"}
Fates == Outcomes \union {"none", "pending"}
Sending == [to : TaskIds, msg : Message, ret : Places \ {"send"}]

MgrTypeOK ==
  /\ requests \in [Slots -> Slot]
  /\ gSeqNum \in 1 .. MaxSeq + 1
  /\ mpc \in Places
  /\ mret \in Places \ {"cb", "send"}
  /\ due \subseteq Slots
  /\ out \in Sending
  /\ fate \in [SeqNums -> Fates]
=============================================================================
