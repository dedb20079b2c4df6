----------------------------- MODULE GuiSystem -----------------------------
(***************************************************************************)
(* The running system: the manager, the request servers and the debug       *)
(* console, over the queues and segments of Ipc.                            *)
(***************************************************************************)
EXTENDS MgrRequests, TaskServer

CONSTANTS
  ConsoleRequestIds,  \* ids typed at the debug console
  ConsoleSizes        \* sizes of the data typed with them

ASSUME ConsoleAssumption ==
  ConsoleRequestIds \subseteq RequestIds /\ ConsoleSizes \subseteq Nat

vars == <<ipcVars, mgrVars, taskVars>>
-----------------------------------------------------------------------------
(* dbgx: a "Request" line of the story becomes a FakeRequest.               *)
ConsoleRequest ==
  /\ NumbersLeft > 0      \* bound of the model
  /\ \E id \in ConsoleRequestIds, size \in ConsoleSizes : FakeRequest(id, size)
  /\ UNCHANGED <<shm, mgrVars, taskVars>>

MgrStep == MgrNext /\ UNCHANGED taskVars
ServerStep == TaskNext /\ UNCHANGED mgrVars

Init == IpcInit /\ MgrInit /\ TaskInit
Next == MgrStep \/ ServerStep \/ ConsoleRequest
Spec == Init /\ [][Next]_vars

TypeOK == IpcTypeOK /\ MgrTypeOK /\ TaskTypeOK

(* The manager's loop goes on while it is not blocked, and callbacks        *)
(* return; servers run until they die.  A sender blocked in mq_send is      *)
(* served in turn when its queue gets room (the kernel hands a free place   *)
(* to the sender that waits longest), and the clock reaches every deadline. *)
MgrMoves ==
  /\ \/ Select \/ RelayRequest \/ ProcessShortResponses \/ ProcessLongResponses
     \/ ProcessOtherMessage \/ ProcessTimers
     \/ \E expired \in SUBSET Slots : ReadClock(expired)
     \/ TimeOutRequest \/ EndTimeouts \/ CbReturn
  /\ UNCHANGED taskVars

Expires(i) ==
  /\ \E expired \in SUBSET Slots : i \in expired /\ ReadClock(expired)
  /\ UNCHANGED taskVars

Fairness ==
  /\ WF_vars(MgrMoves)
  /\ SF_vars(MqSend /\ UNCHANGED taskVars)
  /\ \A t \in Servers : /\ WF_vars(TaskStep(t) /\ UNCHANGED mgrVars)
                        /\ SF_vars(TaskMqSend(t) /\ UNCHANGED mgrVars)
  /\ \A i \in Slots : SF_vars(Expires(i))

FairSpec == Spec /\ Fairness
-----------------------------------------------------------------------------
(* What the properties speak of.                                            *)

\* where request number s or its answer is: in a queue, about to be sent, in a server's hands
Carriers(s) ==
  {p \in TaskIds \X (0 .. NUM_MAX_MESSAGES) :
     LET t == p[1]
         n == p[2]
     IN  \/ n \in DOMAIN mq[t] /\ mq[t][n].SeqNum = s
         \/ n = 0 /\ t \in Servers /\ hold[t].SeqNum = s
         \/ n = 0 /\ t = TSKID_MGR /\ out.msg.SeqNum = s}

Holder(s) == CHOOSE i \in Slots : requests[i].SeqNum = s
Target(s) == TSKID_FROM_REQID(requests[Holder(s)].RequestID)

MgrBlocked == mpc = "send" /\ ~CanSend(out.to)

\* messages of the queue of t whose request is no longer in the table
Abandoned(t) == {n \in DOMAIN mq[t] : mq[t][n].SeqNum \notin Pending}

\* no number has yet outgrown the USHORT that answers are matched with
NumbersFit == gSeqNum <= USHORT_SPAN

\* no window addresses a request to the manager itself
NothingToSelf == \A id \in AppRequestIds : TSKID_FROM_REQID(id) # TSKID_MGR

\* messages that are queued, being sent, or in the hands of a server, dead or alive
Messages ==
  (UNION {Queued(t) : t \in TaskIds}) \union {out.msg} \union {hold[t] : t \in Servers}
-----------------------------------------------------------------------------
(* Safety.                                                                  *)

(* The table holds exactly the requests without an outcome, each in one     *)
(* slot, whatever mix of answers, timeouts, window changes, refusals and    *)
(* calls from callbacks produced it (request.c).                            *)
OneSlotPerRequest ==
  /\ \A i \in UsedSlots : requests[i].SeqNum \in Pending
  /\ \A i, j \in UsedSlots : requests[i].SeqNum = requests[j].SeqNum => i = j
  /\ \A s \in Pending : \E i \in UsedSlots : requests[i].SeqNum = s

(* Its inductive form: a new number is unused, and a free slot holds number *)
(* 0, which no answer to a request carries.                                 *)
TableInv ==
  /\ OneSlotPerRequest
  /\ \A i \in FreeSlots : requests[i].SeqNum = 0
  /\ \A s \in SeqNums : s >= gSeqNum => fate[s] = "none"

(* A request has one outcome: an answer that comes after the timeout, a     *)
(* timeout after the answer, either after the window changed, finds nothing *)
(* to complete (ProcessShortResponses, ProcessResponseTimeouts).            *)
OutcomeIsFinal ==
  [][\A s \in SeqNums : fate[s] \notin {"none", "pending"} => fate'[s] = fate[s]]_vars

(* The requests of the manager, seen through their numbers alone.           *)
Service == INSTANCE RequestService WITH
  Numbers <- SeqNums, Capacity <- GUI_MAX_REQUESTS, next <- gSeqNum

(* The manager keeps the promise of RequestService: whatever servers,       *)
(* console, clock and callbacks do, a step ends one request, or clears all  *)
(* of the window's, or numbers one new request; the table never holds more  *)
(* than its slots (request.c, LoadWindow).                                  *)
KeepsRequestService == Service!Spec

(* The answer that completes a request carries that request's own number as *)
(* long as no number a whole USHORT further has been given out; only then   *)
(* can the answer to s + 65536, cut to a USHORT, find an old request s      *)
(* (ProcessShortResponses(USHORT SeqNum, ...)).                             *)
AnswerIsOwn ==
  [][\A s \in SeqNums :
       gSeqNum <= s + USHORT_SPAN /\ fate[s] = "pending" /\ fate'[s] = "answered"
         => Head(mq[TSKID_MGR]).SeqNum = s]_vars

(* A request is in one place at a time: no retry, relay or answer ever      *)
(* doubles it.                                                              *)
InFlightOnce == \A s \in SeqNums : Cardinality(Carriers(s)) <= 1

(* No answer is lost on the way: a request still in the table is in a queue,*)
(* in the manager's hand or in a server's (maybe a dead one's), except one  *)
(* the manager has addressed to itself.                                     *)
PendingIsInFlight ==
  NumbersFit => \A s \in Pending : Carriers(s) # {} \/ Target(s) = TSKID_MGR

(* The table is smaller than a queue, so the manager can only be blocked on *)
(* the queue of a server once that many requests in it are abandoned.       *)
BlockedMeansAbandoned ==
  MgrBlocked /\ out.to # TSKID_MGR
    => Cardinality(Abandoned(out.to)) > NUM_MAX_MESSAGES - GUI_MAX_REQUESTS

(* A message never reaches another task than the one its id names: the      *)
(* table of queues is indexed by the id's high byte (SendIpcMessage).       *)
RoutedToOwner ==
  \A t \in TaskIds \ {TSKID_MGR} :
    \A m \in Queued(t) : m.Type \in RequestTypes /\ TSKID_FROM_REQID(m.RequestID) = t

(* An answer on its way under the number of a pending request comes from    *)
(* the server that request is addressed to: whatever timed out, was cleared *)
(* or was sent from the slot since, no late answer of another request bears *)
(* its number, and one the manager addressed to itself, or to a task        *)
(* without a server, is never answered (request.c, task1.c, task2.c).       *)
OwnerAnswers ==
  /\ \A t \in Servers :
       tpc[t] = "send" /\ hold[t].SeqNum \in Pending => Target(hold[t].SeqNum) = t
  /\ \A m \in Queued(TSKID_MGR) :
       m.Type \in ResponseTypes /\ m.SeqNum \in Pending => Target(m.SeqNum) \in Servers

(* A long message finds the data its sender wrote: the request's in a       *)
(* server's queue, the answer's in the manager's.  Both use the same key.   *)
LongMessagesHaveTheirData ==
  NumbersFit =>
    \A t \in TaskIds : \A m \in Queued(t) : IsLong(m) =>
      shm[m.SeqNum] = [size |-> m.Size,
                       data |-> IF m.Type = MSG_TYPE_LONG_REQUEST THEN "req" ELSE "resp"]

(* A segment outlives its message only if sending was refused or a server   *)
(* died with the message in its hands; every other segment is freed.  (The  *)
(* manager drops a long request it has sent to itself, not its segment.)    *)
SegmentsAccounted ==
  NumbersFit /\ NothingToSelf =>
    \A k \in Segments :
      k \in SeqNums /\ (fate[k] = "refused" \/ \E m \in Messages : IsLong(m) /\ m.SeqNum = k)

-----------------------------------------------------------------------------
(* Liveness, under Fairness.                                                *)

(* Every request ends, unless the manager is blocked for good.              *)
EveryRequestEnds ==
  (\A s \in SeqNums : fate[s] = "pending" ~> fate[s] # "pending") \/ <>[]MgrBlocked

(* The manager is blocked for good only on a task that does not run, on     *)
(* itself, or on a server that is blocked on the manager.                   *)
StuckForACause ==
  <>[]MgrBlocked =>
    <>[](\/ out.to \notin Servers
         \/ out.to \in Servers /\ tpc[out.to] = "dead"
         \/ out.to \in Servers /\ tpc[out.to] = "send" /\ ~CanSend(TSKID_MGR))

(* req_id.h gives task 2 requests of its own: a running server takes the    *)
(* requests declared for it and goes on.                                    *)
DeclaredRequestServed ==
  [][\A t \in Servers :
       tpc[t] = "process" /\ hold[t].RequestID \in {TASK1_REQUEST1, TASK2_REQUEST1}
         => tpc'[t] # "dead"]_vars

(* With time and the window standing still, a request that task 1 knows and *)
(* has room for is answered.                                                *)
EveryRequestAnswered == \A s \in SeqNums : fate[s] = "pending" ~> fate[s] = "answered"
=============================================================================
