--------------------------- MODULE MessageProofs ---------------------------
(***************************************************************************)
(* Proofs about the messages of GuiSystem on their way, for every value of  *)
(* its constants: where the number of a request can be, and what its        *)
(* carrier, the table and the receiver have to do with each other; then, of *)
(* the time in which numbers fit a USHORT, what is stored in the shared     *)
(* memory segments and which message each belongs to.                       *)
(***************************************************************************)
EXTENDS GuiSystemProofs

(* Every place a message can be at: place 0 of a task is its hand (for the  *)
(* manager, the message it is sending), the others are those of its queue.  *)
Hand(t) == IF t = TSKID_MGR THEN out.msg ELSE IF t \in Servers THEN hold[t] ELSE NoMsg

At ==
  [t \in TaskIds |->
     [n \in Nat |-> IF n = 0 THEN Hand(t) ELSE IF n \in DOMAIN mq[t] THEN mq[t][n] ELSE NoMsg]]

LEMMA Tasks == TSKID_MGR \in TaskIds /\ Servers \subseteq TaskIds /\ TSKID_MGR \notin Servers
  BY TaskAssumption DEF TSKID_MGR, TaskIds, TSK_NUM

LEMMA HandType ==
  ASSUME TypeOK, NEW t \in TaskIds
  PROVE  Hand(t) \in Message
  BY NoMsgType DEF Hand, TypeOK, MgrTypeOK, TaskTypeOK, Sending

LEMMA AtIs ==
  /\ \A t \in TaskIds : At[t][0] = Hand(t)
  /\ \A t \in TaskIds, n \in Nat \ {0} : At[t][n] = IF n \in DOMAIN mq[t] THEN mq[t][n] ELSE NoMsg
  /\ \A t \in TaskIds : At'[t][0] = Hand(t)'
  /\ \A t \in TaskIds, n \in Nat \ {0} :
       At'[t][n] = IF n \in DOMAIN mq'[t] THEN mq'[t][n] ELSE NoMsg
  BY DEF At

LEMMA AtType ==
  ASSUME TypeOK
  PROVE  \A t \in TaskIds, n \in Nat : At[t][n] \in Message
  <1> SUFFICES ASSUME NEW t \in TaskIds, NEW n \in Nat PROVE At[t][n] \in Message
    OBVIOUS
  <1>1. mq[t] \in Seq(Message)
    BY DEF TypeOK, IpcTypeOK
  <1>2. n \in DOMAIN mq[t] => mq[t][n] \in Message
    BY <1>1
  <1> QED
    BY <1>2, AtIs, HandType, NoMsgType

(* What the queue operators do to the places.                               *)
LEMMA AtEnqueue ==
  ASSUME IpcTypeOK, NEW t \in TaskIds, NEW m \in Message, Enqueue(t, m)
  PROVE  /\ Len(mq[t]) \in Nat
         /\ \A u \in TaskIds, n \in Nat \ {0} :
              At'[u][n] = IF u = t /\ n = Len(mq[t]) + 1 THEN m ELSE At[u][n]
         /\ At[t][Len(mq[t]) + 1] = NoMsg
  <1>1. mq \in [TaskIds -> Seq(Message)]
    BY DEF IpcTypeOK
  <1>2. mq' = [mq EXCEPT ![t] = Append(mq[t], m)]
    BY DEF Enqueue
  <1> DEFINE q == mq[t]
             r == Append(q, m)
  <1>3. q \in Seq(Message) /\ mq'[t] = r
    BY <1>1, <1>2
  <1>4. /\ Len(q) \in Nat /\ DOMAIN q = 1 .. Len(q) /\ DOMAIN r = 1 .. Len(q) + 1
        /\ r[Len(q) + 1] = m /\ \A n \in 1 .. Len(q) : r[n] = q[n]
    <2> HIDE DEF q
    <2> QED
      BY <1>3
  <1>5. \A u \in TaskIds \ {t} : mq'[u] = mq[u]
    BY <1>1, <1>2
  <1> HIDE DEF q, r
  <1>6. \A n \in Nat \ {0} : At'[t][n] = IF n = Len(q) + 1 THEN m ELSE At[t][n]
    <2>1. \A n \in Nat \ {0} : At'[t][n] = IF n \in DOMAIN r THEN r[n] ELSE NoMsg
      BY <1>3, AtIs
    <2>2. \A n \in Nat \ {0} : At[t][n] = IF n \in DOMAIN q THEN q[n] ELSE NoMsg
      BY AtIs DEF q
    <2> QED
      BY <1>4, <2>1, <2>2
  <1>7. \A u \in TaskIds \ {t}, n \in Nat \ {0} : At'[u][n] = At[u][n]
    BY <1>5, AtIs
  <1>8. At[t][Len(q) + 1] = NoMsg
    <2>1. Len(q) + 1 \in Nat \ {0} /\ Len(q) + 1 \notin DOMAIN q
      BY <1>4
    <2> QED
      BY <2>1, AtIs DEF q
  <1> QED
    BY <1>4, <1>6, <1>7, <1>8 DEF q

LEMMA AtDequeue ==
  ASSUME IpcTypeOK, NEW t \in TaskIds, Dequeue(t)
  PROVE  /\ \A u \in TaskIds, n \in Nat \ {0} :
              At'[u][n] = IF u = t THEN At[t][n + 1] ELSE At[u][n]
         /\ At[t][1] = Head(mq[t])
  <1>1. mq \in [TaskIds -> Seq(Message)]
    BY DEF IpcTypeOK
  <1>2. mq' = [mq EXCEPT ![t] = Tail(mq[t])] /\ mq[t] # <<>>
    BY DEF Dequeue
  <1> DEFINE q == mq[t]
             r == Tail(q)
  <1>3. q \in Seq(Message) /\ q # <<>> /\ mq'[t] = r
    BY <1>1, <1>2
  <1>4. /\ Len(q) \in Nat \ {0} /\ DOMAIN q = 1 .. Len(q) /\ DOMAIN r = 1 .. Len(q) - 1
        /\ \A n \in 1 .. Len(q) - 1 : r[n] = q[n + 1]
        /\ Head(q) = q[1]
    <2> HIDE DEF q
    <2> QED
      BY <1>3
  <1>5. \A u \in TaskIds \ {t} : mq'[u] = mq[u]
    BY <1>1, <1>2
  <1> HIDE DEF q, r
  <1>6. \A n \in Nat \ {0} : At'[t][n] = At[t][n + 1]
    <2>1. \A n \in Nat \ {0} : At'[t][n] = IF n \in DOMAIN r THEN r[n] ELSE NoMsg
      BY <1>3, AtIs
    <2>2. \A n \in Nat \ {0} : At[t][n] = IF n \in DOMAIN q THEN q[n] ELSE NoMsg
      BY AtIs DEF q
    <2> QED
      BY <1>4, <2>1, <2>2
  <1>7. \A u \in TaskIds \ {t}, n \in Nat \ {0} : At'[u][n] = At[u][n]
    BY <1>5, AtIs
  <1>8. At[t][1] = Head(q)
    BY <1>4, AtIs DEF q
  <1> QED
    BY <1>6, <1>7, <1>8 DEF q

LEMMA AtSameQueues ==
  ASSUME UNCHANGED mq
  PROVE  \A u \in TaskIds, n \in Nat \ {0} : At'[u][n] = At[u][n]
  BY AtIs
-----------------------------------------------------------------------------
(* The invariant.  Numbers at places were given out, and no request's       *)
(* number is at two places.                                                 *)
Numbered == \A t \in TaskIds, n \in Nat : At[t][n].SeqNum < gSeqNum

Unique ==
  \A t, u \in TaskIds : \A n, k \in Nat :
    At[t][n].SeqNum = At[u][k].SeqNum /\ At[t][n].SeqNum # 0 => t = u /\ n = k

(* What a message can be, depending on its place: only short requests of    *)
(* the console have number 0, and a numbered request in the manager's queue *)
(* is one the manager has sent itself.                                      *)
Fits(t, n, m) ==
  /\ m.SeqNum # 0 => m.Type \in RequestTypes \union ResponseTypes
  /\ m.Type \in ResponseTypes \union {MSG_TYPE_LONG_REQUEST} => m.SeqNum # 0
  /\ m.Type \in RequestTypes /\ t # TSKID_MGR => m.SeqNum # 0
  /\ m.Type = MSG_TYPE_SHORT_REQUEST => FitsQueue(m.Size)
  /\ m.Type \in RequestTypes /\ m.SeqNum # 0 /\ t = TSKID_MGR /\ n # 0
       => TSKID_FROM_REQID(m.RequestID) = TSKID_MGR
  /\ NothingToSelf /\ m.Type = MSG_TYPE_LONG_REQUEST
       => TSKID_FROM_REQID(m.RequestID) # TSKID_MGR

Kinds == \A t \in TaskIds, n \in Nat : Fits(t, n, At[t][n])

(* A message under the number of a slot is that slot's request, or an       *)
(* answer to it, and only requests addressed to servers are answered.       *)
Matching(m, r) ==
  \/ m.Type \in RequestTypes /\ r.RequestID = m.RequestID
  \/ m.Type \in ResponseTypes /\ TSKID_FROM_REQID(r.RequestID) \in Servers

Own ==
  \A t \in TaskIds, n \in Nat, i \in Slots :
    At[t][n].SeqNum # 0 /\ requests[i].SeqNum = At[t][n].SeqNum
      => Matching(At[t][n], requests[i])

(* What the manager is sending is a request in its table; what a server     *)
(* holds fits the point it is at.                                           *)
Hands ==
  /\ mpc # "send" => out = NoOut
  /\ mpc = "send" =>
       /\ out.msg.Type \in RequestTypes
       /\ out.to = TSKID_FROM_REQID(out.msg.RequestID)
       /\ out.msg.SeqNum # 0
       /\ \E i \in Slots : requests[i].SeqNum = out.msg.SeqNum
  /\ \A t \in Servers :
       /\ tpc[t] = "wait" => hold[t] = NoMsg
       /\ tpc[t] = "process" => Routed(t, hold[t])
       /\ tpc[t] = "send" => hold[t].Type \in ResponseTypes

FlightInv == Numbered /\ Unique /\ Kinds /\ Own /\ Hands

LEMMA InitFlight == Init => FlightInv
  <1> SUFFICES ASSUME Init PROVE FlightInv
    OBVIOUS
  <1>1. \A t \in TaskIds, n \in Nat : At[t][n] = NoMsg
    BY DEF At, Hand, Init, IpcInit, MgrInit, TaskInit, NoOut
  <1>2. Numbered /\ Unique /\ Kinds /\ Own
    BY <1>1 DEF Numbered, Unique, Kinds, Own, Fits, NoMsg, Init, MgrInit, RequestTypes,
       ResponseTypes, MSG_TYPE_SHORT_REQUEST, MSG_TYPE_LONG_REQUEST,
       MSG_TYPE_SHORT_RESPONSE, MSG_TYPE_LONG_RESPONSE
  <1>3. Hands
    BY DEF Hands, Init, MgrInit, TaskInit
  <1> QED
    BY <1>2, <1>3 DEF FlightInv
-----------------------------------------------------------------------------
(* How a step moves messages.                                               *)

\* every message was somewhere before
NoneNew ==
  \A t \in TaskIds, n \in Nat :
    At'[t][n].SeqNum = 0 \/ \E u \in TaskIds, k \in Nat : At'[t][n] = At[u][k]

\* the table only loses requests
NoneAdded == \A i \in Slots : requests'[i] = requests[i] \/ requests'[i].SeqNum = 0

\* the manager reads d messages of its queue, none or one
MgrReads(d) ==
  \A u \in TaskIds, n \in Nat :
    At'[u][n] = IF u = TSKID_MGR /\ n # 0 THEN At[u][n + d] ELSE At[u][n]

\* and has then message m in its hand
MgrPosts(d, m) ==
  \A u \in TaskIds, n \in Nat :
    At'[u][n] = IF u = TSKID_MGR
                THEN IF n = 0 THEN m ELSE At[u][n + d]
                ELSE At[u][n]

\* task t takes a message from its queue; t answers what it holds; t sends
Takes(t) ==
  \A u \in TaskIds, n \in Nat : At'[u][n] = IF u = t THEN At[u][n + 1] ELSE At[u][n]

Answers(t, m) ==
  \A u \in TaskIds, n \in Nat : At'[u][n] = IF u = t /\ n = 0 THEN m ELSE At[u][n]

Sends(t, to) ==
  \E k \in Nat \ {0} :
    /\ At[to][k] = NoMsg
    /\ \A u \in TaskIds, n \in Nat :
         At'[u][n] = IF u = to /\ n = k THEN At[t][0]
                     ELSE IF u = t /\ n = 0 THEN NoMsg ELSE At[u][n]

LEMMA NoneNewKeeps ==
  ASSUME TypeOK, Numbered, Own, NoneNew, NoneAdded, gSeqNum <= gSeqNum', gSeqNum' \in Nat
  PROVE  Numbered' /\ Own'
  <1>1. Numbered'
    <2> SUFFICES ASSUME NEW t \in TaskIds, NEW n \in Nat PROVE At'[t][n].SeqNum < gSeqNum'
      BY DEF Numbered
    <2>1. gSeqNum \in Nat \ {0}
      BY DEF TypeOK, MgrTypeOK
    <2>2. CASE At'[t][n].SeqNum = 0
      BY <2>1, <2>2
    <2>3. CASE \E u \in TaskIds, k \in Nat : At'[t][n] = At[u][k]
      <3>1. PICK u \in TaskIds, k \in Nat : At'[t][n] = At[u][k]
        BY <2>3
      <3>2. At[u][k].SeqNum \in Nat /\ At[u][k].SeqNum < gSeqNum
        BY AtType DEF Numbered, Message, Numbers
      <3> QED
        BY <2>1, <3>1, <3>2
    <2> QED
      BY <2>2, <2>3 DEF NoneNew
  <1>2. Own'
    <2> SUFFICES ASSUME NEW t \in TaskIds, NEW n \in Nat, NEW i \in Slots,
                        At'[t][n].SeqNum # 0, requests'[i].SeqNum = At'[t][n].SeqNum
                 PROVE  Matching(At'[t][n], requests'[i])
      BY DEF Own, Matching
    <2>1. PICK u \in TaskIds, k \in Nat : At'[t][n] = At[u][k]
      BY DEF NoneNew
    <2>2. requests'[i] = requests[i]
      BY DEF NoneAdded
    <2> QED
      BY <2>1, <2>2 DEF Own
  <1> QED
    BY <1>1, <1>2

LEMMA ReadKeeps ==
  ASSUME Unique, Kinds, NEW d \in {0, 1}, MgrReads(d)
  PROVE  NoneNew /\ Unique' /\ Kinds'
  <1> DEFINE from(u, n) == IF u = TSKID_MGR /\ n # 0 THEN n + d ELSE n
  <1>1. \A u \in TaskIds, n \in Nat :
          from(u, n) \in Nat /\ (from(u, n) = 0 <=> n = 0) /\ At'[u][n] = At[u][from(u, n)]
    BY DEF MgrReads
  <1>2. \A u \in TaskIds, n, k \in Nat : from(u, n) = from(u, k) => n = k
    OBVIOUS
  <1> HIDE DEF from
  <1>3. ASSUME NEW u \in TaskIds, NEW v \in TaskIds, NEW n \in Nat, NEW k \in Nat,
               At'[u][n].SeqNum = At'[v][k].SeqNum, At'[u][n].SeqNum # 0
        PROVE  u = v /\ n = k
    <2>1. from(u, n) \in Nat /\ At'[u][n] = At[u][from(u, n)]
      BY <1>1
    <2>2. from(v, k) \in Nat /\ At'[v][k] = At[v][from(v, k)]
      BY <1>1
    <2>3. u = v /\ from(u, n) = from(v, k)
      BY <1>3, <2>1, <2>2 DEF Unique
    <2> QED
      BY <1>2, <2>3
  <1>4. Kinds'
    BY <1>1 DEF Kinds, Fits
  <1> QED
    <2>1. NoneNew
      BY <1>1 DEF NoneNew
    <2>2. Unique'
      BY <1>3 DEF Unique
    <2> QED
      BY <1>4, <2>1, <2>2

LEMMA TakeKeeps ==
  ASSUME Unique, Kinds, NEW t \in TaskIds \ {TSKID_MGR}, Takes(t)
  PROVE  NoneNew /\ Unique' /\ Kinds'
  <1> DEFINE from(u, n) == IF u = t THEN n + 1 ELSE n
  <1>1. \A u \in TaskIds, n \in Nat :
          from(u, n) \in Nat /\ At'[u][n] = At[u][from(u, n)]
    BY DEF Takes
  <1>2. \A u \in TaskIds, n, k \in Nat : from(u, n) = from(u, k) => n = k
    OBVIOUS
  <1>3. \A n \in Nat : from(TSKID_MGR, n) = n
    OBVIOUS
  <1> HIDE DEF from
  <1>4. ASSUME NEW u \in TaskIds, NEW v \in TaskIds, NEW n \in Nat, NEW k \in Nat,
               At'[u][n].SeqNum = At'[v][k].SeqNum, At'[u][n].SeqNum # 0
        PROVE  u = v /\ n = k
    <2>1. from(u, n) \in Nat /\ At'[u][n] = At[u][from(u, n)]
      BY <1>1
    <2>2. from(v, k) \in Nat /\ At'[v][k] = At[v][from(v, k)]
      BY <1>1
    <2>3. u = v /\ from(u, n) = from(v, k)
      BY <1>4, <2>1, <2>2 DEF Unique
    <2> QED
      BY <1>2, <2>3
  <1>5. Kinds'
    BY <1>1, <1>3, SMTT(30) DEF Kinds, Fits
  <1> QED
    <2>1. NoneNew
      BY <1>1 DEF NoneNew
    <2>2. Unique'
      BY <1>4 DEF Unique
    <2> QED
      BY <1>5, <2>1, <2>2

LEMMA SendKeeps ==
  ASSUME Unique, Kinds, NEW t \in TaskIds, NEW to \in TaskIds, Sends(t, to),
         \A k \in Nat \ {0} : Fits(to, k, At[t][0])
  PROVE  NoneNew /\ Unique' /\ Kinds'
  <1>1. PICK k \in Nat \ {0} :
           /\ At[to][k] = NoMsg
           /\ \A u \in TaskIds, n \in Nat :
                At'[u][n] = IF u = to /\ n = k THEN At[t][0]
                            ELSE IF u = t /\ n = 0 THEN NoMsg ELSE At[u][n]
    BY DEF Sends
  <1>2. NoMsg.SeqNum = 0 /\ \A u \in TaskIds, n \in Nat : Fits(u, n, NoMsg)
    BY DEF NoMsg, Fits, RequestTypes, ResponseTypes, MSG_TYPE_SHORT_REQUEST,
       MSG_TYPE_LONG_REQUEST, MSG_TYPE_SHORT_RESPONSE, MSG_TYPE_LONG_RESPONSE
  <1>3. Unique'
    BY <1>1, <1>2 DEF Unique
  <1>4. Kinds'
    <2>1. \A u \in TaskIds, n \in Nat : Fits(u, n, At'[u][n])
      BY <1>1, <1>2 DEF Kinds
    <2> QED
      BY <2>1 DEF Kinds, Fits
  <1>5. NoneNew
    BY <1>1, <1>2 DEF NoneNew
  <1> QED
    BY <1>3, <1>4, <1>5

LEMMA PostKeeps ==
  ASSUME TypeOK, Numbered, Unique, Kinds, At[TSKID_MGR][0].SeqNum = 0,
         NEW d \in {0, 1}, NEW m, MgrPosts(d, m), m.SeqNum = gSeqNum,
         gSeqNum' = gSeqNum + 1, Fits(TSKID_MGR, 0, m)
  PROVE  Numbered' /\ Unique' /\ Kinds'
  <1> DEFINE from(u, n) == IF u = TSKID_MGR /\ n # 0 THEN n + d ELSE n
             new(u, n) == u = TSKID_MGR /\ n = 0
  <1>1. \A u \in TaskIds, n \in Nat :
          /\ from(u, n) \in Nat
          /\ from(u, n) = 0 <=> n = 0
          /\ new(u, n) => At'[u][n] = m
          /\ ~ new(u, n) => At'[u][n] = At[u][from(u, n)]
    BY DEF MgrPosts
  <1>2. \A u \in TaskIds, n, k \in Nat : from(u, n) = from(u, k) => n = k
    OBVIOUS
  <1>3. gSeqNum \in Nat
    BY DEF TypeOK, MgrTypeOK
  <1>4. \A u \in TaskIds, n \in Nat : At[u][n].SeqNum \in Nat /\ At[u][n].SeqNum < gSeqNum
    BY AtType DEF Numbered, Message, Numbers
  <1> HIDE DEF from
  <1>5. Numbered'
    BY <1>1, <1>3, <1>4 DEF Numbered
  <1>6. Unique'
    <2> SUFFICES ASSUME NEW u \in TaskIds, NEW v \in TaskIds, NEW n \in Nat, NEW k \in Nat,
                        At'[u][n].SeqNum = At'[v][k].SeqNum, At'[u][n].SeqNum # 0
                 PROVE  u = v /\ n = k
      BY DEF Unique
    <2>1. new(u, n) <=> new(v, k)
      BY <1>1, <1>3, <1>4, SMTT(30)
    <2>2. CASE ~ new(u, n)
      <3>1. from(u, n) \in Nat /\ At'[u][n] = At[u][from(u, n)]
        BY <1>1, <2>2
      <3>2. from(v, k) \in Nat /\ At'[v][k] = At[v][from(v, k)]
        BY <1>1, <2>1, <2>2
      <3>3. u = v /\ from(u, n) = from(v, k)
        BY <3>1, <3>2 DEF Unique
      <3> QED
        BY <1>2, <3>3
    <2> QED
      BY <2>1, <2>2
  <1>7. Kinds'
    <2>1. \A u \in TaskIds, n \in Nat : Fits(u, n, At'[u][n])
      BY <1>1 DEF Kinds, Fits
    <2> QED
      BY <2>1 DEF Kinds, Fits
  <1> QED
    BY <1>5, <1>6, <1>7

LEMMA AnswerKeeps ==
  ASSUME Numbered, Unique, Kinds, UNCHANGED gSeqNum, NEW t \in TaskIds, NEW m,
         Answers(t, m), m.SeqNum = At[t][0].SeqNum, Fits(t, 0, m)
  PROVE  Numbered' /\ Unique' /\ Kinds'
  <1>1. \A u \in TaskIds, n \in Nat : At'[u][n].SeqNum = At[u][n].SeqNum
    BY DEF Answers
  <1>2. \A u \in TaskIds, n \in Nat : Fits(u, n, At'[u][n])
    BY DEF Answers, Kinds
  <1> QED
    BY <1>1, <1>2 DEF Numbered, Unique, Kinds, Fits
-----------------------------------------------------------------------------
(* Which of these each action is.                                           *)
LEMMA SlotNumbers ==
  ASSUME MgrTypeOK, TableInv
  PROVE  \A i \in Slots : requests[i].SeqNum \in Nat /\ requests[i].SeqNum < gSeqNum
  <1> SUFFICES ASSUME NEW i \in Slots
               PROVE  requests[i].SeqNum \in Nat /\ requests[i].SeqNum < gSeqNum
    OBVIOUS
  <1>1. gSeqNum \in Nat \ {0} /\ requests[i].SeqNum \in Numbers
    BY DEF MgrTypeOK, Slot
  <1>2. CASE i \in FreeSlots
    BY <1>1, <1>2 DEF TableInv
  <1>3. CASE i \in UsedSlots
    <2>1. requests[i].SeqNum \in SeqNums /\ fate[requests[i].SeqNum] = "pending"
      BY <1>3 DEF TableInv, OneSlotPerRequest, Pending
    <2> QED
      BY <1>1, <2>1 DEF TableInv, SeqNums
  <1> QED
    BY <1>2, <1>3 DEF UsedSlots

LEMMA Reading ==
  ASSUME IpcTypeOK, UNCHANGED hold
  PROVE  /\ UNCHANGED <<mq, out>> => MgrReads(0)
         /\ Dequeue(TSKID_MGR) /\ UNCHANGED out => MgrReads(1)
         /\ UNCHANGED mq => MgrPosts(0, out'.msg)
         /\ Dequeue(TSKID_MGR) => MgrPosts(1, out'.msg)
         /\ Dequeue(TSKID_MGR) => At[TSKID_MGR][1] = Head(mq[TSKID_MGR])
  <1>1. /\ At'[TSKID_MGR][0] = out'.msg /\ At[TSKID_MGR][0] = out.msg
        /\ \A u \in TaskIds \ {TSKID_MGR} : At'[u][0] = At[u][0]
    BY AtIs, Tasks DEF Hand
  <1>2. ASSUME UNCHANGED mq
        PROVE  MgrPosts(0, out'.msg) /\ (UNCHANGED out => MgrReads(0))
    <2>1. \A u \in TaskIds, n \in Nat \ {0} : At'[u][n] = At[u][n]
      BY <1>2, AtSameQueues
    <2> QED
      BY <1>1, <2>1, Tasks DEF MgrReads, MgrPosts
  <1>3. ASSUME Dequeue(TSKID_MGR)
        PROVE  /\ MgrPosts(1, out'.msg) /\ (UNCHANGED out => MgrReads(1))
               /\ At[TSKID_MGR][1] = Head(mq[TSKID_MGR])
    <2>1. /\ \A u \in TaskIds, n \in Nat \ {0} :
               At'[u][n] = IF u = TSKID_MGR THEN At[TSKID_MGR][n + 1] ELSE At[u][n]
          /\ At[TSKID_MGR][1] = Head(mq[TSKID_MGR])
      BY <1>3, AtDequeue, Tasks
    <2> QED
      BY <1>1, <2>1, Tasks DEF MgrReads, MgrPosts
  <1> QED
    BY <1>2, <1>3

LEMMA Retiring ==
  ASSUME MgrTypeOK, NEW S, NEW why, Retire(S, why)
  PROVE  NoneAdded
  BY DEF Retire, NoneAdded, Cleared

\* a step of the manager that sends nothing
LEMMA QuietMgr ==
  ASSUME TypeOK, FlightInv, NoneAdded, gSeqNum <= gSeqNum', gSeqNum' \in Nat,
         mpc # "send", mpc' # "send", UNCHANGED <<out, tpc, hold>>,
         UNCHANGED mq \/ Dequeue(TSKID_MGR)
  PROVE  FlightInv'
  <1>1. PICK d \in {0, 1} : MgrReads(d)
    BY Reading DEF TypeOK
  <1>2. NoneNew /\ Unique' /\ Kinds'
    BY <1>1, ReadKeeps DEF FlightInv
  <1>3. Numbered' /\ Own'
    BY <1>2, NoneNewKeeps DEF FlightInv
  <1>4. Hands'
    BY DEF FlightInv, Hands
  <1> QED
    BY <1>2, <1>3, <1>4 DEF FlightInv

LEMMA RequestFits ==
  ASSUME NEW seq, NEW id, NEW size, seq # 0,
         NothingToSelf /\ ~ FitsQueue(size) => TSKID_FROM_REQID(id) # TSKID_MGR
  PROVE  /\ Fits(TSKID_MGR, 0, RequestMsg(seq, id, size))
         /\ RequestMsg(seq, id, size).SeqNum = seq
         /\ RequestMsg(seq, id, size).RequestID = id
         /\ RequestMsg(seq, id, size).Type \in RequestTypes
  BY DEF Fits, RequestMsg, RequestTypes, ResponseTypes, MSG_TYPE_SHORT_REQUEST,
     MSG_TYPE_LONG_REQUEST, MSG_TYPE_SHORT_RESPONSE, MSG_TYPE_LONG_RESPONSE

LEMMA PostFlight ==
  ASSUME TypeOK, TableInv, FlightInv, gSeqNum <= MaxSeq, mpc # "send",
         gSeqNum' = gSeqNum + 1, UNCHANGED <<tpc, hold>>,
         UNCHANGED mq \/ Dequeue(TSKID_MGR),
         NEW id, NEW size, NEW cb, NEW ret, PostRequest(id, size, cb, ret),
         NothingToSelf /\ ~ FitsQueue(size) => TSKID_FROM_REQID(id) # TSKID_MGR
  PROVE  FlightInv'
  <1> DEFINE m == RequestMsg(gSeqNum, id, size)
  <1>1. gSeqNum \in Nat \ {0} /\ gSeqNum' \in Nat
    BY DEF TypeOK, MgrTypeOK
  <1>2. /\ Fits(TSKID_MGR, 0, m) /\ m.SeqNum = gSeqNum /\ m.RequestID = id
        /\ m.Type \in RequestTypes
    BY <1>1, RequestFits
  <1>3. out'.msg = m /\ out'.to = TSKID_FROM_REQID(id) /\ mpc' = "send"
    BY DEF PostRequest
  <1> HIDE DEF m
  <1>4. PICK d \in {0, 1} : MgrPosts(d, m)
    BY <1>3, Reading DEF TypeOK
  <1>5. At[TSKID_MGR][0].SeqNum = 0
    BY AtIs, Tasks DEF FlightInv, Hands, Hand, NoOut, NoMsg
  <1>6. Numbered' /\ Unique' /\ Kinds'
    BY <1>2, <1>4, <1>5, PostKeeps DEF FlightInv
  <1>7. PICK slot \in Slots :
           requests' = [requests EXCEPT ![slot] =
                         [SeqNum |-> gSeqNum, RequestID |-> id, pRespCb |-> cb]]
    BY DEF PostRequest
  <1>8. /\ requests'[slot].SeqNum = gSeqNum /\ requests'[slot].RequestID = id
        /\ \A i \in Slots \ {slot} : requests'[i] = requests[i]
    BY <1>7 DEF TypeOK, MgrTypeOK
  <1>9. Own'
    <2> SUFFICES ASSUME NEW t \in TaskIds, NEW n \in Nat, NEW i \in Slots,
                        At'[t][n].SeqNum # 0, requests'[i].SeqNum = At'[t][n].SeqNum
                 PROVE  Matching(At'[t][n], requests'[i])
      BY DEF Own, Matching
    <2>1. CASE t = TSKID_MGR /\ n = 0
      <3>1. At'[t][n] = m /\ i = slot
        BY <1>1, <1>2, <1>4, <1>8, <2>1, SlotNumbers DEF MgrPosts, TypeOK
      <3> QED
        BY <1>2, <1>8, <3>1 DEF Matching
    <2>2. CASE ~ (t = TSKID_MGR /\ n = 0)
      <3>1. PICK k \in Nat : At'[t][n] = At[t][k]
        BY <1>4, <2>2 DEF MgrPosts
      <3>2. At[t][k].SeqNum < gSeqNum /\ At[t][k].SeqNum \in Nat
        BY AtType DEF FlightInv, Numbered, Message, Numbers
      <3>3. requests'[i] = requests[i]
        BY <1>1, <1>8, <3>1, <3>2
      <3> QED
        BY <3>1, <3>3 DEF FlightInv, Own
    <2> QED
      BY <2>1, <2>2
  <1>10. Hands'
    BY <1>1, <1>2, <1>3, <1>8 DEF FlightInv, Hands
  <1> QED
    BY <1>6, <1>9, <1>10 DEF FlightInv

LEMMA RequestFlight ==
  ASSUME TypeOK, TableInv, FlightInv, gSeqNum <= MaxSeq, mpc # "send",
         UNCHANGED <<tpc, hold>>, UNCHANGED mq \/ Dequeue(TSKID_MGR),
         NEW id, NEW size, NEW cb, NEW ret, ret # "send", Request(id, size, cb, ret),
         NothingToSelf /\ ~ FitsQueue(size) => TSKID_FROM_REQID(id) # TSKID_MGR
  PROVE  FlightInv'
  <1>1. gSeqNum \in Nat /\ gSeqNum' = gSeqNum + 1
    BY DEF Request, TypeOK, MgrTypeOK
  <1>2. CASE PostRequest(id, size, cb, ret)
    BY <1>1, <1>2, PostFlight
  <1>3. CASE DropRequest(ret)
    <2>1. NoneAdded
      BY <1>3 DEF DropRequest, NoneAdded
    <2> QED
      BY <1>1, <1>3, <2>1, QuietMgr DEF DropRequest
  <1> QED
    BY <1>2, <1>3 DEF Request, SendShortRequest, SendLongRequest

LEMMA Transfer ==
  ASSUME TypeOK, NEW t \in TaskIds, NEW to \in TaskIds, Enqueue(to, Hand(t)),
         Hand(t)' = NoMsg, \A u \in TaskIds \ {t} : Hand(u)' = Hand(u)
  PROVE  Sends(t, to)
  <1> DEFINE k == Len(mq[to]) + 1
  <1>1. Hand(t) \in Message /\ At[t][0] = Hand(t)
    BY HandType, AtIs
  <1>2. /\ k \in Nat \ {0} /\ At[to][k] = NoMsg
        /\ \A u \in TaskIds, n \in Nat \ {0} :
             At'[u][n] = IF u = to /\ n = k THEN Hand(t) ELSE At[u][n]
    BY <1>1, AtEnqueue DEF TypeOK
  <1>3. \A u \in TaskIds : At'[u][0] = IF u = t THEN NoMsg ELSE At[u][0]
    BY AtIs
  <1> HIDE DEF k
  <1>4. \A u \in TaskIds, n \in Nat :
          At'[u][n] = IF u = to /\ n = k THEN At[t][0]
                      ELSE IF u = t /\ n = 0 THEN NoMsg ELSE At[u][n]
    BY <1>1, <1>2, <1>3
  <1> QED
    BY <1>2, <1>4 DEF Sends

LEMMA MqSendFlight ==
  ASSUME TypeOK, FlightInv, MqSend, UNCHANGED <<tpc, hold>>
  PROVE  FlightInv'
  <1>1. out.to \in TaskIds /\ mpc = "send" /\ mpc' # "send" /\ out' = NoOut
    BY DEF TypeOK, MgrTypeOK, Sending, MqSend
  <1>2. At[TSKID_MGR][0] = out.msg
    BY AtIs, Tasks DEF Hand
  <1>3. Sends(TSKID_MGR, out.to)
    BY <1>1, Transfer, Tasks DEF MqSend, Hand, NoOut
  <1>4. \A k \in Nat \ {0} : Fits(out.to, k, out.msg)
    <2>1. Fits(TSKID_MGR, 0, out.msg)
      BY <1>2, Tasks DEF FlightInv, Kinds
    <2> QED
      BY <1>1, <2>1 DEF FlightInv, Hands, Fits
  <1>5. NoneNew /\ Unique' /\ Kinds'
    BY <1>1, <1>2, <1>3, <1>4, SendKeeps, Tasks DEF FlightInv
  <1>6. Numbered' /\ Own'
    BY <1>5, NoneNewKeeps DEF FlightInv, MqSend, NoneAdded, TypeOK, MgrTypeOK
  <1>7. Hands'
    BY <1>1 DEF FlightInv, Hands
  <1> QED
    BY <1>5, <1>6, <1>7 DEF FlightInv

LEMMA MgrStepFlight ==
  ASSUME TypeOK, TableInv, FlightInv, MgrNext, UNCHANGED taskVars
  PROVE  FlightInv'
  <1> UNCHANGED <<tpc, hold>> /\ gSeqNum \in Nat
    BY DEF taskVars, TypeOK, MgrTypeOK
  <1>1. CASE \/ Select \/ SelectKey \/ ProcessTimers \/ EndTimeouts \/ CbReturn
             \/ \E expired \in SUBSET Slots : ReadClock(expired)
    BY <1>1, QuietMgr DEF Select, SelectKey, ProcessTimers, EndTimeouts, CbReturn, ReadClock,
       AfterKeys, ipcVars, NoneAdded, TypeOK, MgrTypeOK
  <1>2. CASE RelayRequest
    <2> DEFINE m == Head(mq[TSKID_MGR])
    <2>1. CASE gSeqNum <= MaxSeq /\ Request(m.RequestID, m.Size, "console", "timers")
      <3>1. At[TSKID_MGR][1] = m /\ m.Type = MSG_TYPE_SHORT_REQUEST
        BY <1>2, AtDequeue, Tasks DEF RelayRequest, TypeOK
      <3>2. FitsQueue(m.Size)
        BY <3>1, Tasks DEF FlightInv, Kinds, Fits
      <3> QED
        BY <1>2, <2>1, <3>2, RequestFlight DEF RelayRequest
    <2>2. CASE UNCHANGED <<requests, gSeqNum, out, fate, shm>> /\ mpc' = "timers"
      BY <1>2, <2>2, QuietMgr DEF RelayRequest, NoneAdded
    <2> QED
      BY <1>2, <2>1, <2>2 DEF RelayRequest
  <1>3. ASSUME NEW k, ProcessResponse(k)
        PROVE  NoneAdded /\ mpc' # "send"
    BY <1>3, Retiring DEF ProcessResponse, TypeOK
  <1>4. CASE ProcessShortResponses
    BY <1>3, <1>4, QuietMgr DEF ProcessShortResponses
  <1>5. CASE ProcessLongResponses
    <2>1. NoneAdded /\ mpc' # "send"
      BY <1>3, <1>5 DEF ProcessLongResponses, NoneAdded
    <2> QED
      BY <1>5, <2>1, QuietMgr DEF ProcessLongResponses
  <1>6. CASE ProcessOtherMessage
    BY <1>6, QuietMgr DEF ProcessOtherMessage, NoneAdded
  <1>7. CASE TimeOutRequest
    <2>1. NoneAdded
      BY <1>7, Retiring DEF TimeOutRequest, TypeOK
    <2> QED
      BY <1>7, <2>1, QuietMgr DEF TimeOutRequest, ipcVars
  <1>8. CASE AppRequest
    <2>1. PICK id \in AppRequestIds, size \in AppSizes, cb \in {"NULL", "app"} :
             Request(id, size, cb, "cb")
      BY <1>8 DEF AppRequest
    <2>2. NothingToSelf => TSKID_FROM_REQID(id) # TSKID_MGR
      BY DEF NothingToSelf
    <2> QED
      BY <1>8, <2>1, <2>2, NumbersLeftBound, RequestFlight DEF AppRequest, TypeOK
  <1>9. CASE LoadWindow
    <2>1. NoneAdded
      BY <1>9, Retiring DEF LoadWindow, TypeOK
    <2> QED
      BY <1>9, <2>1, QuietMgr DEF LoadWindow, ipcVars
  <1>10. CASE MqSend
    BY <1>10, MqSendFlight
  <1> QED
    BY <1>1, <1>2, <1>4, <1>5, <1>6, <1>7, <1>8, <1>9, <1>10 DEF MgrNext

LEMMA ServerHands ==
  ASSUME Hands, UNCHANGED <<mpc, out, requests>>, NEW t \in Servers,
         \A u \in Servers \ {t} : tpc'[u] = tpc[u] /\ hold'[u] = hold[u],
         tpc'[t] = "wait" => hold'[t] = NoMsg,
         tpc'[t] = "process" => Routed(t, hold'[t]),
         tpc'[t] = "send" => hold'[t].Type \in ResponseTypes
  PROVE  Hands'
  BY DEF Hands

LEMMA Receiving ==
  ASSUME TypeOK, NEW t \in Servers, Take(t), UNCHANGED out
  PROVE  /\ Takes(t)
         /\ At[t][1] = Head(mq[t])
         /\ hold'[t] = Head(mq[t])
         /\ \A u \in Servers \ {t} : hold'[u] = hold[u]
  <1>1. t \in TaskIds \ {TSKID_MGR} /\ Dequeue(t)
    BY Tasks DEF Take
  <1>2. hold'[t] = Head(mq[t]) /\ \A u \in Servers \ {t} : hold'[u] = hold[u]
    BY DEF Take, TypeOK, TaskTypeOK
  <1>3. /\ At[t][1] = Head(mq[t])
        /\ \A u \in TaskIds, n \in Nat \ {0} :
             At'[u][n] = IF u = t THEN At[t][n + 1] ELSE At[u][n]
    BY <1>1, AtDequeue DEF TypeOK
  <1>4. \A u \in TaskIds : At'[u][0] = IF u = t THEN At[t][1] ELSE At[u][0]
    BY <1>1, <1>2, <1>3, AtIs, Tasks DEF Hand
  <1>5. \A u \in TaskIds, n \in Nat : At'[u][n] = IF u = t THEN At[u][n + 1] ELSE At[u][n]
    BY <1>3, <1>4
  <1> QED
    BY <1>2, <1>3, <1>5 DEF Takes

LEMMA TakeFlight ==
  ASSUME TypeOK, RouteInv, FlightInv, UNCHANGED mgrVars, NEW t \in Servers,
         ReceiveShortRequest(t) \/ ReceiveLongRequest(t) \/ RejectMessage(t)
  PROVE  FlightInv'
  <1>1. Take(t) /\ UNCHANGED <<mpc, out, requests, gSeqNum>> /\ t \in TaskIds \ {TSKID_MGR}
    BY Tasks DEF mgrVars, ReceiveShortRequest, ReceiveLongRequest, RejectMessage
  <1>2. NoneNew /\ Unique' /\ Kinds'
    BY <1>1, Receiving, TakeKeeps DEF FlightInv
  <1>3. Numbered' /\ Own'
    BY <1>1, <1>2, NoneNewKeeps DEF FlightInv, NoneAdded, TypeOK, MgrTypeOK
  <1>4. tpc' = [tpc EXCEPT ![t] = "process"] \/ tpc' = [tpc EXCEPT ![t] = "dead"]
    BY DEF ReceiveShortRequest, ReceiveLongRequest, RejectMessage, AcceptSize, Die
  <1>5. Hands'
    <2>0. Routed(t, Head(mq[t]))
      <3>1. mq[t] \in Seq(Message) /\ mq[t] # <<>>
        BY <1>1 DEF TypeOK, IpcTypeOK, Take, Dequeue
      <3>2. 1 \in DOMAIN mq[t] /\ Head(mq[t]) = mq[t][1]
        BY <3>1
      <3> QED
        BY <1>1, <3>2 DEF RouteInv
    <2>1. tpc'[t] = "process" \/ tpc'[t] = "dead"
      BY <1>4 DEF TypeOK, TaskTypeOK
    <2>2. \A u \in Servers \ {t} : tpc'[u] = tpc[u]
      BY <1>4 DEF TypeOK, TaskTypeOK
    <2> QED
      BY <1>1, <2>0, <2>1, <2>2, Receiving, ServerHands DEF FlightInv
  <1> QED
    BY <1>2, <1>3, <1>5 DEF FlightInv

LEMMA ResponseFits ==
  ASSUME NEW t, NEW seq, NEW size, seq # 0
  PROVE  /\ Fits(t, 0, ResponseMsg(seq, size))
         /\ ResponseMsg(seq, size).SeqNum = seq
         /\ ResponseMsg(seq, size).Type \in ResponseTypes
  BY DEF Fits, ResponseMsg, RequestTypes, ResponseTypes, MSG_TYPE_SHORT_REQUEST,
     MSG_TYPE_LONG_REQUEST, MSG_TYPE_SHORT_RESPONSE, MSG_TYPE_LONG_RESPONSE

LEMMA ResponseFlight ==
  ASSUME TypeOK, FlightInv, UNCHANGED <<mq, mgrVars>>, NEW t \in Servers, tpc[t] = "process",
         NEW size, Response(t, size)
  PROVE  FlightInv'
  <1> DEFINE m == ResponseMsg(hold[t].SeqNum, size)
  <1>1. /\ t \in TaskIds \ {TSKID_MGR} /\ At[t][0] = hold[t]
        /\ UNCHANGED <<mpc, out, requests, gSeqNum>>
    BY Tasks, AtIs DEF Hand, mgrVars
  <1>2. Routed(t, hold[t]) /\ hold[t].Type \in RequestTypes /\ hold[t].SeqNum # 0
    BY <1>1 DEF FlightInv, Hands, Kinds, Fits, Routed
  <1>3. Fits(t, 0, m) /\ m.SeqNum = hold[t].SeqNum /\ m.Type \in ResponseTypes
    BY <1>2, ResponseFits
  <1>4. hold'[t] = m /\ \A u \in Servers \ {t} : hold'[u] = hold[u]
    BY DEF Response, TypeOK, TaskTypeOK
  <1> HIDE DEF m
  <1>5. Answers(t, m)
    <2>1. \A u \in TaskIds : At'[u][0] = IF u = t THEN m ELSE At[u][0]
      BY <1>1, <1>4, AtIs, Tasks DEF Hand
    <2>2. \A u \in TaskIds, n \in Nat \ {0} : At'[u][n] = At[u][n]
      BY AtSameQueues
    <2> QED
      BY <2>1, <2>2 DEF Answers
  <1>6. Numbered' /\ Unique' /\ Kinds'
    BY <1>1, <1>3, <1>5, AnswerKeeps DEF FlightInv
  <1>7. Own'
    <2> SUFFICES ASSUME NEW u \in TaskIds, NEW n \in Nat, NEW i \in Slots,
                        At'[u][n].SeqNum # 0, requests[i].SeqNum = At'[u][n].SeqNum
                 PROVE  Matching(At'[u][n], requests[i])
      BY <1>1 DEF Own, Matching
    <2>1. CASE u = t /\ n = 0
      <3>1. requests[i].RequestID = hold[t].RequestID
        BY <1>1, <1>2, <1>3, <1>5, <2>1
           DEF FlightInv, Own, Matching, Answers, RequestTypes, ResponseTypes,
               MSG_TYPE_SHORT_REQUEST, MSG_TYPE_LONG_REQUEST, MSG_TYPE_SHORT_RESPONSE,
               MSG_TYPE_LONG_RESPONSE
      <3> QED
        BY <1>2, <1>3, <1>5, <2>1, <3>1 DEF Answers, Matching, Routed
    <2>2. CASE ~ (u = t /\ n = 0)
      BY <1>5, <2>2 DEF FlightInv, Own, Answers
    <2> QED
      BY <2>1, <2>2
  <1>8. Hands'
    <2>1. tpc'[t] = "send" /\ \A u \in Servers \ {t} : tpc'[u] = tpc[u]
      BY DEF Response, TypeOK, TaskTypeOK
    <2> QED
      BY <1>1, <1>3, <1>4, <2>1, ServerHands DEF FlightInv
  <1> QED
    BY <1>6, <1>7, <1>8 DEF FlightInv

LEMMA RestFlight ==
  ASSUME TypeOK, FlightInv, UNCHANGED <<mq, hold, out, requests, gSeqNum>>, Hands'
  PROVE  FlightInv'
  <1>1. MgrReads(0)
    BY Reading DEF TypeOK
  <1>2. NoneNew /\ Unique' /\ Kinds'
    BY <1>1, ReadKeeps DEF FlightInv
  <1> QED
    BY <1>2, NoneNewKeeps DEF FlightInv, NoneAdded, TypeOK, MgrTypeOK

LEMMA TaskSendFlight ==
  ASSUME TypeOK, FlightInv, UNCHANGED mgrVars, NEW t \in Servers, TaskMqSend(t)
  PROVE  FlightInv'
  <1>1. /\ t \in TaskIds \ {TSKID_MGR} /\ At[t][0] = hold[t] /\ tpc[t] = "send"
        /\ UNCHANGED <<mpc, out, requests, gSeqNum>>
    BY Tasks, AtIs DEF Hand, mgrVars, TaskMqSend
  <1>2. /\ hold'[t] = NoMsg /\ tpc'[t] = "wait"
        /\ \A u \in Servers \ {t} : hold'[u] = hold[u] /\ tpc'[u] = tpc[u]
    BY DEF TaskMqSend, TypeOK, TaskTypeOK
  <1>3. Sends(t, TSKID_MGR)
    BY <1>1, <1>2, Transfer, Tasks DEF TaskMqSend, Hand
  <1>4. \A k \in Nat \ {0} : Fits(TSKID_MGR, k, hold[t])
    <2>1. Fits(t, 0, hold[t]) /\ hold[t].Type \in ResponseTypes
      BY <1>1 DEF FlightInv, Kinds, Hands
    <2> QED
      BY <2>1 DEF Fits, RequestTypes, ResponseTypes, MSG_TYPE_SHORT_REQUEST,
         MSG_TYPE_LONG_REQUEST, MSG_TYPE_SHORT_RESPONSE, MSG_TYPE_LONG_RESPONSE
  <1>5. NoneNew /\ Unique' /\ Kinds'
    BY <1>1, <1>3, <1>4, SendKeeps, Tasks DEF FlightInv
  <1>6. Numbered' /\ Own'
    BY <1>1, <1>5, NoneNewKeeps DEF FlightInv, NoneAdded, TypeOK, MgrTypeOK
  <1>7. Hands'
    BY <1>1, <1>2, ServerHands DEF FlightInv
  <1> QED
    BY <1>5, <1>6, <1>7 DEF FlightInv

LEMMA TaskStepFlight ==
  ASSUME TypeOK, RouteInv, FlightInv, TaskNext, UNCHANGED mgrVars
  PROVE  FlightInv'
  <1>1. PICK t \in Servers : TaskStep(t) \/ TaskSendFails(t) \/ TaskKilled(t)
    BY DEF TaskNext
  <1>2. CASE Die(t) /\ UNCHANGED <<mq, hold>>
    <2>1. tpc'[t] = "dead" /\ \A u \in Servers \ {t} : tpc'[u] = tpc[u]
      BY <1>2 DEF Die, TypeOK, TaskTypeOK
    <2>2. Hands'
      BY <1>2, <2>1, ServerHands DEF FlightInv, mgrVars
    <2> QED
      BY <1>2, <2>2, RestFlight DEF mgrVars
  <1>3. CASE ReceiveShortRequest(t) \/ ReceiveLongRequest(t) \/ RejectMessage(t)
    BY <1>3, TakeFlight
  <1>4. CASE ProcessRequest(t)
    BY <1>2, <1>4, ResponseFlight DEF ProcessRequest
  <1>5. CASE TaskMqSend(t)
    BY <1>5, TaskSendFlight
  <1>6. CASE TaskSendFails(t) \/ TaskKilled(t)
    BY <1>2, <1>6 DEF TaskSendFails, TaskKilled, ipcVars
  <1> QED
    BY <1>1, <1>3, <1>4, <1>5, <1>6 DEF TaskStep

LEMMA ConsoleFlight ==
  ASSUME TypeOK, FlightInv, ConsoleRequest
  PROVE  FlightInv'
  <1>1. PICK id \in ConsoleRequestIds, size \in ConsoleSizes : FakeRequest(id, size)
    BY DEF ConsoleRequest
  <1> DEFINE m == FakeMsg(id, size)
  <1>2. m \in Message /\ m.SeqNum = 0 /\ \A k \in Nat : Fits(TSKID_MGR, k, m)
    BY <1>1, Zeros, ConsoleAssumption
       DEF Message, MessageTypes, Fits, FakeRequest, FakeMsg, RequestTypes, ResponseTypes,
           MSG_TYPE_SHORT_REQUEST, MSG_TYPE_LONG_REQUEST, MSG_TYPE_SHORT_RESPONSE,
           MSG_TYPE_LONG_RESPONSE
  <1>3. Enqueue(TSKID_MGR, m)
    BY <1>1 DEF FakeRequest
  <1> HIDE DEF m
  <1>4. UNCHANGED <<out, hold, tpc, mpc, requests, gSeqNum>>
    BY DEF ConsoleRequest, mgrVars, taskVars
  <1>5. PICK k \in Nat \ {0} :
          \A u \in TaskIds, n \in Nat :
            At'[u][n] = IF u = TSKID_MGR /\ n = k THEN m ELSE At[u][n]
    <2> DEFINE k == Len(mq[TSKID_MGR]) + 1
    <2>1. /\ k \in Nat \ {0}
          /\ \A u \in TaskIds, n \in Nat \ {0} :
               At'[u][n] = IF u = TSKID_MGR /\ n = k THEN m ELSE At[u][n]
      BY <1>2, <1>3, AtEnqueue, Tasks DEF TypeOK
    <2>2. \A u \in TaskIds : At'[u][0] = At[u][0]
      BY <1>4, AtIs DEF Hand
    <2> HIDE DEF k
    <2> QED
      BY <2>1, <2>2
  <1>6. NoneNew
    BY <1>2, <1>5 DEF NoneNew
  <1>7. Unique'
    BY <1>2, <1>5 DEF FlightInv, Unique
  <1>8. Kinds'
    <2>1. \A u \in TaskIds, n \in Nat : Fits(u, n, At'[u][n])
      BY <1>2, <1>5 DEF FlightInv, Kinds
    <2> QED
      BY <2>1 DEF Kinds, Fits
  <1>9. Numbered' /\ Own'
    BY <1>4, <1>6, NoneNewKeeps DEF FlightInv, NoneAdded, TypeOK, MgrTypeOK
  <1>10. Hands'
    BY <1>4 DEF FlightInv, Hands
  <1> QED
    BY <1>7, <1>8, <1>9, <1>10 DEF FlightInv

FlightIInv == TypeOK /\ TableInv /\ RouteInv /\ FlightInv

LEMMA InitFlightIInv == Init => FlightIInv
  BY InitTypeOK, InitTable, InitRoute, InitFlight DEF FlightIInv

LEMMA NextFlightIInv == FlightIInv /\ [Next]_vars => FlightIInv'
  <1> SUFFICES ASSUME FlightIInv, [Next]_vars PROVE FlightIInv'
    OBVIOUS
  <1>1. TypeOK' /\ TableInv' /\ RouteInv'
    BY NextTypeOK, NextTable, NextRoute DEF FlightIInv
  <1>2. CASE MgrStep
    BY <1>1, <1>2, MgrStepFlight DEF MgrStep, FlightIInv
  <1>3. CASE ServerStep
    BY <1>1, <1>3, TaskStepFlight DEF ServerStep, FlightIInv
  <1>4. CASE ConsoleRequest
    BY <1>1, <1>4, ConsoleFlight DEF FlightIInv
  <1>5. CASE UNCHANGED vars
    BY <1>1, <1>5, RestFlight
       DEF FlightIInv, FlightInv, Hands, vars, ipcVars, mgrVars, taskVars
  <1> QED
    BY <1>2, <1>3, <1>4, <1>5 DEF Next

LEMMA FlightIsInv == Spec => []FlightIInv
  BY InitFlightIInv, NextFlightIInv, PTL DEF Spec
-----------------------------------------------------------------------------
(* What follows from it.                                                    *)
LEMMA CarrierPlaces ==
  ASSUME TypeOK, NEW s \in SeqNums
  PROVE  /\ \A p \in Carriers(s) :
              \E t \in TaskIds, n \in Nat : p = <<t, n>> /\ At[t][n].SeqNum = s
         /\ \A t \in TaskIds, n \in Nat : At[t][n].SeqNum = s => <<t, n>> \in Carriers(s)
  <1>1. s # 0 /\ NoMsg.SeqNum = 0
    BY DEF SeqNums, NoMsg
  <1>2. \A t \in TaskIds : DOMAIN mq[t] \subseteq (0 .. NUM_MAX_MESSAGES) \ {0}
    <2> SUFFICES ASSUME NEW t \in TaskIds
                 PROVE  DOMAIN mq[t] \subseteq (0 .. NUM_MAX_MESSAGES) \ {0}
      OBVIOUS
    <2>1. mq[t] \in Seq(Message) /\ Len(mq[t]) <= NUM_MAX_MESSAGES
      BY DEF TypeOK, IpcTypeOK
    <2> QED
      BY <2>1, IpcAssumption
  <1>3. \A t \in TaskIds, n \in Nat :
          At[t][n].SeqNum = s <=>
            \/ n \in DOMAIN mq[t] /\ mq[t][n].SeqNum = s
            \/ n = 0 /\ t \in Servers /\ hold[t].SeqNum = s
            \/ n = 0 /\ t = TSKID_MGR /\ out.msg.SeqNum = s
    BY <1>1, <1>2, AtIs, Tasks DEF Hand
  <1>4. \A p \in Carriers(s) :
          \E t \in TaskIds, n \in Nat : p = <<t, n>> /\ At[t][n].SeqNum = s
    BY <1>3, IpcAssumption DEF Carriers
  <1>5. \A t \in TaskIds, n \in Nat : At[t][n].SeqNum = s => <<t, n>> \in Carriers(s)
    BY <1>2, <1>3, IpcAssumption DEF Carriers
  <1> QED
    BY <1>4, <1>5

(* No step ever doubles a request: its number is in one queue, one server   *)
(* or the manager's hand, or nowhere, with any number of servers, windows   *)
(* and console requests.                                                    *)
THEOREM InFlightOnceHolds == Spec => []InFlightOnce
  <1>1. FlightIInv => InFlightOnce
    <2> SUFFICES ASSUME FlightIInv, NEW s \in SeqNums PROVE Cardinality(Carriers(s)) <= 1
      BY DEF InFlightOnce
    <2>1. \A p, q \in Carriers(s) : p = q
      <3>1. s # 0
        BY DEF SeqNums
      <3>2. \A p \in Carriers(s) :
              \E t \in TaskIds, n \in Nat : p = <<t, n>> /\ At[t][n].SeqNum = s
        BY CarrierPlaces DEF FlightIInv
      <3> QED
        BY <3>1, <3>2 DEF FlightIInv, FlightInv, Unique
    <2>2. CASE Carriers(s) = {}
      BY <2>2, FS_EmptySet
    <2>3. CASE Carriers(s) # {}
      <3>1. PICK p : Carriers(s) = {p}
        BY <2>1, <2>3
      <3>2. Cardinality({p}) = 1
        BY FS_Singleton
      <3> QED
        BY <3>1, <3>2
    <2> QED
      BY <2>2, <2>3
  <1> QED
    BY <1>1, FlightIsInv, PTL

(* What the manager finds at the head of its queue.                         *)
LEMMA HeadOfMgr ==
  ASSUME FlightIInv, Dequeue(TSKID_MGR)
  PROVE  /\ At[TSKID_MGR][1] = Head(mq[TSKID_MGR])
         /\ Head(mq[TSKID_MGR]).SeqNum \in Nat
         /\ Head(mq[TSKID_MGR]).SeqNum < gSeqNum
         /\ NumbersFit => Truncated(Head(mq[TSKID_MGR]).SeqNum) = Head(mq[TSKID_MGR]).SeqNum
  <1> DEFINE m == Head(mq[TSKID_MGR])
  <1>1. m = At[TSKID_MGR][1]
    BY AtDequeue, Tasks DEF FlightIInv, TypeOK
  <1>2. m.SeqNum \in Nat /\ m.SeqNum < gSeqNum
    BY <1>1, AtType, Tasks DEF FlightIInv, FlightInv, Numbered, Message, Numbers
  <1>3. gSeqNum \in Nat /\ USHORT_SPAN \in Nat \ {0}
    BY MgrAssumption DEF FlightIInv, TypeOK, MgrTypeOK
  <1>4. NumbersFit => Truncated(m.SeqNum) = m.SeqNum
    <2>1. NumbersFit => m.SeqNum < USHORT_SPAN
      BY <1>2, <1>3 DEF NumbersFit
    <2> HIDE DEF m
    <2> QED
      BY <1>2, <1>3, <2>1 DEF Truncated
  <1> QED
    BY <1>1, <1>2, <1>4

(* An answer that completes a request is at the head of the manager's queue.*)
LEMMA AnsweredBy ==
  ASSUME FlightIInv, [Next]_vars, NEW s \in SeqNums, fate[s] = "pending", fate'[s] = "answered"
  PROVE  /\ Dequeue(TSKID_MGR)
         /\ Head(mq[TSKID_MGR]).Type \in ResponseTypes
         /\ s = Truncated(Head(mq[TSKID_MGR]).SeqNum)
         /\ \E i \in Slots : requests[i].SeqNum = s
  <1>1. ASSUME NEW S, NEW why, why # "answered", Retire(S, why)
        PROVE  FALSE
    BY <1>1 DEF Retire
  <1>2. ASSUME NEW id, NEW size, NEW cb, NEW ret, Request(id, size, cb, ret)
        PROVE  FALSE
    <2>1. PICK f \in {"pending", "refused"} : fate' = [fate EXCEPT ![gSeqNum] = f]
      BY <1>2 DEF Request, SendShortRequest, SendLongRequest, PostRequest, DropRequest
    <2> QED
      BY <2>1 DEF FlightIInv, TypeOK, MgrTypeOK
  <1>3. fate' # fate
    OBVIOUS
  <1>4. ProcessShortResponses \/ ProcessLongResponses
    BY <1>1, <1>2, <1>3 DEF Next, MgrStep, MgrNext, ServerStep, ConsoleRequest, vars, mgrVars,
       Select, SelectKey, RelayRequest, ProcessOtherMessage, ProcessTimers, ReadClock,
       TimeOutRequest, EndTimeouts, AppRequest, LoadWindow, CbReturn, MqSend
  <1>5. ProcessResponse(Truncated(Head(mq[TSKID_MGR]).SeqNum))
    BY <1>3, <1>4 DEF ProcessShortResponses, ProcessLongResponses
  <1>6. PICK i \in Answered(Truncated(Head(mq[TSKID_MGR]).SeqNum)) : requests[i].SeqNum = s
    BY <1>5 DEF ProcessResponse, Retire
  <1> QED
    BY <1>4, <1>6 DEF ProcessShortResponses, ProcessLongResponses, ResponseTypes, Answered,
       Matches

\* a number that is cut to s comes less than a whole USHORT behind it
LEMMA CutWithinSpan ==
  ASSUME NEW n \in Nat, NEW s \in SeqNums, s = Truncated(n), n < s + USHORT_SPAN
  PROVE  n = s
  <1>1. USHORT_SPAN \in Nat \ {0} /\ s \in Nat
    BY MgrAssumption DEF SeqNums
  <1>2. s = n % USHORT_SPAN
    BY DEF Truncated
  <1>3. PICK q \in Int : n = q * USHORT_SPAN + s /\ s < USHORT_SPAN
    <2> DEFINE S == USHORT_SPAN
    <2>1. S \in Nat \ {0} /\ n \in Int /\ s = n % S
      BY <1>1, <1>2
    <2> HIDE DEF S
    <2>2. n \div S \in Int /\ n = (n \div S) * S + (n % S)
      BY <2>1, SMTT(30)
    <2>3. n % S < S
      BY <2>1
    <2> QED
      BY <2>1, <2>2, <2>3 DEF S
  <1>4. q < 1
    <2> SUFFICES ASSUME q >= 1 PROVE FALSE
      BY <1>3
    <2>1. q * USHORT_SPAN >= USHORT_SPAN
      BY <1>1
    <2>2. q * USHORT_SPAN \in Int
      BY <1>1
    <2> QED
      BY <1>1, <1>3, <2>1, <2>2
  <1>5. q > -1
    <2> SUFFICES ASSUME q <= -1 PROVE FALSE
      BY <1>3
    <2>1. q * USHORT_SPAN <= -USHORT_SPAN
      BY <1>1
    <2>2. q * USHORT_SPAN \in Int
      BY <1>1
    <2> QED
      BY <1>1, <1>3, <2>1, <2>2
  <1>6. q = 0
    BY <1>4, <1>5
  <1> QED
    BY <1>1, <1>3, <1>6

(* No request is completed by the answer to another one before a number a   *)
(* whole USHORT further than its own has been given out.                    *)
THEOREM AnswersAreOwn == Spec => AnswerIsOwn
  <1> DEFINE Step == \A s \in SeqNums :
               gSeqNum <= s + USHORT_SPAN /\ fate[s] = "pending" /\ fate'[s] = "answered"
                 => Head(mq[TSKID_MGR]).SeqNum = s
  <1>1. FlightIInv /\ [Next]_vars => [Step]_vars
    <2> SUFFICES ASSUME FlightIInv, [Next]_vars, NEW s \in SeqNums,
                        gSeqNum <= s + USHORT_SPAN, fate[s] = "pending", fate'[s] = "answered"
                 PROVE  Head(mq[TSKID_MGR]).SeqNum = s
      OBVIOUS
    <2> DEFINE n == Head(mq[TSKID_MGR]).SeqNum
    <2>1. n \in Nat /\ n < gSeqNum /\ s = Truncated(n)
      BY AnsweredBy, HeadOfMgr
    <2>2. gSeqNum \in Nat /\ s \in Nat /\ USHORT_SPAN \in Nat
      BY MgrAssumption DEF FlightIInv, TypeOK, MgrTypeOK, SeqNums
    <2> HIDE DEF n
    <2>3. n < s + USHORT_SPAN
      BY <2>1, <2>2
    <2>4. n = s
      BY <2>1, <2>3, CutWithinSpan
    <2> QED
      BY <2>4 DEF n
  <1>2. AnswerIsOwn <=> [][Step]_vars
    BY DEF AnswerIsOwn
  <1> QED
    BY <1>1, <1>2, FlightIsInv, PTL DEF Spec

(* What a server has to answer is a request addressed to it, if it is still *)
(* in the table at all.                                                     *)
Answering ==
  \A t \in Servers, i \in Slots :
    tpc[t] = "send" /\ requests[i].SeqNum = hold[t].SeqNum
      => TSKID_FROM_REQID(requests[i].RequestID) = t

\* a slot keeps its request, is cleared, or takes a request under the next number
LEMMA SlotSteps ==
  ASSUME FlightIInv, [Next]_vars, NEW i \in Slots
  PROVE  requests'[i] = requests[i] \/ requests'[i].SeqNum \in {0, gSeqNum}
  <1> USE DEF FlightIInv, TypeOK, MgrTypeOK
  <1>1. ASSUME NEW S, NEW why, Retire(S, why)
        PROVE  requests'[i] = requests[i] \/ requests'[i].SeqNum = 0
    BY <1>1 DEF Retire, Cleared
  <1>2. ASSUME NEW id, NEW size, NEW cb, NEW ret, Request(id, size, cb, ret)
        PROVE  requests'[i] = requests[i] \/ requests'[i].SeqNum = gSeqNum
    <2>1. CASE PostRequest(id, size, cb, ret)
      <3>1. PICK slot \in Slots :
              requests' = [requests EXCEPT ![slot] =
                             [SeqNum |-> gSeqNum, RequestID |-> id, pRespCb |-> cb]]
        BY <2>1 DEF PostRequest
      <3> QED
        BY <3>1
    <2>2. CASE DropRequest(ret)
      BY <2>2 DEF DropRequest
    <2> QED
      BY <1>2, <2>1, <2>2 DEF Request, SendShortRequest, SendLongRequest
  <1>3. CASE UNCHANGED requests
    BY <1>3
  <1>4. CASE MgrNext
    BY <1>1, <1>2, <1>3, <1>4 DEF MgrNext, Select, SelectKey, RelayRequest, ProcessShortResponses,
       ProcessLongResponses, ProcessResponse, ProcessOtherMessage, ProcessTimers, ReadClock,
       TimeOutRequest, EndTimeouts, AppRequest, LoadWindow, CbReturn, MqSend
  <1> QED
    BY <1>3, <1>4 DEF Next, MgrStep, ServerStep, ConsoleRequest, mgrVars, vars

\* a server that is sending was already, or has just made its answer
LEMMA AnswerSteps ==
  ASSUME FlightIInv, [Next]_vars, NEW t \in Servers, tpc'[t] = "send"
  PROVE  \/ tpc[t] = "send" /\ hold'[t] = hold[t]
         \/ /\ tpc[t] = "process"
            /\ hold'[t].SeqNum = hold[t].SeqNum
            /\ UNCHANGED requests
  <1> USE DEF FlightIInv, TypeOK, TaskTypeOK
  <1>1. CASE UNCHANGED <<tpc, hold>>
    BY <1>1
  <1>2. ASSUME NEW u \in Servers, TaskStep(u) \/ TaskSendFails(u) \/ TaskKilled(u),
               UNCHANGED mgrVars
        PROVE  \/ tpc[t] = "send" /\ hold'[t] = hold[t]
               \/ /\ tpc[t] = "process"
                  /\ hold'[t].SeqNum = hold[t].SeqNum
                  /\ UNCHANGED requests
    <2>1. CASE u # t
      <3>1. tpc'[t] = tpc[t] /\ hold'[t] = hold[t]
        BY <1>2, <2>1 DEF TaskStep, ReceiveShortRequest, ReceiveLongRequest, RejectMessage,
           Take, AcceptSize, Die, ProcessRequest, Response, TaskMqSend, TaskSendFails, TaskKilled
      <3> QED
        BY <3>1
    <2>2. CASE u = t
      <3>1. PICK size \in RespSizes : tpc[t] = "process" /\ Response(t, size)
        BY <1>2, <2>2 DEF TaskStep, ReceiveShortRequest, ReceiveLongRequest, RejectMessage,
           AcceptSize, Die, ProcessRequest, TaskMqSend, TaskSendFails, TaskKilled
      <3>2. hold'[t].SeqNum = hold[t].SeqNum
        BY <3>1 DEF Response, ResponseMsg
      <3> QED
        BY <1>2, <3>1, <3>2 DEF mgrVars
    <2> QED
      BY <2>1, <2>2
  <1> QED
    BY <1>1, <1>2 DEF Next, MgrStep, ServerStep, TaskNext, ConsoleRequest, taskVars, vars

LEMMA NextAnswering == FlightIInv /\ Answering /\ [Next]_vars => Answering'
  <1> SUFFICES ASSUME FlightIInv, Answering, [Next]_vars, NEW t \in Servers, NEW i \in Slots,
                      tpc'[t] = "send", requests'[i].SeqNum = hold'[t].SeqNum
               PROVE  TSKID_FROM_REQID(requests'[i].RequestID) = t
    BY DEF Answering
  <1>1. /\ t \in TaskIds /\ t # TSKID_MGR /\ At[t][0] = hold[t]
        /\ hold[t].SeqNum < gSeqNum
    BY Tasks, AtIs DEF Hand, FlightIInv, FlightInv, Numbered
  <1>2. /\ tpc[t] = "process" => Routed(t, hold[t])
        /\ tpc[t] \in {"process", "send"} => hold[t].SeqNum # 0
    BY <1>1 DEF FlightIInv, FlightInv, Hands, Kinds, Fits, Routed
  <1>3. gSeqNum \in Nat /\ hold[t].SeqNum \in Nat
    BY DEF FlightIInv, TypeOK, MgrTypeOK, TaskTypeOK, Message, Numbers
  <1>4. CASE tpc[t] = "send" /\ hold'[t] = hold[t]
    <2>1. requests'[i] = requests[i]
      BY <1>1, <1>2, <1>3, <1>4, SlotSteps
    <2> QED
      BY <1>4, <2>1 DEF Answering
  <1>5. CASE tpc[t] = "process" /\ hold'[t].SeqNum = hold[t].SeqNum /\ UNCHANGED requests
    <2>1. Matching(hold[t], requests[i])
      BY <1>1, <1>2, <1>5 DEF FlightIInv, FlightInv, Own
    <2>2. requests[i].RequestID = hold[t].RequestID
      BY <1>2, <1>5, <2>1 DEF Matching, Routed, RequestTypes, ResponseTypes,
         MSG_TYPE_SHORT_REQUEST, MSG_TYPE_LONG_REQUEST, MSG_TYPE_SHORT_RESPONSE,
         MSG_TYPE_LONG_RESPONSE
    <2> QED
      BY <1>2, <1>5, <2>2 DEF Routed
  <1> QED
    BY <1>4, <1>5, AnswerSteps

(* An answer under the number of a pending request was made by the server   *)
(* that the request is addressed to, however many numbers were used and     *)
(* whatever timed out or was cleared meanwhile: no slot ever takes over the *)
(* number of an answer on its way.                                          *)
THEOREM AnswersComeFromOwner == Spec => []OwnerAnswers
  <1>1. Init => FlightIInv /\ Answering
    BY InitFlightIInv DEF Answering, Init, TaskInit
  <1>2. FlightIInv /\ Answering => OwnerAnswers
    <2> SUFFICES ASSUME FlightIInv, Answering PROVE OwnerAnswers
      OBVIOUS
    <2>1. \A s \in Pending : Holder(s) \in Slots /\ requests[Holder(s)].SeqNum = s /\ s # 0
      BY DEF FlightIInv, TableInv, OneSlotPerRequest, UsedSlots, Holder, Pending, SeqNums
    <2>2. ASSUME NEW t \in Servers, tpc[t] = "send", hold[t].SeqNum \in Pending
          PROVE  Target(hold[t].SeqNum) = t
      BY <2>1, <2>2 DEF Answering, Target
    <2>3. ASSUME NEW m \in Queued(TSKID_MGR), m.Type \in ResponseTypes, m.SeqNum \in Pending
          PROVE  Target(m.SeqNum) \in Servers
      <3>1. PICK n \in DOMAIN mq[TSKID_MGR] : m = mq[TSKID_MGR][n]
        BY DEF Queued
      <3>2. mq[TSKID_MGR] \in Seq(Message)
        BY Tasks DEF FlightIInv, TypeOK, IpcTypeOK
      <3>3. n \in Nat \ {0}
        BY <3>1, <3>2
      <3>4. At[TSKID_MGR][n] = m
        BY <3>1, <3>3, AtIs, Tasks
      <3>5. Matching(m, requests[Holder(m.SeqNum)])
        BY <2>1, <2>3, <3>3, <3>4, Tasks DEF FlightIInv, FlightInv, Own
      <3> QED
        BY <2>3, <3>5 DEF Matching, Target, RequestTypes, ResponseTypes,
           MSG_TYPE_SHORT_REQUEST, MSG_TYPE_LONG_REQUEST, MSG_TYPE_SHORT_RESPONSE,
           MSG_TYPE_LONG_RESPONSE
    <2> QED
      BY <2>2, <2>3 DEF OwnerAnswers
  <1>3. FlightIInv /\ Answering /\ [Next]_vars => FlightIInv' /\ Answering'
    BY NextFlightIInv, NextAnswering
  <1> QED
    BY <1>1, <1>2, <1>3, PTL DEF Spec

(* The requests of the table that stand in a queue, each in its slot, leave *)
(* the slot of the request that the blocked manager holds.                  *)
LEMMA LiveInQueue ==
  ASSUME FlightIInv, mpc = "send", NEW t \in TaskIds
  PROVE  Cardinality(DOMAIN mq[t] \ Abandoned(t)) <= GUI_MAX_REQUESTS - 1
  <1> DEFINE Live == DOMAIN mq[t] \ Abandoned(t)
             slotOf == [n \in Live |-> CHOOSE i \in Slots : requests[i].SeqNum = mq[t][n].SeqNum]
  <1>1. mq[t] \in Seq(Message)
    BY DEF FlightIInv, TypeOK, IpcTypeOK
  <1>2. \A n \in DOMAIN mq[t] : n \in Nat \ {0}
    BY <1>1
  <1>3. \A n \in Live : /\ n \in Nat \ {0} /\ At[t][n] = mq[t][n]
                        /\ At[t][n].SeqNum \in Pending /\ At[t][n].SeqNum # 0
    BY <1>2, AtIs DEF Abandoned, Pending, SeqNums
  <1>4. \A n \in Live : slotOf[n] \in Slots /\ requests[slotOf[n]].SeqNum = At[t][n].SeqNum
    <2> SUFFICES ASSUME NEW n \in Live
                 PROVE  slotOf[n] \in Slots /\ requests[slotOf[n]].SeqNum = At[t][n].SeqNum
      OBVIOUS
    <2>1. \E i \in Slots : requests[i].SeqNum = mq[t][n].SeqNum
      BY <1>3 DEF FlightIInv, TableInv, OneSlotPerRequest, UsedSlots
    <2> QED
      BY <1>3, <2>1
  <1>5. PICK own \in Slots : requests[own].SeqNum = out.msg.SeqNum /\ out.msg.SeqNum # 0
    BY DEF FlightIInv, FlightInv, Hands
  <1>6. At[TSKID_MGR][0] = out.msg
    BY AtIs, Tasks DEF Hand
  <1> DEFINE Others == Slots \ {own}
  <1>7. DOMAIN slotOf = Live /\ slotOf = [n \in Live |-> slotOf[n]]
    OBVIOUS
  <1> HIDE DEF Live, slotOf
  <1>8. slotOf \in [Live -> Others]
    <2> SUFFICES ASSUME NEW n \in Live PROVE slotOf[n] # own
      BY <1>4, <1>7
    <2> QED
      BY <1>3, <1>4, <1>5, <1>6, Tasks DEF FlightIInv, FlightInv, Unique
  <1>9. \A n, k \in Live : slotOf[n] = slotOf[k] => n = k
    BY <1>3, <1>4 DEF FlightIInv, FlightInv, Unique
  <1>10. IsFiniteSet(Others) /\ Cardinality(Others) = GUI_MAX_REQUESTS - 1
    <2>1. IsFiniteSet(Slots) /\ Cardinality(Slots) = GUI_MAX_REQUESTS
      BY FS_Interval, MgrAssumption DEF Slots
    <2> QED
      BY <2>1, <1>5, FS_RemoveElement
  <1> HIDE DEF Others
  <1>11. slotOf \in Injection(Live, Others)
    BY <1>8, <1>9 DEF Injection, IsInjective
  <1>12. Cardinality(Live) <= Cardinality(Others)
    BY <1>10, <1>11, FS_Injection
  <1> QED
    BY <1>10, <1>12 DEF Live

(* A manager blocked on a server waits behind abandoned requests: more than *)
(* a full queue has room for beside those still in the table.               *)
THEOREM BlockedBehindAbandoned == Spec => []BlockedMeansAbandoned
  <1>1. FlightIInv => BlockedMeansAbandoned
    <2> SUFFICES ASSUME FlightIInv, MgrBlocked
                 PROVE  Cardinality(Abandoned(out.to)) > NUM_MAX_MESSAGES - GUI_MAX_REQUESTS
      BY DEF BlockedMeansAbandoned
    <2> DEFINE q == mq[out.to]
    <2>1. out.to \in TaskIds /\ mpc = "send"
      BY DEF FlightIInv, TypeOK, MgrTypeOK, Sending, MgrBlocked
    <2>2. q \in Seq(Message) /\ Len(q) >= NUM_MAX_MESSAGES /\ Len(q) <= NUM_MAX_MESSAGES
      BY <2>1, IpcAssumption DEF FlightIInv, TypeOK, IpcTypeOK, MgrBlocked, CanSend
    <2>3. IsFiniteSet(DOMAIN q) /\ Cardinality(DOMAIN q) = NUM_MAX_MESSAGES
      <3> HIDE DEF q
      <3>1. DOMAIN q = 1 .. NUM_MAX_MESSAGES
        BY <2>2, IpcAssumption
      <3> QED
        BY <3>1, FS_Interval, IpcAssumption
    <2> DEFINE A == Abandoned(out.to)
    <2>4. A \subseteq DOMAIN q
      BY DEF Abandoned
    <2>5. IsFiniteSet(A) /\ Cardinality(A) \in Nat
      BY <2>3, <2>4, FS_Subset, FS_CardinalityType
    <2>6. Cardinality(DOMAIN q \ A) = NUM_MAX_MESSAGES - Cardinality(A)
      <3>1. DOMAIN q \cap A = A
        BY <2>4
      <3> QED
        BY <2>3, <2>5, <3>1, FS_Difference, ZenonT(30)
    <2>7. Cardinality(DOMAIN q \ A) <= GUI_MAX_REQUESTS - 1
      BY <2>1, LiveInQueue
    <2> HIDE DEF q, A
    <2> QED
      BY <2>5, <2>6, <2>7, IpcAssumption, MgrAssumption DEF A
  <1> QED
    BY <1>1, FlightIsInv, PTL
-----------------------------------------------------------------------------
(* No segment under a number that was not given out.                        *)
Unused == \A k \in Numbers : k = 0 \/ k >= gSeqNum => shm[k] = NoSeg

(* What is stored under the number of the message at a place: the data of   *)
(* a long message, until a server takes it, and nothing for a short one.    *)
(* The hands of a dead server say nothing.                                  *)
SegmentOf(m) ==
  [size |-> m.Size, data |-> IF m.Type = MSG_TYPE_LONG_REQUEST THEN "req" ELSE "resp"]

InHands(t, n) == n = 0 /\ t \in Servers

Stored(t, n, m, seg) ==
  /\ ~ IsLong(m) /\ m.SeqNum # 0 => seg = NoSeg
  /\ IsLong(m) /\ ~ InHands(t, n) => seg = SegmentOf(m)
  /\ IsLong(m) /\ InHands(t, n) /\ tpc[t] = "process" => seg = NoSeg
  /\ IsLong(m) /\ InHands(t, n) /\ tpc[t] = "send" => seg = SegmentOf(m)

Stocked == \A t \in TaskIds, n \in Nat : Stored(t, n, At[t][n], shm[At[t][n].SeqNum])

(* A request in the table has its message at some place, unless it is one   *)
(* for the manager.                                                         *)
Carried ==
  \A i \in Slots :
    requests[i].SeqNum # 0 /\ TSKID_FROM_REQID(requests[i].RequestID) # TSKID_MGR
      => \E t \in TaskIds, n \in Nat : At[t][n].SeqNum = requests[i].SeqNum

SegInv == Unused /\ Stocked /\ Carried

LEMMA InitSeg == Init => SegInv
  <1> SUFFICES ASSUME Init PROVE SegInv
    OBVIOUS
  <1>1. \A t \in TaskIds, n \in Nat : At[t][n] = NoMsg
    BY DEF At, Hand, Init, IpcInit, MgrInit, TaskInit, NoOut
  <1>2. Stocked
    BY <1>1 DEF Stocked, Stored, IsLong, NoMsg, MSG_TYPE_LONG_REQUEST, MSG_TYPE_LONG_RESPONSE
  <1>3. Unused /\ Carried
    BY DEF Unused, Carried, Init, IpcInit, MgrInit, Cleared
  <1> QED
    BY <1>2, <1>3 DEF SegInv
-----------------------------------------------------------------------------
(* A number is in use at one place, and its segment changes with it.        *)
LEMMA LongIsNumbered ==
  ASSUME FlightIInv, NEW t \in TaskIds, NEW n \in Nat
  PROVE  /\ IsLong(At[t][n]) => At[t][n].SeqNum # 0
         /\ At[t][n].SeqNum \in Numbers /\ At[t][n].SeqNum < gSeqNum
  <1>1. At[t][n] \in Message /\ Fits(t, n, At[t][n]) /\ At[t][n].SeqNum < gSeqNum
    BY AtType DEF FlightIInv, FlightInv, Kinds, Numbered
  <1> QED
    BY <1>1 DEF Message, Fits, IsLong, ResponseTypes

LEMMA RemoveOnly ==
  ASSUME IpcTypeOK, NEW k \in Numbers, Remove(k)
  PROVE  shm'[k] = NoSeg /\ \A j \in Numbers \ {k} : shm'[j] = shm[j]
  BY DEF IpcTypeOK, Remove

LEMMA WriteOnly ==
  ASSUME IpcTypeOK, NEW k \in Numbers, NEW size, NEW data, Write(k, size, data), shm[k] = NoSeg
  PROVE  shm'[k] = [size |-> size, data |-> data] /\ \A j \in Numbers \ {k} : shm'[j] = shm[j]
  BY DEF IpcTypeOK, Write

(* The steps of the manager that only read.                                 *)
LEMMA ReadStocked ==
  ASSUME FlightIInv, Stocked, UNCHANGED tpc, NEW d \in {0, 1}, MgrReads(d),
         \A t \in TaskIds, n \in Nat :
           At'[t][n].SeqNum # 0 => shm'[At'[t][n].SeqNum] = shm[At'[t][n].SeqNum]
  PROVE  Stocked'
  <1> SUFFICES ASSUME NEW t \in TaskIds, NEW n \in Nat
               PROVE  Stored(t, n, At[t][n], shm[At[t][n].SeqNum])'
    BY DEF Stocked
  <1> DEFINE k == IF t = TSKID_MGR /\ n # 0 THEN n + d ELSE n
  <1>1. k \in Nat /\ At'[t][n] = At[t][k] /\ (InHands(t, n) <=> InHands(t, k))
    BY Tasks DEF MgrReads, InHands
  <1> HIDE DEF k
  <1>2. Stored(t, k, At[t][k], shm[At[t][k].SeqNum])
    BY <1>1 DEF Stocked
  <1>3. IsLong(At[t][k]) => At[t][k].SeqNum # 0
    BY <1>1, LongIsNumbered
  <1> QED
    BY <1>1, <1>2, <1>3 DEF Stored, InHands

LEMMA RestCarried ==
  ASSUME Carried, NoneAdded, MgrReads(0)
  PROVE  Carried'
  BY DEF Carried, NoneAdded, MgrReads

LEMMA ReadCarried ==
  ASSUME Carried, NoneAdded, MgrReads(1),
         \A i \in Slots :
           requests'[i].SeqNum # 0 /\ requests'[i].SeqNum = At[TSKID_MGR][1].SeqNum
             => TSKID_FROM_REQID(requests'[i].RequestID) = TSKID_MGR
  PROVE  Carried'
  <1> SUFFICES ASSUME NEW i \in Slots, requests'[i].SeqNum # 0,
                      TSKID_FROM_REQID(requests'[i].RequestID) # TSKID_MGR
               PROVE  \E t \in TaskIds, n \in Nat : At'[t][n].SeqNum = requests'[i].SeqNum
    BY DEF Carried
  <1>1. requests'[i] = requests[i]
    BY DEF NoneAdded
  <1>2. PICK t \in TaskIds, n \in Nat : At[t][n].SeqNum = requests[i].SeqNum
    BY <1>1 DEF Carried
  <1>3. ~ (t = TSKID_MGR /\ n = 1)
    BY <1>1, <1>2
  <1>4. CASE t = TSKID_MGR /\ n # 0
    <2>1. n - 1 \in Nat \ {0} /\ (n - 1) + 1 = n
      BY <1>3, <1>4
    <2>2. At'[t][n - 1] = At[t][n]
      BY <1>4, <2>1 DEF MgrReads
    <2> QED
      BY <1>1, <1>2, <2>1, <2>2
  <1>5. CASE ~ (t = TSKID_MGR /\ n # 0)
    BY <1>1, <1>2, <1>5 DEF MgrReads
  <1> QED
    BY <1>4, <1>5

LEMMA QuietSeg ==
  ASSUME FlightIInv, SegInv, NoneAdded, UNCHANGED <<mq, out, hold, tpc, shm, gSeqNum>>
  PROVE  SegInv'
  <1>1. MgrReads(0)
    BY Reading DEF FlightIInv, TypeOK
  <1>2. Stocked' /\ Carried'
    BY <1>1, ReadStocked, RestCarried DEF SegInv
  <1> QED
    BY <1>2 DEF SegInv, Unused

LEMMA AnsweredAll ==
  ASSUME FlightIInv, NEW k, k # 0
  PROVE  Answered(k) = Matches(k)
  <1>1. \A i, j \in Matches(k) : i = j
    BY DEF Matches, FlightIInv, TableInv, OneSlotPerRequest, UsedSlots
  <1>2. \A i \in Matches(k) : ~ (i < i)
    BY DEF Matches, Slots
  <1> QED
    BY <1>1, <1>2 DEF Answered

(* What the manager reads: an answer, or a request it has sent itself.      *)
LEMMA ReadsOwnRequest ==
  ASSUME FlightIInv, NEW i \in Slots, At[TSKID_MGR][1].Type \notin ResponseTypes,
         requests[i].SeqNum # 0, requests[i].SeqNum = At[TSKID_MGR][1].SeqNum
  PROVE  TSKID_FROM_REQID(requests[i].RequestID) = TSKID_MGR
  <1> DEFINE m == At[TSKID_MGR][1]
  <1>1. Fits(TSKID_MGR, 1, m) /\ Matching(m, requests[i])
    BY Tasks DEF FlightIInv, FlightInv, Kinds, Own
  <1> QED
    BY <1>1 DEF Fits, Matching

LEMMA ReadRequestCarried ==
  ASSUME FlightIInv, Carried, NoneAdded, NEW d \in {0, 1}, MgrReads(d),
         d = 1 => At[TSKID_MGR][1].Type \notin ResponseTypes
  PROVE  Carried'
  <1>1. CASE d = 0
    BY <1>1, RestCarried
  <1>2. CASE d = 1
    <2>1. ASSUME NEW i \in Slots, requests'[i].SeqNum # 0,
                 requests'[i].SeqNum = At[TSKID_MGR][1].SeqNum
          PROVE  TSKID_FROM_REQID(requests'[i].RequestID) = TSKID_MGR
      BY <1>2, <2>1, ReadsOwnRequest DEF NoneAdded
    <2> QED
      BY <1>2, <2>1, ReadCarried
  <1> QED
    BY <1>1, <1>2

LEMMA AnswerCarried ==
  ASSUME FlightIInv, Carried, MgrReads(1), At[TSKID_MGR][1].SeqNum # 0,
         ProcessResponse(At[TSKID_MGR][1].SeqNum)
  PROVE  Carried'
  <1> DEFINE k == At[TSKID_MGR][1].SeqNum
  <1>1. Retire(Matches(k), "answered")
    BY AnsweredAll DEF ProcessResponse
  <1>2. NoneAdded
    BY <1>1, Retiring DEF FlightIInv, TypeOK
  <1>3. \A i \in Slots : requests'[i].SeqNum # 0 => requests'[i].SeqNum # k
    BY <1>1 DEF Retire, Matches, Cleared
  <1> QED
    BY <1>2, <1>3, ReadCarried

LEMMA ShortResponseSeg ==
  ASSUME FlightIInv, SegInv, NumbersFit, ProcessShortResponses, UNCHANGED <<tpc, hold>>
  PROVE  SegInv'
  <1> DEFINE m == Head(mq[TSKID_MGR])
  <1>1. /\ MgrReads(1) /\ At[TSKID_MGR][1] = m /\ ProcessResponse(m.SeqNum)
        /\ UNCHANGED <<shm, gSeqNum>> /\ m.Type \in ResponseTypes
    BY Reading, HeadOfMgr DEF ProcessShortResponses, FlightIInv, TypeOK, ResponseTypes
  <1>2. m.SeqNum # 0
    BY <1>1, Tasks DEF FlightIInv, FlightInv, Kinds, Fits
  <1>3. Stocked' /\ Carried'
    BY <1>1, <1>2, ReadStocked, AnswerCarried DEF SegInv
  <1> QED
    BY <1>1, <1>3 DEF SegInv, Unused

LEMMA LongResponseSeg ==
  ASSUME FlightIInv, SegInv, NumbersFit, ProcessLongResponses, UNCHANGED <<tpc, hold>>
  PROVE  SegInv' /\ Remove(Head(mq[TSKID_MGR]).SeqNum)
  <1> DEFINE m == Head(mq[TSKID_MGR])
             k == m.SeqNum
  <1>1. /\ MgrReads(1) /\ At[TSKID_MGR][1] = m /\ UNCHANGED gSeqNum
        /\ Truncated(m.SeqNum) = k /\ m.Type = MSG_TYPE_LONG_RESPONSE
    BY Reading, HeadOfMgr DEF ProcessLongResponses, FlightIInv, TypeOK
  <1>2. k # 0 /\ k \in Numbers /\ m \in Message /\ IsLong(m) /\ k < gSeqNum
    BY <1>1, Tasks, LongIsNumbered, AtType DEF IsLong, FlightIInv
  <1>3. shm[k] = SegmentOf(m) /\ SegmentOf(m).size = m.Size /\ shm[k] # NoSeg
    <2>1. Stored(TSKID_MGR, 1, m, shm[k])
      BY <1>1, Tasks DEF SegInv, Stocked
    <2> QED
      BY <1>1, <1>2, <2>1 DEF Stored, InHands, SegmentOf, NoSeg, MSG_TYPE_LONG_REQUEST,
         MSG_TYPE_LONG_RESPONSE
  <1>4. CanAttach(k, m.Size)
    BY <1>2, <1>3 DEF CanAttach, Message
  <1>5. Remove(k) /\ ProcessResponse(k)
    BY <1>1, <1>4 DEF ProcessLongResponses
  <1> HIDE DEF m
  <1>6. shm'[k] = NoSeg /\ \A j \in Numbers \ {k} : shm'[j] = shm[j]
    BY <1>2, <1>5, RemoveOnly DEF FlightIInv, TypeOK
  <1>7. Stocked'
    <2> SUFFICES ASSUME NEW t \in TaskIds, NEW n \in Nat, At'[t][n].SeqNum # 0
                 PROVE  shm'[At'[t][n].SeqNum] = shm[At'[t][n].SeqNum]
      BY <1>1, ReadStocked DEF SegInv
    <2>1. PICK j \in Nat : At'[t][n] = At[t][j] /\ ~ (t = TSKID_MGR /\ j = 1)
      BY <1>1 DEF MgrReads
    <2>2. At[t][j].SeqNum # k
      BY <1>1, <1>2, <2>1, Tasks DEF FlightIInv, FlightInv, Unique
    <2> QED
      BY <1>6, <2>1, <2>2, LongIsNumbered
  <1>8. Carried'
    BY <1>1, <1>2, <1>5, AnswerCarried DEF SegInv
  <1>9. Unused'
    BY <1>1, <1>6 DEF SegInv, Unused
  <1> QED
    BY <1>5, <1>7, <1>8, <1>9 DEF SegInv, m

LEMMA OtherSeg ==
  ASSUME FlightIInv, SegInv, Dequeue(TSKID_MGR), Head(mq[TSKID_MGR]).Type \notin ResponseTypes,
         UNCHANGED <<tpc, hold, out, requests, shm, gSeqNum>>
  PROVE  SegInv'
  <1>1. MgrReads(1) /\ At[TSKID_MGR][1] = Head(mq[TSKID_MGR])
    BY Reading DEF FlightIInv, TypeOK
  <1>2. NoneAdded
    BY DEF NoneAdded
  <1>3. Stocked'
    BY <1>1, ReadStocked DEF SegInv
  <1>4. Carried'
    BY <1>1, <1>2, ReadRequestCarried DEF SegInv
  <1> QED
    BY <1>3, <1>4 DEF SegInv, Unused
-----------------------------------------------------------------------------
(* Request().                                                               *)
LEMMA RequestData ==
  ASSUME FlightIInv, SegInv, gSeqNum <= MaxSeq,
         NEW id, NEW size, NEW cb, NEW ret, Request(id, size, cb, ret)
  PROVE  /\ gSeqNum \in Numbers \ {0}
         /\ \A j \in Numbers \ {gSeqNum} : shm'[j] = shm[j]
         /\ PostRequest(id, size, cb, ret) =>
              shm'[gSeqNum] = IF FitsQueue(size) THEN NoSeg
                              ELSE [size |-> size, data |-> "req"]
  <1>1. gSeqNum \in Numbers \ {0} /\ shm[gSeqNum] = NoSeg /\ gSeqNum \in Nat
    BY NumberType DEF FlightIInv, TypeOK, MgrTypeOK, SegInv, Unused
  <1>2. CASE UNCHANGED shm /\ FitsQueue(size)
    BY <1>1, <1>2
  <1>3. CASE Write(gSeqNum, size, "req") /\ ~ FitsQueue(size)
    BY <1>1, <1>3, WriteOnly DEF FlightIInv, TypeOK
  <1>4. CASE UNCHANGED shm /\ DropRequest(ret)
    <2>1. ~ PostRequest(id, size, cb, ret)
      <3>1. gSeqNum \in SeqNums
        BY NumberType DEF FlightIInv, TypeOK
      <3> QED
        BY <1>4, <3>1 DEF PostRequest, DropRequest, FlightIInv, TypeOK, MgrTypeOK
    <2> QED
      BY <1>1, <1>4, <2>1
  <1> QED
    BY <1>2, <1>3, <1>4 DEF Request, SendShortRequest, SendLongRequest

LEMMA PostSeg ==
  ASSUME FlightIInv, SegInv, gSeqNum <= MaxSeq, mpc # "send", UNCHANGED <<tpc, hold>>,
         NEW d \in {0, 1}, MgrPosts(d, out'.msg),
         d = 1 => At[TSKID_MGR][1].Type \notin ResponseTypes,
         NEW id, NEW size, NEW cb, NEW ret, Request(id, size, cb, ret),
         PostRequest(id, size, cb, ret)
  PROVE  SegInv'
  <1> DEFINE m == RequestMsg(gSeqNum, id, size)
  <1>1. gSeqNum \in Numbers \ {0} /\ gSeqNum \in Nat /\ gSeqNum' = gSeqNum + 1
    <2>1. gSeqNum \in Numbers \ {0}
      BY RequestData
    <2> QED
      BY <2>1 DEF Request, Numbers
  <1>2. \A j \in Numbers \ {gSeqNum} : shm'[j] = shm[j]
    BY RequestData
  <1>3. shm'[gSeqNum] = IF FitsQueue(size) THEN NoSeg ELSE [size |-> size, data |-> "req"]
    BY RequestData
  <1>4. /\ MgrPosts(d, m) /\ m.SeqNum = gSeqNum /\ m.Size = size
        /\ m.Type = IF FitsQueue(size) THEN MSG_TYPE_SHORT_REQUEST ELSE MSG_TYPE_LONG_REQUEST
    BY DEF PostRequest, RequestMsg
  <1> HIDE DEF m
  <1>5. Unused'
    BY <1>1, <1>2 DEF SegInv, Unused, Numbers
  <1>6. Stocked'
    <2> SUFFICES ASSUME NEW t \in TaskIds, NEW n \in Nat
                 PROVE  Stored(t, n, At[t][n], shm[At[t][n].SeqNum])'
      BY DEF Stocked
    <2>1. CASE t = TSKID_MGR /\ n = 0
      <3>1. At'[t][n] = m /\ ~ InHands(t, n)
        BY <1>4, <2>1, Tasks DEF MgrPosts, InHands
      <3>2. IsLong(m) <=> ~ FitsQueue(size)
        BY <1>4 DEF IsLong, MSG_TYPE_SHORT_REQUEST, MSG_TYPE_LONG_REQUEST,
           MSG_TYPE_LONG_RESPONSE
      <3>3. IsLong(m) => m.Type = MSG_TYPE_LONG_REQUEST
        BY <1>4, <3>2
      <3> QED
        BY <1>3, <1>4, <3>1, <3>2, <3>3 DEF Stored, InHands, SegmentOf
    <2>2. CASE ~ (t = TSKID_MGR /\ n = 0)
      <3>1. PICK k \in Nat : At'[t][n] = At[t][k] /\ (InHands(t, n) <=> InHands(t, k))
        BY <1>4, <2>2, Tasks DEF MgrPosts, InHands
      <3>2. Stored(t, k, At[t][k], shm[At[t][k].SeqNum])
        BY DEF SegInv, Stocked
      <3>3. shm'[At[t][k].SeqNum] = shm[At[t][k].SeqNum]
        BY <1>1, <1>2, LongIsNumbered DEF Numbers
      <3> QED
        BY <3>1, <3>2, <3>3 DEF Stored, InHands
    <2> QED
      BY <2>1, <2>2
  <1>7. Carried'
    <2>1. PICK slot \in Slots :
             requests' = [requests EXCEPT ![slot] =
                           [SeqNum |-> gSeqNum, RequestID |-> id, pRespCb |-> cb]]
      BY DEF PostRequest
    <2>2. /\ requests'[slot].SeqNum = gSeqNum
          /\ \A i \in Slots \ {slot} : requests'[i] = requests[i]
      BY <2>1 DEF FlightIInv, TypeOK, MgrTypeOK
    <2> SUFFICES ASSUME NEW i \in Slots, requests'[i].SeqNum # 0,
                        TSKID_FROM_REQID(requests'[i].RequestID) # TSKID_MGR
                 PROVE  \E t \in TaskIds, n \in Nat : At'[t][n].SeqNum = requests'[i].SeqNum
      BY DEF Carried
    <2>3. CASE i = slot
      <3>1. At'[TSKID_MGR][0] = m
        BY <1>4, Tasks DEF MgrPosts
      <3> QED
        BY <1>4, <2>2, <2>3, <3>1, Tasks
    <2>4. CASE i # slot
      <3>1. requests'[i] = requests[i]
        BY <2>2, <2>4
      <3>2. PICK t \in TaskIds, n \in Nat : At[t][n].SeqNum = requests[i].SeqNum
        BY <3>1 DEF SegInv, Carried
      <3>3. ~ (t = TSKID_MGR /\ n = 0)
        BY <3>1, <3>2, AtIs, Tasks DEF FlightIInv, FlightInv, Hands, Hand, NoOut, NoMsg
      <3>4. ~ (t = TSKID_MGR /\ n = 1 /\ d = 1)
        BY <3>1, <3>2, ReadsOwnRequest
      <3>5. CASE t = TSKID_MGR
        <4>1. n - d \in Nat /\ n - d # 0 /\ (n - d) + d = n
          BY <3>3, <3>4, <3>5
        <4>2. At'[t][n - d] = At[t][n]
          BY <1>4, <3>5, <4>1 DEF MgrPosts
        <4> QED
          BY <3>1, <3>2, <4>1, <4>2
      <3>6. CASE t # TSKID_MGR
        BY <1>4, <3>1, <3>2, <3>6 DEF MgrPosts
      <3> QED
        BY <3>5, <3>6
    <2> QED
      BY <2>3, <2>4
  <1> QED
    BY <1>5, <1>6, <1>7 DEF SegInv

LEMMA DropSeg ==
  ASSUME FlightIInv, SegInv, gSeqNum <= MaxSeq, UNCHANGED <<tpc, hold>>,
         NEW d \in {0, 1}, MgrReads(d),
         d = 1 => At[TSKID_MGR][1].Type \notin ResponseTypes,
         NEW id, NEW size, NEW cb, NEW ret, Request(id, size, cb, ret), DropRequest(ret)
  PROVE  SegInv'
  <1>1. gSeqNum \in Numbers \ {0} /\ gSeqNum \in Nat /\ gSeqNum' = gSeqNum + 1
    <2>1. gSeqNum \in Numbers \ {0}
      BY RequestData
    <2> QED
      BY <2>1 DEF Request, Numbers
  <1>2. \A j \in Numbers \ {gSeqNum} : shm'[j] = shm[j]
    BY RequestData
  <1>3. Unused'
    BY <1>1, <1>2 DEF SegInv, Unused, Numbers
  <1>4. Stocked'
    <2> SUFFICES ASSUME NEW t \in TaskIds, NEW n \in Nat, At'[t][n].SeqNum # 0
                 PROVE  shm'[At'[t][n].SeqNum] = shm[At'[t][n].SeqNum]
      BY ReadStocked DEF SegInv
    <2>1. PICK k \in Nat : At'[t][n] = At[t][k]
      BY DEF MgrReads
    <2> QED
      BY <1>1, <1>2, <2>1, LongIsNumbered DEF Numbers
  <1>5. Carried'
    <2>1. NoneAdded
      BY DEF DropRequest, NoneAdded
    <2> QED
      BY <2>1, ReadRequestCarried DEF SegInv
  <1> QED
    BY <1>3, <1>4, <1>5 DEF SegInv

LEMMA RequestSeg ==
  ASSUME FlightIInv, SegInv, gSeqNum <= MaxSeq, mpc # "send", UNCHANGED <<tpc, hold>>,
         \/ UNCHANGED mq
         \/ Dequeue(TSKID_MGR) /\ Head(mq[TSKID_MGR]).Type \notin ResponseTypes,
         NEW id, NEW size, NEW cb, NEW ret, Request(id, size, cb, ret)
  PROVE  SegInv'
  <1>1. PICK d \in {0, 1} : /\ MgrPosts(d, out'.msg)
                            /\ UNCHANGED out => MgrReads(d)
                            /\ d = 1 => At[TSKID_MGR][1].Type \notin ResponseTypes
    BY Reading DEF FlightIInv, TypeOK
  <1>2. CASE PostRequest(id, size, cb, ret)
    BY <1>1, <1>2, PostSeg
  <1>3. CASE DropRequest(ret)
    <2>1. MgrReads(d)
      BY <1>1, <1>3 DEF DropRequest
    <2> QED
      BY <1>1, <1>3, <2>1, DropSeg
  <1> QED
    BY <1>2, <1>3 DEF Request, SendShortRequest, SendLongRequest
-----------------------------------------------------------------------------
(* Sending, and the steps of the servers.                                   *)
LEMMA SendSeg ==
  ASSUME FlightIInv, SegInv, NEW t \in TaskIds, NEW to \in TaskIds, Sends(t, to),
         UNCHANGED <<shm, requests, gSeqNum>>,
         \A u \in Servers \ {t} : tpc'[u] = tpc[u],
         t \in Servers => tpc[t] = "send"
  PROVE  SegInv'
  <1>1. PICK k \in Nat \ {0} :
           /\ At[to][k] = NoMsg
           /\ \A u \in TaskIds, n \in Nat :
                At'[u][n] = IF u = to /\ n = k THEN At[t][0]
                            ELSE IF u = t /\ n = 0 THEN NoMsg ELSE At[u][n]
    BY DEF Sends
  <1>2. Stocked'
    <2> SUFFICES ASSUME NEW u \in TaskIds, NEW n \in Nat
                 PROVE  Stored(u, n, At[u][n], shm[At[u][n].SeqNum])'
      BY DEF Stocked
    <2>1. CASE u = to /\ n = k
      <3>1. At'[u][n] = At[t][0] /\ ~ InHands(u, n)
        BY <1>1, <2>1 DEF InHands
      <3>2. Stored(t, 0, At[t][0], shm[At[t][0].SeqNum])
        BY DEF SegInv, Stocked
      <3> QED
        BY <3>1, <3>2 DEF Stored, InHands
    <2>2. CASE ~ (u = to /\ n = k) /\ u = t /\ n = 0
      <3>1. At'[u][n] = NoMsg
        BY <1>1, <2>2
      <3> QED
        BY <3>1 DEF Stored, IsLong, NoMsg, MSG_TYPE_LONG_REQUEST, MSG_TYPE_LONG_RESPONSE
    <2>3. CASE ~ (u = to /\ n = k) /\ ~ (u = t /\ n = 0)
      <3>1. At'[u][n] = At[u][n] /\ (InHands(u, n) => u \in Servers \ {t})
        BY <1>1, <2>3 DEF InHands
      <3>2. Stored(u, n, At[u][n], shm[At[u][n].SeqNum])
        BY DEF SegInv, Stocked
      <3> QED
        BY <3>1, <3>2 DEF Stored, InHands
    <2> QED
      BY <2>1, <2>2, <2>3
  <1>3. Carried'
    <2>1. NoMsg.SeqNum = 0 /\ 0 \in Nat
      BY DEF NoMsg
    <2> SUFFICES ASSUME NEW i \in Slots, requests[i].SeqNum # 0,
                        TSKID_FROM_REQID(requests[i].RequestID) # TSKID_MGR
                 PROVE  \E u \in TaskIds, n \in Nat : At'[u][n].SeqNum = requests[i].SeqNum
      BY DEF Carried
    <2>2. PICK u \in TaskIds, n \in Nat : At[u][n].SeqNum = requests[i].SeqNum
      BY DEF SegInv, Carried
    <2>3. CASE u = t /\ n = 0
      BY <1>1, <2>2, <2>3
    <2>4. CASE ~ (u = t /\ n = 0)
      BY <1>1, <2>1, <2>2, <2>4
    <2> QED
      BY <2>3, <2>4
  <1> QED
    BY <1>2, <1>3 DEF SegInv, Unused

LEMMA TakeCarried ==
  ASSUME FlightIInv, Carried, NEW t \in Servers, Takes(t), tpc[t] = "wait", UNCHANGED requests
  PROVE  Carried'
  <1> SUFFICES ASSUME NEW i \in Slots, requests[i].SeqNum # 0,
                      TSKID_FROM_REQID(requests[i].RequestID) # TSKID_MGR
               PROVE  \E u \in TaskIds, n \in Nat : At'[u][n].SeqNum = requests[i].SeqNum
    BY DEF Carried
  <1>1. PICK u \in TaskIds, n \in Nat : At[u][n].SeqNum = requests[i].SeqNum
    BY DEF Carried
  <1>2. ~ (u = t /\ n = 0)
    BY <1>1, AtIs, Tasks DEF FlightIInv, FlightInv, Hands, Hand, NoMsg
  <1>3. CASE u = t
    <2>1. n - 1 \in Nat /\ (n - 1) + 1 = n
      BY <1>2, <1>3
    <2>2. At'[u][n - 1] = At[u][n]
      BY <1>3, <2>1 DEF Takes
    <2> QED
      BY <1>1, <2>1, <2>2
  <1>4. CASE u # t
    BY <1>1, <1>4 DEF Takes
  <1> QED
    BY <1>3, <1>4

LEMMA TakeSeg ==
  ASSUME FlightIInv, SegInv, UNCHANGED <<out, requests, gSeqNum>>, NEW t \in Servers,
         ReceiveShortRequest(t) \/ ReceiveLongRequest(t) \/ RejectMessage(t)
  PROVE  SegInv'
  <1> DEFINE m == Head(mq[t])
             k == m.SeqNum
  <1>1. Take(t) /\ tpc[t] = "wait" /\ t \in TaskIds \ {TSKID_MGR}
    BY Tasks DEF Take, ReceiveShortRequest, ReceiveLongRequest, RejectMessage
  <1>2. Takes(t) /\ At[t][1] = m
    BY <1>1, Receiving DEF FlightIInv
  <1>3. k \in Numbers /\ k < gSeqNum /\ (IsLong(m) => k # 0)
    BY <1>1, <1>2, LongIsNumbered
  <1>4. \/ tpc'[t] = "process" /\ UNCHANGED shm /\ ~ IsLong(m)
        \/ tpc'[t] = "process" /\ Remove(k) /\ IsLong(m)
        \/ tpc'[t] = "dead" /\ UNCHANGED shm
    BY DEF ReceiveShortRequest, ReceiveLongRequest, RejectMessage, AcceptSize, Die, IsLong,
       MSG_TYPE_SHORT_REQUEST, MSG_TYPE_LONG_REQUEST, MSG_TYPE_LONG_RESPONSE,
       FlightIInv, TypeOK, TaskTypeOK
  <1>5. \A u \in Servers \ {t} : tpc'[u] = tpc[u]
    BY DEF ReceiveShortRequest, ReceiveLongRequest, RejectMessage, AcceptSize, Die,
       FlightIInv, TypeOK, TaskTypeOK
  <1>6. \A j \in Numbers \ {k} : shm'[j] = shm[j]
    BY <1>3, <1>4, RemoveOnly DEF FlightIInv, TypeOK
  <1>7. shm'[k] = shm[k] \/ (IsLong(m) /\ shm'[k] = NoSeg)
    BY <1>3, <1>4, RemoveOnly DEF FlightIInv, TypeOK
  <1> HIDE DEF m
  <1>8. Stocked'
    <2> SUFFICES ASSUME NEW u \in TaskIds, NEW n \in Nat
                 PROVE  Stored(u, n, At[u][n], shm[At[u][n].SeqNum])'
      BY DEF Stocked
    <2>1. CASE u = t /\ n = 0
      <3>1. At'[u][n] = m
        BY <1>2, <2>1 DEF Takes
      <3>2. Stored(t, 1, m, shm[k])
        BY <1>1, <1>2 DEF SegInv, Stocked
      <3>3. CASE tpc'[t] = "process" /\ UNCHANGED shm /\ ~ IsLong(m)
        BY <2>1, <3>1, <3>2, <3>3 DEF Stored, InHands
      <3>4. CASE tpc'[t] = "process" /\ Remove(k) /\ IsLong(m)
        <4>1. shm'[k] = NoSeg
          BY <1>3, <3>4, RemoveOnly DEF FlightIInv, TypeOK
        <4> QED
          BY <2>1, <3>1, <3>4, <4>1 DEF Stored, InHands
      <3>5. CASE tpc'[t] = "dead" /\ UNCHANGED shm
        BY <2>1, <3>1, <3>2, <3>5 DEF Stored, InHands
      <3> QED
        BY <1>4, <3>3, <3>4, <3>5
    <2>2. CASE ~ (u = t /\ n = 0)
      <3>1. PICK j \in Nat : At'[u][n] = At[u][j] /\ (u = t => j # 1) /\ (j = 0 <=> n = 0)
        BY <1>2, <2>2 DEF Takes
      <3>2. Stored(u, j, At[u][j], shm[At[u][j].SeqNum])
        BY DEF SegInv, Stocked
      <3>3. At[u][j].SeqNum # 0 => At[u][j].SeqNum \in Numbers \ {k}
        <4>1. At[u][j].SeqNum # 0 => At[u][j].SeqNum # At[t][1].SeqNum
          BY <1>1, <3>1 DEF FlightIInv, FlightInv, Unique
        <4> QED
          BY <1>2, <4>1, LongIsNumbered
      <3>4. IsLong(At[u][j]) => At[u][j].SeqNum # 0
        BY LongIsNumbered
      <3> QED
        BY <1>5, <1>6, <2>2, <3>1, <3>2, <3>3, <3>4 DEF Stored, InHands
    <2> QED
      BY <2>1, <2>2
  <1>9. Carried'
    BY <1>1, <1>2, TakeCarried DEF SegInv
  <1>10. Unused'
    BY <1>3, <1>6, <1>7 DEF SegInv, Unused
  <1> QED
    BY <1>8, <1>9, <1>10 DEF SegInv

LEMMA ResponseSeg ==
  ASSUME FlightIInv, SegInv, UNCHANGED <<mq, out, requests, gSeqNum>>, NEW t \in Servers,
         tpc[t] = "process", NEW size, Response(t, size)
  PROVE  SegInv'
  <1> DEFINE m == ResponseMsg(hold[t].SeqNum, size)
             k == hold[t].SeqNum
  <1>1. t \in TaskIds \ {TSKID_MGR} /\ At[t][0] = hold[t]
    BY Tasks, AtIs DEF Hand
  <1>2. k \in Numbers /\ k < gSeqNum /\ k # 0
    <2>1. hold[t].Type \in RequestTypes /\ Fits(t, 0, hold[t])
      BY <1>1 DEF FlightIInv, FlightInv, Kinds, Hands, Routed
    <2> QED
      BY <1>1, <2>1, LongIsNumbered DEF Fits
  <1>3. shm[k] = NoSeg
    <2>1. Stored(t, 0, hold[t], shm[k])
      BY <1>1 DEF SegInv, Stocked
    <2> QED
      BY <1>2, <2>1 DEF Stored, InHands
  <1>4. /\ m.SeqNum = k /\ m.Size = size
        /\ m.Type = IF FitsQueue(size) THEN MSG_TYPE_SHORT_RESPONSE ELSE MSG_TYPE_LONG_RESPONSE
    BY DEF ResponseMsg
  <1>5. /\ hold'[t] = m /\ tpc'[t] = "send"
        /\ \A u \in Servers \ {t} : hold'[u] = hold[u] /\ tpc'[u] = tpc[u]
    BY DEF Response, FlightIInv, TypeOK, TaskTypeOK
  <1> HIDE DEF m
  <1>6. \/ FitsQueue(size) /\ UNCHANGED shm
        \/ /\ ~ FitsQueue(size)
           /\ shm'[k] = [size |-> size, data |-> "resp"]
           /\ \A j \in Numbers \ {k} : shm'[j] = shm[j]
    BY <1>2, <1>3, WriteOnly
       DEF Response, SendShortResponse, SendLongResponse, FlightIInv, TypeOK
  <1>7. Answers(t, m)
    <2>1. \A u \in TaskIds : At'[u][0] = IF u = t THEN m ELSE At[u][0]
      BY <1>1, <1>5, AtIs, Tasks DEF Hand
    <2>2. \A u \in TaskIds, n \in Nat \ {0} : At'[u][n] = At[u][n]
      BY AtSameQueues
    <2> QED
      BY <2>1, <2>2 DEF Answers
  <1>8. Stocked'
    <2> SUFFICES ASSUME NEW u \in TaskIds, NEW n \in Nat
                 PROVE  Stored(u, n, At[u][n], shm[At[u][n].SeqNum])'
      BY DEF Stocked
    <2>1. CASE u = t /\ n = 0
      <3>1. At'[u][n] = m
        BY <1>7, <2>1 DEF Answers
      <3>2. /\ IsLong(m) <=> ~ FitsQueue(size)
            /\ m.Type # MSG_TYPE_LONG_REQUEST
        BY <1>4 DEF IsLong, MSG_TYPE_LONG_REQUEST, MSG_TYPE_SHORT_RESPONSE,
           MSG_TYPE_LONG_RESPONSE
      <3>3. shm'[m.SeqNum] = IF FitsQueue(size) THEN NoSeg ELSE SegmentOf(m)
        BY <1>3, <1>4, <1>6, <3>2 DEF SegmentOf
      <3> QED
        BY <1>5, <2>1, <3>1, <3>2, <3>3 DEF Stored, InHands, SegmentOf
    <2>2. CASE ~ (u = t /\ n = 0)
      <3>1. At'[u][n] = At[u][n]
        BY <1>7, <2>2 DEF Answers
      <3>2. Stored(u, n, At[u][n], shm[At[u][n].SeqNum])
        BY DEF SegInv, Stocked
      <3>3. At[u][n].SeqNum # 0 => At[u][n].SeqNum \in Numbers \ {k}
        <4>1. At[u][n].SeqNum # 0 => At[u][n].SeqNum # At[t][0].SeqNum
          BY <1>1, <2>2 DEF FlightIInv, FlightInv, Unique
        <4> QED
          BY <1>1, <4>1, LongIsNumbered
      <3>4. IsLong(At[u][n]) => At[u][n].SeqNum # 0
        BY LongIsNumbered
      <3> QED
        BY <1>5, <1>6, <2>2, <3>1, <3>2, <3>3, <3>4 DEF Stored, InHands
    <2> QED
      BY <2>1, <2>2
  <1>9. Carried'
    <2>1. \A u \in TaskIds, n \in Nat : At'[u][n].SeqNum = At[u][n].SeqNum
      BY <1>1, <1>4, <1>7 DEF Answers
    <2> QED
      BY <2>1 DEF SegInv, Carried
  <1>10. Unused'
    <2> SUFFICES ASSUME NEW j \in Numbers, j = 0 \/ j >= gSeqNum PROVE shm'[j] = NoSeg
      BY DEF Unused
    <2>1. gSeqNum \in Nat /\ j # k
      BY <1>2 DEF FlightIInv, TypeOK, MgrTypeOK, Numbers
    <2> HIDE DEF k
    <2> QED
      BY <1>6, <2>1 DEF SegInv, Unused
  <1> QED
    BY <1>8, <1>9, <1>10 DEF SegInv

LEMMA DieSeg ==
  ASSUME FlightIInv, SegInv, UNCHANGED <<mq, hold, out, requests, shm, gSeqNum>>,
         NEW t \in Servers, Die(t)
  PROVE  SegInv'
  <1>1. MgrReads(0)
    BY Reading DEF FlightIInv, TypeOK
  <1>2. \A u \in TaskIds, n \in Nat : At'[u][n] = At[u][n]
    BY <1>1 DEF MgrReads
  <1>3. tpc'[t] = "dead" /\ \A u \in Servers \ {t} : tpc'[u] = tpc[u]
    BY DEF Die, FlightIInv, TypeOK, TaskTypeOK
  <1>4. Stocked'
    <2> SUFFICES ASSUME NEW u \in TaskIds, NEW n \in Nat
                 PROVE  Stored(u, n, At[u][n], shm[At[u][n].SeqNum])'
      BY DEF Stocked
    <2>1. Stored(u, n, At[u][n], shm[At[u][n].SeqNum]) /\ At'[u][n] = At[u][n]
      BY <1>2 DEF SegInv, Stocked
    <2> QED
      BY <1>3, <2>1 DEF Stored, InHands
  <1>5. Carried'
    <2>1. NoneAdded
      BY DEF NoneAdded
    <2> QED
      BY <1>1, <2>1, RestCarried DEF SegInv
  <1>6. Unused'
    BY DEF SegInv, Unused
  <1> QED
    BY <1>4, <1>5, <1>6 DEF SegInv

LEMMA ConsoleSeg ==
  ASSUME FlightIInv, SegInv, ConsoleRequest
  PROVE  SegInv'
  <1>1. PICK id \in ConsoleRequestIds, size \in ConsoleSizes : FakeRequest(id, size)
    BY DEF ConsoleRequest
  <1> DEFINE m == FakeMsg(id, size)
  <1>2. m \in Message /\ ~ IsLong(m) /\ m.SeqNum = 0
    BY <1>1, Zeros, ConsoleAssumption
       DEF Message, MessageTypes, FakeMsg, IsLong, MSG_TYPE_SHORT_REQUEST,
           MSG_TYPE_LONG_REQUEST, MSG_TYPE_LONG_RESPONSE
  <1>3. Enqueue(TSKID_MGR, m)
    BY <1>1 DEF FakeRequest
  <1> HIDE DEF m
  <1>4. UNCHANGED <<out, hold, tpc, requests, shm, gSeqNum>>
    BY DEF ConsoleRequest, mgrVars, taskVars
  <1>5. \A u \in TaskIds, n \in Nat :
          At'[u][n] = At[u][n] \/ (At'[u][n] = m /\ n # 0 /\ At[u][n] = NoMsg)
    <2>1. \A u \in TaskIds, n \in Nat \ {0} :
            At'[u][n] = At[u][n] \/ (At'[u][n] = m /\ At[u][n] = NoMsg)
      BY <1>2, <1>3, AtEnqueue, Tasks DEF FlightIInv, TypeOK
    <2>2. \A u \in TaskIds : At'[u][0] = At[u][0]
      BY <1>4, AtIs DEF Hand
    <2> QED
      BY <2>1, <2>2
  <1>6. Stocked'
    <2> SUFFICES ASSUME NEW u \in TaskIds, NEW n \in Nat
                 PROVE  Stored(u, n, At[u][n], shm[At[u][n].SeqNum])'
      BY DEF Stocked
    <2>1. Stored(u, n, At[u][n], shm[At[u][n].SeqNum])
      BY DEF SegInv, Stocked
    <2> QED
      BY <1>2, <1>4, <1>5, <2>1 DEF Stored, InHands
  <1>7. Carried'
    <2>1. \A u \in TaskIds, n \in Nat : At[u][n].SeqNum # 0 => At'[u][n] = At[u][n]
      BY <1>5 DEF NoMsg
    <2> QED
      BY <1>4, <2>1 DEF SegInv, Carried
  <1>8. Unused'
    BY <1>4 DEF SegInv, Unused
  <1> QED
    BY <1>6, <1>7, <1>8 DEF SegInv
-----------------------------------------------------------------------------
LEMMA MgrStepSeg ==
  ASSUME FlightIInv, SegInv, NumbersFit, MgrNext, UNCHANGED taskVars
  PROVE  SegInv'
  <1> UNCHANGED <<tpc, hold>>
    BY DEF taskVars
  <1>1. CASE \/ Select \/ SelectKey \/ ProcessTimers \/ EndTimeouts \/ CbReturn
             \/ \E expired \in SUBSET Slots : ReadClock(expired)
    BY <1>1, QuietSeg DEF Select, SelectKey, ProcessTimers, EndTimeouts, CbReturn, ReadClock,
       ipcVars, NoneAdded
  <1>2. CASE RelayRequest
    <2> DEFINE m == Head(mq[TSKID_MGR])
    <2>1. m.Type \notin ResponseTypes /\ Dequeue(TSKID_MGR) /\ mpc # "send"
      BY <1>2 DEF RelayRequest, ResponseTypes, MSG_TYPE_SHORT_REQUEST,
         MSG_TYPE_SHORT_RESPONSE, MSG_TYPE_LONG_RESPONSE
    <2>2. CASE gSeqNum <= MaxSeq /\ Request(m.RequestID, m.Size, "console", "timers")
      BY <2>1, <2>2, RequestSeg
    <2>3. CASE UNCHANGED <<requests, gSeqNum, out, fate, shm>>
      BY <2>1, <2>3, OtherSeg
    <2> QED
      BY <1>2, <2>2, <2>3 DEF RelayRequest
  <1>3. CASE ProcessShortResponses
    BY <1>3, ShortResponseSeg
  <1>4. CASE ProcessLongResponses
    BY <1>4, LongResponseSeg
  <1>5. CASE ProcessOtherMessage
    BY <1>5, OtherSeg DEF ProcessOtherMessage
  <1>6. CASE TimeOutRequest \/ LoadWindow
    <2>1. NoneAdded
      BY <1>6, Retiring DEF TimeOutRequest, LoadWindow, FlightIInv, TypeOK
    <2> QED
      BY <1>6, <2>1, QuietSeg DEF TimeOutRequest, LoadWindow, ipcVars
  <1>7. CASE AppRequest
    BY <1>7, NumbersLeftBound, RequestSeg DEF AppRequest, FlightIInv, TypeOK
  <1>8. CASE MqSend
    <2>1. out.to \in TaskIds /\ UNCHANGED <<shm, requests, gSeqNum>>
      BY <1>8 DEF FlightIInv, TypeOK, MgrTypeOK, Sending, MqSend
    <2>2. Sends(TSKID_MGR, out.to)
      BY <1>8, <2>1, Transfer, Tasks DEF MqSend, Hand, NoOut, FlightIInv
    <2> QED
      BY <2>1, <2>2, SendSeg, Tasks
  <1> QED
    BY <1>1, <1>2, <1>3, <1>4, <1>5, <1>6, <1>7, <1>8 DEF MgrNext

LEMMA TaskStepSeg ==
  ASSUME FlightIInv, SegInv, TaskNext, UNCHANGED mgrVars
  PROVE  SegInv'
  <1> UNCHANGED <<out, requests, gSeqNum>>
    BY DEF mgrVars
  <1>1. PICK t \in Servers : TaskStep(t) \/ TaskSendFails(t) \/ TaskKilled(t)
    BY DEF TaskNext
  <1>2. CASE ReceiveShortRequest(t) \/ ReceiveLongRequest(t) \/ RejectMessage(t)
    BY <1>2, TakeSeg
  <1>3. CASE ProcessRequest(t)
    BY <1>3, ResponseSeg, DieSeg DEF ProcessRequest
  <1>4. CASE TaskMqSend(t)
    <2>1. /\ t \in TaskIds \ {TSKID_MGR} /\ tpc[t] = "send" /\ UNCHANGED shm
          /\ hold'[t] = NoMsg
          /\ \A u \in Servers \ {t} : hold'[u] = hold[u] /\ tpc'[u] = tpc[u]
      BY <1>4, Tasks DEF TaskMqSend, FlightIInv, TypeOK, TaskTypeOK
    <2>2. Sends(t, TSKID_MGR)
      BY <1>4, <2>1, Transfer, Tasks DEF TaskMqSend, Hand, FlightIInv
    <2> QED
      BY <2>1, <2>2, SendSeg, Tasks
  <1>5. CASE TaskSendFails(t) \/ TaskKilled(t)
    BY <1>5, DieSeg DEF TaskSendFails, TaskKilled, ipcVars
  <1> QED
    BY <1>1, <1>2, <1>3, <1>4, <1>5 DEF TaskStep

SegIInv == FlightIInv /\ (NumbersFit => SegInv)

LEMMA NumbersGrow ==
  ASSUME FlightIInv, [Next]_vars, NumbersFit'
  PROVE  NumbersFit
  <1>1. gSeqNum \in Nat /\ (gSeqNum' = gSeqNum \/ gSeqNum' = gSeqNum + 1)
    <2>1. gSeqNum \in Nat
      BY DEF FlightIInv, TypeOK, MgrTypeOK
    <2> QED
      BY <2>1 DEF Next, MgrStep, MgrNext, ServerStep, ConsoleRequest, vars, mgrVars, Select,
         SelectKey, RelayRequest, ProcessShortResponses, ProcessLongResponses,
         ProcessOtherMessage, ProcessTimers, ReadClock, TimeOutRequest, EndTimeouts,
         AppRequest, LoadWindow, CbReturn, MqSend, Request
  <1> QED
    BY <1>1, MgrAssumption DEF NumbersFit

LEMMA NextSegIInv == SegIInv /\ [Next]_vars => SegIInv'
  <1> SUFFICES ASSUME SegIInv, [Next]_vars PROVE SegIInv'
    OBVIOUS
  <1>1. FlightIInv'
    BY NextFlightIInv DEF SegIInv
  <1> SUFFICES ASSUME NumbersFit' PROVE SegInv'
    BY <1>1 DEF SegIInv
  <1>2. NumbersFit /\ FlightIInv /\ SegInv
    BY NumbersGrow DEF SegIInv
  <1>3. CASE MgrStep
    BY <1>2, <1>3, MgrStepSeg DEF MgrStep
  <1>4. CASE ServerStep
    BY <1>2, <1>4, TaskStepSeg DEF ServerStep
  <1>5. CASE ConsoleRequest
    BY <1>2, <1>5, ConsoleSeg
  <1>6. CASE UNCHANGED vars
    BY <1>2, <1>6, QuietSeg DEF vars, ipcVars, mgrVars, taskVars, NoneAdded
  <1> QED
    BY <1>3, <1>4, <1>5, <1>6 DEF Next

LEMMA SegIsInv == Spec => []SegIInv
  <1>1. Init => SegIInv
    BY InitFlightIInv, InitSeg DEF SegIInv
  <1> QED
    BY <1>1, NextSegIInv, PTL DEF Spec

(* While numbers fit a USHORT, no answer is lost on the way: every request  *)
(* in the table is in some queue or hand, or is one for the manager itself. *)
THEOREM PendingStaysInFlight == Spec => []PendingIsInFlight
  <1>1. SegIInv => PendingIsInFlight
    <2> SUFFICES ASSUME SegIInv, NumbersFit, NEW s \in Pending, Target(s) # TSKID_MGR
                 PROVE  Carriers(s) # {}
      BY DEF PendingIsInFlight
    <2>1. s \in SeqNums /\ s # 0
      BY DEF Pending, SeqNums
    <2>2. \E i \in Slots : requests[i].SeqNum = s
      BY DEF SegIInv, FlightIInv, TableInv, OneSlotPerRequest, UsedSlots
    <2>3. Holder(s) \in Slots /\ requests[Holder(s)].SeqNum = s
      BY <2>2 DEF Holder
    <2>4. PICK t \in TaskIds, n \in Nat : At[t][n].SeqNum = s
      BY <2>1, <2>3 DEF SegIInv, SegInv, Carried, Target
    <2> QED
      BY <2>1, <2>4, CarrierPlaces DEF SegIInv, FlightIInv
  <1> QED
    BY <1>1, SegIsInv, PTL

(* While numbers fit a USHORT, whoever takes a long message finds the very  *)
(* data its sender stored, although requests and answers share their keys.  *)
THEOREM LongMessagesComplete == Spec => []LongMessagesHaveTheirData
  <1>1. SegIInv => LongMessagesHaveTheirData
    <2> SUFFICES ASSUME SegIInv, NumbersFit, NEW t \in TaskIds, NEW n \in DOMAIN mq[t],
                        IsLong(mq[t][n])
                 PROVE  shm[mq[t][n].SeqNum] = SegmentOf(mq[t][n])
      BY DEF LongMessagesHaveTheirData, Queued, SegmentOf
    <2>1. n \in Nat \ {0}
      <3>1. mq[t] \in Seq(Message)
        BY DEF SegIInv, FlightIInv, TypeOK, IpcTypeOK
      <3> QED
        BY <3>1
    <2>2. At[t][n] = mq[t][n]
      BY <2>1, AtIs
    <2>3. Stored(t, n, At[t][n], shm[At[t][n].SeqNum])
      BY <2>1 DEF SegIInv, SegInv, Stocked
    <2> QED
      BY <2>1, <2>2, <2>3 DEF Stored, InHands
  <1> QED
    BY <1>1, SegIsInv, PTL
-----------------------------------------------------------------------------
(* Which segments can be left over.                                         *)
Accounted ==
  \A k \in Segments :
    /\ k \in SeqNums
    /\ \/ fate[k] = "refused"
       \/ \E t \in TaskIds, n \in Nat : IsLong(At[t][n]) /\ At[t][n].SeqNum = k

\* a long message stays at some place while its segment stays
LongStays ==
  \A t \in TaskIds, n \in Nat :
    IsLong(At[t][n]) /\ shm'[At[t][n].SeqNum] # NoSeg
      => \E u \in TaskIds, k \in Nat :
           IsLong(At'[u][k]) /\ At'[u][k].SeqNum = At[t][n].SeqNum

\* a new segment belongs to a request just refused, or to a long message
NewAccounted ==
  \A k \in Segments' \ Segments :
    /\ k \in SeqNums
    /\ \/ fate'[k] = "refused"
       \/ \E t \in TaskIds, n \in Nat : IsLong(At'[t][n]) /\ At'[t][n].SeqNum = k

LEMMA StaysAccounted ==
  ASSUME Accounted, FinalStep, LongStays, NewAccounted
  PROVE  Accounted'
  <1> SUFFICES ASSUME NEW k \in Segments'
               PROVE  /\ k \in SeqNums
                      /\ \/ fate'[k] = "refused"
                         \/ \E t \in TaskIds, n \in Nat :
                              IsLong(At'[t][n]) /\ At'[t][n].SeqNum = k
    BY DEF Accounted, IsLong
  <1>1. CASE k \notin Segments
    BY <1>1 DEF NewAccounted
  <1>2. CASE k \in Segments
    <2>1. shm'[k] # NoSeg /\ k \in SeqNums
      BY <1>2 DEF Segments, Accounted
    <2>2. CASE fate[k] = "refused"
      BY <2>1, <2>2 DEF FinalStep
    <2>3. CASE \E t \in TaskIds, n \in Nat : IsLong(At[t][n]) /\ At[t][n].SeqNum = k
      BY <2>1, <2>3 DEF LongStays
    <2> QED
      BY <1>2, <2>1, <2>2, <2>3 DEF Accounted
  <1> QED
    BY <1>1, <1>2

LEMMA NoneWritten ==
  ASSUME \A k \in Numbers : shm'[k] = shm[k] \/ shm'[k] = NoSeg
  PROVE  NewAccounted
  BY DEF NewAccounted, Segments

LEMMA NothingLong ==
  /\ ~ IsLong(NoMsg)
  /\ \A m : m.Type = MSG_TYPE_SHORT_REQUEST \/ m.Type = MSG_TYPE_SHORT_RESPONSE => ~ IsLong(m)
  BY DEF IsLong, NoMsg, MSG_TYPE_LONG_REQUEST, MSG_TYPE_LONG_RESPONSE,
     MSG_TYPE_SHORT_REQUEST, MSG_TYPE_SHORT_RESPONSE

LEMMA ReadLongStays ==
  ASSUME FlightIInv, NEW d \in {0, 1}, NEW m, MgrReads(d) \/ MgrPosts(d, m), mpc # "send",
         d = 1 => ~ IsLong(At[TSKID_MGR][1]) \/ shm'[At[TSKID_MGR][1].SeqNum] = NoSeg
  PROVE  LongStays
  <1> SUFFICES ASSUME NEW t \in TaskIds, NEW n \in Nat, IsLong(At[t][n]),
                      shm'[At[t][n].SeqNum] # NoSeg
               PROVE  \E k \in Nat : At'[t][k] = At[t][n]
    BY DEF LongStays
  <1>1. ~ (t = TSKID_MGR /\ n = 0)
    BY AtIs, NothingLong, Tasks DEF Hand, FlightIInv, FlightInv, Hands, NoOut
  <1>2. ~ (t = TSKID_MGR /\ n = 1 /\ d = 1)
    OBVIOUS
  <1>3. CASE t = TSKID_MGR
    <2>1. n - d \in Nat /\ n - d # 0 /\ (n - d) + d = n
      BY <1>1, <1>2, <1>3
    <2>2. At'[t][n - d] = At[t][n]
      BY <1>3, <2>1 DEF MgrReads, MgrPosts
    <2> QED
      BY <2>1, <2>2
  <1>4. CASE t # TSKID_MGR
    BY <1>4 DEF MgrReads, MgrPosts
  <1> QED
    BY <1>3, <1>4

LEMMA RequestAccounted ==
  ASSUME FlightIInv, SegInv, gSeqNum <= MaxSeq, mpc # "send", UNCHANGED <<tpc, hold>>,
         \/ UNCHANGED mq
         \/ Dequeue(TSKID_MGR) /\ Head(mq[TSKID_MGR]).Type = MSG_TYPE_SHORT_REQUEST,
         NEW id, NEW size, NEW cb, NEW ret, Request(id, size, cb, ret)
  PROVE  LongStays /\ NewAccounted
  <1>1. PICK d \in {0, 1} : /\ MgrPosts(d, out'.msg)
                            /\ d = 1 => ~ IsLong(At[TSKID_MGR][1])
    BY Reading, NothingLong DEF FlightIInv, TypeOK
  <1>2. LongStays
    BY <1>1, ReadLongStays
  <1>3. gSeqNum \in SeqNums
    BY NumberType DEF FlightIInv, TypeOK
  <1>4. \A k \in Segments' \ Segments : k = gSeqNum
    BY RequestData DEF Segments
  <1>5. CASE DropRequest(ret)
    <2>1. fate'[gSeqNum] = "refused"
      BY <1>3, <1>5 DEF DropRequest, FlightIInv, TypeOK, MgrTypeOK
    <2> QED
      BY <1>2, <1>3, <1>4, <2>1 DEF NewAccounted
  <1>6. CASE PostRequest(id, size, cb, ret)
    <2>1. gSeqNum \in Segments' => ~ FitsQueue(size)
      BY <1>6, RequestData DEF Segments
    <2>2. out'.msg.SeqNum = gSeqNum /\ (~ FitsQueue(size) => IsLong(out'.msg))
      BY <1>6 DEF PostRequest, RequestMsg, IsLong
    <2>3. At'[TSKID_MGR][0] = out'.msg
      BY <1>1, Tasks DEF MgrPosts
    <2> QED
      BY <1>2, <1>3, <1>4, <2>1, <2>2, <2>3, Tasks DEF NewAccounted
  <1> QED
    BY <1>5, <1>6 DEF Request, SendShortRequest, SendLongRequest

LEMMA StillAccounted ==
  ASSUME FlightIInv, UNCHANGED <<mq, out, hold, shm>>
  PROVE  LongStays /\ NewAccounted
  <1>1. MgrReads(0)
    BY Reading DEF FlightIInv, TypeOK
  <1>2. \A t \in TaskIds, n \in Nat : At'[t][n] = At[t][n]
    BY <1>1 DEF MgrReads
  <1> QED
    BY <1>2, NoneWritten DEF LongStays

LEMMA SendAccounted ==
  ASSUME NEW t \in TaskIds, NEW to \in TaskIds, Sends(t, to), UNCHANGED shm
  PROVE  LongStays /\ NewAccounted
  <1>1. PICK k \in Nat \ {0} :
           /\ At[to][k] = NoMsg
           /\ \A u \in TaskIds, n \in Nat :
                At'[u][n] = IF u = to /\ n = k THEN At[t][0]
                            ELSE IF u = t /\ n = 0 THEN NoMsg ELSE At[u][n]
    BY DEF Sends
  <1> SUFFICES ASSUME NEW u \in TaskIds, NEW n \in Nat, IsLong(At[u][n])
               PROVE  \E v \in TaskIds, j \in Nat : At'[v][j] = At[u][n]
    BY NoneWritten DEF LongStays
  <1>2. CASE u = t /\ n = 0
    BY <1>1, <1>2
  <1>3. CASE ~ (u = t /\ n = 0)
    BY <1>1, <1>3, NothingLong
  <1> QED
    BY <1>2, <1>3

LEMMA MgrAccounted ==
  ASSUME FlightIInv, SegInv, NumbersFit, NothingToSelf, MgrNext, UNCHANGED taskVars
  PROVE  LongStays /\ NewAccounted
  <1> UNCHANGED <<tpc, hold>>
    BY DEF taskVars
  <1> DEFINE m == Head(mq[TSKID_MGR])
  <1>1. CASE \/ Select \/ SelectKey \/ ProcessTimers \/ EndTimeouts \/ CbReturn
             \/ TimeOutRequest \/ LoadWindow
             \/ \E expired \in SUBSET Slots : ReadClock(expired)
    BY <1>1, StillAccounted DEF Select, SelectKey, ProcessTimers, EndTimeouts, CbReturn,
       TimeOutRequest, LoadWindow, ReadClock, ipcVars
  <1>2. ASSUME Dequeue(TSKID_MGR), UNCHANGED out, mpc = "ipc",
               ~ IsLong(m) \/ shm'[m.SeqNum] = NoSeg
        PROVE  LongStays
    <2>1. MgrReads(1) /\ At[TSKID_MGR][1] = m
      BY <1>2, Reading DEF FlightIInv, TypeOK
    <2> QED
      BY <1>2, <2>1, ReadLongStays
  <1>3. CASE RelayRequest
    <2>1. m.Type = MSG_TYPE_SHORT_REQUEST /\ Dequeue(TSKID_MGR) /\ mpc = "ipc"
      BY <1>3 DEF RelayRequest
    <2>2. CASE gSeqNum <= MaxSeq /\ Request(m.RequestID, m.Size, "console", "timers")
      BY <2>1, <2>2, RequestAccounted
    <2>3. CASE UNCHANGED <<requests, gSeqNum, out, fate, shm>>
      BY <1>2, <2>1, <2>3, NothingLong, NoneWritten
    <2> QED
      BY <1>3, <2>2, <2>3 DEF RelayRequest
  <1>4. CASE ProcessShortResponses
    <2>1. /\ m.Type = MSG_TYPE_SHORT_RESPONSE /\ Dequeue(TSKID_MGR) /\ mpc = "ipc"
          /\ UNCHANGED <<out, shm>>
      BY <1>4 DEF ProcessShortResponses
    <2> QED
      BY <1>2, <2>1, NothingLong, NoneWritten
  <1>5. CASE ProcessLongResponses
    <2>1. Dequeue(TSKID_MGR) /\ mpc = "ipc" /\ UNCHANGED out /\ Remove(m.SeqNum)
      BY <1>5, LongResponseSeg DEF ProcessLongResponses
    <2>2. m.SeqNum \in Numbers
      <3>1. At[TSKID_MGR][1] = m
        BY <2>1, Reading DEF FlightIInv, TypeOK
      <3> QED
        BY <3>1, LongIsNumbered, Tasks
    <2>3. shm'[m.SeqNum] = NoSeg /\ \A j \in Numbers \ {m.SeqNum} : shm'[j] = shm[j]
      BY <2>1, <2>2, RemoveOnly DEF FlightIInv, TypeOK
    <2> HIDE DEF m
    <2>4. NewAccounted
      BY <2>3, NoneWritten
    <2> QED
      BY <1>2, <2>1, <2>3, <2>4
  <1>6. CASE ProcessOtherMessage
    <2>1. /\ m.Type \notin ResponseTypes /\ Dequeue(TSKID_MGR) /\ mpc = "ipc"
          /\ UNCHANGED <<out, shm>>
      BY <1>6 DEF ProcessOtherMessage
    <2>2. Fits(TSKID_MGR, 1, m)
      <3>1. At[TSKID_MGR][1] = m
        BY <2>1, Reading DEF FlightIInv, TypeOK
      <3> QED
        BY <3>1, Tasks DEF FlightIInv, FlightInv, Kinds
    <2>3. m.Type # MSG_TYPE_LONG_REQUEST
      BY <2>2 DEF Fits, RequestTypes
    <2>4. ~ IsLong(m)
      BY <2>1, <2>3 DEF IsLong, ResponseTypes
    <2> QED
      BY <1>2, <2>1, <2>4, NoneWritten
  <1>7. CASE AppRequest
    BY <1>7, NumbersLeftBound, RequestAccounted DEF AppRequest, FlightIInv, TypeOK
  <1>8. CASE MqSend
    <2>1. out.to \in TaskIds /\ UNCHANGED shm
      BY <1>8 DEF FlightIInv, TypeOK, MgrTypeOK, Sending, MqSend
    <2>2. Sends(TSKID_MGR, out.to)
      BY <1>8, <2>1, Transfer, Tasks DEF MqSend, Hand, NoOut, FlightIInv
    <2> QED
      BY <2>1, <2>2, SendAccounted, Tasks
  <1> QED
    BY <1>1, <1>3, <1>4, <1>5, <1>6, <1>7, <1>8 DEF MgrNext

LEMMA TakeAccounted ==
  ASSUME FlightIInv, NEW t \in Servers, Take(t), UNCHANGED out,
         UNCHANGED shm \/ Remove(Head(mq[t]).SeqNum)
  PROVE  LongStays /\ NewAccounted
  <1>1. tpc[t] = "wait" /\ t \in TaskIds \ {TSKID_MGR}
    BY Tasks DEF Take
  <1>2. Takes(t) /\ At[t][1] = Head(mq[t])
    BY Receiving DEF FlightIInv
  <1>3. LongStays
    <2> SUFFICES ASSUME NEW u \in TaskIds, NEW n \in Nat, IsLong(At[u][n])
                 PROVE  \E k \in Nat : At'[u][k] = At[u][n]
      BY DEF LongStays
    <2>1. ~ (u = t /\ n = 0)
      BY <1>1, AtIs, NothingLong DEF FlightIInv, FlightInv, Hands, Hand
    <2>2. CASE u = t
      <3>1. n - 1 \in Nat /\ (n - 1) + 1 = n
        BY <2>1, <2>2
      <3> QED
        BY <1>2, <2>2, <3>1 DEF Takes
    <2>3. CASE u # t
      BY <1>2, <2>3 DEF Takes
    <2> QED
      BY <2>2, <2>3
  <1>4. NewAccounted
    <2>1. Head(mq[t]).SeqNum \in Numbers
      BY <1>1, <1>2, LongIsNumbered
    <2>2. \A k \in Numbers : shm'[k] = shm[k] \/ shm'[k] = NoSeg
      BY <2>1, RemoveOnly DEF FlightIInv, TypeOK
    <2> QED
      BY <2>2, NoneWritten
  <1> QED
    BY <1>3, <1>4

LEMMA ResponseAccounted ==
  ASSUME FlightIInv, SegInv, UNCHANGED <<mq, out>>, NEW t \in Servers,
         tpc[t] = "process", NEW size, Response(t, size)
  PROVE  LongStays /\ NewAccounted
  <1> DEFINE m == ResponseMsg(hold[t].SeqNum, size)
             k == hold[t].SeqNum
  <1>1. t \in TaskIds \ {TSKID_MGR} /\ At[t][0] = hold[t]
    BY Tasks, AtIs DEF Hand
  <1>2. k \in Numbers /\ k # 0
    <2>1. hold[t].Type \in RequestTypes /\ Fits(t, 0, hold[t])
      BY <1>1 DEF FlightIInv, FlightInv, Kinds, Hands, Routed
    <2> QED
      BY <1>1, <2>1, LongIsNumbered DEF Fits
  <1>3. shm[k] = NoSeg
    <2>1. Stored(t, 0, hold[t], shm[k])
      BY <1>1 DEF SegInv, Stocked
    <2> QED
      BY <1>2, <2>1 DEF Stored, InHands
  <1>4. m.SeqNum = k /\ (~ FitsQueue(size) => IsLong(m))
    BY DEF ResponseMsg, IsLong
  <1>5. At'[t][0] = m /\ \A u \in TaskIds, n \in Nat : (u = t /\ n = 0) \/ At'[u][n] = At[u][n]
    <2>1. hold'[t] = m /\ \A u \in Servers \ {t} : hold'[u] = hold[u]
      BY DEF Response, FlightIInv, TypeOK, TaskTypeOK
    <2>2. At'[t][0] = m /\ \A u \in TaskIds \ {t} : At'[u][0] = At[u][0]
      BY <1>1, <2>1, AtIs, Tasks DEF Hand
    <2> QED
      BY <2>2, AtSameQueues
  <1> HIDE DEF m
  <1>6. \/ UNCHANGED shm
        \/ ~ FitsQueue(size) /\ \A j \in Numbers \ {k} : shm'[j] = shm[j]
    BY <1>2, <1>3, WriteOnly
       DEF Response, SendShortResponse, SendLongResponse, FlightIInv, TypeOK
  <1>7. LongStays
    BY <1>1, <1>3, <1>4, <1>5, <1>6 DEF LongStays
  <1>8. NewAccounted
    <2>1. \A j \in Segments' \ Segments : j = k /\ ~ FitsQueue(size)
      BY <1>6 DEF Segments
    <2>2. k \in SeqNums
      BY <1>2 DEF Numbers, SeqNums
    <2> QED
      BY <1>1, <1>4, <1>5, <2>1, <2>2 DEF NewAccounted
  <1> QED
    BY <1>7, <1>8

LEMMA TaskAccounted ==
  ASSUME FlightIInv, SegInv, TaskNext, UNCHANGED mgrVars
  PROVE  LongStays /\ NewAccounted
  <1> UNCHANGED out
    BY DEF mgrVars
  <1>1. PICK t \in Servers : TaskStep(t) \/ TaskSendFails(t) \/ TaskKilled(t)
    BY DEF TaskNext
  <1>2. CASE ReceiveShortRequest(t) \/ ReceiveLongRequest(t) \/ RejectMessage(t)
    BY <1>2, TakeAccounted DEF ReceiveShortRequest, ReceiveLongRequest, RejectMessage
  <1>3. CASE ProcessRequest(t)
    BY <1>3, ResponseAccounted, StillAccounted DEF ProcessRequest
  <1>4. CASE TaskMqSend(t)
    <2>1. /\ t \in TaskIds \ {TSKID_MGR} /\ UNCHANGED shm /\ hold'[t] = NoMsg
          /\ \A u \in Servers \ {t} : hold'[u] = hold[u]
      BY <1>4, Tasks DEF TaskMqSend, FlightIInv, TypeOK, TaskTypeOK
    <2>2. Sends(t, TSKID_MGR)
      BY <1>4, <2>1, Transfer, Tasks DEF TaskMqSend, Hand, FlightIInv
    <2> QED
      BY <2>1, <2>2, SendAccounted, Tasks
  <1>5. CASE TaskSendFails(t) \/ TaskKilled(t)
    BY <1>5, StillAccounted DEF TaskSendFails, TaskKilled, ipcVars
  <1> QED
    BY <1>1, <1>2, <1>3, <1>4, <1>5 DEF TaskStep

LEMMA ConsoleAccounted ==
  ASSUME FlightIInv, ConsoleRequest
  PROVE  LongStays /\ NewAccounted
  <1>1. PICK id \in ConsoleRequestIds, size \in ConsoleSizes : FakeRequest(id, size)
    BY DEF ConsoleRequest
  <1> DEFINE m == FakeMsg(id, size)
  <1>2. m \in Message /\ Enqueue(TSKID_MGR, m)
    BY <1>1, Zeros, ConsoleAssumption
       DEF Message, MessageTypes, MSG_TYPE_SHORT_REQUEST, FakeRequest, FakeMsg
  <1> HIDE DEF m
  <1>3. UNCHANGED <<out, hold, shm>>
    BY DEF ConsoleRequest, mgrVars, taskVars
  <1>4. \A u \in TaskIds, n \in Nat : At'[u][n] = At[u][n] \/ At[u][n] = NoMsg
    <2>1. \A u \in TaskIds, n \in Nat \ {0} : At'[u][n] = At[u][n] \/ At[u][n] = NoMsg
      BY <1>2, AtEnqueue, Tasks DEF FlightIInv, TypeOK
    <2>2. \A u \in TaskIds : At'[u][0] = At[u][0]
      BY <1>3, AtIs DEF Hand
    <2> QED
      BY <2>1, <2>2
  <1> QED
    BY <1>3, <1>4, NoneWritten, NothingLong DEF LongStays

AccountIInv == SegIInv /\ (NumbersFit /\ NothingToSelf => Accounted)

LEMMA NextAccountIInv == AccountIInv /\ [Next]_vars => AccountIInv'
  <1> SUFFICES ASSUME AccountIInv, [Next]_vars PROVE AccountIInv'
    OBVIOUS
  <1>1. SegIInv'
    BY NextSegIInv DEF AccountIInv
  <1> SUFFICES ASSUME NumbersFit', NothingToSelf PROVE Accounted'
    BY <1>1 DEF AccountIInv, NothingToSelf
  <1>2. NumbersFit /\ FlightIInv /\ SegInv /\ Accounted
    BY NumbersGrow DEF AccountIInv, SegIInv
  <1>3. FinalStep
    BY <1>2, NextTable DEF FlightIInv
  <1>4. CASE MgrStep
    BY <1>2, <1>3, <1>4, MgrAccounted, StaysAccounted DEF MgrStep
  <1>5. CASE ServerStep
    BY <1>2, <1>3, <1>5, TaskAccounted, StaysAccounted DEF ServerStep
  <1>6. CASE ConsoleRequest
    BY <1>2, <1>3, <1>6, ConsoleAccounted, StaysAccounted
  <1>7. CASE UNCHANGED vars
    <2>1. UNCHANGED <<mq, out, hold, shm>>
      BY <1>7 DEF vars, ipcVars, mgrVars, taskVars
    <2> QED
      BY <1>2, <1>3, <2>1, StillAccounted, StaysAccounted
  <1> QED
    BY <1>4, <1>5, <1>6, <1>7 DEF Next

(* While numbers fit a USHORT, no segment is leaked but by a refused call   *)
(* of Request(), or with a long message that a dead server held or that     *)
(* nobody will take: every step that drops a long message frees its data.   *)
THEOREM SegmentsAreAccounted == Spec => []SegmentsAccounted
  <1>1. Init => AccountIInv
    <2>1. Init => Accounted
      BY DEF Init, IpcInit, Accounted, Segments
    <2>2. Init => SegIInv
      BY InitFlightIInv, InitSeg DEF SegIInv
    <2> QED
      BY <2>1, <2>2 DEF AccountIInv
  <1>2. AccountIInv => SegmentsAccounted
    <2> SUFFICES ASSUME AccountIInv, NumbersFit, NothingToSelf, NEW k \in Segments,
                        fate[k] # "refused"
                 PROVE  k \in SeqNums /\ \E m \in Messages : IsLong(m) /\ m.SeqNum = k
      BY DEF SegmentsAccounted, AccountIInv, Accounted
    <2>1. PICK t \in TaskIds, n \in Nat : IsLong(At[t][n]) /\ At[t][n].SeqNum = k
      BY DEF AccountIInv, Accounted
    <2>2. CASE n = 0
      <3>1. At[t][n] = Hand(t)
        BY <2>2, AtIs
      <3>2. At[t][n] = out.msg \/ (t \in Servers /\ At[t][n] = hold[t])
        BY <2>1, <3>1, NothingLong DEF Hand
      <3>3. out.msg \in Messages /\ \A u \in Servers : hold[u] \in Messages
        BY DEF Messages
      <3> QED
        BY <2>1, <3>2, <3>3 DEF AccountIInv, Accounted
    <2>3. CASE n # 0
      <3>1. At[t][n] \in Queued(t)
        BY <2>1, <2>3, AtIs, NothingLong DEF Queued
      <3>2. At[t][n] \in Messages
        BY <3>1 DEF Messages
      <3> QED
        BY <2>1, <3>2 DEF AccountIInv, Accounted
    <2> QED
      BY <2>2, <2>3
  <1> QED
    BY <1>1, <1>2, NextAccountIInv, PTL DEF Spec
=============================================================================
