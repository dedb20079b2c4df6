---------------------------- MODULE DbgxProofs ----------------------------
(***************************************************************************)
(* Proofs about Dbgx, for buffers of any size, any words and numbers typed, *)
(* and lines of any length, those included that overrun param[].  That what *)
(* is posted was typed rests on Remembered: at any time each place of       *)
(* param[] holds the last number that was typed for it.                     *)
(***************************************************************************)
EXTENDS Dbgx, TLAPS, SequenceTheorems, WellFoundedInduction

LEMMA LeastNatural ==
  ASSUME NEW T \in SUBSET Nat, T # {}
  PROVE  \E n \in T : \A m \in T : n <= m
  <1> DEFINE R == OpToRel(<, Nat)
  <1>1. \A m, n \in Nat : <<m, n>> \in R <=> m < n
    BY DEF OpToRel
  <1>2. IsWellFoundedOn(R, Nat)
    BY NatLessThanWellFounded
  <1> HIDE DEF R
  <1>3. PICK n \in T : \A m \in T : ~ (<<m, n>> \in R)
    BY <1>2, WFMin
  <1>4. n \in Nat /\ \A m \in T : m \in Nat
    OBVIOUS
  <1>5. \A m \in T : ~ (m < n)
    BY <1>1, <1>3, <1>4
  <1> QED
    BY <1>4, <1>5

(* Induction up to a bound, by the least number that is not good.           *)
LEMMA AllGood ==
  ASSUME NEW L \in Nat, NEW good,
         0 \in good,
         \A n \in 1..L : n - 1 \in good => n \in good
  PROVE  \A n \in 0..L : n \in good
  <1> DEFINE T == {n \in 0..L : n \notin good}
  <1> SUFFICES ASSUME T # {} PROVE FALSE
    OBVIOUS
  <1>1. T \in SUBSET Nat
    OBVIOUS
  <1>2. PICK m \in T : \A n \in T : m <= n
    BY <1>1, LeastNatural
  <1>3. m \in 1..L /\ m \notin good
    BY <1>2
  <1>4. m - 1 \in 0..L /\ m - 1 \notin T
    BY <1>2, <1>3
  <1> QED
    BY <1>3, <1>4

(* The loop over the digits: a function of the line, found step by step.    *)
LEMMA NumbersByStep ==
  ASSUME NEW s, Len(s) \in Nat
  PROVE  NumbersUpTo(s) =
           [n \in 0 .. Len(s) |->
              IF n = 0 THEN <<>> ELSE WithNumber(NumbersUpTo(s)[n - 1], s[n])]
  <1> DEFINE L == Len(s)
             Steps(g, n) == [i \in 0..n |-> IF i = 0 THEN <<>> ELSE WithNumber(g[i - 1], s[i])]
             Good == {n \in 0..L : \E g : g = Steps(g, n)}
  <1>0. L \in Nat
    OBVIOUS
  <1>1. 0 \in Good
    <2> DEFINE g == [i \in 0..0 |-> <<>>]
    <2>1. \A i \in 0..0 : i = 0
      OBVIOUS
    <2>2. Steps(g, 0) = [i \in 0..0 |-> <<>>]
      BY <2>1
    <2>3. 0 \in 0..L
      BY <1>0
    <2> QED
      BY <2>2, <2>3
  <1>2. ASSUME NEW n \in 1..L, n - 1 \in Good PROVE n \in Good
    <2>1. PICK g : g = Steps(g, n - 1)
      BY <1>2
    <2> DEFINE h == [i \in 0..n |-> IF i = n THEN WithNumber(g[n - 1], s[n]) ELSE g[i]]
    <2>2. \A i \in 0 .. n - 1 : h[i] = g[i]
      BY <1>2
    <2>3. \A i \in 0..n : h[i] = IF i = 0 THEN <<>> ELSE WithNumber(h[i - 1], s[i])
      <3> SUFFICES ASSUME NEW i \in 0..n
                   PROVE  h[i] = IF i = 0 THEN <<>> ELSE WithNumber(h[i - 1], s[i])
        OBVIOUS
      <3>1. CASE i = n
        <4>1. h[n - 1] = g[n - 1] /\ n # 0
          BY <1>2, <2>2
        <4> QED
          BY <3>1, <4>1
      <3>2. CASE i # n
        <4>1. i \in 0 .. n - 1
          BY <3>2
        <4>2. h[i] = g[i] /\ (i # 0 => h[i - 1] = g[i - 1])
          BY <2>2, <4>1
        <4>3. g[i] = IF i = 0 THEN <<>> ELSE WithNumber(g[i - 1], s[i])
          BY <2>1, <4>1
        <4> QED
          BY <4>2, <4>3
      <3> QED
        BY <3>1, <3>2
    <2>4. h = [i \in 0..n |-> h[i]]
      OBVIOUS
    <2> HIDE DEF h
    <2>5. h = Steps(h, n)
      BY <2>3, <2>4
    <2>6. n \in 0..L
      BY <1>0
    <2> QED
      BY <2>5, <2>6
  <1>3. L \in Good
    <2> HIDE DEF Good, L
    <2>1. \A n \in 0..L : n \in Good
      BY <1>0, <1>1, <1>2, AllGood
    <2> QED
      BY <1>0, <2>1
  <1>4. \E g : g = Steps(g, L)
    BY <1>3
  <1> QED
    BY <1>4 DEF NumbersUpTo

Chars == Texts \union {HEADER, LF, BS}

LEMMA KindsOfChars ==
  /\ \A c \in Texts : c.kind \in {"other", "word", "number"}
  /\ \A c \in Chars : c.kind = "number" => c.n \in Values
  <1>1. \A c \in Texts : /\ c.kind \in {"other", "word", "number"}
                         /\ c.kind = "number" => c.n \in Values
    BY DEF Texts, Char
  <1>2. HEADER.kind = "$" /\ LF.kind = "LF" /\ BS.kind = "BS"
    BY DEF HEADER, LF, BS, Char
  <1> QED
    BY <1>1, <1>2 DEF Chars

LEMMA NumbersType ==
  ASSUME NEW s \in Seq(Chars)
  PROVE  /\ NumbersOf(s) \in Seq(Values)
         /\ Len(s) >= 2 /\ s[2].kind = "number" => NumbersOf(s) # <<>>
  <1> DEFINE L == Len(s)
             f == NumbersUpTo(s)
             good == {n \in 0..L : /\ f[n] \in Seq(Values)
                                   /\ n >= 2 /\ s[2].kind = "number" => f[n] # <<>>}
  <1>0. L \in Nat /\ \A n \in 1..L : s[n] \in Chars
    OBVIOUS
  <1>1. \A n \in 0..L : f[n] = IF n = 0 THEN <<>> ELSE WithNumber(f[n - 1], s[n])
    <2>1. f = [n \in 0..L |-> IF n = 0 THEN <<>> ELSE WithNumber(f[n - 1], s[n])]
      BY <1>0, NumbersByStep
    <2> HIDE DEF f, L
    <2> QED
      BY <2>1
  <1> HIDE DEF f, L
  <1>2. 0 \in good
    <2>1. 0 \in 0..L /\ f[0] = <<>>
      BY <1>0, <1>1
    <2>2. f[0] \in Seq(Values)
      BY <2>1
    <2>3. ~(0 >= 2)
      OBVIOUS
    <2> QED
      BY <2>1, <2>2, <2>3
  <1>3. ASSUME NEW n \in 1..L, n - 1 \in good PROVE n \in good
    <2>1. /\ n \in 0..L /\ n - 1 \in 0..L /\ n # 0
          /\ f[n - 1] \in Seq(Values)
          /\ n - 1 >= 2 /\ s[2].kind = "number" => f[n - 1] # <<>>
      BY <1>0, <1>3
    <2>2. f[n] = WithNumber(f[n - 1], s[n])
      BY <1>1, <2>1
    <2>3. CASE s[n].kind = "number"
      <3>1. s[n].n \in Values /\ f[n] = Append(f[n - 1], s[n].n)
        BY <1>0, <2>2, <2>3, KindsOfChars DEF WithNumber
      <3>2. f[n] \in Seq(Values) /\ f[n] # <<>>
        BY <2>1, <3>1, AppendProperties, SMTT(30)
      <3> QED
        BY <2>1, <3>2
    <2>4. CASE s[n].kind # "number"
      <3>1. f[n] = f[n - 1]
        BY <2>2, <2>4 DEF WithNumber
      <3>2. n >= 2 /\ s[2].kind = "number" => n - 1 >= 2
        BY <2>1, <2>4
      <3> QED
        BY <2>1, <3>1, <3>2
    <2> QED
      BY <2>3, <2>4
  <1>4. L \in good
    <2> HIDE DEF good
    <2>1. \A n \in 0..L : n \in good
      BY <1>0, <1>2, <1>3, AllGood
    <2> QED
      BY <1>0, <2>1
  <1> QED
    BY <1>4 DEF NumbersOf, f, L

LEMMA ArgsType ==
  ASSUME NEW s \in Seq(Chars), HasWord(s)
  PROVE  ArgsOf(s) \in Seq(Values)
  <1>1. Len(s) >= 2
    BY DEF HasWord
  <1>2. CASE s[2].kind = "number"
    BY <1>1, <1>2, NumbersType, HeadTailProperties DEF ArgsOf
  <1>3. CASE s[2].kind # "number"
    BY <1>3, NumbersType DEF ArgsOf
  <1> QED
    BY <1>2, <1>3
-----------------------------------------------------------------------------
(* What was typed last for a place of param[].                              *)
LEMMA LastLine ==
  ASSUME NEW T \in Seq(Seq(Values)), NEW n \in Nat
  PROVE  LET lines == {l \in DOMAIN T : n \in DOMAIN T[l]}
         IN  lines # {} => \E l \in lines : \A other \in lines : other <= l
  <1> DEFINE lines == {l \in DOMAIN T : n \in DOMAIN T[l]}
             L == Len(T)
             Back == {L - l : l \in lines}
  <1>1. L \in Nat /\ \A l \in lines : l \in 1..L
    OBVIOUS
  <1> HIDE DEF L, lines
  <1> SUFFICES ASSUME lines # {}
               PROVE  \E l \in lines : \A other \in lines : other <= l
    BY DEF lines
  <1>2. Back \in SUBSET Nat /\ Back # {}
    BY <1>1
  <1>3. PICK m \in Back : \A k \in Back : m <= k
    <2> HIDE DEF Back
    <2> QED
      BY <1>2, LeastNatural
  <1>4. PICK l \in lines : m = L - l
    BY <1>3
  <1>5. ASSUME NEW other \in lines PROVE other <= l
    <2>1. L - other \in Back
      OBVIOUS
    <2>2. L - l <= L - other
      BY <1>3, <1>4, <2>1
    <2> QED
      BY <1>1, <2>2
  <1> QED
    BY <1>5

LEMMA LastTypedNext ==
  ASSUME typed \in Seq(Seq(Values)), NEW ns \in Seq(Values), NEW n \in Nat,
         typed' = Append(typed, ns)
  PROVE  LastTyped(n)' = IF n \in DOMAIN ns THEN ns[n] ELSE LastTyped(n)
  <1> DEFINE L == Len(typed)
             lines == {l \in DOMAIN typed : n \in DOMAIN typed[l]}
             new == {l \in DOMAIN typed' : n \in DOMAIN typed'[l]}
             Top(S) == CHOOSE l \in S : \A other \in S : other <= l
  <1>1. /\ L \in Nat /\ DOMAIN typed = 1..L /\ DOMAIN typed' = 1 .. L + 1
        /\ \A l \in 1..L : typed'[l] = typed[l]
        /\ typed'[L + 1] = ns
    BY AppendProperties
  <1>2. CASE n \in DOMAIN ns
    <2>1. L + 1 \in new /\ \A l \in new : l \in 1 .. L + 1
      BY <1>1, <1>2
    <2>2. Top(new) = L + 1
      <3> HIDE DEF new, L
      <3>1. L \in Nat
        BY <1>1
      <3>2. \A other \in new : other <= L + 1
        BY <2>1, <3>1
      <3>3. \A l \in new : (\A other \in new : other <= l) => l = L + 1
        BY <2>1, <3>1
      <3> QED
        BY <2>1, <3>2, <3>3
    <2>3. LastTyped(n)' = typed'[Top(new)][n]
      BY <2>1 DEF LastTyped
    <2> QED
      BY <1>1, <1>2, <2>2, <2>3
  <1>3. CASE n \notin DOMAIN ns
    <2>1. new = lines
      <3>1. \A l : l \in new <=> l \in 1 .. L + 1 /\ n \in DOMAIN typed'[l]
        BY <1>1
      <3>2. \A l : l \in lines <=> l \in 1..L /\ n \in DOMAIN typed[l]
        BY <1>1
      <3>3. \A l \in 1 .. L + 1 : l \in 1..L \/ l = L + 1
        BY <1>1
      <3>4. \A l \in 1..L : l \in 1 .. L + 1
        BY <1>1
      <3>5. ASSUME NEW l PROVE l \in new <=> l \in lines
        <4> HIDE DEF new, lines, L
        <4> QED
          BY <1>1, <1>3, <3>1, <3>2, <3>3, <3>4
      <3> QED
        BY <3>5
    <2>2. CASE lines = {}
      BY <1>3, <2>1, <2>2 DEF LastTyped
    <2>3. CASE lines # {}
      <3>1. Top(lines) \in lines
        <4>1. \E l \in lines : \A other \in lines : other <= l
          BY <2>3, LastLine
        <4> HIDE DEF lines
        <4> QED
          BY <4>1
      <3>2. Top(lines) \in 1..L
        BY <1>1, <3>1
      <3>3. typed'[Top(lines)] = typed[Top(lines)]
        <4> HIDE DEF lines, L
        <4> QED
          BY <1>1, <3>2
      <3>4. LastTyped(n) = typed[Top(lines)][n]
        BY <2>3 DEF LastTyped
      <3>5. LastTyped(n)' = typed'[Top(new)][n]
        BY <2>1, <2>3 DEF LastTyped
      <3> QED
        BY <1>3, <2>1, <3>3, <3>4, <3>5
    <2> QED
      BY <2>2, <2>3
  <1> QED
    BY <1>2, <1>3
-----------------------------------------------------------------------------
(* The queue of the manager.                                                *)
LEMMA FakeMsgType ==
  ASSUME NEW id \in RequestIds, NEW size \in Nat
  PROVE  FakeMsg(id, size) \in Message
  <1>1. 0 \in Numbers /\ 3 \in MessageTypes
    BY IpcAssumption DEF Numbers, MessageTypes
  <1> QED
    BY <1>1 DEF FakeMsg, Message, MSG_TYPE_SHORT_REQUEST

LEMMA FakeRequestQueues ==
  ASSUME IpcTypeOK, NEW id \in RequestIds, NEW size \in Nat, FakeRequest(id, size)
  PROVE  /\ mq' = [mq EXCEPT ![TSKID_MGR] = Append(mq[TSKID_MGR], FakeMsg(id, size))]
         /\ mq' \in [TaskIds -> Seq(Message)]
         /\ \A t \in TaskIds : Len(mq'[t]) <= NUM_MAX_MESSAGES
  <1>1. /\ Len(mq[TSKID_MGR]) < NUM_MAX_MESSAGES
        /\ mq' = [mq EXCEPT ![TSKID_MGR] = Append(mq[TSKID_MGR], FakeMsg(id, size))]
    BY DEF FakeRequest, Enqueue, CanSend, FakeMsg
  <1>2. TSKID_MGR \in TaskIds
    BY DEF TSKID_MGR, TaskIds, TSK_NUM
  <1> DEFINE m == FakeMsg(id, size)
             q == Append(mq[TSKID_MGR], m)
  <1>3. m \in Message
    BY FakeMsgType
  <1> HIDE DEF m
  <1>4. q \in Seq(Message) /\ Len(q) = Len(mq[TSKID_MGR]) + 1
    BY <1>2, <1>3, AppendProperties DEF IpcTypeOK
  <1>5. mq' = [mq EXCEPT ![TSKID_MGR] = q]
    BY <1>1 DEF m
  <1> HIDE DEF q
  <1>6. mq' \in [TaskIds -> Seq(Message)] /\ \A t \in TaskIds : Len(mq'[t]) <= NUM_MAX_MESSAGES
    BY <1>1, <1>2, <1>4, <1>5, IpcAssumption DEF IpcTypeOK
  <1> QED
    BY <1>1, <1>6

LEMMA DequeueQueues ==
  ASSUME IpcTypeOK, Dequeue(TSKID_MGR)
  PROVE  /\ mq' \in [TaskIds -> Seq(Message)]
         /\ \A t \in TaskIds : Len(mq'[t]) <= Len(mq[t]) /\ Len(mq'[t]) <= NUM_MAX_MESSAGES
  <1>1. mq' = [mq EXCEPT ![TSKID_MGR] = Tail(mq[TSKID_MGR])] /\ mq[TSKID_MGR] # <<>>
    BY DEF Dequeue
  <1>2. TSKID_MGR \in TaskIds
    BY DEF TSKID_MGR, TaskIds, TSK_NUM
  <1> DEFINE q == Tail(mq[TSKID_MGR])
  <1>3. q \in Seq(Message) /\ Len(q) = Len(mq[TSKID_MGR]) - 1
    BY <1>1, <1>2, HeadTailProperties DEF IpcTypeOK
  <1>4. \A t \in TaskIds : Len(mq[t]) \in Nat /\ Len(mq[t]) <= NUM_MAX_MESSAGES
    BY DEF IpcTypeOK
  <1> HIDE DEF q
  <1>5. mq' = [mq EXCEPT ![TSKID_MGR] = q]
    BY <1>1, SMTT(30) DEF q
  <1> QED
    BY <1>2, <1>3, <1>4, <1>5, IpcAssumption DEF IpcTypeOK
-----------------------------------------------------------------------------
(* The invariant, and the steps of the console.                             *)
Remembered == \A k \in 0 .. ROOM - 1 : param[k] = LastTyped(k + 1)

DbgxInv == TypeOK /\ LineWellFormed /\ Remembered

LEMMA CutIsAnId == \A n \in Nat : n % 65536 \in RequestIds
  BY SMTT(60) DEF RequestIds

LEMMA NumbersAreNat ==
  ASSUME TypeOK
  PROVE  /\ param[0] \in Nat /\ param[1] \in Nat
         /\ PostedId \in RequestIds
         /\ \A k \in 0 .. ROOM - 1 : param[k] \in Values \union {0}
  <1>1. /\ 0 \in 0 .. ROOM - 1 /\ 1 \in 0 .. ROOM - 1
        /\ Values \union {0} \subseteq Nat
    BY DbgxAssumption DEF ROOM
  <1>2. \A k \in 0 .. ROOM - 1 : param[k] \in Values \union {0}
    BY DEF TypeOK
  <1>3. param[0] \in Nat /\ param[1] \in Nat
    BY <1>1, <1>2
  <1>4. PostedId \in RequestIds
    BY <1>3, CutIsAnId DEF PostedId
  <1> QED
    BY <1>2, <1>3, <1>4

LEMMA TypingKeeps ==
  ASSUME DbgxInv, \/ StartLine \/ EraseChar \/ DropLine \/ \E c \in Texts : StoreChar(c)
  PROVE  DbgxInv'
  <1>0. /\ UNCHANGED <<ipcVars, param, console, typed>>
        /\ line \in Seq(Chars) /\ Len(line) \in Nat
        /\ LineWellFormed /\ SIZE \in Nat /\ 4 < SIZE
    BY DbgxAssumption DEF StartLine, EraseChar, DropLine, StoreChar, DbgxInv, TypeOK, Chars
  <1>1. line' \in Seq(Chars) /\ LineWellFormed'
    <2>1. CASE StartLine
      <3>1. HEADER \in Chars /\ HEADER.kind = "$" /\ line' = <<HEADER>>
        BY <2>1 DEF StartLine, Chars, HEADER, Char
      <3>2. line' \in Seq(Chars) /\ Len(line') = 1 /\ line'[1] = HEADER
        BY <3>1
      <3>3. DOMAIN line' = {1}
        BY <3>2
      <3> QED
        BY <1>0, <3>1, <3>2, <3>3 DEF LineWellFormed
    <2>2. CASE DropLine
      <3>1. line' = <<>>
        BY <2>2 DEF DropLine
      <3> QED
        BY <1>0, <3>1 DEF LineWellFormed
    <2>3. CASE EraseChar
      <3>1. line' = SubSeq(line, 1, Len(line) - 1) /\ line # <<>>
        BY <2>3 DEF EraseChar
      <3>2. Len(line) >= 1
        BY <1>0, <3>1
      <3>3. /\ line' \in Seq(Chars) /\ Len(line') = Len(line) - 1
            /\ \A n \in 1 .. Len(line) - 1 : line'[n] = line[n]
        <4> DEFINE N == Len(line) - 1
        <4>1. N \in Nat /\ 1 \in Int /\ N \in Int /\ \A i \in 1 .. N : line[i] \in Chars
          BY <1>0, <3>2
        <4>2. line' = SubSeq(line, 1, N)
          BY <3>1
        <4> HIDE DEF N
        <4>3. /\ SubSeq(line, 1, N) \in Seq(Chars)
              /\ Len(SubSeq(line, 1, N)) = IF 1 <= N THEN N - 1 + 1 ELSE 0
              /\ \A i \in 1 .. N - 1 + 1 : SubSeq(line, 1, N)[i] = line[1 + i - 1]
          BY <4>1, SubSeqProperties
        <4>4. Len(line') = N
          BY <4>1, <4>2, <4>3
        <4>5. \A i \in 1..N : line'[i] = line[i]
          <5> SUFFICES ASSUME NEW i \in 1..N PROVE line'[i] = line[i]
            OBVIOUS
          <5>1. i \in 1 .. N - 1 + 1 /\ 1 + i - 1 = i
            BY <4>1
          <5> QED
            BY <4>2, <4>3, <5>1
        <4> QED
          BY <4>2, <4>3, <4>4, <4>5 DEF N
      <3>4. DOMAIN line' = 1 .. Len(line) - 1 /\ DOMAIN line = 1..Len(line)
        BY <1>0, <3>3
      <3> QED
        BY <1>0, <3>2, <3>3, <3>4, SMTT(30) DEF LineWellFormed
    <2>4. ASSUME NEW c \in Texts, StoreChar(c)
          PROVE  line' \in Seq(Chars) /\ LineWellFormed'
      <3>1. /\ line' = Append(line, c) /\ line # <<>> /\ Len(line) + 1 < SIZE - 1
            /\ c \in Chars /\ c.kind \in {"other", "word", "number"}
        BY <2>4, KindsOfChars DEF StoreChar, Fits, Chars
      <3>2. /\ line' \in Seq(Chars) /\ Len(line') = Len(line) + 1
            /\ \A n \in 1..Len(line) : line'[n] = line[n]
            /\ line'[Len(line) + 1] = c
        BY <1>0, <3>1, AppendProperties
      <3>3. Len(line) >= 1 /\ DOMAIN line' = 1 .. Len(line) + 1 /\ DOMAIN line = 1..Len(line)
        BY <1>0, <3>1, <3>2
      <3> QED
        BY <1>0, <3>1, <3>2, <3>3 DEF LineWellFormed
    <2> QED
      BY <2>1, <2>2, <2>3, <2>4
  <1>2. TypeOK'
    BY <1>0, <1>1 DEF DbgxInv, TypeOK, IpcTypeOK, ipcVars, Chars
  <1>3. Remembered'
    <2>1. Remembered /\ param' = param /\ typed' = typed
      BY <1>0 DEF DbgxInv
    <2> QED
      BY <2>1 DEF Remembered, LastTyped
  <1> QED
    BY <1>1, <1>2, <1>3 DEF DbgxInv

LEMMA EndLineKeeps ==
  ASSUME DbgxInv, EndLine
  PROVE  DbgxInv'
  <1> DEFINE s == Append(line, LF)
  <1>0. /\ line' = <<>> /\ UNCHANGED ipcVars /\ ReadStory(s)
        /\ line \in Seq(Chars) /\ LF \in Chars
        /\ TypeOK
    BY DEF EndLine, DbgxInv, TypeOK, Chars
  <1>1. s \in Seq(Chars)
    BY <1>0, AppendProperties
  <1> HIDE DEF s
  <1>2. LineWellFormed'
    BY <1>0, DbgxAssumption DEF LineWellFormed
  <1>3. IpcTypeOK' /\ line' \in Seq(Chars)
    BY <1>0 DEF TypeOK, IpcTypeOK, ipcVars
  <1>4. CASE Ignored \/ Crash
    <2>1. param' = param /\ typed' = typed /\ console' \in {"typing", "posting", "dead"}
      BY <1>4 DEF Ignored, Crash
    <2>2. TypeOK'
      <3>1. param \in [0 .. ROOM - 1 -> Values \union {0}] /\ typed \in Seq(Seq(Values))
        BY <1>0 DEF TypeOK
      <3> QED
        BY <1>3, <2>1, <3>1 DEF TypeOK, Chars
    <2>3. Remembered'
      BY <2>1 DEF DbgxInv, Remembered, LastTyped
    <2> QED
      BY <1>2, <2>2, <2>3 DEF DbgxInv
  <1>5. CASE HasWord(s) /\ Parsed(s) /\ console' \in {"typing", "posting", "dead"}
    <2> DEFINE ns == ArgsOf(s)
    <2>1. ns \in Seq(Values)
      BY <1>1, <1>5, ArgsType
    <2>2. typed' = Append(typed, ns) /\ param' = Filled(ns) /\ typed \in Seq(Seq(Values))
      BY <1>0, <1>5 DEF Parsed, TypeOK
    <2> HIDE DEF ns
    <2>3. /\ param' \in [0 .. ROOM - 1 -> Values \union {0}]
          /\ \A k \in 0 .. ROOM - 1 :
               param'[k] = IF k + 1 \in DOMAIN ns THEN ns[k + 1] ELSE param[k]
      <3>1. \A k \in 0 .. ROOM - 1 : param[k] \in Values \union {0}
        BY <1>0 DEF TypeOK
      <3>2. \A n \in DOMAIN ns : ns[n] \in Values
        BY <2>1
      <3> QED
        BY <2>2, <3>1, <3>2 DEF Filled
    <2>4. typed' \in Seq(Seq(Values))
      BY <2>1, <2>2, AppendProperties
    <2>5. TypeOK'
      BY <1>3, <1>5, <2>3, <2>4 DEF TypeOK, Chars
    <2>6. Remembered'
      <3> SUFFICES ASSUME NEW k \in 0 .. ROOM - 1
                   PROVE  param'[k] = LastTyped(k + 1)'
        BY DEF Remembered
      <3>1. k + 1 \in Nat
        BY DbgxAssumption DEF ROOM
      <3>2. LastTyped(k + 1)' = IF k + 1 \in DOMAIN ns THEN ns[k + 1] ELSE LastTyped(k + 1)
        BY <2>1, <2>2, <3>1, LastTypedNext
      <3> QED
        BY <2>3, <3>2 DEF DbgxInv, Remembered
    <2> QED
      BY <1>2, <2>5, <2>6 DEF DbgxInv
  <1> QED
    BY <1>0, <1>4, <1>5 DEF ReadStory, RequestLine, OtherLine

LEMMA QueuesKeep ==
  ASSUME DbgxInv, Post \/ PostSpoilt \/ ManagerReads
  PROVE  DbgxInv'
  <1>1. UNCHANGED <<shm, line, param, typed>> /\ console' \in {console, "typing"}
    BY DEF Post, PostSpoilt, ManagerReads
  <1>2. IpcTypeOK'
    <2>1. IpcTypeOK /\ TypeOK
      BY DEF DbgxInv, TypeOK
    <2>2. CASE mq' = mq
      BY <1>1, <2>1, <2>2 DEF IpcTypeOK
    <2>3. CASE FakeRequest(PostedId, param[1])
      BY <1>1, <2>1, <2>3, FakeRequestQueues, NumbersAreNat DEF IpcTypeOK
    <2>4. CASE Dequeue(TSKID_MGR)
      BY <1>1, <2>1, <2>4, DequeueQueues DEF IpcTypeOK
    <2>5. ASSUME NEW id \in Garbage, NEW size \in Garbage, FakeRequest(id % 65536, size)
          PROVE  IpcTypeOK'
      <3>1. id % 65536 \in RequestIds /\ size \in Nat
        BY DbgxAssumption, CutIsAnId
      <3> QED
        BY <1>1, <2>1, <2>5, <3>1, FakeRequestQueues DEF IpcTypeOK
    <2> QED
      BY <2>2, <2>3, <2>4, <2>5 DEF Post, PostSpoilt, ManagerReads
  <1>3. TypeOK' /\ LineWellFormed'
    BY <1>1, <1>2 DEF DbgxInv, TypeOK, LineWellFormed
  <1>4. Remembered'
    BY <1>1 DEF DbgxInv, Remembered, LastTyped
  <1> QED
    BY <1>3, <1>4 DEF DbgxInv

LEMMA CrashKeeps ==
  ASSUME DbgxInv, CrashSpoilt
  PROVE  DbgxInv'
  <1>1. UNCHANGED <<ipcVars, param, typed>> /\ line' = <<>> /\ console' = "dead"
    BY DEF CrashSpoilt
  <1>2. TypeOK'
    <2>1. TypeOK /\ IpcTypeOK
      BY DEF DbgxInv, TypeOK
    <2>2. IpcTypeOK'
      BY <1>1, <2>1 DEF IpcTypeOK, ipcVars
    <2> QED
      BY <1>1, <2>1, <2>2 DEF TypeOK
  <1>3. LineWellFormed'
    BY <1>1, DbgxAssumption DEF LineWellFormed
  <1>4. Remembered'
    BY <1>1 DEF DbgxInv, Remembered, LastTyped
  <1> QED
    BY <1>2, <1>3, <1>4 DEF DbgxInv

LEMMA DbgxInit == Init => DbgxInv
  <1> SUFFICES ASSUME Init PROVE DbgxInv
    OBVIOUS
  <1>1. IpcTypeOK
    <2>1. NoSeg \in Segment
      BY DEF NoSeg, Segment
    <2> QED
      BY <2>1, IpcAssumption DEF Init, IpcInit, IpcTypeOK
  <1>2. line = <<>> /\ typed = <<>> /\ console = "typing"
    BY DEF Init
  <1>3. TypeOK
    BY <1>1, <1>2 DEF Init, TypeOK
  <1>4. LineWellFormed
    BY <1>2, DbgxAssumption DEF LineWellFormed
  <1>5. Remembered
    BY <1>2 DEF Init, Remembered, LastTyped
  <1> QED
    BY <1>3, <1>4, <1>5 DEF DbgxInv

LEMMA DbgxStep == DbgxInv /\ [Next]_vars => DbgxInv'
  <1>1. ASSUME DbgxInv, UNCHANGED vars PROVE DbgxInv'
    <2>1. /\ mq' = mq /\ shm' = shm /\ line' = line
          /\ param' = param /\ console' = console /\ typed' = typed
      BY <1>1 DEF vars, ipcVars
    <2>2. TypeOK'
      <3>1. TypeOK /\ IpcTypeOK
        BY <1>1 DEF DbgxInv, TypeOK
      <3>2. IpcTypeOK'
        BY <2>1, <3>1 DEF IpcTypeOK
      <3> QED
        BY <2>1, <3>1, <3>2 DEF TypeOK
    <2>3. LineWellFormed'
      BY <1>1, <2>1 DEF DbgxInv, LineWellFormed
    <2>4. Remembered'
      <3>1. Remembered
        BY <1>1 DEF DbgxInv
      <3> QED
        BY <2>1, <3>1 DEF Remembered, LastTyped
    <2> QED
      BY <2>2, <2>3, <2>4 DEF DbgxInv
  <1> QED
    BY <1>1, TypingKeeps, EndLineKeeps, QueuesKeep, CrashKeeps DEF Next

LEMMA DbgxInvHolds == Spec => []DbgxInv
  BY DbgxInit, DbgxStep, PTL DEF Spec

(* Every variable keeps its type, for any size of msgBuf and param[], any   *)
(* numbers, and after lines too long for param[] as well; the id that is    *)
(* posted fits its USHORT.                                                  *)
THEOREM DbgxTypeCorrect == Spec => []TypeOK
  <1>1. DbgxInv => TypeOK
    BY DEF DbgxInv
  <1> QED
    BY <1>1, DbgxInvHolds, PTL

(* However a line is edited, it begins with its only header and leaves room *)
(* in msgBuf for its end (waitMsg, dbgx.c:135-168).                         *)
THEOREM LinesAreWellFormed == Spec => []LineWellFormed
  <1>1. DbgxInv => LineWellFormed
    BY DEF DbgxInv
  <1> QED
    BY <1>1, DbgxInvHolds, PTL

(* As long as no line had more numbers than param[] has places, what the    *)
(* console posts is the id and the size that were typed last, those of an   *)
(* earlier line where a line leaves them out (readStory, dbgx.c:83-112).    *)
THEOREM OnlyTypedIsPosted == Spec => PostedWasTyped
  <1> DEFINE Posted ==
        ~Overran => \A t \in TaskIds : Len(mq'[t]) > Len(mq[t]) =>
          /\ t = TSKID_MGR
          /\ mq'[t] = Append(mq[t], FakeMsg(LastTyped(1) % 65536, LastTyped(2)))
  <1>1. ASSUME DbgxInv, [Next]_vars PROVE [Posted]_vars
    <2>0. IpcTypeOK /\ TypeOK /\ \A t \in TaskIds : Len(mq[t]) \in Nat
      BY <1>1 DEF DbgxInv, TypeOK, IpcTypeOK
    <2>1. CASE mq' = mq
      BY <2>0, <2>1
    <2>2. CASE ManagerReads
      <3>1. \A t \in TaskIds : Len(mq'[t]) \in Nat /\ Len(mq'[t]) <= Len(mq[t])
        BY <2>0, <2>2, DequeueQueues DEF ManagerReads
      <3> QED
        BY <2>0, <3>1
    <2>3. CASE FakeRequest(PostedId, param[1])
      <3>1. /\ param[0] = LastTyped(1) /\ param[1] = LastTyped(2)
        <4>1. 0 \in 0 .. ROOM - 1 /\ 1 \in 0 .. ROOM - 1
          BY DbgxAssumption DEF ROOM
        <4>2. param[0] = LastTyped(0 + 1) /\ param[1] = LastTyped(1 + 1)
          BY <1>1, <4>1 DEF DbgxInv, Remembered
        <4> QED
          BY <4>2
      <3>2. mq' = [mq EXCEPT ![TSKID_MGR] =
                     Append(mq[TSKID_MGR], FakeMsg(LastTyped(1) % 65536, LastTyped(2)))]
        BY <2>0, <2>3, <3>1, FakeRequestQueues, NumbersAreNat DEF PostedId
      <3>3. mq \in [TaskIds -> Seq(Message)]
        BY <2>0 DEF IpcTypeOK
      <3> DEFINE m == FakeMsg(LastTyped(1) % 65536, LastTyped(2))
      <3> HIDE DEF m
      <3>4. \A t \in TaskIds :
              mq'[t] = IF t = TSKID_MGR THEN Append(mq[TSKID_MGR], m) ELSE mq[t]
        BY <3>2, <3>3 DEF m
      <3>5. \A t \in TaskIds : Len(mq'[t]) > Len(mq[t]) =>
              t = TSKID_MGR /\ mq'[t] = Append(mq[t], m)
        <4> SUFFICES ASSUME NEW t \in TaskIds, Len(mq'[t]) > Len(mq[t])
                     PROVE  t = TSKID_MGR /\ mq'[t] = Append(mq[t], m)
          OBVIOUS
        <4>1. CASE t # TSKID_MGR
          <5>1. mq'[t] = mq[t] /\ Len(mq[t]) \in Nat
            BY <2>0, <3>4, <4>1
          <5> QED
            BY <5>1
        <4>2. CASE t = TSKID_MGR
          BY <3>4, <4>2
        <4> QED
          BY <4>1, <4>2
      <3> QED
        BY <3>5 DEF m
    <2> QED
      BY <1>1, <2>1, <2>2, <2>3 DEF Next, StartLine, EraseChar, DropLine, EndLine, StoreChar,
         Post, PostSpoilt, CrashSpoilt, vars, ipcVars
  <1>2. DbgxInv /\ [Next]_vars => [Posted]_vars
    BY <1>1
  <1> QED
    BY <1>2, DbgxInvHolds, PTL DEF Spec, PostedWasTyped
=============================================================================
