-------------------------------- MODULE Dbgx --------------------------------
(***************************************************************************)
(* The debug console (src/tsk/dbgx): waitMsg edits a line character by      *)
(* character, readStory parses the finished line and runs its command.  A   *)
(* character here is a token: a whole word or number counts as one, and     *)
(* comes with the blank before it unless it follows the header.  GuiSystem  *)
(* has only the effect of this process, ConsoleRequest.                     *)
(***************************************************************************)
EXTENDS Ipc

CONSTANTS
  SIZE,       \* room of msgBuf (4 * PARAM_NUM)
  PARAM_NUM,  \* room of buf[]; param[] has two places more
  Commands,   \* words that are typed: indices of MSG_HEADER, or UNKNOWN
  Values,     \* numbers that are typed, of at most ten digits
  Garbage,    \* numbers that spoilt memory may hold
  MaxLines    \* bound of the model: command lines parsed

UNKNOWN == 4

ASSUME DbgxAssumption ==
  /\ SIZE \in Nat /\ 4 < SIZE
  /\ PARAM_NUM \in Nat
  /\ Commands \subseteq 0..UNKNOWN
  /\ Values \subseteq Nat /\ Garbage \subseteq Nat
  /\ MaxLines \in Nat

VARIABLES
  line,     \* msgBuf[0..index-1]
  param,    \* the numbers of this line and, behind them, of earlier ones
            \* (the places it has, not what an overrun writes behind them)
  console,  \* where the process is
  typed     \* history: the numbers of the command lines so far

vars == <<ipcVars, line, param, console, typed>>
-----------------------------------------------------------------------------
Char(kind, n) == [kind |-> kind, n |-> n]
HEADER == Char("$", 0)
LF == Char("LF", 0)
BS == Char("BS", 0)
Texts ==
  {Char("other", 0)} \union {Char("word", k) : k \in Commands}
    \union {Char("number", v) : v \in Values}
Request == 0
Kill == 3

\* the numbers of the first n characters, as the loop over them finds them
WithNumber(ns, c) == IF c.kind = "number" THEN Append(ns, c.n) ELSE ns
NumbersUpTo(s) ==
  LET found[n \in 0 .. Len(s)] == IF n = 0 THEN <<>> ELSE WithNumber(found[n - 1], s[n])
  IN  found

NumbersOf(s) == NumbersUpTo(s)[Len(s)]

\* the number behind the header is a word without a command
Word(s) == IF s[2].kind = "word" THEN s[2].n ELSE UNKNOWN
HasWord(s) == Len(s) > 1 /\ s[2].kind \in {"word", "number"}
ArgsOf(s) == IF s[2].kind = "number" THEN Tail(NumbersOf(s)) ELSE NumbersOf(s)

ROOM == PARAM_NUM + 2

\* a line had more numbers than param[] has places, and than buf[] has for its data
Overran == \E l \in DOMAIN typed : Len(typed[l]) > ROOM

\* mutant: pi goes on where the line before left it
FilledBehind(ns) ==
  LET pi == IF typed = <<>> THEN 0 ELSE Len(typed[Len(typed)])
  IN  [k \in 0 .. ROOM - 1 |->
         IF k - pi + 1 \in DOMAIN ns THEN ns[k - pi + 1] ELSE param[k]]

\* what the loop over the digits makes of param[]: the rest stays
Filled(ns) ==
  [k \in 0 .. ROOM - 1 |-> IF k + 1 \in DOMAIN ns THEN ns[k + 1] ELSE param[k]]
-----------------------------------------------------------------------------
(* readStory(): a word that MSG_HEADER does not hold is searched on behind  *)
(* its end; what is found there may crash the process, be no match, or      *)
(* match and name no command.                                               *)
Parsed(s) ==
  /\ param' = Filled(ArgsOf(s))
  /\ typed' = Append(typed, ArgsOf(s))

Ignored == console' = "typing" /\ UNCHANGED <<param, typed>>
Crash == console' = "dead" /\ UNCHANGED <<param, typed>>

RequestLine(s) ==
  /\ Word(s) = Request
  /\ Parsed(s)
  /\ \/ console' = IF FitsQueue(param'[1]) THEN "posting" ELSE "typing"
     \/ Overran' /\ console' \in {"posting", "typing"}

OtherLine(s) ==
  /\ Word(s) # Request
  /\ Parsed(s)
  /\ console' = IF Word(s) = Kill THEN "dead" ELSE "typing"

ReadStory(s) ==
  \/ ~HasWord(s) /\ Ignored
  \/ HasWord(s) /\ Word(s) = UNKNOWN /\ (Ignored \/ Crash)
  \/ HasWord(s) /\ Len(typed) < MaxLines /\ (RequestLine(s) \/ OtherLine(s))
-----------------------------------------------------------------------------
(* waitMsg().  Outside of a line every character but the header is skipped. *)
Fits == Len(line) + 1 < SIZE - 1

\* mutant: a header inside a line is a character like any other
StartLineOnce ==
  /\ console = "typing"
  /\ line = <<>> \/ Fits
  /\ line' = Append(line, HEADER)
  /\ UNCHANGED <<ipcVars, param, console, typed>>

StartLine ==
  /\ console = "typing"
  /\ line = <<>> \/ Fits
  /\ line' = <<HEADER>>
  /\ UNCHANGED <<ipcVars, param, console, typed>>

StoreChar(c) ==
  /\ console = "typing"
  /\ line # <<>> /\ Fits
  /\ line' = Append(line, c)
  /\ UNCHANGED <<ipcVars, param, console, typed>>

\* the backspace was stored: it and the character before it go
EraseChar ==
  /\ console = "typing"
  /\ line # <<>> /\ Fits
  /\ line' = SubSeq(line, 1, Len(line) - 1)
  /\ UNCHANGED <<ipcVars, param, console, typed>>

\* the buffer is full, whatever the character was
DropLine ==
  /\ console = "typing"
  /\ line # <<>> /\ ~Fits
  /\ line' = <<>>
  /\ UNCHANGED <<ipcVars, param, console, typed>>

EndLine ==
  /\ console = "typing"
  /\ line # <<>> /\ Fits
  /\ line' = <<>>
  /\ ReadStory(Append(line, LF))
  /\ UNCHANGED ipcVars

\* mutant: the id is an int
PostedIdUncut == param[0]

\* FakeRequest takes a USHORT
PostedId == param[0] % 65536

Post ==
  /\ console = "posting"
  /\ console' = "typing"
  /\ \/ FakeRequest(PostedId, param[1])
     \/ SendMayFail /\ UNCHANGED mq
  /\ UNCHANGED <<shm, line, param, typed>>

(* An overrun spoils what lies behind param[] and, on the stack, behind     *)
(* buf[]: FakeRequest may be called with any id and size, and the process   *)
(* may end at any time, as it does when a return address is spoilt.  The    *)
(* table of queues is static in the library, out of reach of both arrays.   *)
PostSpoilt ==
  /\ console = "posting" /\ Overran
  /\ console' = "typing"
  /\ \/ \E id, size \in Garbage : FakeRequest(id % 65536, size)
     \/ UNCHANGED mq
  /\ UNCHANGED <<shm, line, param, typed>>

CrashSpoilt ==
  /\ console # "dead" /\ Overran
  /\ console' = "dead"
  /\ line' = <<>>
  /\ UNCHANGED <<ipcVars, param, typed>>

ManagerReads == Dequeue(TSKID_MGR) /\ UNCHANGED <<shm, line, param, console, typed>>

Init ==
  /\ IpcInit
  /\ line = <<>>
  /\ param = [k \in 0 .. ROOM - 1 |-> 0]
  /\ console = "typing"
  /\ typed = <<>>

Next ==
  \/ StartLine \/ EraseChar \/ DropLine \/ EndLine
  \/ Post \/ PostSpoilt \/ CrashSpoilt \/ ManagerReads
  \/ \E c \in Texts : StoreChar(c)

Spec == Init /\ [][Next]_vars
-----------------------------------------------------------------------------
(* Types, and the queues stay queues of messages.                           *)
TypeOK ==
  /\ IpcTypeOK
  /\ line \in Seq(Texts \union {HEADER, LF, BS})
  /\ param \in [0 .. ROOM - 1 -> Values \union {0}]
  /\ console \in {"typing", "posting", "dead"}
  /\ typed \in Seq(Seq(Values))

(* However it was edited, a line begins with its only header, holds neither *)
(* a backspace nor a line end, and leaves room for the line end and the NUL *)
(* in msgBuf (dbgx.c:135-168).                                              *)
LineWellFormed ==
  /\ Len(line) <= SIZE - 2
  /\ \A n \in DOMAIN line : line[n].kind = "$" <=> n = 1
  /\ \A n \in DOMAIN line : line[n].kind \notin {"LF", "BS"}

\* the n-th number of the last command line that had so many
LastTyped(n) ==
  LET lines == {l \in DOMAIN typed : n \in DOMAIN typed[l]}
  IN  IF lines = {} THEN 0
      ELSE typed[CHOOSE l \in lines : \A other \in lines : other <= l][n]

(* Until a line has overrun param[], the console posts to the manager only, *)
(* and only what was typed: the id is the first number, cut to a USHORT, of *)
(* the last line that had one, the size the second number of the last line  *)
(* that had two.  A line that leaves numbers out posts those of an earlier  *)
(* line (dbgx.c:104-112).                                                   *)
PostedWasTyped ==
  [][~Overran => \A t \in TaskIds : Len(mq'[t]) > Len(mq[t]) =>
       /\ t = TSKID_MGR
       /\ mq'[t] = Append(mq[t], FakeMsg(LastTyped(1) % 65536, LastTyped(2)))
     ]_vars
=============================================================================
