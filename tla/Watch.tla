------------------------------- MODULE Watch -------------------------------
(***************************************************************************)
(* The watch process (src/tsk/watch): it forks the manager and the servers  *)
(* once, one after the other, and waits until as many children have ended   *)
(* as it counted.  A child is a copy of watch until its exec.  Watches are  *)
(* the runs of the program, one for each start of the system.               *)
(***************************************************************************)
EXTENDS Integers, FiniteSets

CONSTANTS
  MAX_CHILD,  \* length of the table children (3: mgr, task1, task2)
  Watches     \* runs of watch

ASSUME WatchAssumption == MAX_CHILD \in Nat \ {0}

VARIABLES
  wpc,        \* wpc[w]: where watch w is
  idx,        \* the child it forks next
  num_child,  \* its counter
  child       \* child[w][k]: the state of its k-th child

watchVars == <<wpc, idx, num_child, child>>
-----------------------------------------------------------------------------
Children == 1..MAX_CHILD
ChildStates == {"none", "forked", "running", "zombie", "reaped"}

\* children the kernel still knows: wait() succeeds or blocks while there is one
Unreaped(w) == {k \in Children : child[w][k] \in {"forked", "running", "zombie"}}

StartWatch(w) ==
  /\ wpc[w] = "none"
  /\ wpc' = [wpc EXCEPT ![w] = "fork"]
  /\ UNCHANGED <<idx, num_child, child>>

\* mutant: a fork that fails is counted as well
CountAll(w, forked) == num_child' = [num_child EXCEPT ![w] = @ + 1]

CountForked(w, forked) ==
  num_child' = [num_child EXCEPT ![w] = IF forked THEN @ + 1 ELSE @]

\* mutant: the loop runs once too often
MoreToForkOffByOne(w) == idx[w] <= MAX_CHILD + 1

MoreToFork(w) == idx[w] <= MAX_CHILD

Fork(w) ==
  /\ wpc[w] = "fork"
  /\ MoreToFork(w)
  /\ idx' = [idx EXCEPT ![w] = @ + 1]
  /\ \E forked \in BOOLEAN :
       /\ CountForked(w, forked)
       /\ child' = IF forked THEN [child EXCEPT ![w][idx[w]] = "forked"] ELSE child
  /\ UNCHANGED wpc

EndForks(w) ==
  /\ wpc[w] = "fork"
  /\ ~MoreToFork(w)
  /\ wpc' = [wpc EXCEPT ![w] = "wait"]
  /\ UNCHANGED <<idx, num_child, child>>

(* wait() takes one ended child.  It would fail at once, and the loop spin  *)
(* for ever, if children were counted that do not exist.                    *)
Wait(w) ==
  /\ wpc[w] = "wait"
  /\ num_child[w] # 0
  /\ \E k \in Children :
       /\ child[w][k] = "zombie"
       /\ child' = [child EXCEPT ![w][k] = "reaped"]
  /\ num_child' = [num_child EXCEPT ![w] = @ - 1]
  /\ UNCHANGED <<wpc, idx>>

EndWatch(w) ==
  /\ wpc[w] = "wait"
  /\ num_child[w] = 0
  /\ wpc' = [wpc EXCEPT ![w] = "done"]
  /\ UNCHANGED <<idx, num_child, child>>

(* Children: exec makes the program of them or fails; then exit(1) follows. *)
Exec(w, k) ==
  /\ child[w][k] = "forked"
  /\ \E s \in {"running", "zombie"} : child' = [child EXCEPT ![w][k] = s]
  /\ UNCHANGED <<wpc, idx, num_child>>

ChildEnds(w, k) ==
  /\ child[w][k] = "running"
  /\ child' = [child EXCEPT ![w][k] = "zombie"]
  /\ UNCHANGED <<wpc, idx, num_child>>

WatchStep(w) == Fork(w) \/ EndForks(w) \/ Wait(w) \/ EndWatch(w)

WatchInit ==
  /\ wpc = [w \in Watches |-> "none"]
  /\ idx = [w \in Watches |-> 1]
  /\ num_child = [w \in Watches |-> 0]
  /\ child = [w \in Watches |-> [k \in Children |-> "none"]]
-----------------------------------------------------------------------------
WatchTypeOK ==
  /\ wpc \in [Watches -> {"none", "fork", "wait", "done"}]
  /\ idx \in [Watches -> 1 .. MAX_CHILD + 1]
  /\ num_child \in [Watches -> Nat]
  /\ child \in [Watches -> [Children -> ChildStates]]

(* The counter is the number of children that wait() can still find, with   *)
(* whatever forks and execs failed: wait() never fails, the loop never spins*)
(* (watch.c:61-66).                                                         *)
ChildrenCounted == \A w \in Watches : num_child[w] = Cardinality(Unreaped(w))
=============================================================================
