--------------------------- MODULE RequestService ---------------------------
(***************************************************************************)
(* What the manager promises its windows: a request gets a number of its    *)
(* own, is accepted or refused at once, and an accepted one ends once - one *)
(* request at a time by its answer or by its timeout, all of them together  *)
(* when the window changes.  So many can be pending at once.                *)
(***************************************************************************)
EXTENDS Integers, FiniteSets

CONSTANTS
  Numbers,   \* the numbers of requests
  Capacity   \* requests pending at once, at most

VARIABLES
  next,  \* the number of the next request
  fate   \* fate[s]: what has become of request s

Pending == {s \in Numbers : fate[s] = "pending"}

Issue(outcome) ==
  /\ next \in Numbers
  /\ fate[next] = "none"
  /\ fate' = [fate EXCEPT ![next] = outcome]
  /\ next' = next + 1

Accept == Cardinality(Pending) < Capacity /\ Issue("pending")
Refuse == Issue("refused")

End(s) ==
  /\ s \in Pending
  /\ \E outcome \in {"answered", "timedout"} : fate' = [fate EXCEPT ![s] = outcome]
  /\ UNCHANGED next

Clear ==
  /\ fate' = [s \in Numbers |-> IF s \in Pending THEN "cleared" ELSE fate[s]]
  /\ UNCHANGED next

Init ==
  /\ next = 1
  /\ fate = [s \in Numbers |-> "none"]

Next == Accept \/ Refuse \/ Clear \/ \E s \in Numbers : End(s)

Spec == Init /\ [][Next]_<<next, fate>>
=============================================================================
