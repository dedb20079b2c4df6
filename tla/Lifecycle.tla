----------------------------- MODULE Lifecycle -----------------------------
(***************************************************************************)
(* Starting and stopping the system (src/bin): app-start removes queues and *)
(* segments, starts watch in the background and the console in the          *)
(* foreground; app-stop kills the tasks by name.  A child of watch that has *)
(* not reached its exec still has the name of watch and survives.  The user *)
(* lets a start come up before stopping and stops before starting again;    *)
(* tasks may end by themselves, and forks and execs fail, at any time.      *)
(***************************************************************************)
EXTENDS Watch, Sequences

VARIABLES
  start,    \* where app-start is: a place in StartScript, Foreground or Idle
  stop,     \* the name app-stop kills next, or Idle
  stopped,  \* history: has app-stop ended since the last start?
  session,  \* history: number of the last start
  dbgx,     \* does the console run?
  queues,   \* generation of the queues under /dev/mqueue
  users,    \* history: sessions whose tasks have opened those queues
  opened    \* opened[w][k]: generation of the queues the task has open

lifeVars == <<start, stop, stopped, session, dbgx, queues, users, opened>>
vars == <<watchVars, lifeVars>>
-----------------------------------------------------------------------------
Idle == 0

\* mutant: watch is started before the queues are removed
WatchFirst == <<"watch", "remove", "console">>

StartScript == <<"remove", "watch", "console">>

Foreground == Len(StartScript) + 1
StartAt(step) == start \in DOMAIN StartScript /\ StartScript[start] = step

\* the console shows that every task was started
CameUp ==
  /\ start \in {Foreground, Idle}
  /\ wpc[session] \in {"wait", "done"}
  /\ \A k \in Children : child[session][k] # "forked"

Stopped == stopped /\ start = Idle

AppStart ==
  /\ Stopped
  /\ session + 1 \in Watches      \* bound of the model
  /\ session' = session + 1
  /\ start' = 1
  /\ stopped' = FALSE
  /\ UNCHANGED <<stop, dbgx, queues, users, opened, watchVars>>

\* mutant: the queues are kept
KeepQueues == UNCHANGED <<queues, users>>

(* rm and ipcrm: new queues are made by the first task that opens them.     *)
RemoveQueues == queues' = queues + 1 /\ users' = {}

Remove ==
  /\ StartAt("remove")
  /\ RemoveQueues
  /\ start' = start + 1
  /\ UNCHANGED <<stop, stopped, session, dbgx, opened, watchVars>>

LaunchWatch ==
  /\ StartAt("watch")
  /\ StartWatch(session)
  /\ start' = start + 1
  /\ UNCHANGED <<stop, stopped, session, dbgx, queues, users, opened>>

LaunchConsole ==
  /\ StartAt("console")
  /\ dbgx' = TRUE
  /\ start' = start + 1
  /\ UNCHANGED <<stop, stopped, session, queues, users, opened, watchVars>>

\* the Kill command
ConsoleEnds ==
  /\ dbgx
  /\ dbgx' = FALSE
  /\ UNCHANGED <<start, stop, stopped, session, queues, users, opened, watchVars>>

AppStartEnds ==
  /\ start = Foreground
  /\ ~dbgx
  /\ start' = Idle
  /\ UNCHANGED <<stop, stopped, session, dbgx, queues, users, opened, watchVars>>

AppStop ==
  /\ session \in Watches
  /\ CameUp
  /\ ~stopped
  /\ stop = Idle
  /\ stop' = 1
  /\ UNCHANGED <<start, stopped, session, dbgx, queues, users, opened, watchVars>>

\* mutant: task 2 is forgotten
KilledButTask2 == 1 .. MAX_CHILD - 1

\* names of the tasks app-stop kills, in its order
Killed == 1..MAX_CHILD

(* killall: every process of that name, of this start or of an earlier one. *)
KillAll ==
  /\ stop \in Children
  /\ child' = [w \in Watches |->
       [child[w] EXCEPT ![stop] = IF stop \in Killed /\ @ = "running" THEN "zombie" ELSE @]]
  /\ stop' = stop + 1
  /\ UNCHANGED <<wpc, idx, num_child, start, stopped, session, dbgx, queues, users, opened>>

KillConsole ==
  /\ stop = MAX_CHILD + 1
  /\ dbgx' = FALSE
  /\ stop' = Idle
  /\ stopped' = TRUE
  /\ UNCHANGED <<start, session, queues, users, opened, watchVars>>

(* InitializeIpcFramework() of a task: it opens the queues there are.       *)
OpenQueues(w, k) ==
  /\ child[w][k] = "running"
  /\ opened[w][k] = 0
  /\ opened' = [opened EXCEPT ![w][k] = queues]
  /\ users' = users \union {w}
  /\ UNCHANGED <<start, stop, stopped, session, dbgx, queues, watchVars>>

Init ==
  /\ WatchInit
  /\ start = Idle
  /\ stop = Idle
  /\ stopped = TRUE
  /\ session = 0
  /\ dbgx = FALSE
  /\ queues = 1         \* left over from the time before
  /\ users = {0}
  /\ opened = [w \in Watches |-> [k \in Children |-> 0]]

Scripts ==
  \/ AppStart \/ Remove \/ LaunchWatch \/ LaunchConsole \/ ConsoleEnds \/ AppStartEnds
  \/ AppStop \/ KillAll \/ KillConsole

Tasks ==
  \E w \in Watches :
    \/ WatchStep(w) /\ UNCHANGED lifeVars
    \/ \E k \in Children : \/ Exec(w, k) /\ UNCHANGED lifeVars
                           \/ ChildEnds(w, k) /\ UNCHANGED lifeVars
                           \/ OpenQueues(w, k)

Next == Scripts \/ Tasks

Spec == Init /\ [][Next]_vars

(* Scripts go on, watches run and their children reach exec.                *)
Fairness ==
  /\ WF_vars(KillAll \/ KillConsole)
  /\ \A w \in Watches :
       /\ WF_vars(WatchStep(w) /\ UNCHANGED lifeVars)
       /\ \A k \in Children : WF_vars(Exec(w, k) /\ UNCHANGED lifeVars)

FairSpec == Spec /\ Fairness
-----------------------------------------------------------------------------
TypeOK ==
  /\ WatchTypeOK
  /\ start \in 0..Foreground
  /\ stop \in 0 .. MAX_CHILD + 1
  /\ stopped \in BOOLEAN
  /\ session \in Watches \union {0}
  /\ dbgx \in BOOLEAN
  /\ queues \in Nat
  /\ users \subseteq Watches \union {0}
  /\ opened \in [Watches -> [Children -> 0..queues]]

(* After app-stop no task of any start runs, nor will one of its forks.     *)
StopLeavesNothing ==
  Stopped => \A w \in Watches : Unreaped(w) \subseteq {k \in Children : child[w][k] = "zombie"}

(* The tasks that run have the same queues open and can reach each other;   *)
(* nobody holds queues that app-start has removed.                          *)
SameQueues ==
  \A w \in Watches, k \in Children :
    child[w][k] = "running" => opened[w][k] \in {0, queues}

(* No task finds messages of an earlier session in its queue, whose numbers *)
(* would be those of its own requests.                                      *)
CleanQueues ==
  \A w \in Watches : \A k \in Children :
    child[w][k] = "running" /\ opened[w][k] # 0 => users = {w}

(* A stopped session ends for good: its watch reaps every child and ends.   *)
StopEndsWatch ==
  \A w \in Watches : (Stopped /\ wpc[w] # "none") ~> wpc[w] = "done"
=============================================================================
