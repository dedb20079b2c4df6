-------------------------- MODULE LifecycleProofs --------------------------
(***************************************************************************)
(* Proofs about Lifecycle and Watch, for any number of tasks and of starts. *)
(* What app-stop needs of the past is in LifeInv: only the last session can *)
(* have tasks, none before its watch is launched, none still to be made by  *)
(* fork or exec once app-stop runs, and none at the places it has passed.   *)
(***************************************************************************)
EXTENDS Lifecycle, TLAPS, FiniteSetTheorems

Alive == {"forked", "running"}

\* no task of this watch runs, and none will
Ended(w) == wpc[w] \in {"wait", "done"} /\ \A k \in Children : child[w][k] \notin Alive

\* children are forked in their order, by a watch that was launched
ForkedInOrder ==
  \A w \in Watches :
    /\ wpc[w] = "none" => idx[w] = 1
    /\ \A k \in Children : k >= idx[w] => child[w][k] = "none"

Launched == \A w \in Watches : wpc[w] # "none" => w \in 1..session

EarlierEnded == \A w \in Watches : w \in 1..session /\ w # session => Ended(w)

BetweenSessions ==
  stopped => /\ start \in {Foreground, Idle}
             /\ stop = Idle
             /\ session # 0 => Ended(session)

Stopping ==
  stop # Idle => /\ start \in {Foreground, Idle}
                 /\ session \in Watches \ {0}
                 /\ wpc[session] \in {"wait", "done"}
                 /\ \A k \in Children : /\ child[session][k] # "forked"
                                        /\ k < stop => child[session][k] # "running"

Starting ==
  /\ start # Idle \/ ~stopped => session \in Watches \ {0}
  /\ start \in {1, 2} => wpc[session] = "none"

Opened ==
  \A w \in Watches, k \in Children :
    /\ child[w][k] \in {"none", "forked"} => opened[w][k] = 0
    /\ child[w][k] = "running" /\ opened[w][k] # 0 => opened[w][k] = queues /\ w \in users

Users == start # 1 => users \subseteq {session}

SessionInv ==
  /\ session \in Nat
  /\ Launched
  /\ EarlierEnded
  /\ BetweenSessions
  /\ Stopping
  /\ Starting

LifeInv == TypeOK /\ ChildrenCounted /\ ForkedInOrder /\ SessionInv /\ Opened /\ Users
-----------------------------------------------------------------------------
(* Watch: its counter and the order of its forks.                           *)
WatchInv == WatchTypeOK /\ ForkedInOrder /\ ChildrenCounted

LEMMA UnreapedIsFinite ==
  \A w \in Watches : IsFiniteSet(Unreaped(w)) /\ Unreaped(w) \subseteq Children
  <1>1. IsFiniteSet(Children)
    BY WatchAssumption, FS_Interval DEF Children
  <1>2. \A w \in Watches : Unreaped(w) \subseteq Children
    BY DEF Unreaped
  <1> QED
    BY <1>1, <1>2, FS_Subset

LEMMA ForkCounts ==
  ASSUME WatchInv, NEW w \in Watches, Fork(w)
  PROVE  WatchInv'
  <1>1. /\ wpc[w] = "fork" /\ wpc' = wpc
        /\ idx[w] \in Children
        /\ idx' = [idx EXCEPT ![w] = @ + 1]
    BY WatchAssumption DEF Fork, MoreToFork, WatchInv, WatchTypeOK, Children
  <1>2. PICK forked \in BOOLEAN :
          /\ num_child' = [num_child EXCEPT ![w] = IF forked THEN @ + 1 ELSE @]
          /\ child' = IF forked THEN [child EXCEPT ![w][idx[w]] = "forked"] ELSE child
    BY DEF Fork, CountForked
  <1>3. child[w][idx[w]] = "none"
    BY <1>1 DEF WatchInv, ForkedInOrder, WatchTypeOK, Children
  <1>4. WatchTypeOK'
    BY <1>1, <1>2, WatchAssumption DEF WatchInv, WatchTypeOK, Children, ChildStates
  <1>5. ForkedInOrder'
    BY <1>1, <1>2 DEF WatchInv, WatchTypeOK, ForkedInOrder, Children
  <1>6. ChildrenCounted'
    <2> SUFFICES ASSUME NEW v \in Watches
                 PROVE  (num_child[v] = Cardinality(Unreaped(v)))'
      BY DEF ChildrenCounted
    <2>1. num_child[v] = Cardinality(Unreaped(v))
      BY DEF WatchInv, ChildrenCounted
    <2>2. CASE v # w \/ ~forked
      <3>1. num_child'[v] = num_child[v] /\ child'[v] = child[v]
        BY <1>1, <1>2, <2>2 DEF WatchInv, WatchTypeOK
      <3>2. Unreaped(v)' = Unreaped(v)
        BY <3>1 DEF Unreaped
      <3> QED
        BY <2>1, <3>1, <3>2
    <2>3. CASE v = w /\ forked
      <3>1. Unreaped(v)' = Unreaped(v) \union {idx[w]} /\ idx[w] \notin Unreaped(v)
        BY <1>1, <1>2, <1>3, <2>3 DEF Unreaped, WatchInv, WatchTypeOK
      <3>2. num_child'[v] = num_child[v] + 1
        BY <1>2, <2>3 DEF WatchInv, WatchTypeOK
      <3> QED
        BY <2>1, <3>1, <3>2, UnreapedIsFinite, FS_AddElement
    <2> QED
      BY <2>2, <2>3
  <1> QED
    BY <1>4, <1>5, <1>6 DEF WatchInv

LEMMA WaitCounts ==
  ASSUME WatchInv, NEW w \in Watches, Wait(w)
  PROVE  WatchInv'
  <1>1. PICK k \in Children :
          child[w][k] = "zombie" /\ child' = [child EXCEPT ![w][k] = "reaped"]
    BY DEF Wait
  <1>2. wpc' = wpc /\ idx' = idx /\ num_child' = [num_child EXCEPT ![w] = @ - 1]
    BY DEF Wait
  <1>3. k \in Unreaped(w) /\ Unreaped(w)' = Unreaped(w) \ {k}
    BY <1>1 DEF Unreaped, WatchInv, WatchTypeOK
  <1>4. /\ num_child[w] = Cardinality(Unreaped(w))
        /\ Cardinality(Unreaped(w)') = num_child[w] - 1
    BY <1>3, UnreapedIsFinite, FS_RemoveElement DEF WatchInv, ChildrenCounted
  <1>5. num_child[w] # 0 /\ num_child[w] \in Nat
    BY DEF Wait, WatchInv, WatchTypeOK
  <1>6. WatchTypeOK'
    <2>1. num_child' \in [Watches -> Nat]
      <3>1. num_child[w] - 1 \in Nat
        BY <1>5
      <3> QED
        BY <1>2, <3>1 DEF WatchInv, WatchTypeOK
    <2> QED
      BY <1>1, <1>2, <2>1 DEF WatchInv, WatchTypeOK, ChildStates
  <1>7. ForkedInOrder'
    BY <1>1, <1>2 DEF WatchInv, WatchTypeOK, ForkedInOrder
  <1>8. ChildrenCounted'
    <2> SUFFICES ASSUME NEW v \in Watches
                 PROVE  (num_child[v] = Cardinality(Unreaped(v)))'
      BY DEF ChildrenCounted
    <2>1. CASE v = w
      BY <1>2, <1>4, <1>5, <2>1 DEF WatchInv, WatchTypeOK
    <2>2. CASE v # w
      <3>1. num_child'[v] = num_child[v] /\ child'[v] = child[v]
        BY <1>1, <1>2, <2>2 DEF WatchInv, WatchTypeOK
      <3> QED
        BY <3>1 DEF WatchInv, ChildrenCounted, Unreaped
    <2> QED
      BY <2>1, <2>2
  <1> QED
    BY <1>6, <1>7, <1>8 DEF WatchInv

\* the other steps take no child away from wait() and give it none
LEMMA CountsStay ==
  ASSUME WatchInv, idx' = idx, num_child' = num_child,
         wpc' \in [Watches -> {"none", "fork", "wait", "done"}],
         child' \in [Watches -> [Children -> ChildStates]],
         \A w \in Watches : wpc'[w] = "none" => wpc[w] = "none",
         \A w \in Watches, k \in Children :
           \/ child'[w][k] = child[w][k]
           \/ /\ child[w][k] \in Alive
              /\ child'[w][k] \in {"running", "zombie"}
  PROVE  WatchInv'
  <1>1. WatchTypeOK'
    BY DEF WatchInv, WatchTypeOK
  <1>2. ForkedInOrder'
    <2>1. \A w \in Watches, k \in Children :
            child[w][k] = "none" => child'[w][k] = "none"
      BY DEF Alive
    <2> QED
      BY <2>1 DEF WatchInv, ForkedInOrder
  <1>3. \A w \in Watches : Unreaped(w)' = Unreaped(w)
    BY DEF Unreaped, Alive
  <1>4. ChildrenCounted'
    BY <1>3 DEF WatchInv, ChildrenCounted
  <1> QED
    BY <1>1, <1>2, <1>4 DEF WatchInv

LEMMA WatchKeepsCount ==
  ASSUME WatchInv, Starting, [Next]_vars
  PROVE  WatchInv'
  <1>0. WatchTypeOK
    BY DEF WatchInv
  <1>1. CASE UNCHANGED watchVars
    BY <1>0, <1>1, CountsStay DEF watchVars, WatchTypeOK
  <1>2. CASE \E w \in Watches : StartWatch(w)
    BY <1>0, <1>2, CountsStay DEF StartWatch, WatchTypeOK
  <1>3. CASE KillAll
    BY <1>0, <1>3, CountsStay DEF KillAll, WatchTypeOK, Alive, ChildStates
  <1>4. ASSUME NEW w \in Watches, WatchStep(w) PROVE WatchInv'
    <2>1. CASE Fork(w)
      BY <2>1, ForkCounts
    <2>2. CASE EndForks(w)
      BY <1>0, <2>2, CountsStay DEF EndForks, WatchTypeOK
    <2>3. CASE Wait(w)
      BY <2>3, WaitCounts
    <2>4. CASE EndWatch(w)
      BY <1>0, <2>4, CountsStay DEF EndWatch, WatchTypeOK
    <2> QED
      BY <1>4, <2>1, <2>2, <2>3, <2>4 DEF WatchStep
  <1>5. ASSUME NEW w \in Watches, NEW k \in Children, Exec(w, k) \/ ChildEnds(w, k)
        PROVE WatchInv'
    <2>1. PICK s \in {"running", "zombie"} : child' = [child EXCEPT ![w][k] = s]
      BY <1>5 DEF Exec, ChildEnds
    <2>2. child[w][k] \in Alive /\ UNCHANGED <<wpc, idx, num_child>>
      BY <1>5 DEF Exec, ChildEnds, Alive
    <2>3. child' \in [Watches -> [Children -> ChildStates]]
      BY <1>0, <2>1 DEF WatchTypeOK, ChildStates
    <2>4. \A v \in Watches, c \in Children :
            \/ child'[v][c] = child[v][c]
            \/ child[v][c] \in Alive /\ child'[v][c] \in {"running", "zombie"}
      BY <1>0, <2>1, <2>2 DEF WatchTypeOK
    <2> QED
      BY <1>0, <2>2, <2>3, <2>4, CountsStay DEF WatchTypeOK
  <1>6. Scripts => UNCHANGED watchVars \/ KillAll \/ \E w \in Watches : StartWatch(w)
    <2>1. LaunchWatch => session \in Watches /\ StartWatch(session)
      BY DEF LaunchWatch, StartAt, StartScript, Idle, Starting
    <2> QED
      BY <2>1 DEF Scripts, AppStart, Remove, LaunchConsole, ConsoleEnds, AppStartEnds,
         AppStop, KillConsole
  <1> QED
    BY <1>1, <1>2, <1>3, <1>4, <1>5, <1>6 DEF Next, Tasks, vars, OpenQueues
-----------------------------------------------------------------------------
(* Sessions: the scripts, and what tasks can do meanwhile.                  *)
LEMMA Places ==
  /\ Foreground = 4
  /\ \A n \in Int : /\ n \in DOMAIN StartScript <=> n \in {1, 2, 3}
                    /\ n = 1 => StartScript[n] = "remove"
                    /\ n = 2 => StartScript[n] = "watch"
                    /\ n = 3 => StartScript[n] = "console"
  BY DEF Foreground, StartScript

LEMMA At ==
  ASSUME start \in 0..Foreground
  PROVE  /\ StartAt("remove") <=> start = 1
         /\ StartAt("watch") <=> start = 2
         /\ StartAt("console") <=> start = 3
  BY Places DEF StartAt

\* no watch is launched, and what has ended does not begin again
Calm ==
  \A w \in Watches :
    /\ wpc'[w] = "none" <=> wpc[w] = "none"
    /\ wpc[w] \in {"wait", "done"} =>
         /\ wpc'[w] \in {"wait", "done"}
         /\ \A k \in Children :
              /\ child[w][k] # "forked" => child'[w][k] # "forked"
              /\ child[w][k] \notin Alive => child'[w][k] \notin Alive

LEMMA EndedStays ==
  ASSUME Calm, NEW w \in Watches, Ended(w)
  PROVE  Ended(w)'
  BY DEF Calm, Ended

LEMMA CalmSession ==
  ASSUME LifeInv, Calm, UNCHANGED <<start, stopped, session>>,
         \/ stop' = stop
         \/ /\ stop \in Children
            /\ stop' = stop + 1
            /\ \A w \in Watches : child'[w][stop] # "running"
  PROVE  SessionInv'
  <1>0. /\ session \in Nat /\ session \in Watches \union {0}
        /\ stop \in 0 .. MAX_CHILD + 1
        /\ \A k \in Children : k \in Nat /\ k # 0
    BY DEF LifeInv, SessionInv, TypeOK, Children
  <1>1. Launched'
    BY DEF LifeInv, SessionInv, Launched, Calm
  <1>2. EarlierEnded'
    BY EndedStays DEF LifeInv, SessionInv, EarlierEnded
  <1>3. BetweenSessions'
    <2> SUFFICES ASSUME stopped
                 PROVE  /\ start \in {Foreground, Idle}
                        /\ stop' = Idle
                        /\ session # 0 => Ended(session)'
      BY DEF BetweenSessions
    <2>1. start \in {Foreground, Idle} /\ stop = Idle /\ (session # 0 => Ended(session))
      BY DEF LifeInv, SessionInv, BetweenSessions
    <2>2. stop' = Idle
      BY <1>0, <2>1 DEF Idle
    <2> QED
      BY <1>0, <2>1, <2>2, EndedStays
  <1>4. Stopping'
    <2> SUFFICES ASSUME stop' # Idle
                 PROVE  /\ start \in {Foreground, Idle}
                        /\ session \in Watches \ {0}
                        /\ wpc'[session] \in {"wait", "done"}
                        /\ \A k \in Children : /\ child'[session][k] # "forked"
                                               /\ k < stop' => child'[session][k] # "running"
      BY DEF Stopping
    <2>1. stop # Idle
      BY <1>0 DEF Idle
    <2>2. /\ start \in {Foreground, Idle} /\ session \in Watches \ {0}
          /\ wpc[session] \in {"wait", "done"}
          /\ \A k \in Children : /\ child[session][k] # "forked"
                                 /\ k < stop => child[session][k] # "running"
      BY <2>1 DEF LifeInv, SessionInv, Stopping
    <2>3. ASSUME NEW k \in Children, k < stop' PROVE child'[session][k] # "running"
      <3>1. CASE k < stop
        BY <2>2, <3>1 DEF Calm, Alive
      <3>2. CASE ~(k < stop)
        BY <1>0, <2>2, <2>3, <3>2
      <3> QED
        BY <3>1, <3>2
    <2> QED
      BY <2>2, <2>3 DEF Calm
  <1>5. Starting'
    <2>1. Starting
      BY DEF LifeInv, SessionInv
    <2>2. start \in {1, 2} => session \in Watches /\ wpc[session] = "none"
      BY <2>1 DEF Starting, Idle
    <2>3. start \in {1, 2} => wpc'[session] = "none"
      BY <2>2 DEF Calm
    <2> QED
      BY <2>1, <2>3 DEF Starting
  <1> QED
    BY <1>0, <1>1, <1>2, <1>3, <1>4, <1>5 DEF SessionInv

LEMMA TasksAreCalm ==
  ASSUME LifeInv, Tasks
  PROVE  Calm /\ UNCHANGED <<start, stop, stopped, session, dbgx, queues>>
  <1>0. WatchTypeOK
    BY DEF LifeInv, TypeOK
  <1>1. ASSUME NEW w \in Watches, WatchStep(w) PROVE Calm
    <2>1. CASE Fork(w)
      <3>1. PICK c \in Children : child' = child \/ child' = [child EXCEPT ![w][c] = "forked"]
        <4>1. idx[w] \in Children
          BY <1>0, <2>1, WatchAssumption DEF Fork, MoreToFork, WatchTypeOK, Children
        <4> QED
          BY <2>1, <4>1 DEF Fork
      <3>2. wpc[w] = "fork" /\ wpc' = wpc
        BY <2>1 DEF Fork
      <3> QED
        BY <1>0, <3>1, <3>2 DEF Calm, WatchTypeOK
    <2>2. CASE EndForks(w)
      BY <1>0, <2>2 DEF EndForks, Calm, WatchTypeOK
    <2>3. CASE Wait(w)
      BY <1>0, <2>3 DEF Wait, Calm, WatchTypeOK, Alive
    <2>4. CASE EndWatch(w)
      BY <1>0, <2>4 DEF EndWatch, Calm, WatchTypeOK
    <2> QED
      BY <1>1, <2>1, <2>2, <2>3, <2>4 DEF WatchStep
  <1>2. ASSUME NEW w \in Watches, NEW k \in Children, Exec(w, k) \/ ChildEnds(w, k)
        PROVE  Calm
    <2>1. PICK s \in {"running", "zombie"} : child' = [child EXCEPT ![w][k] = s]
      BY <1>2 DEF Exec, ChildEnds
    <2>2. child[w][k] \in Alive /\ wpc' = wpc
      BY <1>2 DEF Exec, ChildEnds, Alive
    <2> QED
      BY <1>0, <2>1, <2>2 DEF Calm, WatchTypeOK, Alive
  <1>3. ASSUME NEW w \in Watches, NEW k \in Children, OpenQueues(w, k) PROVE Calm
    BY <1>3 DEF OpenQueues, Calm, watchVars
  <1> QED
    BY <1>1, <1>2, <1>3 DEF Tasks, lifeVars, OpenQueues

LEMMA KillAllIsCalm ==
  ASSUME LifeInv, KillAll
  PROVE  Calm /\ \A w \in Watches : child'[w][stop] # "running"
  <1>0. WatchTypeOK /\ stop \in Children
    BY DEF LifeInv, TypeOK, KillAll
  <1>1. \A w \in Watches, k \in Children :
          child'[w][k] = IF k = stop /\ child[w][k] = "running" THEN "zombie" ELSE child[w][k]
    BY <1>0 DEF KillAll, WatchTypeOK, Killed, Children
  <1>2. wpc' = wpc
    BY DEF KillAll
  <1> QED
    BY <1>0, <1>1, <1>2 DEF Calm, Alive

LEMMA AppStartKeepsSession ==
  ASSUME LifeInv, AppStart
  PROVE  SessionInv'
  <1>1. /\ stopped /\ start = Idle /\ stop = Idle
        /\ session \in Nat /\ session + 1 \in Watches
        /\ session' = session + 1 /\ start' = 1 /\ stopped' = FALSE /\ stop' = stop
        /\ wpc' = wpc /\ child' = child
    BY DEF AppStart, Stopped, LifeInv, SessionInv, BetweenSessions, watchVars
  <1>2. \A w \in Watches : w \in 1..session => Ended(w)
    BY <1>1 DEF LifeInv, SessionInv, EarlierEnded, BetweenSessions
  <1>3. \A w \in Watches : Ended(w)' <=> Ended(w)
    BY <1>1 DEF Ended
  <1>4. Launched'
    BY <1>1 DEF LifeInv, SessionInv, Launched
  <1>5. EarlierEnded'
    BY <1>1, <1>2, <1>3 DEF EarlierEnded
  <1>6. wpc[session + 1] = "none"
    BY <1>1 DEF LifeInv, SessionInv, Launched
  <1>7. BetweenSessions' /\ Stopping' /\ Starting'
    BY <1>1, <1>6 DEF BetweenSessions, Stopping, Starting, Idle
  <1> QED
    BY <1>1, <1>4, <1>5, <1>7 DEF SessionInv

LEMMA LaunchKeepsSession ==
  ASSUME LifeInv, LaunchWatch
  PROVE  SessionInv'
  <1>1. /\ start = 2 /\ start' = 3
        /\ session' = session /\ stopped' = stopped /\ stop' = stop
        /\ wpc' = [wpc EXCEPT ![session] = "fork"] /\ child' = child
    BY At DEF LaunchWatch, StartWatch, LifeInv, TypeOK
  <1>2. /\ session \in Watches \ {0} /\ session \in Nat
        /\ ~stopped /\ stop = Idle
        /\ Launched /\ EarlierEnded
    BY <1>1, Places DEF LifeInv, SessionInv, Starting, BetweenSessions, Stopping, Idle
  <1>3. \A w \in Watches : wpc'[w] = IF w = session THEN "fork" ELSE wpc[w]
    BY <1>1, <1>2 DEF LifeInv, TypeOK, WatchTypeOK
  <1>4. \A w \in Watches \ {session} : Ended(w)' <=> Ended(w)
    BY <1>1, <1>3 DEF Ended
  <1>5. Launched' /\ EarlierEnded'
    BY <1>1, <1>2, <1>3, <1>4 DEF Launched, EarlierEnded
  <1>6. BetweenSessions' /\ Stopping' /\ Starting'
    BY <1>1, <1>2 DEF BetweenSessions, Stopping, Starting, Idle
  <1> QED
    BY <1>1, <1>2, <1>5, <1>6 DEF SessionInv

\* scripts that leave watch alone and only go on
LEMMA ScriptKeepsSession ==
  ASSUME LifeInv, Remove \/ LaunchConsole \/ ConsoleEnds \/ AppStartEnds
  PROVE  SessionInv'
  <1>1. UNCHANGED <<stop, stopped, session, wpc, child>>
    BY DEF Remove, LaunchConsole, ConsoleEnds, AppStartEnds, watchVars
  <1>2. \/ start' = start
        \/ start = 1 /\ start' = 2
        \/ start = 3 /\ start' = Foreground
        \/ start = Foreground /\ start' = Idle
    BY At, Places DEF Remove, LaunchConsole, ConsoleEnds, AppStartEnds, LifeInv, TypeOK
  <1>3. Launched' /\ EarlierEnded'
    BY <1>1 DEF LifeInv, SessionInv, Launched, EarlierEnded, Ended
  <1>4. BetweenSessions' /\ Stopping'
    BY <1>1, <1>2, Places DEF LifeInv, SessionInv, BetweenSessions, Stopping, Ended, Idle
  <1>5. Starting'
    BY <1>1, <1>2, Places DEF LifeInv, SessionInv, Starting, Idle
  <1> QED
    BY <1>1, <1>3, <1>4, <1>5 DEF LifeInv, SessionInv

LEMMA AppStopKeepsSession ==
  ASSUME LifeInv, AppStop \/ KillConsole
  PROVE  SessionInv'
  <1>0. UNCHANGED <<start, session, wpc, child>>
    BY DEF AppStop, KillConsole, watchVars
  <1>1. Launched' /\ EarlierEnded'
    BY <1>0 DEF LifeInv, SessionInv, Launched, EarlierEnded, Ended
  <1>2. CASE AppStop
    <2>1. /\ start \in {Foreground, Idle} /\ session \in Watches \ {0}
          /\ wpc[session] \in {"wait", "done"}
          /\ \A k \in Children : child[session][k] # "forked"
          /\ ~stopped /\ stopped' = stopped /\ stop' = 1
      BY <1>2 DEF AppStop, CameUp, LifeInv, SessionInv, Starting
    <2>2. Stopping'
      <3>1. \A k \in Children : ~(k < 1)
        BY DEF Children
      <3> QED
        BY <1>0, <2>1, <3>1 DEF Stopping
    <2>3. BetweenSessions' /\ Starting'
      BY <1>0, <2>1 DEF BetweenSessions, LifeInv, SessionInv, Starting
    <2> QED
      BY <1>0, <1>1, <2>2, <2>3 DEF LifeInv, SessionInv
  <1>3. CASE KillConsole
    <2>1. stop = MAX_CHILD + 1 /\ stop' = Idle /\ stopped' = TRUE /\ stop # Idle
      BY <1>3, WatchAssumption DEF KillConsole, Idle
    <2>2. start \in {Foreground, Idle} /\ session \in Watches \ {0}
      BY <2>1 DEF LifeInv, SessionInv, Stopping
    <2>3. Ended(session)'
      <3>1. \A k \in Children : k < stop
        BY <2>1, WatchAssumption DEF Children
      <3> QED
        BY <1>0, <2>1, <3>1 DEF LifeInv, SessionInv, Stopping, Ended, Alive
    <2>4. BetweenSessions' /\ Stopping' /\ Starting'
      <3>1. Starting
        BY DEF LifeInv, SessionInv
      <3> QED
        BY <1>0, <2>1, <2>2, <2>3, <3>1 DEF BetweenSessions, Stopping, Starting
    <2> QED
      BY <1>0, <1>1, <2>4 DEF LifeInv, SessionInv
  <1> QED
    BY <1>2, <1>3

LEMMA SessionStep ==
  ASSUME LifeInv, [Next]_vars
  PROVE  SessionInv'
  <1>1. CASE Tasks
    BY <1>1, TasksAreCalm, CalmSession
  <1>2. CASE KillAll
    BY <1>2, KillAllIsCalm, CalmSession DEF KillAll
  <1>3. CASE UNCHANGED vars
    BY <1>3, CalmSession DEF vars, lifeVars, watchVars, Calm
  <1> QED
    BY <1>1, <1>2, <1>3, AppStartKeepsSession, LaunchKeepsSession, ScriptKeepsSession,
       AppStopKeepsSession DEF Next, Scripts
-----------------------------------------------------------------------------
(* Types, and who has which queues open.                                    *)
LEMMA TypeStep ==
  ASSUME LifeInv, [Next]_vars, WatchInv'
  PROVE  TypeOK'
  <1>0. /\ TypeOK /\ WatchTypeOK'
        /\ Foreground = 4 /\ Idle = 0
    BY Places DEF LifeInv, WatchInv, Idle
  <1>1. CASE UNCHANGED lifeVars
    BY <1>0, <1>1 DEF TypeOK, lifeVars
  <1>2. CASE \E w \in Watches, k \in Children : OpenQueues(w, k)
    BY <1>0, <1>2 DEF OpenQueues, TypeOK
  <1>3. CASE AppStart
    <2>1. /\ session' \in Watches /\ start' = 1 /\ stopped' = FALSE
          /\ UNCHANGED <<stop, dbgx, queues, users, opened>>
      BY <1>3 DEF AppStart
    <2>2. 1 \in 0..Foreground
      BY <1>0
    <2> QED
      BY <1>0, <2>1, <2>2 DEF TypeOK
  <1>4. CASE Remove
    <2>1. start = 1 /\ queues' = queues + 1 /\ users' = {} /\ opened' = opened
      BY <1>0, <1>4, At DEF Remove, RemoveQueues, TypeOK
    <2>2. queues' \in Nat /\ opened' \in [Watches -> [Children -> 0..queues']]
      <3>1. 0..queues \subseteq 0 .. queues + 1
        BY <1>0 DEF TypeOK
      <3> QED
        BY <1>0, <2>1, <3>1 DEF TypeOK
    <2> QED
      BY <1>0, <1>4, <2>1, <2>2 DEF Remove, TypeOK
  <1>5. CASE LaunchWatch \/ LaunchConsole \/ ConsoleEnds \/ AppStartEnds \/ AppStop
    <2>1. /\ start' \in 0..Foreground
          /\ stop' \in 0 .. MAX_CHILD + 1
          /\ UNCHANGED <<stopped, session, queues, users, opened>>
      BY <1>0, <1>5, At, WatchAssumption DEF LaunchWatch, LaunchConsole, ConsoleEnds,
         AppStartEnds, AppStop, TypeOK
    <2>2. dbgx' = dbgx \/ dbgx' \in BOOLEAN
      BY <1>5 DEF LaunchWatch, LaunchConsole, ConsoleEnds, AppStartEnds, AppStop
    <2> QED
      BY <1>0, <2>1, <2>2 DEF TypeOK
  <1>6. CASE KillAll \/ KillConsole
    <2>1. /\ stop' \in 0 .. MAX_CHILD + 1
          /\ UNCHANGED <<start, session, queues, users, opened>>
      BY <1>0, <1>6, WatchAssumption DEF KillAll, KillConsole, Children
    <2>2. (dbgx' = dbgx \/ dbgx' \in BOOLEAN) /\ (stopped' = stopped \/ stopped' \in BOOLEAN)
      BY <1>6 DEF KillAll, KillConsole
    <2> QED
      BY <1>0, <2>1, <2>2 DEF TypeOK
  <1> QED
    BY <1>1, <1>2, <1>3, <1>4, <1>5, <1>6 DEF Next, Scripts, Tasks, vars

\* who can run: a task of the session whose watch is launched
LEMMA AliveIsCurrent ==
  ASSUME LifeInv, NEW w \in Watches, NEW k \in Children, child[w][k] \in Alive
  PROVE  w = session /\ start \notin {1, 2}
  <1>1. k \in Nat /\ k >= 1
    BY DEF Children
  <1>2. wpc[w] # "none"
    BY <1>1 DEF LifeInv, ForkedInOrder, Alive
  <1>3. w = session
    BY <1>2 DEF LifeInv, SessionInv, Launched, EarlierEnded, Ended
  <1> QED
    BY <1>2, <1>3 DEF LifeInv, SessionInv, Starting

\* a step makes a task run only from a fork, and takes no place back to a fork
LEMMA ChildSteps ==
  ASSUME LifeInv, [Next]_vars, NEW w \in Watches, NEW k \in Children
  PROVE  /\ child'[w][k] \in {"none", "forked"} => child[w][k] \in {"none", "forked"}
         /\ child'[w][k] = "running" => child[w][k] \in Alive
  <1>0. WatchTypeOK
    BY DEF LifeInv, TypeOK
  <1>1. CASE UNCHANGED child
    BY <1>1 DEF Alive
  <1>2. CASE KillAll
    BY <1>0, <1>2 DEF KillAll, WatchTypeOK, Alive
  <1>3. ASSUME NEW v \in Watches, WatchStep(v)
        PROVE  /\ child'[w][k] \in {"none", "forked"} => child[w][k] \in {"none", "forked"}
               /\ child'[w][k] = "running" => child[w][k] \in Alive
    <2>1. CASE Fork(v)
      <3>1. idx[v] \in Children /\ child[v][idx[v]] = "none"
        BY <1>0, <2>1, WatchAssumption
           DEF Fork, MoreToFork, WatchTypeOK, Children, LifeInv, ForkedInOrder
      <3>2. child' = child \/ child' = [child EXCEPT ![v][idx[v]] = "forked"]
        BY <2>1 DEF Fork
      <3> QED
        BY <1>0, <3>1, <3>2 DEF WatchTypeOK, Alive
    <2>2. CASE Wait(v)
      BY <1>0, <2>2 DEF Wait, WatchTypeOK, Alive
    <2>3. CASE EndForks(v) \/ EndWatch(v)
      BY <1>1, <2>3 DEF EndForks, EndWatch
    <2> QED
      BY <1>3, <2>1, <2>2, <2>3 DEF WatchStep
  <1>4. ASSUME NEW v \in Watches, NEW c \in Children, Exec(v, c) \/ ChildEnds(v, c)
        PROVE  /\ child'[w][k] \in {"none", "forked"} => child[w][k] \in {"none", "forked"}
               /\ child'[w][k] = "running" => child[w][k] \in Alive
    <2>1. PICK s \in {"running", "zombie"} : child' = [child EXCEPT ![v][c] = s]
      BY <1>4 DEF Exec, ChildEnds
    <2>2. child[v][c] \in Alive
      BY <1>4 DEF Exec, ChildEnds, Alive
    <2> QED
      BY <1>0, <2>1, <2>2 DEF WatchTypeOK, Alive
  <1>5. Next => \/ UNCHANGED child
                \/ KillAll
                \/ \E v \in Watches : \/ WatchStep(v)
                                      \/ \E c \in Children : Exec(v, c) \/ ChildEnds(v, c)
    BY DEF Next, Scripts, Tasks, AppStart, Remove, LaunchWatch, StartWatch, LaunchConsole,
       ConsoleEnds, AppStartEnds, AppStop, KillConsole, OpenQueues, watchVars
  <1> QED
    BY <1>1, <1>2, <1>3, <1>4, <1>5 DEF vars, watchVars

LEMMA OpenedStep ==
  ASSUME LifeInv, [Next]_vars
  PROVE  Opened' /\ Users'
  <1>0. /\ opened \in [Watches -> [Children -> 0..queues]]
        /\ start \in 0..Foreground /\ Foreground = 4
        /\ Opened /\ Users
    BY Places DEF LifeInv, TypeOK
  <1>1. CASE Remove
    <2>1. start = 1 /\ start' = 2 /\ users' = {} /\ opened' = opened /\ child' = child
      BY <1>0, <1>1, At DEF Remove, RemoveQueues, watchVars
    <2>2. \A w \in Watches, k \in Children : child[w][k] # "running"
      BY <2>1, AliveIsCurrent DEF Alive
    <2> QED
      BY <1>0, <2>1, <2>2 DEF Opened, Users
  <1>2. ASSUME NEW v \in Watches, NEW c \in Children, OpenQueues(v, c)
        PROVE  Opened' /\ Users'
    <2>1. /\ child[v][c] = "running" /\ child' = child /\ queues' = queues /\ start' = start
          /\ session' = session /\ users' = users \union {v}
          /\ opened' = [opened EXCEPT ![v][c] = queues]
      BY <1>2 DEF OpenQueues, watchVars
    <2>2. v = session
      BY <2>1, AliveIsCurrent DEF Alive
    <2>3. Users'
      BY <1>0, <2>1, <2>2 DEF Users
    <2>4. Opened'
      BY <1>0, <2>1 DEF Opened
    <2> QED
      BY <2>3, <2>4
  <1>3. CASE UNCHANGED <<queues, users, opened>>
    <2>1. Opened'
      BY <1>0, <1>3, ChildSteps DEF Opened, Alive
    <2>2. Users'
      <3>1. CASE Scripts
        <4>1. Remove => start = 1 /\ users' = {}
          BY <1>0, At DEF Remove, RemoveQueues
        <4> QED
          BY <1>0, <1>3, <3>1, <4>1, At DEF Users, Scripts, AppStart, LaunchWatch,
             LaunchConsole, ConsoleEnds, AppStartEnds, AppStop, KillAll, KillConsole
      <3>2. CASE Tasks \/ UNCHANGED vars
        BY <1>0, <1>3, <3>2, TasksAreCalm DEF Users, vars, lifeVars
      <3> QED
        BY <3>1, <3>2 DEF Next
    <2> QED
      BY <2>1, <2>2
  <1>4. Next => \/ Remove
                \/ \E v \in Watches, c \in Children : OpenQueues(v, c)
                \/ UNCHANGED <<queues, users, opened>>
    BY DEF Next, Scripts, Tasks, AppStart, LaunchWatch, LaunchConsole, ConsoleEnds,
       AppStartEnds, AppStop, KillAll, KillConsole, lifeVars
  <1> QED
    BY <1>1, <1>2, <1>3, <1>4 DEF vars, lifeVars
-----------------------------------------------------------------------------
LEMMA LifeInit == Init => LifeInv
  <1> SUFFICES ASSUME Init PROVE LifeInv
    OBVIOUS
  <1>0. /\ \A w \in Watches : wpc[w] = "none" /\ idx[w] = 1 /\ num_child[w] = 0
        /\ \A w \in Watches, k \in Children : child[w][k] = "none" /\ opened[w][k] = 0
        /\ start = 0 /\ stop = 0 /\ stopped = TRUE /\ session = 0 /\ users = {0} /\ queues = 1
    BY DEF Init, WatchInit, Idle
  <1>1. TypeOK
    <2>1. WatchTypeOK
      BY WatchAssumption DEF Init, WatchInit, WatchTypeOK, ChildStates
    <2>2. 0 \in 0..Foreground /\ 0 \in 0 .. MAX_CHILD + 1 /\ 0 \in 0..1
      BY WatchAssumption, Places
    <2> QED
      BY <2>1, <2>2 DEF Init, TypeOK, Idle
  <1>2. ChildrenCounted
    <2>1. \A w \in Watches : Unreaped(w) = {}
      BY <1>0 DEF Unreaped
    <2> QED
      BY <1>0, <2>1, FS_EmptySet DEF ChildrenCounted
  <1>3. ForkedInOrder
    BY <1>0 DEF ForkedInOrder
  <1>4. SessionInv
    BY <1>0 DEF SessionInv, Launched, EarlierEnded, BetweenSessions, Stopping, Starting, Idle
  <1>5. Opened /\ Users
    BY <1>0 DEF Opened, Users
  <1> QED
    BY <1>1, <1>2, <1>3, <1>4, <1>5 DEF LifeInv

LEMMA LifeStep == LifeInv /\ [Next]_vars => LifeInv'
  <1> SUFFICES ASSUME LifeInv, [Next]_vars PROVE LifeInv'
    OBVIOUS
  <1>1. WatchInv /\ Starting
    BY DEF LifeInv, WatchInv, TypeOK, SessionInv
  <1>2. WatchInv'
    BY <1>1, WatchKeepsCount
  <1> QED
    BY <1>2, TypeStep, SessionStep, OpenedStep DEF LifeInv, WatchInv

LEMMA LifeInvHolds == Spec => []LifeInv
  BY LifeInit, LifeStep, PTL DEF Spec

(* Every variable keeps its type, for any number of tasks and starts.       *)
THEOREM LifecycleTypeCorrect == Spec => []TypeOK
  <1>1. LifeInv => TypeOK
    BY DEF LifeInv
  <1> QED
    BY <1>1, LifeInvHolds, PTL

(* Whatever forks and execs fail, the counter of watch is the number of     *)
(* children wait() can still find (watch.c:38-66).                          *)
THEOREM WatchCountsItsChildren == Spec => []ChildrenCounted
  <1>1. LifeInv => ChildrenCounted
    BY DEF LifeInv
  <1> QED
    BY <1>1, LifeInvHolds, PTL

(* After app-stop no task of any start runs or is still to be made by one   *)
(* of their watches (app-stop, watch.c).                                    *)
THEOREM NothingIsLeft == Spec => []StopLeavesNothing
  <1>1. ASSUME LifeInv PROVE StopLeavesNothing
    <2> SUFFICES ASSUME Stopped, NEW w \in Watches, NEW k \in Unreaped(w)
                 PROVE  child[w][k] = "zombie"
      BY DEF StopLeavesNothing, Unreaped
    <2>1. k \in Children /\ child[w][k] \in {"forked", "running", "zombie"}
      BY DEF Unreaped
    <2>2. CASE child[w][k] \in Alive
      <3>1. w = session
        BY <1>1, <2>1, <2>2, AliveIsCurrent
      <3>2. session # 0
        BY <1>1, <2>1, <2>2, <3>1 DEF LifeInv, SessionInv, Launched, ForkedInOrder, Alive, Children
      <3> QED
        BY <1>1, <2>1, <2>2, <3>1, <3>2 DEF Stopped, LifeInv, SessionInv, BetweenSessions, Ended
    <2> QED
      BY <2>1, <2>2 DEF Alive
  <1> QED
    BY <1>1, LifeInvHolds, PTL

(* Tasks that run can reach each other: nobody holds a queue that app-start *)
(* has removed (app-start, ipc.c).                                          *)
THEOREM TasksShareTheirQueues == Spec => []SameQueues
  <1>1. LifeInv => SameQueues
    BY DEF LifeInv, Opened, SameQueues
  <1> QED
    BY <1>1, LifeInvHolds, PTL

(* Queues in use have been opened by tasks of one session only, so that no  *)
(* task finds messages of an earlier one (app-start).                       *)
THEOREM QueuesAreOfOneSession == Spec => []CleanQueues
  <1>1. ASSUME LifeInv PROVE CleanQueues
    <2> SUFFICES ASSUME NEW w \in Watches, NEW k \in Children,
                        child[w][k] = "running", opened[w][k] # 0
                 PROVE  users = {w}
      BY DEF CleanQueues
    <2>1. w = session /\ start # 1
      BY <1>1, AliveIsCurrent DEF Alive
    <2> QED
      BY <1>1, <2>1 DEF LifeInv, Opened, Users
  <1> QED
    BY <1>1, LifeInvHolds, PTL
-----------------------------------------------------------------------------
(* What a stop leaves to be done: each watch only has to take its zombies.  *)
LEMMA StoppedWatch ==
  ASSUME LifeInv, Stopped, NEW w \in Watches
  PROVE  wpc[w] = "none" \/ Ended(w)
  <1>1. stopped /\ Launched /\ EarlierEnded /\ BetweenSessions /\ session \in Nat
    BY DEF Stopped, LifeInv, SessionInv
  <1>2. CASE w \in 1..session
    <2>1. session # 0
      BY <1>1, <1>2
    <2> QED
      BY <1>1, <1>2, <2>1 DEF EarlierEnded, BetweenSessions
  <1>3. CASE w \notin 1..session
    BY <1>1, <1>3 DEF Launched
  <1> QED
    BY <1>2, <1>3

(* After app-stop the wait() of a watch never blocks for ever: it has ended *)
(* its loop, or a zombie is there for it to take (watch.c:61-66, app-stop). *)
THEOREM StoppedWatchGoesOn ==
  Spec => [](Stopped => \A w \in Watches :
               \/ wpc[w] \in {"none", "done"}
               \/ wpc[w] = "wait" /\ (num_child[w] = 0 \/ \E k \in Children : child[w][k] = "zombie"))
  <1> DEFINE GoesOn == Stopped => \A w \in Watches :
               \/ wpc[w] \in {"none", "done"}
               \/ wpc[w] = "wait" /\ (num_child[w] = 0 \/ \E k \in Children : child[w][k] = "zombie")
  <1>1. ASSUME LifeInv PROVE GoesOn
    <2> SUFFICES ASSUME Stopped, NEW w \in Watches, wpc[w] = "wait", num_child[w] # 0
                 PROVE  \E k \in Children : child[w][k] = "zombie"
      BY <1>1, StoppedWatch DEF Ended
    <2>1. Ended(w)
      BY <1>1, StoppedWatch
    <2>2. Unreaped(w) # {}
      <3>1. num_child[w] = Cardinality(Unreaped(w))
        BY <1>1 DEF LifeInv, ChildrenCounted
      <3> QED
        BY <3>1, FS_EmptySet
    <2> QED
      BY <2>1, <2>2 DEF Unreaped, Ended, Alive
  <1> HIDE DEF GoesOn
  <1>2. Spec => []GoesOn
    BY <1>1, LifeInvHolds, PTL
  <1> QED
    BY <1>2 DEF GoesOn

(* ... and every step of a watch then lowers its counter or ends it, while  *)
(* nothing else raises the counter: no more steps are left than it had      *)
(* children (watch.c:61-66).                                                *)
THEOREM StoppedWatchIsFinite ==
  Spec => [][Stopped => \A w \in Watches :
               /\ num_child'[w] <= num_child[w]
               /\ WatchStep(w) => num_child'[w] < num_child[w] \/ wpc'[w] = "done"]_vars
  <1> DEFINE Lower == Stopped => \A w \in Watches :
               /\ num_child'[w] <= num_child[w]
               /\ WatchStep(w) => num_child'[w] < num_child[w] \/ wpc'[w] = "done"
  <1>1. ASSUME LifeInv, Next PROVE Lower
    <2> SUFFICES ASSUME Stopped, NEW w \in Watches
                 PROVE  /\ num_child'[w] <= num_child[w]
                        /\ WatchStep(w) => num_child'[w] < num_child[w] \/ wpc'[w] = "done"
      OBVIOUS
    <2>0. num_child \in [Watches -> Nat] /\ wpc \in [Watches -> {"none", "fork", "wait", "done"}]
      BY <1>1 DEF LifeInv, TypeOK, WatchTypeOK
    <2>1. \A v \in Watches : wpc[v] # "fork"
      BY <1>1, StoppedWatch DEF Ended
    <2>2. ASSUME NEW v \in Watches, WatchStep(v)
          PROVE  \/ num_child' = [num_child EXCEPT ![v] = @ - 1]
                 \/ num_child' = num_child /\ wpc' = [wpc EXCEPT ![v] = "done"]
      BY <2>1, <2>2 DEF WatchStep, Fork, EndForks, Wait, EndWatch
    <2>3. num_child'[w] <= num_child[w]
      <3>1. \/ num_child' = num_child
            \/ \E v \in Watches : WatchStep(v)
        BY <1>1 DEF Next, Scripts, Tasks, AppStart, Remove, LaunchWatch, StartWatch,
           LaunchConsole, ConsoleEnds, AppStartEnds, AppStop, KillAll, KillConsole, Exec,
           ChildEnds, OpenQueues, watchVars
      <3> QED
        BY <2>0, <2>2, <3>1
    <2> QED
      BY <2>0, <2>2, <2>3
  <1>2. LifeInv /\ [Next]_vars => [Lower]_vars
    BY <1>1
  <1> HIDE DEF Lower
  <1>3. Spec => [][Lower]_vars
    BY <1>2, LifeInvHolds, PTL DEF Spec
  <1> QED
    BY <1>3 DEF Lower
=============================================================================
