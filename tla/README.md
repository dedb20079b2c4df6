# TLA+ specifications of the GUI manager and its tasks

The repository is the software of a small embedded device: a GUI manager, a set
of request servers, a debug console and a watch process, which talk through
POSIX message queues and System V shared memory. These specifications model how
a request travels from a window of the manager to a server and back; what the
manager's tables of timers, keys, areas and notifications do while callbacks
change them; how the console edits and parses its lines; how the system is
started and stopped; and how dates are converted. TLC checks them on small
instances; TLAPS proves every safety property those runs check, for every size of
the tables, and the two refinements; of five of the liveness properties it proves
the safety they rest on.

## 1. Inventory

| part | state | operations | talks to |
|---|---|---|---|
| IPC layer `lib/ipc` | 11 queues (32 messages of 512 bytes), shared segments keyed by request number | `SendIpcMessage` (blocks on a full queue), `RecvIpcMessage`, `WaitForRequest`, `Response`, `FakeRequest`, `Notify` | every process |
| manager `tsk/mgr/gui` | table of 16 requests, `gSeqNum`; tables of timers, notifications, keys and touch areas; the current window | the loop of `main`, `Request`, `ProcessShortResponses`, `ProcessLongResponses`, `ProcessResponseTimeouts`, `ProcessTimers`, `ProcessKeyEvents`, `LoadWindow`, registration functions | its own queue, the servers' queues, the input device |
| windows `tsk/mgr/win` | none of their own | `OnLoad` routines and callbacks of opening, menu and error | call `Request`, `LoadWindow`, `Register...` inside the loop |
| servers `tsk/task1`, `tsk/task2` | `ReqSize`, the request being processed | loop of `WaitForRequest`, `ProcessRequest`, `Response` | their queue, the manager's queue |
| debug console `tsk/dbgx` | line buffer, parameters | `waitMsg`, `readStory` | posts requests to the manager's queue |
| watch `tsk/watch` | number of children | starts manager and servers once, waits for them to end | no restart |
| scripts `bin/app-start`, `bin/app-stop` | files under `/dev/mqueue`, segments | remove queues, start watch and console; kill the tasks by name | the processes |
| `lib/dateUtils` | none | conversions between dates and day numbers | callers |
| `lib/random`, string list in `lib/ipc` | little, of one owner | generator, append | nobody calls them |

What is hard: the manager has one thread. Sending to a full queue stops it
inside whatever callback it is in. Requests that time out leave the table but
not the server's queue. Answers are matched by number only, and the number is a
`UINT` when the request is sent and a `USHORT` when it is answered. A request
and its answer use the same shared-memory key. A callback can change the window,
register and deregister, which alters the tables under the sweep that called it.
The repeat counter is one for all keys and is cut to a `USHORT`. The console
keeps the numbers of earlier lines. A server never comes back; watch only
counts. `PROJECT.json` lists these hazards with their lines and with the
properties that watch them.

## 2. Modules

    Ipc <---- MgrRequests <---.
     ^ ^                       GuiSystem <--- MCGuiSystem        (TLC)
     | '----- TaskServer  <---'    ^  '. . .> RequestService     (refines)
     |                             '--------- GuiSystemProofs    (TLAPS)
     |                                  MessageProofs ----^
     '------- Dbgx    <--- MCDbgx, DbgxProofs
    Timers  <--- TimersProofs        Timers . . .> TimerService  (refines)
    Keys    <--- MCKeys, KeysProofs
    Windows <--- MCWindows, WindowsProofs
    Watch   <--- Lifecycle <--- LifecycleProofs
    DateUtils <--- Calendar <--- DateProofs

**Ipc.** `mq[t]` is the queue of task `t`, `shm[k]` the segment under key `k`
with its size and who wrote it last. Operators: `Enqueue` (enabled when the queue
has room, which is how a blocking `mq_send` is modelled), `Dequeue`, `CanGet` /
`Write` / `Remove` for `shmget` and its companions, message constructors that
choose the short or long form as the code does, `FakeRequest`. The contents of
messages are left out, their type, number, request id and size are kept, with
the ids and sizes of the code.

**MgrRequests.** `requests` is `gCtxt.requests`, `gSeqNum` the next number. `mpc`
is where the thread is: `select`, `ipc` (reading a message), `timers`, `clock`
and `timeouts` (the sweep before and after its one reading of the clock), `cb`
(in a callback) and `send` (in `mq_send`). `mret` is where the callback returns
to, `out` the message being sent and where to go on after it, `due` the slots
the sweep found expired and has yet to visit. `fate` is a history variable: what
became of each number. One action per handler: `Select`, `SelectKey`,
`RelayRequest`, `ProcessShortResponses`, `ProcessLongResponses`,
`ProcessOtherMessage`, `ProcessTimers`, `ReadClock`, `TimeOutRequest`,
`EndTimeouts`, and inside callbacks `AppRequest`, `LoadWindow`, `CbReturn`;
`MqSend` is the return of `mq_send`. Real time is abstracted: at the sweep's
reading of the clock any set of requests may be over. A request made during the
sweep cannot be, because its deadline lies after that reading. All timers of a
turn share one visit to `cb`, and so do the callbacks of a key event; `Timers`
and `Keys` take these visits apart.

**TaskServer.** `tpc[t]` is `wait`, `process`, `send` or `dead`, `hold[t]` the
request and then the response in the server's hands, `ReqSize[t]` the variable
of `main` that is passed as the room in the buffer and overwritten with the size
of the request. The variable is not initialised: its first value is any of
`InitReqSizes`; afterwards it keeps the last value, as it does in the
unoptimised build of the Makefiles. Reading, copying and removing the segment
of a long request is one step: no other process uses that key at that moment.

**GuiSystem** composes the three with the effect of the console
(`ConsoleRequest`) and states the properties and the fairness.
**RequestService** is what the manager promises its windows, in terms of numbers
and outcomes alone; `KeepsRequestService` is the claim that `GuiSystem`
implements it with `gSeqNum` for its number and `fate` for its outcomes.

**Timers.** `timers` is `gCtxt.timers` with deadlines in the `timeval` form of
the code: `timeradd` with its carry, `Interval` for the division of
milliseconds, `IsTimeOver` as `timer.c` compares. `pc` tells the main loop, a
callback outside the sweep (`cb`), the sweep and a timer's callback inside it
(`timercb`). `now` is the one reading of the clock, `i` the slot the sweep is at,
`saved` the timer whose callback runs, `fired` a history of the sweep. Callbacks
take `RegisterTimerCallback`, `DeregisterTimer` and `ClearTimers` in any order,
inside the sweep as well; `time` ticks at any moment. **TimerService** is what
timers promise (armed once, fired once, not early, one callback at a time, lost
only by disarming); `Deadlines` reads the table as such deadlines.

**Keys.** `key_reserves` is the table, `count` the counter that all keys share,
`Time` its product with 100 cut to a `USHORT`. The device is part of the model:
it repeats the key pushed last until any key is released. `Register` and
`Deregister` take the first free or first equal slot, so registering a state
twice and deregistering the state `{0, 0}` behave as in the code.

**Windows.** `frames` is the stack of window code: `OnLoad` routines and
callbacks, each with the window and the load it belongs to. `LoadWindow` clears
the five tables and pushes the new window's `OnLoad`; the code that called it is
still below and only returns (`leaving`), as the macros of `gui_err.h` and the
windows write it. `tables` holds for each entry its key and, as history, the load
it belongs to. The main loop calls the first entry for an event and sweeps the
timers and requests slot by slot.

**Dbgx.** `line` is `msgBuf` up to its index, in tokens: a word or a number with
its digits is one character of the model, so `SIZE` counts tokens. Every branch
of `waitMsg` is an action. `ReadStory` parses; numbers go to the front of `param`
and leave the rest of it as it was. A word `MSG_HEADER` does not hold is searched
on behind the table's end, undefined in C: the process may crash, or find
nothing or something without a command. A line may have more numbers than `param[]`
has places (`Overran`): the code writes on behind it, and a request's data behind
`buf[]` on the stack. From then on the console may post any id and size, post nothing, or
die at any step (`PostSpoilt`, `CrashSpoilt`). What was spoilt is taken to have no other
effect: the table of queues is static in the library, so posts still go to the manager.

**Watch** and **Lifecycle.** `child[w][k]` is the state of the `k`-th child of
the `w`-th watch: a copy of watch (`forked`), the program (`running`), ended, or
reaped. Forks and execs may fail and children end at any time. `Lifecycle` runs
the scripts over several sessions: the queues have a generation that `app-start`
advances, `app-stop` kills by name, and a copy of watch has not got that name yet.

**DateUtils** holds the functions of the library as operators, with the modulus
of `TDate`; **Calendar** is a Gregorian calendar that goes on day by day, which
they are checked against.

`MC...` modules hold the instances that cannot be written in a cfg file. Definitions
marked `mutant` are faulty variants of the definition after them. `PROJECT.json`
pairs each property with one that it must notice.

## 3. Properties and runs

| run | what it asks |
|---|---|
| `MCcore` | Both tasks, kills, timeouts, window changes; windows ask task 1, the console asks task 2, the manager itself (257) and no task (2). `OneSlotPerRequest`: table and outcomes agree. `InFlightOnce`, `PendingIsInFlight`: a request is in exactly one place until it ends. `RoutedToOwner`. `KeepsRequestService`: the manager implements `RequestService`. `BlockedMeansAbandoned`: while the manager is blocked on a server, more than `NUM_MAX_MESSAGES - GUI_MAX_REQUESTS` requests in that queue are over; with the code's 32 and 16, 17 of them. `OwnerAnswers`: an answer on its way under the number of a pending request comes from the server that request was sent to, so no late answer of a request that timed out or was cleared stands under a number in use. |
| `MClong` | Long messages through segments with at most 2 segments in the system, failing sends and dying servers: `LongMessagesHaveTheirData`, `SegmentsAccounted` (a segment left over means a refused send or a dead server, as long as no window asks the manager itself: it drops such a request, not its segment). |
| `MCwrap` | Numbers up to 5 with a USHORT of 3 values, long requests, some to the manager itself: `AnswerIsOwn`, an answer completes its own request or none, also past the USHORT, until the number `s + 65536` has been given out while request `s` is still in the table. |
| `MClive` | Under `Fairness`, with numbers past a USHORT of 3 values: `EveryRequestEnds` or the manager is blocked for good, and `StuckForACause`: then the receiver does not run, is dead, or is blocked on the manager. |
| `MChealthy` | Without expiry, kills and window changes and with room for the size sent: `EveryRequestAnswered`, while the console floods the manager. |
| `MCtimers` | Callbacks register, deregister and change the window inside and outside the sweep: `KeepsTimeService` (refinement), `CanRearm` ("reuse the slot if a register() is called within callback()"), `OncePerSweep` (a timer armed again waits for the next sweep), `EveryTimerEnds` (liveness). |
| `MCkeys` | Two keys pushed, held and released in any order: `ReleaseMeansUp` (a callback told time 0 is one for a key that is up, until `count * 100` is cut to 0), `LongPressOnce` (one long press per hold and per turn of the counter), `DeregisterIsExact`. |
| `MCwindows` | Windows load each other from `OnLoad` and from callbacks, in tables that overflow: `OnlyCurrentWindow` and `NoStaleCallback` (what stands in a table, and what runs, belongs to the window shown), `LoadingEnds` (liveness). |
| `MCdbgx` | Lines with words, numbers, headers and backspaces in any order, lines that overrun `param[]` among them: `LineWellFormed`; `PostedWasTyped`: until a line has overrun `param[]`, a line that leaves numbers out posts those of an earlier line, and nothing else is ever posted. |
| `MClife` | Two sessions with failing forks and execs: `ChildrenCounted` (watch's `wait` never fails, so its loop cannot spin), `StopLeavesNothing`, `SameQueues`, `CleanQueues`, `StopEndsWatch` (liveness). |
| `MCdates` | Every day of 2000 to 2099: `DatesAreCalendar` (`decodeDate`, `encodeDate`, leap years, weekdays, `isValidDate`), `RecodeKeepsTheRest`. |
| `MCtask2` | `DeclaredRequestServed`, violated: `req_id.h` declares `TASK2_REQUEST1` for task 2, the switch of `task2.c` knows only `TASK1_REQUEST1`, and task 2 exits on its own request. |

**Bounds.** Constants the code fixes are scaled: queues of 1 or 2 messages for
32, tables of 2 for 16, a USHORT of 3 values in `MCwrap`. The relation
`GUI_MAX_REQUESTS <= NUM_MAX_MESSAGES` of the code is kept, except in `MClive`,
where a queue of 1 makes blocking on both sides reachable within four requests.
`MaxSeq` bounds the numbers given out, the only bound of these runs that no code
has: `AppRequest`, `ConsoleRequest` and (for requests the manager sends itself)
`RelayRequest` stop there. A slot, a queue place and a number are symmetric in
their use, so two slots, more requests than slots and more requests than queue
places show reuse, overflow and blocking.

`MCtimers` has 3 ids for 2 slots, seconds of 2 milliseconds of 2 microseconds, so
that carries happen, delays below and above a second, and a clock that stops at
`MaxTime` = 7; `EveryTimerEnds` speaks of deadlines up to it. In `MCkeys` a USHORT
has 512 values, so that `count * 100` returns to 0 after 128 events (16384 in the
code) and a hold of 133 repeats passes that point and a second long press. In
`MCwindows` tables have one or two slots, so that `OnLoad` itself overflows them,
and six loads allow for a window change from a callback of a window that itself
was loaded by a callback. `MCdbgx` parses two commands (the second meets the
numbers of the first) in a buffer of 8 tokens; `param[]` has two places
(`PARAM_NUM` = 0), which a line of three numbers overruns. `MClife` has 2 children for 3, enough for one of them to fail
while the other runs, and two sessions, so that the second meets what the first
left. `MCdates` covers all dates that `isValidDate` takes.

**Deadlock** is checked in `MChealthy`, `MCtimers` and `MCkeys`. Elsewhere the
system may really stop: the manager blocked on the queue of a dead server, or out
of numbers for requests it sends itself (`core`, `long`, `wrap`, `live`,
`task2`); a window id outside the table ends the process (`windows`); the
console is killed or crashes (`dbgx`); the sessions are used up (`life`); the
calendar has a last day (`dates`).

**Fairness.** In `GuiSystem` the manager's loop and its callbacks go on (weak
fairness of `MgrMoves`: nothing in the loop waits except `mq_send`), servers run
while they live (weak fairness of `TaskStep`). `mq_send` is strongly fair: Linux
gives a free place to the sender waiting longest, so a console that keeps the
queue full cannot overtake a server for ever; without this assumption `MChealthy`
fails. `Expires(i)` is strongly fair: every deadline is finite, so a request that
stays in its slot is found expired by some sweep. Callbacks are not assumed to
stop changing windows, and kills are never fair. In `Timers` time passes, callbacks
return and the sweep goes on, all weakly fair: none of them waits for anything
(blocking sends are `GuiSystem`'s matter). In `Windows` window code comes to its
end, which is weak fairness of `OnLoad`; the loop need not turn. In `Lifecycle`
`killall` goes on once `app-stop` has begun, watches run and a forked child
reaches its exec; nobody has to start, stop or end.

## 4. Proofs

All theorems hold for all values of the constants that satisfy the named
assumptions of the modules; every lemma they use is proved with them.

`GuiSystemProofs`:

* `TypeCorrect`: `Spec => []TypeOK`. `TypeOK` is inductive. The queue bound rests
  on the guard of `Enqueue`, the range of numbers on `NumbersLeftBound`, the keys
  on `TruncatedType`.
* `TableIsExact`: `Spec => []OneSlotPerRequest`. Not inductive alone: a new number
  could be one still in the table, and an answer could match a free slot. `TableInv`
  adds that numbers from `gSeqNum` on are unused and that free slots hold number 0.
  Every change of the table is one of three, a lemma each: `PostRequestTable`,
  `DropRequestTable`, `RetireTable`.
* `OutcomesAreFinal`: `Spec => OutcomeIsFinal`, no request gets a second outcome,
  from the same invariant and the same lemmas.
* `RoutingIsCorrect`: `Spec => []RoutedToOwner`, with `RouteInv`, which adds the
  message the manager is about to send: between `Request` and the return of
  `mq_send` it is in no queue yet. `EnqueueRoute` and `DequeueRoute` are the two
  ways a queue changes.
* `ImplementsRequestService`: `Spec => KeepsRequestService`, the refinement, from
  `TableInv`. `RoomForRequest` counts: with a slot free, fewer than
  `GUI_MAX_REQUESTS` numbers are pending. `MgrStepService` maps each handler to a
  step of `RequestService` or to a stutter; servers and console only stutter.
* `BlockingServerMakesRoom`, the safety `StuckForACause` rests on: no handler of the manager
  runs while it is in `mq_send` (`BlockedMgrStands`); each step of the server it waits for
  takes a message or lowers `Turn`, the steps that server is away from taking one
  (`ServerTurn`), and nothing raises it. At most three such steps pass.
* `ExpiredRequestsEnd`, the safety `EveryRequestEnds` rests on: the sweep reads the clock
  once and runs callbacks that fill slots and change the window. `SweepInv` says that
  the slots it marked are used and that it, or a callback returning to it, is running;
  so a marked slot keeps its request until that times out or is cleared, and the
  sweep ends only with none left. The slots' numbers being pending comes from `TableInv`.
* `RequestIdNamesTask`: the high byte of a declared id is its task.

`MessageProofs`, first about messages on their way. `At[t][n]` is the message at place
`n` of task `t`, where place 0 is the task's hand (what the manager is sending, what
a server holds) and the others are those of its queue: every action is then a
message that moves from one place to another, changes in its place, or goes.
`FlightInv` says of all places: numbers lie below `gSeqNum` (`Numbered`); no number
but 0 stands at two places (`Unique`); which kinds of message can be where
(`Kinds`); a message under the number of a slot is that slot's request, or an
answer which its server can give (`Own`); a hand fits its task's point of control
(`Hands`). It is inductive with `TypeOK` and `TableInv`, and needs both: that a
number just given out is new is `TableInv`'s.

* `InFlightOnceHolds`: `Spec => []InFlightOnce`, from `Unique`, with `Carriers` mapped to
  places.
* `AnswersAreOwn`: `Spec => AnswerIsOwn`. The answer at the head of the manager's queue
  retires a slot whose number is its own, truncated. By `Numbered` its number is below
  `gSeqNum`; were it not the slot's, it would lie a whole USHORT above
  (`CutWithinSpan`), and then `gSeqNum` more than that.
* `AnswersComeFromOwner`: `Spec => []OwnerAnswers`. A server's hand holds what `RoutedToOwner`
  let into its queue, and a new request's number is one no answer bears yet
  (`Numbered` again), so an old answer's number never becomes pending anew.
* `BlockedBehindAbandoned`: `Spec => []BlockedMeansAbandoned`. By `Unique` the live
  requests in the full queue and the one being sent go into different slots of the
  table; so fewer than `GUI_MAX_REQUESTS` of the `NUM_MAX_MESSAGES` in it are live.

`MessageProofs` goes on with segments. `SegInv`: no segment under a number not
given out (`Unused`); what is stored under the number of the message at a place is
what that message and that place say, nothing for a short one (`Stocked`); a request
in the table, unless it is the manager's own, is at some place (`Carried`). It holds
only while numbers fit a USHORT: later an answer's key is not its request's.

* `PendingStaysInFlight`: `Spec => []PendingIsInFlight`, from `Carried`.
* `LongMessagesComplete`: `Spec => []LongMessagesHaveTheirData`, from `Stocked`. That a
  step of one task leaves the segments of all others alone is `Unique` again.
* `SegmentsAreAccounted`: `Spec => []SegmentsAccounted`, which is inductive given
  `SegInv`. The proof attempt showed two preconditions that the small instances had
  by accident: numbers fit, and the manager asks nothing of itself.

`TimersProofs`, by the invariant `TimersInv`: types; `UniqueTimers` (an id names
one slot, a slot has an id exactly while it has a callback); outside of a timer's
callback `saved` is empty; the sweep's clock reading is not ahead of the clock.

* `TimersTypeCorrect`: `Spec => []TypeOK`, of which the hard part is that
  microseconds stay below a second through `timeradd` and `gettimeofday`.
* `TimerCanRearm`: `Spec => CanRearm`, because the slot is cleared before its
  callback and, by uniqueness, no other slot has the id.
* `TimersImplementService`: `Spec => KeepsTimeService`, the refinement. `AddTotal`
  and `OverIsLater` turn seconds and microseconds into numbers of microseconds; one
  lemma each says what clearing, filling and emptying slots does to `Deadlines`;
  `RoomForOne` counts: with a slot free, fewer than `GUI_MAX_TIMERS` ids are armed.
  `ServiceStep` maps each action to one of `TimerService` or to a stutter.
* `SweepLeavesNoneDue`, for delays above 0 too: where a sweep ends, no timer in the
  table was due at its clock reading. `Swept` is the invariant: no slot behind the
  sweep's place is due. It survives a callback that fills such a slot because what is
  armed then ends after that reading (`ArmedLater`). This is what `EveryTimerEnds` needs
  of one sweep; that sweeps go on is the fairness.
* `TimersFireOncePerSweep`: `Spec => OncePerSweep` for delays above 0 (its only
  hypothesis, and what the property is about: with a delay of 0 a timer is due at
  once). `Rearmed` is the invariant: a timer that fired in this sweep is unarmed, or
  its deadline lies after the sweep's clock reading.

`KeysProofs`, by the invariant `KeysInv`: types, and the counter shared by all
keys is the count of the hold of the key that repeats (`CountsOwnHold`), which
does not follow from any single handler; no state runs in the loop.

* `KeysTypeCorrect`: `Spec => []TypeOK`.
* `ReleaseIsTold`: `Spec => []ReleaseMeansUp`, for every width of the USHORT and
  every table: time 0 is a release unless the hold has reached a cut to 0.
* `DeregisteringIsExact`: `Spec => DeregisterIsExact`, by cardinalities.

* `LongPressIsToldOnce`: `Spec => []LongPressOnce` if `LONG_PRESS` is a value of the
  USHORT (in the code 500 of 65536). This is arithmetic: the times told are
  `count * 100` modulo the width, and they come back to a value after `Period`
  events and not before (`LongTime`, `PeriodDivides`, `LongBound`). TLC visits one
  width, the theorem covers all of them.

`WindowsProofs`, by the invariant `WinInv`: types; `OnlyCurrentWindow`; and `Stack`:
code below the top is leaving (`Below`), the top is of the current window unless it is
leaving too (`TopIsCurrent`). This is what makes the tables safe: the macros return
after every `LoadWindow`, so only code of the window shown can still register.

* `WindowsTypeCorrect`, `TablesAreCurrent` (`OnlyCurrentWindow`) and
  `CallbacksAreCurrent` (`NoStaleCallback`). The bound of the stack in `TypeOK` follows
  from `Below`:
  only the opening's `OnLoad` loads another window.
* `WindowCodeIsFinite`: `StepsLeft` counts what is left to do for the code on the stack (a
  return for each routine, and for the one on top what it still registers or loads);
  every step of `OnLoad` lowers it and no other step raises it while code is on the
  stack. With the fairness of `OnLoad` this is why `LoadingEnds` holds, for tables, lists
  of registrations and numbers of loads of any size.

`LifecycleProofs`, by the invariant `LifeInv`: types; `ChildrenCounted`; children are
forked in order (`ForkedInOrder`); `SessionInv`, the protocol of the scripts: only the
last session can have tasks, none before its watch is launched, none still to come
from a fork or exec once `app-stop` runs, none at the places it has passed; what the
running tasks have opened (`Opened`) and who has used the queues (`Users`).

* `LifecycleTypeCorrect`, `WatchCountsItsChildren`, by cardinalities,
  `NothingIsLeft`, `TasksShareTheirQueues`, `QueuesAreOfOneSession`, for any number
  of tasks and sessions.
* `StoppedWatchGoesOn` and `StoppedWatchIsFinite`, the safety that `StopEndsWatch` rests on.
  After `app-stop` each watch is done, can leave its loop, or has a zombie to take; each
  of its steps lowers its counter or ends it, and nothing raises the counter. No watch
  forks then (`StoppedWatch`), which is `SessionInv` again.

`DbgxProofs`, by the invariant `DbgxInv`: types; `LineWellFormed`; and `Remembered`: each
place of `param[]` holds the last number that was typed for it, which relates the
parameters to the whole history of lines. It survives an overrun, of which it says nothing
behind `param[]`. No theorem assumes a relation between the sizes of `msgBuf` and
`param[]`, so lines that overrun it are covered.

* `DbgxTypeCorrect`, `LinesAreWellFormed`, and `OnlyTypedIsPosted`: `Spec =>
  PostedWasTyped`. What the parser's loop over a line yields is a recursive function
  along the line; `NumbersByStep` and `AllGood` show what it yields at every place by
  the least place where it would not.

`DateProofs`, about the dates, by arithmetic and without enumerating days: a date is its
year, the days before its month (`Before`; `MonthDaysAre` and `DaysOfMonthsAre` tie it to
the code's table of month lengths) and the day of the month.

* `DecodeInvertsEncode` and `EncodeInvertsDecode`: the dates `isValidDate` accepts and the
  numbers 1 to 36525 stand for each other. `YearOfNumber` splits a number into four-year
  cycles of 1461 days and a rest, as `decodeDate` does; `NumberIsDay` says that its year
  and day come back; `DayIsInMonth` that exactly one month holds a day of the year. The
  code's table is a recursive function; `TableIsDefined` shows that one satisfying the
  recursion exists, so that it can be read at each month.
* `DatesFollowCalendar`: `Spec => []DatesAreCalendar`, by `CalInv`: the calendar's date is
  one of the century, its number the one `encodeDate` would give it, its weekday the one
  `dayOfTheWeek` would. `CalNext` has a case each for a day, a month and a year that ends.
* `RecodeKeeps`: `Spec => []RecodeKeepsTheRest`, from the same invariant; a day that the
  new month does not have is shown to count on into the month after it (`DayBehindMonth`).

**Only model-checked.** Liveness, which is out of this prover's reach:
`EveryRequestEnds`, `StuckForACause`, `EveryRequestAnswered`, `EveryTimerEnds`,
`LoadingEnds`, `StopEndsWatch`. What all but `EveryRequestAnswered` need of single
steps is proved (`ExpiredRequestsEnd`, `BlockingServerMakesRoom`,
`SweepLeavesNoneDue`, `WindowCodeIsFinite`, `StoppedWatchGoesOn` and
`StoppedWatchIsFinite`); the fairness that turns it into liveness is TLC's part. And `DeclaredRequestServed`,
which the code violates. The library's induction theorems take an operator as a
parameter and cannot be used; the few inductions needed go by a least
counterexample (`LeastNatural`).

## 5. Plan

Every safety property that a passing run checks is proved, and so are the two
refinements. What is worth adding:

1. The segments past a USHORT's numbers. The segment part of `MessageProofs` stops at
   `NumbersFit`; afterwards an answer is stored under a truncated key, and what a
   server reads may be an answer's data.
2. The step towards an answer: with no expiry and no window change, a pending request
   moves only forward, through its server's queue and hands to the manager's queue;
   the safety that `EveryRequestAnswered` rests on.

## 6. What to keep in mind

* `RequestService` lets any pending request be answered: that it is the right one is the
  claim of `AnswerIsOwn` and `OwnerAnswers`, not of the refinement.
* For `InFlightOnce` and `PendingIsInFlight` the hand of a dead server is a place like any other: a
  request that died with its server counts as in flight until it times out.
* That no answer is matched once 65535 requests have been made follows from the `USHORT`
  parameter of `ProcessShortResponses`. The specifications model it and require nothing
  of the kind; they require that such requests end (`EveryRequestEnds`) and are
  not confused (`AnswerIsOwn`). Likewise nothing requires that a server's `ReqSize`
  shrinks, as it does, or that task 2 does not know its own request, as it does not.
* No callback in the repository loads a window, and none uses the error macros of
  `gui_err.h`, which would. `Windows` lets callbacks do all that the API of `gui.h` offers
  them, so it covers more use than there is.

## 7. Not modelled

* Message contents and everything that only prints (`lib/x_dbg`, `DumpTimers` and
  its like); the GPIO driver, which the build leaves out; the keypad and touch
  screen demos, programs of their own; `testRunner` and `task_main`; `lib/random`
  and the string list of `lib/ipc`, which nothing calls.
* The servers `task`, `task1a` and `task1b`: variants of the loop of `task1` that
  watch does not start.
* `Notify` is not an action: its only callers are functions nobody calls. The
  table of notifications and its dispatch are in `Windows`.
* Touch areas are registered, deregistered and cleared, but their callbacks never
  run: `ProcessTouchEvents` is empty and `ProcessTouchAreas` has no caller.
* Requests longer than the 513 bytes of a server's buffer: the models keep to sizes the
  buffer holds.
* Segments left behind by an earlier session: `Lifecycle` has queues only.
* Steps of the system's clock. `gettimeofday` reads the wall clock; in `Timers` it only
  goes forward. Set back, it delays timers and timeouts; set forward, it ends them early.
* A start over tasks that still run, and a stop that overlaps a start.
* A crash of the manager ends the GUI for good: nothing restarts it, and all state
  of these specifications but queues and segments is gone with it.
