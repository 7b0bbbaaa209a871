# A TLA+ model of the on-the-fly critical path tool

OTF-CPT attaches to an MPI + OpenMP program, follows the critical path through
its activity graph while it runs, and prints efficiency metrics at the end. It
does so with *clocks*: every thread carries clocks that run or stand still
depending on what the thread is doing, and every synchronisation of the program
carries clock values from one thread or process to another and takes maxima.
The metrics are right if two things are:

1. the accounting: each clock shows exactly the time its thread spent in the
   states that count for it, whatever calls are nested and whenever the
   measurement is started and stopped;
2. the arcs: each synchronisation carries the longest path of those it joins,
   loses none and adds none.

This directory models both, checks them with TLC on small instances, and proves
central results with TLAPS for every number of threads and all flags.

## The parts of the system

| Part | Source | Module |
|---|---|---|
| clock algebra: types, states, `SwitchState`, `enterState`, `exitState`, `setState` | `include/criticalPath.h` | `CpClocks` |
| thread clocks, and all the code that starts, switches and stops them | `src/critical-core.cpp`, `src/ompt-critical.cpp`, `src/mpi-critical.cpp`, `include/mpi-critical.h`, `src/gen-wrappers.w` | `ThreadClock`, abstract: `Stopwatch` |
| sync clocks: `CheckArc`, `OmpHBefore`, `OmpHAfter`, `OmpCReset` | `include/criticalPath.h` | `SyncClock` |
| fork, barrier and join arcs of an OpenMP team | `src/ompt-critical.cpp` | `OmpTeam` |
| mutexes: the map of lock clocks | `src/ompt-critical.cpp`, `include/containers/CompactHashMap.h` | `OmpLocks` |
| explicit tasks, taskwait, taskgroup, events | `src/ompt-critical.cpp` | `OmpTasks` |
| task dependences | `src/ompt-critical.cpp` | `OmpDeps` |
| thread-local pools of callback data | `src/ompt-critical.cpp` | `OmptDataPool` |
| piggyback messages and collectives, request callbacks | `src/mpi-critical.cpp`, `include/mpi-critical.h`, `include/handle-data.h`, `src/gen-nb-wrappers.w` | `Piggyback`, on the external `MpiEngine` |
| handles of requests, communicators and messages; completion functions; Fortran entry points | `include/tracking.h`, `include/handle-data.h`, `src/tracking.cpp`, `src/completion-wrappers.cpp`, `src/man-wrappers.cpp`, `src/fort-wrappers.c` | `Handles` |
| offsets between the clocks of the processes | `src/mpi-critical.cpp` | `TimerOffsets` |
| metrics | `src/critical-core.cpp` | `Metrics` |
| vector, string and hash map | `include/containers/` | `Vector`, `String`, `CompactHashMap` |
| flag parser | `src/parse_flags.cpp`, `include/parse_flags.h` | `FlagParser` |
| stack traces, streams, plotting | `src/debug.cpp`, `include/containers/`, `script/CPT-plot.py` | not modelled: output |

The parts meet in the thread's clock record. An MPI wrapper or an OMPT callback
first changes the thread's clock state (`ThreadClock`), and then, inside the
runtime, draws an arc (`OmpTeam`, `OmpLocks`, `OmpTasks`, `OmpDeps`, `Piggyback`). A
state change adds the same time to the members `thread`, `proc` and `critical`
of a clock; an arc writes `proc` and `critical` only. So `ThreadClock` follows
the member `thread`, which nothing but state changes writes, and the arc
modules follow the other two. An MPI call goes through `Handles`, which finds the
tool's object for the program's handle, and `Piggyback`, which says what that
object does with the clocks. `Metrics` starts from clocks as `PathBounds` and
`ChargedWithinRun` leave them.

## Modules

**CpClocks.** A clock is kept in offset form: stopped, it holds the time it has
accumulated; running, that time minus the moment it was started.
`SwitchState` turns one form into the other for the clocks that run in only one
of the two states. Times are integers; rounding is left out.

**ThreadClock.** One process: the initial thread and a set of workers. `calls[t]`
is the stack of calls thread `t` is executing; it gives the order in which the
application and the runtimes can invoke the tool. Each handler is one action, because a
thread's clock is written by that thread alone. The exception is the end of the
measurement, which stops the clocks of all threads and clears `running`, and
which may overtake a thread that has already tested `running`: `late` holds
such threads, and the constant `Straddle` says whether there may be any.
Markers are placed outside parallel regions, as in the tests, and there is one
pair of them, as the tool's README says. The flags `stopped`, `dump_on_stop`
and `start_with_library_constructor` are constants.

**Stopwatch** is what `ThreadClock` promises: a stopwatch per thread and clock,
whose display no switch ever changes, which moves with time exactly when its
thread is in a state that counts, and which never moves again after the stop.

**SyncClock.** The clock object of an arc. Its operations act on a set of cells
(a member of a clock), so that a step can be a single store or a whole call.

**OmpTeam.** One team and its parallel regions over the three sync clocks of a
`ParallelData`, which the pool hands out again for every region without a
reset. A callback queues its calls in `todo[t]`. In the build whose metric
class locks (`Locked`) a call is one step; in the default build it goes store
by store: the test and the write of `sync_state`, then each cell. `sent` and
`mine` are history variables that the properties compare with. Workers get the
end of a closing barrier late and without `parallel_data`, and draw no arc.
The runtime's own barrier, and when a worker starts its task, are external;
`PromptStart` says whether all workers start before the primary thread reaches
a barrier. The measurement is on throughout.

**OmpLocks.** Locks and the critical sections under them. From here on a clock is
abstracted to its *causal past*: the set of pieces of work on a path to this
point. A maximum of clocks becomes a union. If the set is right, the longest
path is right for all durations; a missing or a surplus piece shows whatever
the times are. `at[t]` is where thread `t` is in the three callbacks, which are
split where they lock and unlock. The map of lock clocks is its size, its
capacity and, for a reference into it, the capacity at the time it was taken:
when the capacity has changed since, the entries have moved. Which thread gets
a lock, and that `mutex_released` comes after the lock is free again, is the
runtime.

**OmptDataPool.** The pools of one object type: the vector of the owner, the
vector others return to, its mutex and the counter that the owner reads
without it. What happens under the mutex is split into steps.

**OmpTasks.** Explicit tasks in one region. A callback is a step, except where it
draws arcs to clocks that threads share (the completion of a task, the begin of a
barrier). The build in the repository does not lock (`ipc-data.h` line 7 sets
`NUM_UC_INT64` to 0, which selects a `UniqLock` that does nothing), so there
`OmpHBefore` is the steps `CheckArc`, `ClaimArc` and `CopyArc`, or `RaiseArc`,
and `call[t]` holds the arcs that are left; the loop of `freeTask` is split too, one
object at a time. `overlap` records that two threads have met on a fresh sync
clock. `td[o]` is a `TaskData`, `stack[t]` the tasks a thread has on its stack, `th[t]` its state stack and
causal past and whether a DCHECK has failed. Next to the tool's clocks stand
`truth`, `order`, `orderGroup` and `orderBarrier`, which say what OpenMP orders; they are
updated by the rules of OpenMP and start afresh for every task, while the
tool's clocks live in the pooled objects. The scheduler is free: any thread at
a scheduling point may start or resume any task that belongs to the barrier it
is coming to, except on top of a descendant of that task. `prog`, chosen at
the start and then fixed, says which types of task and which constructs the
program uses, which threads create tasks and whether objects come back from the
pools.

**OmpDeps.** The tasks of one generating task with their dependences, and the three
clocks (`in`, `out`, `inoutset`) of each variable. The runtime is the usual order:
of two tasks with conflicting dependences the one generated first runs first,
and `mutexinoutset` tasks exclude each other. A `DependencyData` comes fresh
from the pool or with clocks of an earlier generating task (`Earlier`). A
taskwait with dependences is a task that `taskwait_complete` ends. The types are
those that `AnnotateBegin` and `AnnotateEnd` tell apart (`out` is treated as
`inout`). They ignore `source`, `sink`, `out_all_memory` and
`inout_all_memory`, which therefore draw no arc; no task here has one. The arcs
are stepwise as in `OmpTasks`, with the same `overlap`.

**MpiEngine** is what the tool needs of the MPI library, and external: messages of
one sender that do not overtake each other, receives that take the first message
that fits, probes, cancellation and collectives, on the program's communicator
and on the tool's duplicate. When messages and receives meet is left open.

**Piggyback.** Ranks, one of them with two threads. A wrapper constructs an object
of its class, calls PMPI and destroys the object; `at[t]` says how far thread `t`
is. `data[d]` is a `RequestData`, from the pools of a rank or on the stack of a
thread. A clock is a vector that counts, for each thread, its pieces of work on a
path to this point. `clock` is the tool's, `past` what it should be: `past`
travels with the program's messages, `clock` with the tool's. A program gives for
each thread the sets its calls are chosen from; TLC takes all choices. `failed`
collects DCHECKs that fail and calls of the tool that MPI does not define. The
constant `Kept` names the rules that the programs keep to (see below).

**Handles.** The factories of requests, communicators and messages, in the four builds
(integer or pointer handles, with or without Fortran), with their pools, tables
and the two mutexes. A call is split into steps at its locks. `want` says what a
variable of the program stands for. Piggyback has the callbacks and the clocks;
here a callback only records whose it is. A lookup under the shared lock is one
step, also for an array.

**Vector, String, CompactHashMap, FlagParser, Metrics, TimerOffsets** are pure: operators that
take a value and return the new one. A slot of a `Vector` is raw memory, an object
or an object that was moved away, and the vector remembers every use of a slot
that C++ does not allow. Metrics are exact fractions, and times in `TimerOffsets`
are doubled, so that no rounding is needed. `FlagParser` has flags of the types
bool, int, double and string. An int is narrowed from what `strtoll` returns
(`IntBound`); of what `strtod` reads, decimal numbers without an exponent are
modelled.

**CpClocksProofs, ThreadClockProofs, StopwatchRefinement, OmpTeamProofs,
OmpLocksProofs, OmptDataPoolProofs, OmpDepsProofs** hold the proofs.
**MCThreadClock** runs `ThreadClock` under three settings at once: those of the
configuration; markers with a report at the stop and the library constructor;
and a stop that may overtake a thread. **MCOmpTeam** runs `OmpTeam` with the lock and
prompt workers, and without the lock and with a slow one. **MCOmpTasks**, **MCPiggyback** and
**MCHandles** hold the programs. **MCParts** runs the pool, or one of the pure parts next
to a reference, as chosen in the initial state.

## What is model-checked

| Run | What it asks | Result |
|---|---|---|
| `clock` | measurement from initialisation to the end, and between markers with workers older than the start: `ThreadClock` implements `Stopwatch` (`ImplementsStopwatch`), no clock shows less than 0 or more than the interval (`ChargedWithinRun`), each state is popped by the call that pushed it (`StackMatchesCalls`) | holds |
| | a stop that overtakes a worker: the error in its clocks is at most the delay (`LateBooking`) | holds |
| `team` | two regions, three threads, locked, enough barriers to reuse each sync clock: after a barrier a thread is on the longest path brought to this barrier, nothing less and nothing left over from earlier ones (`JoinExact`); the same for the fork (`ForkExact`); each path is between the thread's own time and the interval (`PathBounds`) | holds |
| | store-by-store interleaving of two threads without the lock, the worker being slow: `PathBounds` (`UnlockedPathBounds`) | holds |
| `team_fork_edge` | a slow worker keeps its fork arc (`ForkExact`) | violated |
| `locks` | a thread that leaves `mutex_acquired` is on the path of the last release of the lock, and of no other section (`LockExact`); it does leave it (`AcquiredReturns`) | holds |
| `locks_rehash` | `mutex_released` uses a valid reference (`ReferenceValid`) | violated |
| `tasks` | seven kinds of program: no arc lost unless two threads meet on a fresh clock (`NothingLost`), none invented (`NothingAdded`), no DCHECK fails (`AssertionsHold`), reference counts exact (`RefCountExact`), state stacks restored (`StatesBalanced`) | holds |
| `tasks_second_barrier` | a task in the second barrier keeps its arc (`NothingLost`) | violated |
| `deps` | tasks and taskwaits with dependences: no arc lost unless two tasks end at once on a fresh clock (`DependsKept`), none invented (`DependsOnly`) | holds |
| `mpi` | eleven programs of two or three ranks: when an MPI call has returned, the thread has the clock of every message and collective it has taken part in (`NothingLost`) and at no time any other (`NothingAdded`); no clock is left over for a later message (`ClocksPaired`) or written into an object that has been given back (`BuffersOwned`); no DCHECK fails (`AssertionsHold`); a thread that waits for a clock gets it (`ClockArrives`) | holds |
| `mpi_restart` | a persistent wildcard receive may be started again (`AssertionsHold`) | violated |
| `handles` | twelve programs of two threads: MPI gets its own handle of the right object (`HandleExact`); each object is in one place (`OnePlace`) and none is lost (`NoLeak`); the handle of a finished object becomes null (`NullWhenGone`); no table is read while it moves and no assertion fails, one defect aside (`AssertionsHold`); every call returns (`CallsReturn`) | holds |
| `parts` | pools: an object is in one place (`OnePlace`), no empty vector is popped (`NeverEmpty`), nothing is missing at the end of a thread (`NothingMissing`) | holds |
| | containers against sequences and maps (`VectorExact`, `StringExact`, `MapExact`); each slot of a vector is constructed and destroyed once (`VectorLifetimes`) | holds |
| | flags are what the strings say, the last assignment counting, or parsing dies of an error in them (`FlagsExact`) | holds |
| | efficiencies lie between 0 and 1 and multiply as printed (`MetricsSound`) | holds |
| | one delayed message does not spoil a clock offset (`OffsetRobust`) | holds |

The violations are disagreements between the code and its own text:

- The fork uses `Barrier[1]` ("Parallel fork is just another barrier"), and
  thread 0 resets `Barrier[1]` when it enters the barrier with index 0. A
  barrier makes thread 0 wait for the others before it can come around; the
  fork does not. A worker that is slow to start then takes its arc from the
  reset clock and the part before the fork is missing from its path. It gets
  thread 0's path back at the barrier, but the path through its own work is
  too short.
- `mutex_released` keeps a reference into the map after it has unlocked
  `LocksMutex`. The comment in `mutex_acquired` warns of the rehash; only that
  callback copies the pointer first.
- `completeTask` uses the `BarrierIndex` of the explicit task, which is always 0.
  After the first barrier of a region the arcs of tasks go to the wrong clock:
  a task executed while its thread waits in the second barrier is missing after
  it, and a thread slow to leave the first barrier may get it too early.
- `completePBWC` replaces `MPI_ANY_SOURCE` in the request's `remote` by the actual
  sender. A persistent request keeps this; started again, it fails the DCHECK on
  `remote` when its next message comes from someone else.

### Deviations that the properties name

The models do what the code does in these cases too. No run is spent on them;
the properties that hold say where they stop.

- `TaskData::Reset` does not clear the clocks `Task` and `Taskwait`. A new task
  in a used object starts on the path of the old one, or finds it at its
  taskwait. `NothingAdded` is about programs whose objects are fresh.
- `DependencyData::Reset` does nothing either. `DependsOnly` lets the work of an
  earlier generating task through, and nothing else.
- A detached task draws no arc when its body ends. Its completion carries only the
  path of the thread that fulfils the event. `NothingLost` is about programs
  without detachable tasks.
- An early fulfilment shares the clock `Task` with the creation, so it also
  precedes the start of the task if that comes later. `NothingAdded` is about
  programs without detachable tasks.
- `UniqLock<TimeMetric>` does not lock, and `OmpHBefore` tests for a fresh clock and
  then copies, so a maximum that another thread stores in between is lost: two
  siblings that complete at once, two readers of a variable, two threads that
  enter a barrier. `JoinExact` and `ForkExact` are about the build that locks.
  `UnlockedPathBounds`, `NothingAdded` and `DependsOnly` hold in spite of it, but
  say only that no path is invented; `NothingLost` and `DependsKept` say that
  nothing else loses an arc.
- The objects that `MPI_Mprobe` takes from the pool of requests go to the pool of
  messages when `MPI_Mrecv` is done with them, and nothing draws from that
  pool: it grows with each probed message. `NoLeak` counts them as pooled.
- With integer handles and Fortran support `newRequest` passes the flag
  `persistent` where `init` takes the Fortran handle, so no request is
  persistent: the assertion at the end of `MPI_Send_init` fails, and a wait
  frees the request. `AssertionsHold` of `Handles` names it.
- The Fortran functions that complete arrays of requests do not write the handles
  back, so a completed request does not read as null. `NullWhenGone` names them.
- With pointer handles `MPI_Waitall` and `MPI_Testall` write through a null
  handle, and `MPI_Waitany` and `MPI_Testany` use the index even if it is
  `MPI_UNDEFINED`. `Legal` leaves such calls out.
- Appending to a `String()` inserts before the beginning, because `end()` counts on
  a NUL that is not there, and `push_back` on `String("")` comes after the NUL.
  `StringExact` is about the other uses. A `StringStream` does the former if the
  first thing written to it is a number or a `String` (`StringBuf::xsputn`); C strings
  go through `push_back`, which is right. Only stack traces are written this way.
- `String::find` ignores its second parameter once it has tested it, although its
  comment says "starting at pos". `StringExact` is about `find` with `pos` 0, the
  only use. The DCHECK of `insert` compares with `size() - 1`, which wraps for an
  empty string and leaves out the last position of others; `MayInsert` is the same.
- An int flag is narrowed without a check: a number too large is taken modulo 2^32.
  The reference of `FlagsExact` narrows it, too.
- `UnknownFlags::Add` checks that there is room for one more, but with
  `continue_on_error`, the default, a failed CHECK returns and the name is written
  behind the array. `FlagsExact` says that this takes more than the 20 unknown flags there is room for.
- `init_timer_offsets` changes `getTime()` while clocks may run; on ranks other than 0,
  intervals that span `MPI_Init` are off by the offset. `OffsetRobust` is about
  the offset itself.
- `onLibraryLoad` calls `startMeasurement` and `enterState` for
  `start_with_library_constructor`, but does not set `running`, so
  `enterState` does nothing and the measurement begins with the next
  `startTool`. The clocks are right from there on.

### What `Piggyback` assumes of the program

A send is eager: the library takes the 32 bytes of a clock at once. While a wildcard
receive is pending, nothing that overlaps it is posted or probed, except
further nonblocking wildcard receives that are completed in order: otherwise the clock of one message is
received for another. Two threads of a rank use different tags. Ranks agree on the order of
collectives and on which side of a marker they and the messages are; a marker is
passed when the rank has nothing pending, and there is one pair of them. The guards of the calls, and
`Fits` in `MpiEngine`, state this. No program of the run has a persistent receive in an
object recycled from another thread's request and waits for it before its first start: the callback
joins the values that the object still holds, and `NothingAdded` fails.

Seven more rules go beyond what MPI asks of a program. Both runs keep them
(`Kept`). Each was dropped once from `Mpi.cfg` to see that it is needed:

| Rule | Without it |
|---|---|
| `PromptProbe`: the clock of a probed message has arrived when `MPI_Mrecv` is called | `MPI_Mrecv` copies clock and request out of the message's object and gives the object back; the clock is then written into a pooled object (`BuffersOwned`) |
| `ActiveWait`: no wait for an inactive persistent wildcard receive | `completePBWC` receives a clock from the source of an empty status (`AssertionsHold`) |
| `WildcardRunning`: a persistent wildcard receive is started while the measurement is on | `completePBWC` waits for a clock that was not sent (`ClockArrives`) |
| `CancelInTime`: a receive is cancelled before it and its clock have come, and once | one of the two cancellations fails, or `cancelled` is already set (`AssertionsHold`) |
| `CancelRunning`: a persistent receive is cancelled while the measurement is on | `cancelPB` cancels a request that is not active (`AssertionsHold`) |
| `Status`: `MPI_Test` of a wildcard receive, and a wildcard probe while the measurement is off, get a status | the callback or `mpiMprobePB` reads through `MPI_STATUS_IGNORE` (`AssertionsHold`) |
| `TagNotAny`: the member `tag` that `mpiIrecvPB(MPI_Message *)` leaves uninitialised is not `MPI_ANY_TAG` | the destructor uses `cData`, also uninitialised (`AssertionsHold`) |

So `mpi` says nothing about programs that break a rule, and what the table says
of them is what the code does.

### Bounds

`MaxTime` bounds the clock; three to four ticks let time pass before, inside
and after a call. One worker is enough for `ThreadClock`: threads
touch only their own clocks, and the stop treats all workers alike. `OmpTeam`
needs two threads for a lost update and three for a thread that leaves a
barrier while one enters the next and one waits; three barriers and the closing
one wrap around the three clocks, and two regions reuse a `ParallelData`.
`Followed` limits the cells to USEFUL (OOMP behaves like it in a process
without MPI calls) and, where the offset form matters, OMPI, which runs while
arcs are drawn. Workers of a team are interchangeable, and `team` uses that
symmetry. It sets `PromptStart`, because of the first violation above, and
`Locked`, because the build that does not lock loses updates: within its bounds nothing else goes
wrong at the fork and the barriers of a team. The team without the lock has one
worker, one region and one barrier; what holds of larger ones is proved.

`OmpLocks` needs two threads and a map of capacity 1 for a rehash at the wrong
moment, and three threads for liveness, so that one waits while two pass the
mutex; two locks can be nested. The pool in `parts` has three threads, pages of two
and three pages: an owner and two threads that return to it at once. `OmpTasks`
needs three tasks for a grandchild, which taskwait does not wait for, and two
for siblings; two threads suffice for every arc from one thread to another.
The programs of `tasks` are: tied and undeferred tasks of both threads with taskwait, on fresh
and on pooled objects; nested tied tasks; tied tasks in nested taskgroups; untied tasks that move,
and that wait; detachable tasks. They have one barrier, because of the violation `tasks_second_barrier`.
In `OmpDeps` a conflict is a matter of one variable; four tasks let a task
have predecessors of two types with a third in between that it does not wait for.

`Piggyback` needs three ranks for a wildcard with two senders, and four threads for two on a
rank; `MaxData` is above what the programs have in use at once. `Handles` has blocks of one object and
one handle, so that pools and tables grow on nearly every creation, and two
variables, so that a handle is reused while another is in use; `MaxData` also bounds
how many objects `MPI_Mrecv` moves from one pool to another. In `parts` a capacity starts at 2
and doubles twice; keys collide at some sizes and not at others; every string of up to
five characters over a space, `=`, a quote, a name and a digit is parsed, and strings in
the three sources are combined; `IntBound` is 8, so that a number of two digits is narrowed;
metrics have two processes of one or two
threads, with inputs as exact joins and the Allreduce in `MPI_Finalize` leave them
(a report at a stop marker without a barrier need not have them); arguments of a
vector's functions are not elements of it; an offset has three trips, so that one may be late.

`ThreadClock` runs do not check for deadlock, because a program may end anywhere.
Nor do `mpi`, `mpi_restart` and `handles`, whose programs may stop after any call, `locks` and `locks_rehash`, because a thread with a dangling reference
stops (`AcquiredReturns` leaves out such threads and asks the sharper question of
each of the others), and `parts`, where the pool runs out of objects and a parser ends. The other runs do: a
finished program is an explicit final step, so that no thread can get stuck on
the way; in `tasks` a program that waits for an event nobody fulfils is finished.

Liveness is checked where the tool waits. `AcquiredReturns` assumes weak fairness of the
steps inside the callbacks, which the threads of the program justify: a thread
that runs a callback goes on, and nobody but another callback can hold it up.
`ClockArrives` says that again and again no thread is waiting for a clock at all. It
assumes that the MPI library makes progress on the tool's communicator: if a clock can be delivered, or a thread whose clock has arrived can go on, some such
step is taken. Nothing is assumed of the program's own messages and calls. `CallsReturn`
assumes strong fairness of each thread inside a call, because it may find a mutex
taken again and again; that a mutex does not pass over a thread for ever is what the
operating system gives. The program and the runtime need not be fair.

## What is proved

TLAPS checks these for every value of the constants, so for any number of
threads, barriers and regions and any bound on time.

- `TypeCorrect` (`ThreadClockProofs`): `Spec => []TypeOK`, also if the stop
  overtakes workers. The inductive invariant `TInv` adds that a clock's stack
  always has INIT at its bottom (`Rooted`), so that `exitState` never empties
  it, and which calls can lie above which.
- `StopwatchImplemented` (`StopwatchRefinement`): if no thread is overtaken,
  `ThreadClock` implements `Stopwatch`. At its heart is `SwitchKeeps`: a switch
  at some time leaves what a clock shows at that time unchanged. The invariant
  `RInv` says what holds of the clocks before the start (all zero, nothing
  pushed), and of a worker's calls; each action is then shown to be a step of
  `Stopwatch` or a stutter.
- `ChargedCorrect` (`StopwatchRefinement`): `Spec => []ChargedWithinRun`, under the same
  assumption, from the refinement: each step of `Stopwatch` keeps the totals
  within the elapsed time.
- `TeamTypeCorrect` and `PathBoundsHold` (`OmpTeamProofs`): type correctness and
  `Spec => []PathBounds`, with and without the lock, for slow workers, in every
  interleaving of stores. The invariant `PInv` says that arcs are drawn in the OMP
  state only, where USEFUL and OOMP stand still, and that no value in a sync
  clock exceeds the interval; so even a torn or lost update can only carry values
  that are paths of some thread.

- `LockArcsExact` (`OmpLocksProofs`): `Spec => []LockExact`. The invariant `IInv` says
  that the tool's mutex of a lock is held from the arc at the entry to the arc at the
  release (`Guarded`), which is later than the program's lock is free, and that the
  clock of a lock holds the last release of it unless that thread still has to draw its arc
  (`Covered`, `Undrawn`).
- `ObjectsInOnePlace` and `PoolNeverEmpty` (`OmptDataPoolProofs`): `Spec => []OnePlace`
  and `Spec => []NeverEmpty`. The invariant says that `remote` is positive only while the
  vector is not empty (`Counted`), and only the owner empties it; so the unlocked read is safe.
- `DependsKeptHolds` and `DependsOnlyHolds` (`OmpDepsProofs`): `Spec => []DependsKept` and
  `Spec => []DependsOnly`, with `OmpHBefore` in its unlocked steps. The invariant `IInv` has
  three parts. `Control` says how tasks follow each other: one that has started has its
  predecessors behind it (`Ordered`). `Only` says that a clock of a variable holds paths of
  ended tasks with a dependence of its type and nothing else; no interleaving
  disturbs it. `Kept`, which holds until two calls overlap, says that it holds all of
  those that have stored: a task between the test and the copy is the only
  one that has begun a call on this clock (`Alone`), and nobody has stored to a clock that is
  fresh (`FreshUnused`), so the copy overwrites nothing. `BeginTakes` says
  that `AnnotateBegin` takes up what `AnnotateEnd` draws exactly for types that
  order or exclude their tasks, and `ConflictIsBefore` that an ended task with a conflict was
  generated before the one that starts, because otherwise it would have had to wait.

The assumptions are the ASSUMEs of the modules: the initial (primary)
thread is not a worker, the flags are Boolean, times are natural numbers and
start above 0 (0 is the code's "no time given"), the value for no thread is not
a thread, a page has an object, and `Kept` is a set of rules.

Only model-checked: `StackMatchesCalls`, `LateBooking`, `JoinExact`,
`ForkExact`, `NothingMissing`, the properties of `OmpTasks`, of `Piggyback`, `Handles` and the pure parts, and all liveness: fairness is
out of the prover's reach, and what the pure parts compute for every input needs
induction over data.

## Not modelled

- The output: what `finishMeasurement` prints, the counters of MPI calls, stack traces and the
  streams they are written to, and `CPT-plot.py`. No state of the tool depends on them.
- The list of `__kmpc_` functions: each is the same pair of calls, which `ThreadClock` has.
- Arguments that `fort-wrappers.c` only passes on, its branch for MPICH 1 and the
  aliases of its functions, and the handle types for which
  tracking is compiled out (windows, files, sessions, groups, operations, datatypes).
- Floating point: times are integers and metrics are fractions.
- Markers inside parallel regions, a failed `omp_test_lock`, and the programs
  excluded above.
- The dependence types `source`, `sink`, `out_all_memory` and `inout_all_memory`,
  for which the code draws no arc.
- A thread that ends while others hold objects of its pools (`AllBack` in
  `OmptDataPool`): they would return them to a pool that is gone.
- A writer that waits for `DTMutex` while a reader is in the middle of an array.
- Numbers that `strtod` accepts in hexadecimal, with an exponent, or as words.
- `PathBounds` leaves out the clock OMPI, which runs while arcs are drawn.
- `ThreadClock`, `Handles` and `Piggyback` are not composed into one state machine.
  They share little (the thread's clock, the request's object), and each takes the
  other's part as free; their product is out of TLC's reach.
- The vendored libraries and the test infrastructure under `external/`.
