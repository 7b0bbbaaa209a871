---------------------------- MODULE ThreadClock -----------------------------
(***************************************************************************)
(* The clocks of the threads of one process: threadClock of                *)
(* include/criticalPath.h with the code that starts, switches and stops    *)
(* them (critical-core.cpp, mpiTimer, ompTimer, the OMPT callbacks).  The  *)
(* clocks are the member thread of each cpClocks: the arcs between threads *)
(* and processes, which the same callbacks also draw, write the members    *)
(* proc and critical only (see OmpTeam).                                   *)
(*                                                                         *)
(* calls[t] is what thread t is executing, innermost last:                 *)
(*   "user"     application code: main or an implicit task                 *)
(*   "init"     MPI_Init                                                   *)
(*   "mpi"      any other MPI function, inside its mpiTimer                *)
(*   "omp"      an intercepted __kmpc_ function, an ompTimer, or the       *)
(*              acquisition of a mutex                                     *)
(*   "rt"       the runtime part of a region: since thread_begin for a     *)
(*              worker, since parallel_begin for the thread that forks     *)
(*   "barrier"  an explicit barrier or a taskwait                          *)
(*   "join"     the barrier that closes a parallel region                  *)
(*   "leaving"  an implicit task whose closing barrier has ended           *)
(* Each frame remembers whether the measurement was running when it was    *)
(* opened; of an implicit task's frame this is TaskData::isRunning.        *)
(***************************************************************************)
EXTENDS CpClocks

CONSTANTS
  Initial,             \* the initial thread
  Workers,             \* threads the OpenMP runtime creates
  Stopped,             \* flag stopped: wait for a start marker
  DumpOnStop,          \* flag dump_on_stop: report at the stop marker
  LibraryConstructor,  \* flag start_with_library_constructor
  Straddle,            \* may the stop overtake a thread that has already
                       \* tested analysis_flags->running?
  FirstTime, MaxTime   \* bounds of getTime()

Thread == {Initial} \cup Workers

ASSUME ThreadClockAssumption ==
  /\ Initial \notin Workers
  /\ {Stopped, DumpOnStop, LibraryConstructor, Straddle} \subseteq BOOLEAN
  /\ FirstTime \in Nat \ {0} /\ MaxTime \in Nat

VARIABLES
  now,                \* getTime()
  loaded,             \* onLibraryLoad has run
  useMpi,
  running,            \* analysis_flags->running
  startProgrammTime, endProgrammTime,
  finished,           \* finishMeasurement has run
  tc,                 \* tc[t]: thread_local_clock of t, its member thread
  calls,              \* calls[t]: the open calls of t
  late                \* threads past the test of running when it was cleared

vars == <<now, loaded, useMpi, running, startProgrammTime, endProgrammTime,
          finished, tc, calls, late>>

Call == {"user", "init", "mpi", "omp", "rt", "barrier", "join", "leaving"}
Frame == [call : Call, isRunning : BOOLEAN]

TypeOK ==
  /\ now \in Nat \ {0}
  /\ {loaded, useMpi, running, finished} \subseteq BOOLEAN
  /\ startProgrammTime \in Nat \ {0} /\ endProgrammTime \in Nat
  /\ tc \in [Thread -> threadClock]
  /\ calls \in [Thread -> Seq(Frame)]
  /\ late \in SUBSET Thread

-----------------------------------------------------------------------------
(***************************************************************************)
(* Helpers.                                                                *)
(***************************************************************************)
HasClock(t) == tc[t].clock_state_stack # << >>
ClockOf(t) == IF HasClock(t) THEN tc[t] ELSE NewClock

InnerCall(t) == calls[t][Len(calls[t])]
In(t, kinds) == calls[t] # << >> /\ InnerCall(t).call \in kinds

\* What thread t sees when it tests analysis_flags->running.  A thread the
\* stop has overtaken sees the old value once.
Sees(t) == running \/ t \in late
Tested(t) == late' = late \ {t}

Opened(t, call, isRunning) ==
  calls' = [calls EXCEPT ![t] = Append(@, [call |-> call, isRunning |-> isRunning])]
Closed(t) == calls' = [calls EXCEPT ![t] = pop_back(@)]
Update(t, clock) == tc' = [tc EXCEPT ![t] = clock]

\* SwitchState takes the time 0 to mean getTime().
TimeArg(time) == IF time = 0 THEN now ELSE time

\* The workers have nothing left of the last region but its closing barrier,
\* whose end the runtime may report as late as in the next region.
Quiet == \A w \in Workers : calls[w] = << >> \/ In(w, {"rt", "join", "leaving"})

Serial == Quiet /\ In(Initial, {"user"}) /\ Len(calls[Initial]) <= 3

InRegion == Len(calls[Initial]) >= 4 /\ calls[Initial][4].call = "rt"

-----------------------------------------------------------------------------
(***************************************************************************)
(* Time, loading, starting and stopping.                                   *)
(***************************************************************************)
Init ==
  /\ now = FirstTime
  /\ loaded = FALSE /\ useMpi = FALSE /\ running = FALSE /\ finished = FALSE
  /\ startProgrammTime = FirstTime /\ endProgrammTime = 0
  /\ tc = [t \in Thread |-> NoClock]
  /\ calls = [t \in Thread |->
                IF t = Initial THEN <<[call |-> "user", isRunning |-> FALSE]>> ELSE << >>]
  /\ late = {}

Tick ==
  /\ now < MaxTime
  /\ now' = now + 1
  /\ UNCHANGED <<loaded, useMpi, running, startProgrammTime, endProgrammTime,
                 finished, tc, calls, late>>

\* With the flag the constructor calls startMeasurement and enterState, but
\* nothing here sets running, which enterState tests.
onLibraryLoad ==
  /\ ~loaded
  /\ loaded' = TRUE
  /\ IF LibraryConstructor
       THEN /\ startProgrammTime' = now
            /\ Update(Initial, enterState(NewClock, running, now, "USEFUL"))
       ELSE UNCHANGED <<startProgrammTime, tc>>
  /\ UNCHANGED <<now, useMpi, running, endProgrammTime, finished, calls, late>>

\* startTool(toolControl, cs): does it start, and the clock it leaves behind.
Starts(toolControl) == (toolControl \/ ~Stopped) /\ ~running

startTool(clock, starts, cs) ==
  IF ~starts
    THEN clock
    ELSE enterState(IF cs = "MPI" /\ GetState(clock) = "INIT"
                      THEN enterState(clock, TRUE, now, "USEFUL") ELSE clock,
                    TRUE, now, cs)

\* Mutant of startMeasurement: the default argument 0 is stored, not replaced
\* by getTime().
startMeasurementAtZero(starts) ==
  /\ running' = (running \/ starts)
  /\ startProgrammTime' = IF starts THEN 0 ELSE startProgrammTime

startMeasurement(starts) ==
  /\ running' = (running \/ starts)
  /\ startProgrammTime' = IF starts THEN now ELSE startProgrammTime

\* The OpenMP runtime comes up: ompt_tsan_initialize on the initial thread,
\* and then its thread_begin.
ompt_tsan_initialize ==
  /\ ~finished /\ endProgrammTime = 0
  /\ In(Initial, {"user"}) /\ Len(calls[Initial]) = 1
  /\ LET starts == Starts(FALSE)
         clock == startTool(ClockOf(Initial), starts, "USEFUL")
     IN /\ startMeasurement(starts)
        /\ Update(Initial, enterState(clock, running \/ starts, now, "OMP"))
  /\ Opened(Initial, "rt", running')
  /\ UNCHANGED <<now, loaded, useMpi, endProgrammTime, finished, late>>

\* Mutant of mpiClock: USEFUL is entered for an existing clock, too.
mpiClockAlways(t) == enterState(ClockOf(t), Sees(t), now, "USEFUL")

\* The clock an mpiTimer works on; a thread that has none gets one, and is
\* taken to have been computing.
mpiClock(t) == IF HasClock(t) THEN tc[t] ELSE enterState(NewClock, Sees(t), now, "USEFUL")

\* MPI_Init opens its mpiTimer ...
MPI_Init_begin ==
  /\ ~useMpi /\ ~finished /\ endProgrammTime = 0 /\ Serial
  /\ useMpi' = TRUE
  /\ Update(Initial, enterState(mpiClock(Initial), running, now, "MPI"))
  /\ Opened(Initial, "init", running)
  /\ UNCHANGED <<now, loaded, running, startProgrammTime, endProgrammTime, finished, late>>

\* ... and ends with init_processes and the end of the mpiTimer.
MPI_Init_end ==
  /\ In(Initial, {"init"}) /\ endProgrammTime = 0
  /\ LET starts == Starts(FALSE)
         clock == startTool(tc[Initial], starts, "MPI")
     IN /\ startMeasurement(starts)
        /\ Update(Initial, exitState(clock, running \/ starts, TRUE, now))
  /\ Closed(Initial)
  /\ UNCHANGED <<now, loaded, useMpi, endProgrammTime, finished, late>>

\* Where the application may place a marker: outside parallel regions, as the
\* tests do, once MPI or OpenMP is initialised.
MayMark == Serial /\ (useMpi \/ Len(calls[Initial]) = 3)

\* A start marker: MPI_Pcontrol(1) or omp_control_tool_start.  README.md
\* supports a single pair of markers, so none follows a stop.
StartMarker ==
  /\ MayMark /\ endProgrammTime = 0 /\ ~running
  /\ startMeasurement(Starts(TRUE))
  /\ Update(Initial, startTool(tc[Initial], Starts(TRUE), "USEFUL"))
  /\ UNCHANGED <<now, loaded, useMpi, endProgrammTime, finished, calls, late>>

\* The stop may overtake workers that are inside enterState or exitState.
Overtaken == IF Straddle THEN SUBSET {w \in Workers : calls[w] # << >>} ELSE {{}}

stopMeasurement ==
  /\ running' = FALSE
  /\ endProgrammTime' = IF running THEN now ELSE endProgrammTime
  /\ IF running THEN late' \in Overtaken ELSE UNCHANGED late

\* Mutant of StopClock: stops the clock now, not at endProgrammTime.
StopClockNow(clock) == setState(clock, FALSE, now, "INIT")

\* STATE_INIT stops the clocks of a thread at endProgrammTime.
StopClock(clock) == setState(clock, FALSE, TimeArg(endProgrammTime'), "INIT")

\* The part of finishMeasurement that stops every registered clock.
StopAllClocks ==
  tc' = [t \in Thread |-> IF HasClock(t) THEN StopClock(tc[t]) ELSE tc[t]]

\* A stop marker: MPI_Pcontrol(0) or omp_control_tool_end.
stopTool ==
  /\ MayMark /\ (running \/ DumpOnStop)
  /\ stopMeasurement
  /\ finished' = (finished \/ DumpOnStop)
  /\ CASE DumpOnStop /\ ~finished -> StopAllClocks
       [] running /\ ~DumpOnStop -> Update(Initial, StopClock(tc[Initial]))
       [] OTHER -> UNCHANGED tc
  /\ UNCHANGED <<now, loaded, useMpi, startProgrammTime, calls>>

\* From MPI_Finalize, or at the end of main from the OMPT finalizer or the
\* exit handler.
finishMeasurement ==
  /\ HasClock(Initial) /\ ~finished
  /\ \/ useMpi /\ In(Initial, {"mpi"}) /\ Len(calls[Initial]) <= 4
     \/ Serial /\ (LibraryConstructor \/ ~useMpi)
  /\ Quiet
  /\ finished' = TRUE
  /\ stopMeasurement
  /\ StopAllClocks
  /\ UNCHANGED <<now, loaded, useMpi, startProgrammTime, calls>>

-----------------------------------------------------------------------------
(***************************************************************************)
(* The timers and callbacks of a thread.  Each reads running once, changes *)
(* the thread's own clock and nobody else's.                               *)
(***************************************************************************)
Enter(t, clock, call, time, cs) ==
  /\ Update(t, enterState(clock, Sees(t), TimeArg(time), cs))
  /\ Opened(t, call, Sees(t))
  /\ Tested(t)
  /\ UNCHANGED <<now, loaded, useMpi, running, startProgrammTime, endProgrammTime, finished>>

\* Mutant of Leave: a switch that comes after the stop is booked at the wrong
\* end of the measured interval.
LeaveAtStart(t, isRunning) ==
  /\ Update(t, exitState(tc[t], Sees(t), isRunning,
                        IF running THEN now ELSE startProgrammTime))
  /\ Tested(t)
  /\ UNCHANGED <<now, loaded, useMpi, running, startProgrammTime, endProgrammTime, finished>>

Leave(t, isRunning) ==
  /\ Update(t, exitState(tc[t], Sees(t), isRunning, now))
  /\ Tested(t)
  /\ UNCHANGED <<now, loaded, useMpi, running, startProgrammTime, endProgrammTime, finished>>

\* isRunning of the task whose code the innermost frame belongs to.
TaskIsRunning(t) == calls[t][Len(calls[t]) - 1].isRunning

mpiTimer(t) ==
  /\ useMpi /\ (finished => DumpOnStop) /\ In(t, {"user"})
  /\ Enter(t, mpiClock(t), "mpi", 0, "MPI")

mpiTimerEnd(t) == In(t, {"mpi"}) /\ Leave(t, TRUE) /\ Closed(t)

enterOpenMP(t) == In(t, {"user"}) /\ HasClock(t) /\ Enter(t, tc[t], "omp", 0, "OMP")
exitOpenMP(t) == In(t, {"omp"}) /\ Leave(t, TRUE) /\ Closed(t)

\* A worker is created for a region; its clock starts with the measurement.
ompt_tsan_thread_begin(w) ==
  /\ InRegion /\ calls[w] = << >>
  /\ Enter(w, ClockOf(w), "rt", startProgrammTime, "OMP")

ompt_tsan_parallel_begin ==
  /\ Serial /\ Len(calls[Initial]) = 3
  /\ Enter(Initial, tc[Initial], "rt", 0, "OMP")

ompt_tsan_parallel_end ==
  /\ In(Initial, {"rt"}) /\ Len(calls[Initial]) = 4
  /\ Quiet
  /\ Leave(Initial, TRUE) /\ Closed(Initial)

\* Mutant of ompt_tsan_implicit_task_begin: a thread in INIT enters OMP as
\* thread_begin does, at startProgrammTime.
implicit_task_beginAtStart(t) ==
  /\ In(t, {"rt"})
  /\ t = Initial \/ InRegion
  /\ LET initialTask == t = Initial /\ Len(calls[t]) = 2
         reused == ~initialTask /\ GetState(tc[t]) = "INIT"
         inOmp == IF reused THEN enterState(tc[t], Sees(t), startProgrammTime, "OMP")
                            ELSE tc[t]
         rt == [call |-> "rt", isRunning |-> InnerCall(t).isRunning \/ (reused /\ Sees(t))]
     IN /\ Update(t, enterState(inOmp, Sees(t), now, "USEFUL"))
        /\ calls' = [calls EXCEPT ![t] =
                       pop_back(@) \o <<rt, [call |-> "user", isRunning |-> Sees(t)]>>]
  /\ Tested(t)
  /\ UNCHANGED <<now, loaded, useMpi, running, startProgrammTime, endProgrammTime, finished>>

\* A thread that came up before the measurement is still in INIT: it is put
\* into OMP first.
ompt_tsan_implicit_task_begin(t) ==
  /\ In(t, {"rt"})
  /\ t = Initial \/ InRegion
  /\ LET initialTask == t = Initial /\ Len(calls[t]) = 2
         reused == ~initialTask /\ GetState(tc[t]) = "INIT"
         inOmp == IF reused THEN enterState(tc[t], Sees(t), now, "OMP") ELSE tc[t]
         rt == [call |-> "rt", isRunning |-> InnerCall(t).isRunning \/ (reused /\ Sees(t))]
     IN /\ Update(t, enterState(inOmp, Sees(t), now, "USEFUL"))
        /\ calls' = [calls EXCEPT ![t] =
                       pop_back(@) \o <<rt, [call |-> "user", isRunning |-> Sees(t)]>>]
  /\ Tested(t)
  /\ UNCHANGED <<now, loaded, useMpi, running, startProgrammTime, endProgrammTime, finished>>

ompt_tsan_implicit_task_end(t) ==
  /\ In(t, {"leaving"})
  /\ Leave(t, InnerCall(t).isRunning) /\ Closed(t)

ompt_tsan_sync_region_begin(t, kind) ==
  /\ In(t, {"user"}) /\ Len(calls[t]) = IF t = Initial THEN 5 ELSE 2
  /\ Enter(t, tc[t], kind, 0, "OMP")

ompt_tsan_sync_region_end(t) ==
  \/ /\ In(t, {"barrier"})
     /\ Leave(t, TaskIsRunning(t)) /\ Closed(t)
  \/ /\ In(t, {"join"})
     /\ Leave(t, TaskIsRunning(t))
     /\ calls' = [calls EXCEPT ![t] =
                    Append(pop_back(pop_back(@)),
                           [call |-> "leaving", isRunning |-> TaskIsRunning(t)])]

ThreadStep(t) ==
  \/ mpiTimer(t) \/ mpiTimerEnd(t)
  \/ enterOpenMP(t) \/ exitOpenMP(t)
  \/ ompt_tsan_implicit_task_begin(t) \/ ompt_tsan_implicit_task_end(t)
  \/ \E kind \in {"barrier", "join"} : ompt_tsan_sync_region_begin(t, kind)
  \/ ompt_tsan_sync_region_end(t)

AfterLoad ==
  \/ Tick
  \/ ompt_tsan_initialize \/ MPI_Init_begin \/ MPI_Init_end
  \/ StartMarker \/ stopTool \/ finishMeasurement
  \/ ompt_tsan_parallel_begin \/ ompt_tsan_parallel_end
  \/ \E w \in Workers : ompt_tsan_thread_begin(w)
  \/ \E t \in Thread : ThreadStep(t)

\* The constructor of the library runs before anything else.
Next == onLibraryLoad \/ (loaded /\ AfterLoad)

Spec == Init /\ [][Next]_vars

-----------------------------------------------------------------------------
(***************************************************************************)
(* Properties.                                                             *)
(***************************************************************************)
Over == ~running /\ endProgrammTime # 0

\* What clock i of thread t shows: the time it has accumulated up to now, or
\* up to the stop once the measurement is over.
Shows(t, i) ==
  IF ~HasClock(t) THEN 0
  ELSE Elapsed(tc[t].clocks[i], i, GetState(tc[t]),
               IF Over THEN endProgrammTime ELSE now)

Measured == IF running THEN now - startProgrammTime
            ELSE IF Over THEN endProgrammTime - startProgrammTime ELSE 0

swPhase == IF running THEN "on" ELSE IF Over THEN "over" ELSE "before"

swMode == [t \in Thread |-> IF running /\ HasClock(t) THEN GetState(tc[t]) ELSE "INIT"]

swTotal == [t \in Thread |-> [i \in ClockType |-> Shows(t, i)]]

SW == INSTANCE Stopwatch WITH
        phase <- swPhase, mode <- swMode, total <- swTotal, elapsed <- Measured

\* The offset arithmetic of SwitchState, the state stack and the start and
\* stop code together keep a stopwatch per thread and clock: no switch, and
\* no start or stop, ever changes the time a clock shows.
ImplementsStopwatch == SW!Spec

\* The state a call of each kind is accounted under.
StateOf == [user |-> "USEFUL", leaving |-> "USEFUL", init |-> "MPI", mpi |-> "MPI",
            omp |-> "OMP", rt |-> "OMP", barrier |-> "OMP", join |-> "OMP"]

\* Every enterState is undone by its own exitState: while measuring, the state
\* stack of a thread consists of the states of exactly those of its open
\* calls that were opened during the measurement, and a worker's lowest state
\* is OMP, even if its last region was closed before the start.  This is what
\* the assertions in exitState(oldcs, nextcs) and at the start of MPI_Finalize
\* rely on.
StackMatchesCalls ==
  running =>
    \A t \in Thread : HasClock(t) =>
      LET base == IF t = Initial THEN <<"INIT", "USEFUL">> ELSE <<"INIT">>
          open == SelectSeq(calls[t], LAMBDA f : f.isRunning)
      IN /\ tc[t].clock_state_stack = base \o [k \in 1..Len(open) |-> StateOf[open[k].call]]
         /\ t # Initial /\ open # << >> => open[1].call = "rt"

\* No thread is ever charged more than the measured interval, or less than
\* nothing, on any clock: the efficiencies printed by finishMeasurement lie
\* between 0 and 1.
ChargedWithinRun == \A t \in Thread, i \in ClockType : Shows(t, i) \in 0..Measured

\* A thread the stop overtakes may book its last switch after endProgrammTime.
\* The error this makes in the report is at most the time by which it is late.
LateErrorBounded ==
  Over => \A t \in Thread, i \in ClockType :
            Shows(t, i) \in -(now - endProgrammTime)..(now - startProgrammTime)
=============================================================================
