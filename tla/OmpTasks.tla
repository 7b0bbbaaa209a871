------------------------------ MODULE OmpTasks ------------------------------
(***************************************************************************)
(* Explicit tasks in a parallel region: the callbacks task_create,         *)
(* task_schedule, sync_region and sync_region_wait of ompt-critical.cpp,   *)
(* with the TaskData objects they hand around, while the measurement runs. *)
(*                                                                         *)
(* As in OmpLocks a clock is the set of pieces of work that precede it.    *)
(* Next to what the tool computes stands what OpenMP orders: truth[t] is   *)
(* the work that comes before the point where thread t is, because t or a  *)
(* thread it has synchronised with did it; order, orderGroup and           *)
(* orderBarrier hold the same for tasks, taskgroups and barriers.          *)
(*                                                                         *)
(* The runtime is modelled by when it may invoke a callback: which tasks   *)
(* may start or resume and what taskwait, taskgroup and barrier wait for.  *)
(*                                                                         *)
(* OmpHBefore is the one of the build in the repository, where UniqLock    *)
(* does not lock: it tests for a fresh sync clock, claims it and stores in *)
(* three steps, and other threads act in between.  The callbacks that draw *)
(* arcs to the clocks threads share (complete, late_fulfill, the begin of  *)
(* a barrier) go through them one by one; so does the loop of freeTask.    *)
(* The clock Task is drawn to by the creator of the task before another    *)
(* thread knows it, so it is never found fresh by two, and its arcs are    *)
(* one step.                                                               *)
(***************************************************************************)
EXTENDS Naturals, Sequences, SequencesExt, FiniteSets

CONSTANTS
  Threads,   \* thread numbers of the team, from 0; also name the implicit tasks
  TaskObj,   \* TaskData objects of the pools
  Groups,    \* Taskgroup objects of the pools
  None,
  Programs,  \* the programs, see Program
  Barriers,  \* barriers of the region, the closing one included
  MaxTasks   \* bound: tasks a program creates

AllTypes == {"tied", "untied", "undeferred", "detachable"}

\* The types of task a program creates, what else it uses, the threads whose
\* implicit tasks create tasks (explicit ones may create more), how many it
\* creates, and whether it lives long enough to get objects back from the pools.
Program ==
  [types : SUBSET AllTypes, by : SUBSET Threads, uses : SUBSET {"taskwait", "taskgroup", "yield"},
   tasks : 0..MaxTasks, reuse : BOOLEAN]

ASSUME OmpTasksAssumption ==
  /\ 0 \in Threads /\ Threads \subseteq Nat
  /\ MaxTasks \in Nat /\ Barriers \in Nat \ {0} /\ Programs \subseteq Program

Obj == Threads \cup TaskObj

\* A piece of work: what the creator does before it creates the n-th task, the
\* part of that task before a suspension, and its end.
Work == (1..MaxTasks) \X {"before", "part", "body"}

\* The sync clocks that several threads draw arcs to: those of the team, of the
\* taskwaits and of the taskgroups.
Sync == ({"Barrier"} \X (0..2)) \cup ({"Taskwait"} \X Obj) \cup ({"Ptr"} \X Groups)

VARIABLES
  prog,      \* the program
  td,        \* td[o]: the TaskData o, or the implicit task of thread o
  Task,      \* Task[o]: the sync clock of its start
  sync,      \* sync[c]: the clocks of sync clock c
  fresh,     \* the sync clocks in STATE_INIT
  call,      \* call[t]: the callback thread t is in and what it has still to do
  overlap,   \* history: has a call of OmpHBefore begun on a sync clock that
             \* another had found fresh and not yet stored to?
  opened,    \* opened[g]: the task that has begun g and not ended it
  th,        \* th[t]: state stack and clocks of thread t, and whether a DCHECK failed
  stack,     \* stack[t]: the tasks on thread t, the current one last
  pending,   \* pending[t]: an undeferred task t has created and will run now
  entered,   \* entered[t]: barriers t has entered
  pool,      \* pool[o]: the thread whose pool object o belongs to
  serial,    \* tasks created so far
  truth, order, orderGroup, orderBarrier

vars == <<prog, td, Task, sync, fresh, call, overlap, opened, th, stack, pending, entered, pool, serial,
          truth, order, orderGroup, orderBarrier>>

Phase == {"free", "created", "running", "suspended", "detached", "done"}
Wait == {"no", "barrier", "taskwait", "taskgroup", "closing"}

TaskData ==
  [n : 0..MaxTasks, type : AllTypes \cup {"implicit", "none"}, phase : Phase, wait : Wait,
   execution : Nat, BarrierIndex : 0..2, RefCount : Nat, Parent : Obj \cup {None},
   TaskGroup : Seq(Groups), isFulfilled : BOOLEAN, epoch : 0..Barriers]

\* What the runtime goes by when it waits for a task.
Scope(d) == [Parent |-> d.Parent, TaskGroup |-> d.TaskGroup, epoch |-> d.epoch]

\* A callback that draws arcs: which one, the task it completes, the sync clocks
\* it has still to draw an arc to, how far OmpHBefore is with the first of them,
\* and the TaskData that freeTask comes to next.
Call ==
  [name : {"none", "complete", "late_fulfill", "barrier"},
   task : [Parent : Obj \cup {None}, TaskGroup : Seq(Groups), epoch : 0..Barriers],
   arcs : Seq(Sync), step : {"check", "claim", "copy"}, free : Obj \cup {None}]

TypeOK ==
  /\ prog \in Programs
  /\ td \in [Obj -> TaskData]
  /\ Task \in [Obj -> SUBSET Work]
  /\ sync \in [Sync -> SUBSET Work] /\ fresh \in SUBSET Sync
  /\ call \in [Threads -> Call] /\ overlap \in BOOLEAN
  /\ opened \in [Groups -> Obj \cup {None}]
  /\ th \in [Threads -> [state : Seq({"INIT", "USEFUL", "OMP"}), past : SUBSET Work, failed : BOOLEAN]]
  /\ stack \in [Threads -> Seq(Obj)] /\ pending \in [Threads -> TaskObj \cup {None}]
  /\ entered \in [Threads -> 0..Barriers] /\ pool \in [TaskObj \cup Groups -> Threads \cup {None}]
  /\ serial \in 0..MaxTasks
  /\ truth \in [Threads -> SUBSET Work]
  /\ order \in [Obj -> [start : SUBSET Work, fulfil : SUBSET Work, children : SUBSET Work]]
  /\ orderGroup \in [Groups -> SUBSET Work] /\ orderBarrier \in [1..Barriers -> SUBSET Work]

-----------------------------------------------------------------------------
(***************************************************************************)
(* What the callbacks do to the clock of a thread.                         *)
(***************************************************************************)
enterState(me, cs) == [me EXCEPT !.state = Append(@, cs)]
exitState(me) == [me EXCEPT !.state = Front(@)]

\* exitState(oldcs, nextcs) with its assertions.
exitStateChecked(me, oldcs, nextcs) ==
  [exitState(me) EXCEPT !.failed = @ \/ Last(me.state) # oldcs \/ Last(Front(me.state)) # nextcs]

\* The assertion of CheckArc: all arcs of a sync clock are drawn in one state.
ArcInState(me) == [me EXCEPT !.failed = @ \/ Last(me.state) # "OMP"]
OmpHappensAfter(me, clock) == [ArcInState(me) EXCEPT !.past = @ \cup clock]

Fresh == [n |-> 0, type |-> "none", phase |-> "free", wait |-> "no", execution |-> 0,
          BarrierIndex |-> 0, RefCount |-> 1, Parent |-> None, TaskGroup |-> << >>,
          isFulfilled |-> FALSE, epoch |-> 0]

\* Mutant of Reset: the count keeps its value of zero.
ResetNoCount(d) == [Fresh EXCEPT !.RefCount = 0]

\* TaskData::Reset: everything but the two sync clocks.
Reset(d) == Fresh

InBarrier(d) == d.wait \in {"barrier", "taskwait", "taskgroup"}

\* suspendTask: an untied task may be resumed by another thread, and takes its
\* state off this one.
leavesThread(d) == d.type = "untied" /\ ~InBarrier(d)

\* Mutant of suspendTask: all tasks are tied.
suspendTaskTied(d, me) == enterState(me, "OMP")

suspendTask(d, me) ==
  IF leavesThread(d) THEN ArcInState(exitState(me)) ELSE enterState(me, "OMP")

\* Mutant of startTask: the state under a waiting task is taken for USEFUL.
startTaskWaits(d, clock, me) ==
  CASE d.execution = 0 \/ leavesThread(d) -> enterState(OmpHappensAfter(me, clock), "USEFUL")
    [] d.execution > 0 /\ ~leavesThread(d) -> exitStateChecked(me, "OMP", "USEFUL")

\* startTask: the first start and the resumption of an untied task follow the
\* arc; a task that stayed on the thread takes the OMP state off again.
startTask(d, clock, me) ==
  CASE d.execution = 0 \/ leavesThread(d) -> enterState(OmpHappensAfter(me, clock), "USEFUL")
    [] d.execution > 0 /\ InBarrier(d) -> exitStateChecked(me, "OMP", "OMP")
    [] OTHER -> exitStateChecked(me, "OMP", "USEFUL")

-----------------------------------------------------------------------------
(***************************************************************************)
(* The runtime and the program.                                            *)
(***************************************************************************)
Cur(t) == Last(stack[t])
Below(t) == stack[t][Len(stack[t]) - 1]
\* The barrier that thread t is in, or comes to next: it waits for all tasks
\* that t creates or executes.
Epoch(t) == IF td[t].wait = "barrier" THEN entered[t] ELSE entered[t] + 1

\* The thread executes the program, between the callbacks.
InUserCode(t) ==
  stack[t] # << >> /\ pending[t] = None /\ td[Cur(t)].wait = "no" /\ Epoch(t) <= Barriers
RunsExplicit(t) == InUserCode(t) /\ Len(stack[t]) > 1

\* The innermost taskgroup of task o is one it has begun itself.
InOwnGroup(o) == td[o].TaskGroup # << >> /\ opened[Last(td[o].TaskGroup)] = o

\* The tasks other than c that the runtime has not completed: it does so when the
\* callback that reports the end of the task returns.
Incomplete(c) ==
  {Scope(td[o]) : o \in {x \in TaskObj \ {c} : td[x].phase \in {"created", "running", "suspended", "detached"}}}
  \cup {call[u].task : u \in {x \in Threads : call[x].name \in {"complete", "late_fulfill"}}}

\* Task x was created by task o, by a child of o, and so on.
RECURSIVE Descends(_, _)
Descends(x, o) == td[x].Parent # None /\ (td[x].Parent = o \/ Descends(td[x].Parent, o))

\* The runtime may put task o on thread t: it is in the queue of this epoch, and
\* does not go on top of a task that it may come to wait for.
Schedulable(t, o) ==
  /\ td[o].phase \in {"created", "suspended"} /\ td[o].type # "undeferred"
  /\ td[o].epoch = Epoch(t)
  /\ \A x \in Range(stack[t]) : ~Descends(x, o)

\* An object comes from the thread's pool, which has it from an earlier use or
\* from fresh memory.
Available(t, x) == pool[x] = None \/ (prog.reuse /\ pool[x] = t)

Idle == [name |-> "none", task |-> Scope(Fresh), arcs |-> << >>, step |-> "check", free |-> None]

\* parallel_begin has drawn the arc of the fork to Barrier[1].
Init ==
  /\ prog \in Programs
  /\ td = [o \in Obj |-> IF o \in Threads
                         THEN [Fresh EXCEPT !.type = "implicit", !.phase = "running", !.execution = 1]
                         ELSE Fresh]
  /\ Task = [o \in Obj |-> {}]
  /\ sync = [c \in Sync |-> {}] /\ fresh = Sync \ {<<"Barrier", 1>>}
  /\ call = [t \in Threads |-> Idle] /\ overlap = FALSE
  /\ opened = [g \in Groups |-> None]
  /\ th = [t \in Threads |-> [state |-> <<"INIT", "OMP", "USEFUL">>, past |-> {}, failed |-> FALSE]]
  /\ stack = [t \in Threads |-> <<t>>] /\ pending = [t \in Threads |-> None]
  /\ entered = [t \in Threads |-> 0] /\ pool = [x \in TaskObj \cup Groups |-> None]
  /\ serial = 0
  /\ truth = [t \in Threads |-> {}]
  /\ order = [o \in Obj |-> [start |-> {}, fulfil |-> {}, children |-> {}]]
  /\ orderGroup = [g \in Groups |-> {}] /\ orderBarrier = [k \in 1..Barriers |-> {}]

\* The thread works: a piece of work joins its clock and the program's order.
Worked(t, w) == [th[t] EXCEPT !.past = @ \cup {w}]
Did(t, w) == truth[t] \cup {w}

-----------------------------------------------------------------------------
(***************************************************************************)
(* task_create and task_schedule.                                          *)
(***************************************************************************)
ompt_tsan_task_create(t, o, type) ==
  LET c == Cur(t)
      n == serial + 1
      me == Worked(t, <<n, "before">>)
      deferred == type # "undeferred"
  IN /\ InUserCode(t) /\ serial < prog.tasks /\ (c = t => t \in prog.by)
     /\ td[o].phase = "free" /\ Available(t, o)
     /\ serial' = n /\ pool' = [pool EXCEPT ![o] = t]
     /\ td' = [td EXCEPT ![o] = [@ EXCEPT !.n = n, !.type = type, !.phase = "created", !.Parent = c,
                                          !.TaskGroup = td[c].TaskGroup, !.epoch = Epoch(t)],
                         ![c].RefCount = @ + 1,
                         ![c].execution = IF deferred THEN @ + 1 ELSE @]
     /\ Task' = IF deferred THEN [Task EXCEPT ![o] = @ \cup me.past] ELSE Task
     /\ pending' = [pending EXCEPT ![t] = IF deferred THEN None ELSE o]
     /\ th' = [th EXCEPT ![t] = me]
     /\ truth' = [truth EXCEPT ![t] = Did(t, <<n, "before">>)]
     /\ order' = [order EXCEPT ![o] = [start |-> truth'[t], fulfil |-> {}, children |-> {}]]
     /\ UNCHANGED <<sync, fresh, call, overlap, opened, stack, entered, orderGroup, orderBarrier>>

\* task_schedule with switch or yield: the current task makes room for o, on
\* top of it.
SwitchTo(t, o) ==
  LET c == Cur(t)
      me == suspendTask(td[c], th[t])
      task == IF leavesThread(td[c]) THEN [Task EXCEPT ![c] = @ \cup th[t].past] ELSE Task
  IN /\ stack[t] # << >>
     /\ \/ pending[t] = o
        \/ /\ pending[t] = None
           /\ td[c].wait \in {"barrier", "taskwait", "taskgroup"} \/ (InUserCode(t) /\ "yield" \in prog.uses)
           /\ Schedulable(t, o)
     /\ th' = [th EXCEPT ![t] = startTask(td[o], task[o], me)]
     /\ td' = [td EXCEPT ![o].phase = "running", ![o].execution = IF @ = 0 THEN 1 ELSE @]
     /\ Task' = task
     /\ stack' = [stack EXCEPT ![t] = Append(@, o)] /\ pending' = [pending EXCEPT ![t] = None]
     /\ truth' = [truth EXCEPT ![t] = @ \cup order[o].start]
     /\ UNCHANGED <<sync, fresh, call, overlap, opened, entered, pool, serial, order, orderGroup, orderBarrier>>

\* task_schedule with switch or yield: an untied task goes back to the queue.
SwitchBack(t) ==
  LET o == Cur(t)
      w == <<td[o].n, "part">>
      me == Worked(t, w)
  IN /\ RunsExplicit(t) /\ "yield" \in prog.uses /\ td[o].type = "untied"
     /\ Task' = [Task EXCEPT ![o] = @ \cup me.past]
     /\ th' = [th EXCEPT ![t] = startTask(td[Below(t)], Task'[Below(t)], suspendTask(td[o], me))]
     /\ td' = [td EXCEPT ![o].phase = "suspended"]
     /\ stack' = [stack EXCEPT ![t] = Front(@)]
     /\ truth' = [truth EXCEPT ![t] = Did(t, w)]
     /\ order' = [order EXCEPT ![o].start = truth'[t]]
     /\ UNCHANGED <<sync, fresh, call, overlap, opened, pending, entered, pool, serial, orderGroup, orderBarrier>>

\* Mutant of completeTask: no arc to the parent's taskwait.
completeTaskNoWait(d) == IF d.type = "undeferred" THEN << >> ELSE << <<"Barrier", d.BarrierIndex>> >>

\* completeTask: the sync clocks that the end of a task draws arcs to, in this
\* order. The BarrierIndex is that of its TaskData, not of the implicit task.
completeTask(d) ==
  IF d.type = "undeferred" THEN << >>
  ELSE << <<"Barrier", d.BarrierIndex>>, <<"Taskwait", d.Parent>> >>
       \o (IF d.TaskGroup = << >> THEN << >> ELSE << <<"Ptr", Last(d.TaskGroup)>> >>)

\* An undeferred task ends with an arc to its parent's clock Task instead.
toParent(d, p) == IF d.type = "undeferred" THEN [Task EXCEPT ![d.Parent] = @ \cup p] ELSE Task

\* The thread has come to the arcs of completeTask for task o, and has freeTask
\* to do after them.
Completing(t, name, o) ==
  /\ call' = [call EXCEPT ![t] = [name |-> name, task |-> Scope(td[o]), arcs |-> completeTask(td[o]),
                                  step |-> "check", free |-> o]]
  /\ td' = [td EXCEPT ![o].phase = "done"]

\* What OpenMP orders after the end of task o, at the end of path p: its
\* parent's taskwait, the taskgroup it is in, the barrier.
Completed(o, p) ==
  /\ order' = [order EXCEPT ![td[o].Parent].children = @ \cup p]
  /\ orderGroup' = [g \in Groups |-> IF g \in Range(td[o].TaskGroup) THEN orderGroup[g] \cup p
                                     ELSE orderGroup[g]]
  /\ orderBarrier' = [orderBarrier EXCEPT ![td[o].epoch] = @ \cup p]

\* task_schedule with complete or cancel: the task ends ...
Complete(t) ==
  LET o == Cur(t)
      w == <<td[o].n, "body">>
      ended == exitStateChecked(Worked(t, w), "USEFUL", "OMP")
      me == IF td[o].isFulfilled THEN OmpHappensAfter(ended, Task[o]) ELSE ArcInState(ended)
  IN /\ RunsExplicit(t) /\ ~InOwnGroup(o) /\ (td[o].type = "detachable" => td[o].isFulfilled)
     /\ Completing(t, "complete", o)
     /\ Task' = toParent(td[o], me.past)
     /\ th' = [th EXCEPT ![t] = me]
     /\ truth' = [truth EXCEPT ![t] = Did(t, w) \cup order[o].fulfil]
     /\ Completed(o, truth'[t])
     /\ UNCHANGED <<sync, fresh, overlap, opened, stack, pending, entered, pool, serial>>

\* freeTask, after the arcs: it gives up a reference, and goes on to the parent if
\* that was the last one, ...
freeTask(t) ==
  LET x == call[t].free IN
  /\ call[t].arcs = << >> /\ x # None /\ td[x].RefCount = 1
  /\ td' = [td EXCEPT ![x] = Reset(@)]
  /\ call' = [call EXCEPT ![t].free = td[x].Parent]
  /\ UNCHANGED <<Task, sync, fresh, overlap, opened, th, stack, pending, entered, pool, serial,
                 truth, order, orderGroup, orderBarrier>>

\* ... and ends if it was not.
freeTaskEnds(t) ==
  LET x == call[t].free IN
  /\ call[t].arcs = << >> /\ td[x].RefCount > 1
  /\ td' = [td EXCEPT ![x].RefCount = @ - 1]
  /\ call' = [call EXCEPT ![t] = Idle]

\* Then the task below the one that has completed goes on.
CompleteReturns(t) ==
  /\ call[t].name = "complete" /\ freeTaskEnds(t)
  /\ th' = [th EXCEPT ![t] = startTask(td[Below(t)], Task[Below(t)], @)]
  /\ stack' = [stack EXCEPT ![t] = Front(@)]
  /\ UNCHANGED <<Task, sync, fresh, overlap, opened, pending, entered, pool, serial,
                 truth, order, orderGroup, orderBarrier>>

\* task_schedule with detach: the body has ended before the event is fulfilled.
Detach(t) ==
  LET o == Cur(t)
      w == <<td[o].n, "body">>
      me == exitStateChecked(Worked(t, w), "USEFUL", "OMP")
  IN /\ RunsExplicit(t) /\ ~InOwnGroup(o) /\ td[o].type = "detachable" /\ ~td[o].isFulfilled
     /\ th' = [th EXCEPT ![t] = startTask(td[Below(t)], Task[Below(t)], me)]
     /\ td' = [td EXCEPT ![o].phase = "detached"]
     /\ stack' = [stack EXCEPT ![t] = Front(@)]
     /\ truth' = [truth EXCEPT ![t] = Did(t, w)]
     /\ order' = [order EXCEPT ![o].fulfil = truth'[t]]
     /\ UNCHANGED <<Task, sync, fresh, call, overlap, opened, pending, entered, pool, serial,
                    orderGroup, orderBarrier>>

\* The handle of the event reaches the thread that fulfils it after the task
\* has been created.
HasHandle(t, o) == InUserCode(t) /\ td[o].type = "detachable" /\ order[o].start \subseteq truth[t]

\* task_schedule with early_fulfill: before the body has ended.
EarlyFulfill(t, o) ==
  /\ HasHandle(t, o) /\ td[o].phase \in {"created", "running"} /\ ~td[o].isFulfilled
  /\ Task' = [Task EXCEPT ![o] = @ \cup th[t].past]
  /\ td' = [td EXCEPT ![o].isFulfilled = TRUE]
  /\ order' = [order EXCEPT ![o].fulfil = truth[t]]
  /\ UNCHANGED <<sync, fresh, call, overlap, opened, th, stack, pending, entered, pool, serial,
                 truth, orderGroup, orderBarrier>>

\* task_schedule with late_fulfill: the task completes here and now.
LateFulfill(t, o) ==
  LET me == OmpHappensAfter(enterState(th[t], "OMP"), Task[o])
  IN /\ HasHandle(t, o) /\ td[o].phase = "detached"
     /\ Completing(t, "late_fulfill", o)
     /\ th' = [th EXCEPT ![t] = me]
     /\ Completed(o, truth[t] \cup order[o].fulfil)
     /\ UNCHANGED <<Task, sync, fresh, overlap, opened, stack, pending, entered, pool, serial, truth>>

LateFulfillReturns(t) ==
  /\ call[t].name = "late_fulfill" /\ freeTaskEnds(t)
  /\ th' = [th EXCEPT ![t] = exitState(@)]
  /\ UNCHANGED <<Task, sync, fresh, overlap, opened, stack, pending, entered, pool, serial,
                 truth, order, orderGroup, orderBarrier>>

-----------------------------------------------------------------------------
(***************************************************************************)
(* OmpHBefore on the shared sync clocks, within a callback.                *)
(***************************************************************************)
\* The sync clock that the callback of thread t draws its arc to.
Target(t) == Head(call[t].arcs)
Drawing(t, steps) == call[t].arcs # << >> /\ call[t].step \in steps
NextArc(t) == call' = [call EXCEPT ![t].arcs = Tail(@), ![t].step = "check"]

\* Another thread has found the sync clock fresh and not yet stored to it.
Found(t) == \E u \in Threads \ {t} : Drawing(u, {"claim", "copy"}) /\ Target(u) = Target(t)

ArcFrame == UNCHANGED <<td, Task, opened, stack, pending, entered, pool, serial,
                        truth, order, orderGroup, orderBarrier>>

\* CheckArc reads sync_state and finds the sync clock fresh, ...
CheckArc(t) ==
  /\ Drawing(t, {"check"}) /\ Target(t) \in fresh
  /\ call' = [call EXCEPT ![t].step = "claim"]
  /\ overlap' = (overlap \/ Found(t))
  /\ th' = [th EXCEPT ![t] = ArcInState(@)]
  /\ UNCHANGED <<sync, fresh>> /\ ArcFrame

\* ... writes it, ...
ClaimArc(t) ==
  /\ Drawing(t, {"claim"})
  /\ call' = [call EXCEPT ![t].step = "copy"]
  /\ fresh' = fresh \ {Target(t)}
  /\ UNCHANGED <<sync, overlap, th>> /\ ArcFrame

\* ... and OmpHBefore copies the thread's clocks.
CopyArc(t) ==
  /\ Drawing(t, {"copy"})
  /\ sync' = [sync EXCEPT ![Target(t)] = th[t].past]
  /\ NextArc(t)
  /\ UNCHANGED <<fresh, overlap, th>> /\ ArcFrame

\* Or CheckArc finds it in use and OmpHBefore raises it to the thread's clocks; as
\* no claim is taken back in between, the two are one step.
RaiseArc(t) ==
  /\ Drawing(t, {"check"}) /\ Target(t) \notin fresh
  /\ sync' = [sync EXCEPT ![Target(t)] = @ \cup th[t].past]
  /\ NextArc(t)
  /\ overlap' = (overlap \/ Found(t))
  /\ th' = [th EXCEPT ![t] = ArcInState(@)]
  /\ UNCHANGED fresh /\ ArcFrame

-----------------------------------------------------------------------------
(***************************************************************************)
(* sync_region and sync_region_wait.                                       *)
(***************************************************************************)
TaskwaitBegin(t) ==
  /\ InUserCode(t) /\ "taskwait" \in prog.uses
  /\ td' = [td EXCEPT ![Cur(t)].wait = "taskwait"]
  /\ th' = [th EXCEPT ![t] = enterState(@, "OMP")]
  /\ UNCHANGED <<Task, sync, fresh, call, overlap, opened, stack, pending, entered, pool, serial,
                 truth, order, orderGroup, orderBarrier>>

\* Mutant of TaskwaitEnd: the arc comes from the barrier.
TaskwaitEndBarrier(t) ==
  LET c == Cur(t) IN
  /\ stack[t] # << >> /\ td[c].wait = "taskwait"
  /\ \A d \in Incomplete(c) : d.Parent # c
  /\ th' = [th EXCEPT ![t] = exitState(OmpHappensAfter(@, sync[<<"Barrier", td[c].BarrierIndex>>]))]
  /\ fresh' = fresh \ {<<"Barrier", td[c].BarrierIndex>>}
  /\ td' = [td EXCEPT ![c].wait = "no"]
  /\ truth' = [truth EXCEPT ![t] = @ \cup order[c].children]
  /\ UNCHANGED <<Task, sync, call, overlap, opened, stack, pending, entered, pool, serial,
                 order, orderGroup, orderBarrier>>

\* A clock that OmpHAfter finds fresh is claimed by it.
TaskwaitEnd(t) ==
  LET c == Cur(t)
      arc == td[c].execution > 1
  IN
  /\ stack[t] # << >> /\ td[c].wait = "taskwait"
  /\ \A d \in Incomplete(c) : d.Parent # c
  /\ th' = [th EXCEPT ![t] = exitState(IF arc THEN OmpHappensAfter(@, sync[<<"Taskwait", c>>]) ELSE @)]
  /\ fresh' = IF arc THEN fresh \ {<<"Taskwait", c>>} ELSE fresh
  /\ td' = [td EXCEPT ![c].wait = "no"]
  /\ truth' = [truth EXCEPT ![t] = @ \cup order[c].children]
  /\ UNCHANGED <<Task, sync, call, overlap, opened, stack, pending, entered, pool, serial,
                 order, orderGroup, orderBarrier>>

TaskgroupBegin(t, g) ==
  /\ InUserCode(t) /\ "taskgroup" \in prog.uses
  /\ opened[g] = None /\ Available(t, g)
  /\ opened' = [opened EXCEPT ![g] = Cur(t)] /\ pool' = [pool EXCEPT ![g] = t]
  /\ td' = [td EXCEPT ![Cur(t)].TaskGroup = Append(@, g)]
  /\ orderGroup' = [orderGroup EXCEPT ![g] = {}]
  /\ UNCHANGED <<Task, sync, fresh, call, overlap, th, stack, pending, entered, serial,
                 truth, order, orderBarrier>>

TaskgroupWaitBegin(t) ==
  /\ InUserCode(t) /\ InOwnGroup(Cur(t))
  /\ td' = [td EXCEPT ![Cur(t)].wait = "taskgroup"]
  /\ th' = [th EXCEPT ![t] = enterState(@, "OMP")]
  /\ UNCHANGED <<Task, sync, fresh, call, overlap, opened, stack, pending, entered, pool, serial,
                 truth, order, orderGroup, orderBarrier>>

TaskgroupWaitEnd(t) ==
  LET c == Cur(t) IN
  /\ stack[t] # << >> /\ td[c].wait = "taskgroup"
  /\ \A d \in Incomplete(c) : Last(td[c].TaskGroup) \notin Range(d.TaskGroup)
  /\ td' = [td EXCEPT ![c].wait = "closing"]
  /\ th' = [th EXCEPT ![t] = exitState(@)]
  /\ UNCHANGED <<Task, sync, fresh, call, overlap, opened, stack, pending, entered, pool, serial,
                 truth, order, orderGroup, orderBarrier>>

TaskgroupEnd(t) ==
  LET c == Cur(t)
      g == Last(td[c].TaskGroup)
  IN /\ stack[t] # << >> /\ td[c].wait = "closing"
     /\ th' = [th EXCEPT ![t] = exitState(OmpHappensAfter(enterState(@, "OMP"), sync[<<"Ptr", g>>]))]
     /\ fresh' = fresh \ {<<"Ptr", g>>}
     /\ td' = [td EXCEPT ![c].wait = "no", ![c].TaskGroup = Front(@)]
     /\ opened' = [opened EXCEPT ![g] = None]
     /\ truth' = [truth EXCEPT ![t] = @ \cup orderGroup[g]]
     /\ UNCHANGED <<Task, sync, call, overlap, stack, pending, entered, pool, serial,
                    order, orderGroup, orderBarrier>>

BarrierBegin(t) ==
  /\ InUserCode(t) /\ Cur(t) = t /\ ~InOwnGroup(t) /\ entered[t] < Barriers
  /\ call' = [call EXCEPT ![t] = [Idle EXCEPT !.name = "barrier", !.arcs = << <<"Barrier", td[t].BarrierIndex>> >>]]
  /\ th' = [th EXCEPT ![t] = enterState(@, "OMP")]
  /\ orderBarrier' = [orderBarrier EXCEPT ![entered[t] + 1] = @ \cup truth[t]]
  /\ UNCHANGED <<td, Task, sync, fresh, overlap, opened, stack, pending, entered, pool, serial,
                 truth, order, orderGroup>>

\* After the arc thread 0 resets the next sync clock; then the thread is in the
\* barrier.
BarrierBeginReturns(t) ==
  LET c == <<"Barrier", (td[t].BarrierIndex + 1) % 3>> IN
  /\ call[t].name = "barrier" /\ call[t].arcs = << >>
  /\ sync' = IF t = 0 THEN [sync EXCEPT ![c] = {}] ELSE sync
  /\ fresh' = IF t = 0 THEN fresh \cup {c} ELSE fresh
  /\ td' = [td EXCEPT ![t].wait = "barrier"] /\ entered' = [entered EXCEPT ![t] = @ + 1]
  /\ call' = [call EXCEPT ![t] = Idle]
  /\ UNCHANGED <<Task, overlap, opened, th, stack, pending, pool, serial,
                 truth, order, orderGroup, orderBarrier>>

\* Workers leave the closing barrier without parallel_data.
BarrierEnd(t) ==
  LET k == entered[t]
      arc == k < Barriers \/ t = 0
      c == <<"Barrier", td[t].BarrierIndex>>
  IN /\ stack[t] = <<t>> /\ td[t].wait = "barrier"
     /\ \A u \in Threads : entered[u] >= k
     /\ \A d \in Incomplete(t) : d.epoch > k
     /\ th' = [th EXCEPT ![t] = exitState(IF arc THEN OmpHappensAfter(@, sync[c]) ELSE @)]
     /\ fresh' = IF arc THEN fresh \ {c} ELSE fresh
     /\ td' = [td EXCEPT ![t].wait = "no", ![t].BarrierIndex = (@ + 1) % 3]
     /\ truth' = IF arc THEN [truth EXCEPT ![t] = @ \cup orderBarrier[k]] ELSE truth
     /\ UNCHANGED <<Task, sync, call, overlap, opened, stack, pending, entered, pool, serial,
                    order, orderGroup, orderBarrier>>

\* implicit_task with scope_end, and its assertion on the count.
ompt_tsan_implicit_task_end(t) ==
  /\ stack[t] = <<t>> /\ td[t].wait = "no" /\ entered[t] = Barriers
  /\ th' = [th EXCEPT ![t] = [exitState(@) EXCEPT !.failed = @ \/ td[t].RefCount # 1]]
  /\ stack' = [stack EXCEPT ![t] = << >>]
  /\ td' = [td EXCEPT ![t] = Reset(@)]
  /\ UNCHANGED <<Task, sync, fresh, call, overlap, opened, pending, entered, pool, serial,
                 truth, order, orderGroup, orderBarrier>>

\* The region has ended on all threads, or waits for an event that the program
\* does not fulfil.
Finished ==
  /\ (\A t \in Threads : stack[t] = << >>) \/ \E o \in TaskObj : td[o].phase = "detached"
  /\ UNCHANGED vars

\* The thread is in no callback, or goes on with the one that it is in.
Step(t) ==
  \/ /\ call[t] = Idle
     /\ \/ \E o \in TaskObj : \/ \E type \in prog.types : ompt_tsan_task_create(t, o, type)
                              \/ SwitchTo(t, o) \/ EarlyFulfill(t, o) \/ LateFulfill(t, o)
        \/ SwitchBack(t) \/ Complete(t) \/ Detach(t)
        \/ TaskwaitBegin(t) \/ TaskwaitEnd(t)
        \/ \E g \in Groups : TaskgroupBegin(t, g)
        \/ TaskgroupWaitBegin(t) \/ TaskgroupWaitEnd(t) \/ TaskgroupEnd(t)
        \/ BarrierBegin(t) \/ BarrierEnd(t) \/ ompt_tsan_implicit_task_end(t)
  \/ CheckArc(t) \/ ClaimArc(t) \/ CopyArc(t) \/ RaiseArc(t) \/ freeTask(t)
  \/ CompleteReturns(t) \/ LateFulfillReturns(t) \/ BarrierBeginReturns(t)

Next == ((\E t \in Threads : Step(t)) /\ UNCHANGED prog) \/ Finished

Spec == Init /\ [][Next]_vars

-----------------------------------------------------------------------------
(***************************************************************************)
(* Properties.                                                             *)
(***************************************************************************)
\* No arc is missing: unless two tasks, or a task and a thread that enters the
\* barrier, were in OmpHBefore at once for a sync clock that one of them found
\* fresh, the path of a thread contains all the work that OpenMP orders before it,
\* through creation, resumption, taskwait, taskgroup and barrier, however the tasks
\* were scheduled over the threads. (If they were, the copy overwrites the other's
\* path. The body of a detached task is left out by the code.)
NothingLost ==
  ~(overlap \/ "detachable" \in prog.types) => \A t \in Threads : truth[t] \subseteq th[t].past

\* No arc is invented, however the calls overlap: the path of a thread contains
\* only work that OpenMP orders before it. (The code
\* lets a task start after an early fulfilment and does not reset the clocks of
\* pooled task data.)
NothingAdded ==
  ~("detachable" \in prog.types \/ prog.reuse) => \A t \in Threads : th[t].past \subseteq truth[t]

\* The DCHECKs hold: exitState(oldcs, nextcs) of task_schedule finds the two
\* states it names, every arc of a sync clock is drawn in the OMP state, and
\* an implicit task ends without a child that has not been freed.
AssertionsHold == \A t \in Threads : ~th[t].failed

\* The RefCount of a live TaskData is one for itself, until it is completed, one
\* for each child that is not freed and one for each thread whose freeTask is about
\* to give one up; so completeTask and freeTask never follow a pointer to an object
\* that is back in its pool, though threads walk up the same parents at once.
RefCountExact ==
  /\ \A o \in Obj : td[o].phase # "free" =>
       /\ td[o].RefCount = Cardinality({x \in TaskObj : td[x].Parent = o})
                           + Cardinality({t \in Threads : call[t].free = o})
                           + (IF td[o].phase = "done" THEN 0 ELSE 1)
       /\ td[o].Parent # None => td[td[o].Parent].phase # "free"
  /\ \A t \in Threads : call[t].free # None => td[call[t].free].phase # "free"

\* A thread that runs nothing but its implicit task outside a wait has exactly
\* the states of that task on its clock, whatever tasks it suspended, moved to
\* another thread or completed before.
StatesBalanced ==
  \A t \in Threads : call[t] = Idle /\ stack[t] = <<t>> /\ td[t].wait = "no" =>
    th[t].state = <<"INIT", "OMP", "USEFUL">>
=============================================================================
