------------------------------ MODULE OmpDeps ------------------------------
(***************************************************************************)
(* Task dependences: the callback dependences of ompt-critical.cpp, the    *)
(* clocks of DependencyData, and acquireDependencies/releaseDependencies   *)
(* around the execution of a task.                                         *)
(*                                                                         *)
(* One task generates the tasks 1..NTasks in this order and gives each a   *)
(* dependence type for some of the variables; threads execute them.  The   *)
(* runtime starts a task when the tasks it depends on have completed, and  *)
(* two mutexinoutset tasks on a variable one after the other, in any       *)
(* order.  Clocks are causal pasts, as in OmpTasks, and `truth' is the     *)
(* order of OpenMP.  What these callbacks do to the clocks of barriers,    *)
(* taskwaits and taskgroups, to reference counts and to the states of      *)
(* threads is in OmpTasks.                                                 *)
(*                                                                         *)
(* OmpHBefore is the one of the build in the repository, where UniqLock    *)
(* does not lock: it tests for a fresh sync clock, claims it and stores in *)
(* three steps, and other threads act in between.  A build that locks has  *)
(* the behaviours in which no two calls overlap.                           *)
(***************************************************************************)
EXTENDS Naturals

CONSTANTS
  NTasks,     \* bound: tasks generated, taskwaits with dependences included
  Vars,       \* dependence variables
  Threads,    \* threads that execute tasks
  Generator,  \* the thread of the generating task
  Nobody

ASSUME OmpDepsAssumption ==
  /\ NTasks \in Nat /\ Generator \in Threads /\ Nobody \notin Threads

\* The types that AnnotateBegin and AnnotateEnd tell apart; they treat out as
\* inout.  They do nothing for the types source and sink of ordered loops and for
\* out_all_memory and inout_all_memory: these draw no arc, and no task here has one.
DependenceType == {"in", "inout", "mutexinoutset", "inoutset"}
Tasks == 1..NTasks

\* The three sync clocks of a DependencyData.
Ptr == {"in", "out", "inoutset"}

\* A piece of work: the body of a task, what the generating task does before
\* it creates a task, and what an earlier generating task has left behind.
Earlier == <<0, "earlier">>
Work == (Tasks \X {"body", "before"}) \cup {Earlier}

VARIABLES
  at,         \* at[n]: how far task n is
  dep,        \* dep[n][v]: the type of its dependence on v, or "none"
  on,         \* on[n]: the thread that executes it
  DependencyMap,  \* variables that have an entry in the parent's map
  clock,      \* clock[v][p]: the clocks of sync clock p of the DependencyData of v
  fresh,      \* fresh[v]: those that are in STATE_INIT
  arc,        \* arc[n][v]: where the end of task n is with its arc to a clock of v
  overlap,    \* history: has a call of OmpHBefore begun on a sync clock that
              \* another had found fresh and not yet stored to?
  Task,       \* Task[n]: the clock of task n
  past,       \* past[t]: the clock of thread t
  truth,      \* truth[t]: the work OpenMP orders before the point t is at
  made,       \* made[n]: the same for the creation of n ...
  ended       \* ... and for its end

vars == <<at, dep, on, DependencyMap, clock, fresh, arc, overlap, Task, past, truth, made, ended>>

Place == {"new", "created", "queued", "running", "ending", "done"}

\* "claim" and "copy" follow the test for a fresh clock, "max" that for another.
ArcStep == {"no", "todo", "claim", "copy", "max"}

TypeOK ==
  /\ at \in [Tasks -> Place] /\ on \in [Tasks -> Threads \cup {Nobody}]
  /\ dep \in [Tasks -> [Vars -> DependenceType \cup {"none"}]]
  /\ DependencyMap \in SUBSET Vars
  /\ clock \in [Vars -> [Ptr -> SUBSET Work]] /\ fresh \in [Vars -> SUBSET Ptr]
  /\ arc \in [Tasks -> [Vars -> ArcStep]] /\ overlap \in BOOLEAN
  /\ Task \in [Tasks -> SUBSET Work]
  /\ past \in [Threads -> SUBSET Work] /\ truth \in [Threads -> SUBSET Work]
  /\ made \in [Tasks -> SUBSET Work] /\ ended \in [Tasks -> SUBSET Work]

Init ==
  /\ at = [n \in Tasks |-> "new"] /\ on = [n \in Tasks |-> Nobody]
  /\ dep = [n \in Tasks |-> [v \in Vars |-> "none"]]
  /\ DependencyMap = {}
  /\ clock = [v \in Vars |-> [p \in Ptr |-> {}]] /\ fresh = [v \in Vars |-> Ptr]
  /\ arc = [n \in Tasks |-> [v \in Vars |-> "no"]] /\ overlap = FALSE
  /\ Task = [n \in Tasks |-> {}]
  /\ past = [t \in Threads |-> {}] /\ truth = [t \in Threads |-> {}]
  /\ made = [n \in Tasks |-> {}] /\ ended = [n \in Tasks |-> {}]

-----------------------------------------------------------------------------
(***************************************************************************)
(* The order of the runtime.                                               *)
(***************************************************************************)
\* Thread t can execute a task: it executes none, nor is it about to report the
\* dependences of one.
Free(t) ==
  \A n \in Tasks : ~(at[n] \in {"running", "ending"} /\ on[n] = t) /\ ~(at[n] = "created" /\ t = Generator)

\* The generating task goes on to task n.
Generates(n) ==
  /\ Free(Generator) /\ at[n] = "new"
  /\ \A m \in Tasks : (m < n => at[m] \notin {"new", "created"}) /\ (m > n => at[m] = "new")

\* Two dependences on a variable order their tasks, the earlier one first.
Conflict(a, b) ==
  /\ a # "none" /\ b # "none"
  /\ ~(a = b /\ a \in {"in", "mutexinoutset", "inoutset"})

Predecessors(n) == {m \in Tasks : m < n /\ \E v \in Vars : Conflict(dep[m][v], dep[n][v])}

\* Tasks that exclude task n.
Exclude(n) ==
  {m \in Tasks : m # n /\ \E v \in Vars : dep[m][v] = "mutexinoutset" /\ dep[n][v] = "mutexinoutset"}

Ready(n) ==
  /\ \A m \in Predecessors(n) : at[m] = "done"
  /\ \A m \in Exclude(n) : at[m] \notin {"running", "ending"}

\* What comes before the start of task n by its dependences.
Before(n) == UNION {ended[m] : m \in {x \in Predecessors(n) \cup Exclude(n) : at[x] = "done"}}

-----------------------------------------------------------------------------
(***************************************************************************)
(* The callbacks.                                                          *)
(***************************************************************************)
\* The generating task has worked and creates task n.
ompt_tsan_task_create(n) ==
  /\ Generates(n)
  /\ past' = [past EXCEPT ![Generator] = @ \cup {<<n, "before">>}]
  /\ truth' = [truth EXCEPT ![Generator] = @ \cup {<<n, "before">>}]
  /\ Task' = [Task EXCEPT ![n] = @ \cup past'[Generator]]
  /\ made' = [made EXCEPT ![n] = truth'[Generator]]
  /\ at' = [at EXCEPT ![n] = "created"]
  /\ UNCHANGED <<dep, on, DependencyMap, clock, fresh, arc, overlap, ended>>

\* dependences: entries for the variables that have none.  Neither New nor Reset
\* of DependencyData touches the sync clocks: an object that an earlier
\* generating task has used keeps the clocks `used' claimed, with old values.
ompt_tsan_dependences(n, d, used, old) ==
  LET s == {v \in Vars : d[v] # "none"} \ DependencyMap
  IN /\ at[n] = "created"
     /\ dep' = [dep EXCEPT ![n] = d]
     /\ DependencyMap' = DependencyMap \cup s
     /\ clock' = [v \in Vars |-> IF v \in s THEN [p \in Ptr |-> IF p \in used THEN old ELSE {}]
                                 ELSE clock[v]]
     /\ fresh' = [v \in Vars |-> IF v \in s THEN Ptr \ used ELSE fresh[v]]
     /\ Task' = [Task EXCEPT ![n] = @ \cup past[Generator]]
     /\ at' = [at EXCEPT ![n] = "queued"]
     /\ UNCHANGED <<on, arc, overlap, past, truth, made, ended>>

\* Mutant of AnnotateBegin: an inoutset waits for the tasks before it that write.
AnnotateBeginNoIn(type) ==
  CASE type \in {"inout", "mutexinoutset"} -> {"in", "out", "inoutset"}
    [] type = "in" -> {"out", "inoutset"}
    [] type = "inoutset" -> {"out"}
    [] type = "none" -> {}

\* Mutant of AnnotateBegin: all clocks are taken.
AnnotateBeginAll(type) == IF type = "none" THEN {} ELSE Ptr

\* The sync clocks that a task with a dependence takes up when it starts ...
AnnotateBegin(type) ==
  CASE type \in {"inout", "mutexinoutset"} -> {"in", "out", "inoutset"}
    [] type = "in" -> {"out", "inoutset"}
    [] type = "inoutset" -> {"in", "out"}
    [] type = "none" -> {}

\* ... and the one that it draws its arc to when it ends.
AnnotateEnd(type) ==
  CASE type \in {"inout", "mutexinoutset"} -> "out"
    [] type = "in" -> "in"
    [] type = "inoutset" -> "inoutset"
    [] type = "none" -> "none"

\* The OmpHAfter calls of acquireDependencies: what task n takes up from v, and
\* the state of the clocks of v, which CheckArc claims.  No call that stores to
\* one of these clocks is under way: its task would have to complete first.
TakenUp(n, v) == UNION {clock[v][p] : p \in AnnotateBegin(dep[n][v])}

acquireDependencies(n) == UNION {TakenUp(n, v) : v \in Vars}

ClaimedBy(n) == fresh' = [v \in Vars |-> fresh[v] \ AnnotateBegin(dep[n][v])]

startTask(n, t) ==
  /\ at[n] = "queued" /\ Ready(n) /\ Free(t)
  /\ at' = [at EXCEPT ![n] = "running"] /\ on' = [on EXCEPT ![n] = t]
  /\ past' = [past EXCEPT ![t] = @ \cup acquireDependencies(n) \cup Task[n]]
  /\ ClaimedBy(n)
  /\ truth' = [truth EXCEPT ![t] = @ \cup Before(n) \cup made[n]]
  /\ UNCHANGED <<dep, DependencyMap, clock, arc, overlap, Task, made, ended>>

\* completeTask: the task has done its work and has an arc to draw for each of
\* its dependences (releaseDependencies).
completeTask(n) ==
  LET t == on[n]
      w == {<<n, "body">>}
  IN /\ at[n] = "running"
     /\ past' = [past EXCEPT ![t] = @ \cup w] /\ truth' = [truth EXCEPT ![t] = @ \cup w]
     /\ arc' = [arc EXCEPT ![n] = [v \in Vars |-> IF dep[n][v] = "none" THEN "no" ELSE "todo"]]
     /\ ended' = [ended EXCEPT ![n] = truth'[t]]
     /\ at' = [at EXCEPT ![n] = "ending"]
     /\ UNCHANGED <<dep, on, DependencyMap, clock, fresh, overlap, Task, made>>

UnderWay == {"claim", "copy", "max"}

\* Another task is in OmpHBefore for the same sync clock and found it fresh.
Found(n, v) ==
  \E m \in Tasks \ {n} : arc[m][v] \in {"claim", "copy"} /\ AnnotateEnd(dep[m][v]) = AnnotateEnd(dep[n][v])

\* OmpHBefore for the dependence on v: CheckArc reads sync_state, ...
CheckArc(n, v) ==
  /\ arc[n][v] = "todo" /\ \A x \in Vars : arc[n][x] \notin UnderWay
  /\ arc' = [arc EXCEPT ![n][v] = IF AnnotateEnd(dep[n][v]) \in fresh[v] THEN "claim" ELSE "max"]
  /\ overlap' = (overlap \/ Found(n, v))
  /\ UNCHANGED <<at, dep, on, DependencyMap, clock, fresh, Task, past, truth, made, ended>>

\* ... writes it if the clock is fresh, ...
ClaimArc(n, v) ==
  /\ arc[n][v] = "claim"
  /\ arc' = [arc EXCEPT ![n][v] = "copy"]
  /\ fresh' = [fresh EXCEPT ![v] = @ \ {AnnotateEnd(dep[n][v])}]
  /\ UNCHANGED <<at, dep, on, DependencyMap, clock, overlap, Task, past, truth, made, ended>>

\* ... and stores the thread's clocks, or raises the sync clock to them.
StoreArc(n, v) ==
  /\ arc[n][v] \in {"copy", "max"}
  /\ clock' = [clock EXCEPT ![v][AnnotateEnd(dep[n][v])] =
                 IF arc[n][v] = "copy" THEN past[on[n]] ELSE @ \cup past[on[n]]]
  /\ arc' = [arc EXCEPT ![n][v] = "no"]
  /\ UNCHANGED <<at, dep, on, DependencyMap, fresh, overlap, Task, past, truth, made, ended>>

\* The callback returns, and the runtime takes the dependences for satisfied.
TaskEnded(n) ==
  /\ at[n] = "ending" /\ \A v \in Vars : arc[n][v] = "no"
  /\ at' = [at EXCEPT ![n] = "done"]
  /\ UNCHANGED <<dep, on, DependencyMap, clock, fresh, arc, overlap, Task, past, truth, made, ended>>

\* task_schedule with taskwait_complete: the generating task has waited for the
\* dependences of a taskwait, which itself executes nothing.
taskwait_complete(n) ==
  /\ at[n] = "queued" /\ Ready(n) /\ Free(Generator)
  /\ \A m \in Tasks : m > n => at[m] = "new"
  /\ past' = [past EXCEPT ![Generator] = @ \cup acquireDependencies(n)]
  /\ ClaimedBy(n)
  /\ truth' = [truth EXCEPT ![Generator] = @ \cup Before(n)]
  /\ at' = [at EXCEPT ![n] = "done"]
  /\ UNCHANGED <<dep, on, DependencyMap, clock, arc, overlap, Task, made, ended>>

\* All tasks have been generated and executed.
Finished == (\A n \in Tasks : at[n] = "done") /\ UNCHANGED vars

Next ==
  \/ \E n \in Tasks :
       \/ ompt_tsan_task_create(n)
       \/ \E d \in [Vars -> DependenceType \cup {"none"}] :
            \E used \in SUBSET Ptr, old \in SUBSET {Earlier} : ompt_tsan_dependences(n, d, used, old)
       \/ \E t \in Threads : startTask(n, t)
       \/ \E v \in Vars : CheckArc(n, v) \/ ClaimArc(n, v) \/ StoreArc(n, v)
       \/ completeTask(n) \/ TaskEnded(n) \/ taskwait_complete(n)
  \/ Finished

Spec == Init /\ [][Next]_vars

-----------------------------------------------------------------------------
(***************************************************************************)
(* Properties.                                                             *)
(***************************************************************************)
\* No arc is missing: unless two tasks whose dependences leave them unordered (two
\* readers, two members of an inoutset) have ended at once on a fresh sync clock,
\* the path of a thread contains all the work that OpenMP orders before it by
\* creation, dependences of the types above, and mutual exclusion, whichever
\* threads executed the tasks.  (If they have, the store of OmpHBefore's copy
\* overwrites the other's path.)
DependsKept == ~overlap => \A t \in Threads : truth[t] \subseteq past[t]

\* No arc is invented between the tasks, however their calls overlap: two that
\* their dependences leave unordered, like two readers or two members of an
\* inoutset, do not enter each other's path.  Only work of an earlier generating
\* task does, where its DependencyData is used again with the clocks it had.
DependsOnly == \A t \in Threads : past[t] \subseteq truth[t] \cup {Earlier}
=============================================================================
