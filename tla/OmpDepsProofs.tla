--------------------------- MODULE OmpDepsProofs ---------------------------
(***************************************************************************)
(* The paths of threads that execute tasks with dependences are those of   *)
(* OpenMP, for any number of tasks, variables and threads; what a reused   *)
(* DependencyData brings along is all they may have besides, and what two  *)
(* calls on a fresh sync clock do to each other is all they may miss.      *)
(***************************************************************************)
EXTENDS OmpDeps, TLAPS

\* The body of the task is over.
Over(n) == at[n] \in {"ending", "done"}

\* Tasks are generated in order, and the last one is complete with its
\* dependences before the generating task does anything else.
Sequenced ==
  /\ \A n \in Tasks : at[n] \in {"new", "created"} =>
       (\A v \in Vars : dep[n][v] = "none") /\ \A m \in Tasks : m > n => at[m] = "new"
  /\ \A n \in Tasks : at[n] = "new" => Task[n] = {}
  /\ \A n \in Tasks : at[n] = "created" =>
       /\ made[n] = truth[Generator]
       /\ \A m \in Tasks : ~(at[m] \in {"running", "ending"} /\ on[m] = Generator)

\* A task that has started has all its predecessors behind it.
Ordered ==
  \A n \in Tasks : at[n] \in {"running", "ending", "done"} => \A m \in Predecessors(n) : at[m] = "done"

\* A thread executes one task at a time, and does nothing else until the task
\* has drawn its arcs.
Running ==
  \A n \in Tasks : at[n] \in {"running", "ending"} =>
    /\ on[n] \in Threads
    /\ \A m \in Tasks : at[m] \in {"running", "ending"} /\ on[m] = on[n] => m = n
    /\ at[n] = "ending" => ended[n] = truth[on[n]]

Mapped == \A n \in Tasks, v \in Vars : dep[n][v] # "none" => v \in DependencyMap

\* Only a task that is ending draws arcs, one for each of its dependences.
Drawing == \A n \in Tasks, v \in Vars : arc[n][v] # "no" => at[n] = "ending" /\ dep[n][v] # "none"

\* Nothing is on the path to the end of a task that has not ended, and Earlier
\* is not in the order of OpenMP.
Unended ==
  /\ \A n \in Tasks : Earlier \notin ended[n] /\ Earlier \notin made[n] /\ (~Over(n) => ended[n] = {})
  /\ \A t \in Threads : Earlier \notin truth[t]

\* Task m has ended with a dependence whose arc goes to clock p of v.
Ends(m, v, p) == Over(m) /\ AnnotateEnd(dep[m][v]) = p

\* Nothing is invented: clocks and paths hold only what they should, and Earlier.
Only ==
  /\ \A v \in Vars, p \in Ptr : \A w \in clock[v][p] :
       w = Earlier \/ \E m \in Tasks : Ends(m, v, p) /\ w \in ended[m]
  /\ \A t \in Threads : past[t] \subseteq truth[t] \cup {Earlier}
  /\ \A n \in Tasks : at[n] # "new" => Task[n] \subseteq made[n] \cup {Earlier}

\* Nothing is lost from paths, nor from the clock that a task has stored to.
KeptPath ==
  /\ \A t \in Threads : truth[t] \subseteq past[t]
  /\ \A n \in Tasks : at[n] # "new" => made[n] \subseteq Task[n]

KeptClock ==
  \A m \in Tasks, v \in Vars : \A p \in Ptr :
    Ends(m, v, p) /\ arc[m][v] = "no" => ended[m] \subseteq clock[v][p]

\* A task that has found a sync clock fresh is the first to store to it: a task
\* without a path aside, the others have not begun their call.
Alone ==
  \A n \in Tasks, v \in Vars : arc[n][v] \in {"claim", "copy"} =>
    \A m \in Tasks : m # n /\ Ends(m, v, AnnotateEnd(dep[n][v])) => arc[m][v] = "todo" \/ ended[m] = {}

\* Nobody has stored to a fresh sync clock.
FreshUnused ==
  \A v \in Vars : \A p \in fresh[v] : \A m \in Tasks :
    Ends(m, v, p) => arc[m][v] \in {"todo", "claim"} \/ ended[m] = {}

Kept == KeptPath /\ KeptClock /\ Alone /\ FreshUnused

Control == TypeOK /\ Sequenced /\ Ordered /\ Running /\ Mapped /\ Drawing /\ Unended

IInv == Control /\ Only /\ (~overlap => Kept)

-----------------------------------------------------------------------------
\* What a dependence of type a takes up from the end of one of type b.
Takes(a, b) == Conflict(b, a) \/ (a = "mutexinoutset" /\ b = "mutexinoutset")

\* AnnotateBegin takes up the clock that AnnotateEnd draws to exactly if the two
\* dependences order or exclude their tasks.
LEMMA BeginTakes ==
  ASSUME NEW a \in DependenceType \cup {"none"}, NEW b \in DependenceType \cup {"none"}
  PROVE  AnnotateEnd(b) \in AnnotateBegin(a) <=> Takes(a, b)
BY Zenon DEF AnnotateBegin, AnnotateEnd, Takes, Conflict, DependenceType

\* AnnotateBegin names sync clocks, and AnnotateEnd one for each dependence.
LEMMA Pointers ==
  ASSUME NEW a \in DependenceType \cup {"none"}
  PROVE  AnnotateBegin(a) \subseteq Ptr /\ (a # "none" <=> AnnotateEnd(a) \in Ptr)
BY Zenon DEF AnnotateBegin, AnnotateEnd, DependenceType, Ptr

\* A task that has ended and that a queued task has a conflict with was generated
\* first: otherwise it would have waited for the queued one.
LEMMA ConflictIsBefore ==
  ASSUME Control, NEW n \in Tasks, at[n] = "queued", NEW m \in Tasks, Over(m),
         NEW v \in Vars, Conflict(dep[m][v], dep[n][v])
  PROVE  m \in Predecessors(n)
<1>1. n # m
  BY Zenon DEF Over
<1>2. ~(n < m)
  <2> SUFFICES ASSUME n < m PROVE FALSE
    BY Zenon
  <2>1. Conflict(dep[n][v], dep[m][v])
    BY Zenon DEF Conflict
  <2>2. n \in Predecessors(m)
    BY <2>1, Zenon DEF Predecessors
  <2> QED BY <2>2, Zenon DEF Control, Ordered, Over
<1>3. m < n
  BY <1>1, <1>2 DEF Tasks
<1> QED BY <1>3, Zenon DEF Predecessors

\* What a task takes up when it may start is ordered before it, Earlier aside.
LEMMA AcquireOnly ==
  ASSUME Control, Only, NEW n \in Tasks, at[n] = "queued", Ready(n)
  PROVE  acquireDependencies(n) \subseteq Before(n) \cup {Earlier}
<1> SUFFICES ASSUME NEW w \in acquireDependencies(n), w # Earlier PROVE w \in Before(n)
  BY Zenon
<1>0. \A m \in Tasks, v \in Vars : dep[m][v] \in DependenceType \cup {"none"}
  BY DEF Control, TypeOK
<1>1. PICK v \in Vars : w \in TakenUp(n, v)
  BY Zenon DEF acquireDependencies
<1>2. PICK p \in AnnotateBegin(dep[n][v]) : w \in clock[v][p]
  BY <1>1, Zenon DEF TakenUp
<1>3. p \in Ptr
  BY <1>0, <1>2, Pointers, Zenon
<1>4. PICK m \in Tasks : Ends(m, v, p) /\ w \in ended[m]
  BY <1>2, <1>3, Zenon DEF Only
<1>5. Takes(dep[n][v], dep[m][v])
  BY <1>0, <1>2, <1>4, BeginTakes, Zenon DEF Ends
<1>6. m \in Predecessors(n) \cup Exclude(n)
  <2>1. CASE Conflict(dep[m][v], dep[n][v])
    BY <1>4, <2>1, ConflictIsBefore, Zenon DEF Ends
  <2>2. CASE dep[n][v] = "mutexinoutset" /\ dep[m][v] = "mutexinoutset"
    BY <1>4, <2>2, Zenon DEF Exclude, Ends, Over
  <2> QED BY <1>5, <2>1, <2>2, Zenon DEF Takes
<1>7. at[m] = "done"
  BY <1>4, <1>6, Zenon DEF Ready, Ends, Over
<1> QED BY <1>4, <1>6, <1>7, Zenon DEF Before

\* It takes up all that is ordered before it, unless calls have overlapped.
LEMMA AcquireKept ==
  ASSUME Control, KeptClock, NEW n \in Tasks
  PROVE  Before(n) \subseteq acquireDependencies(n)
<1> SUFFICES ASSUME NEW w \in Before(n) PROVE w \in acquireDependencies(n)
  BY Zenon
<1>0. \A m \in Tasks, v \in Vars : dep[m][v] \in DependenceType \cup {"none"}
  BY DEF Control, TypeOK
<1>1. PICK m \in Tasks : at[m] = "done" /\ w \in ended[m] /\ m \in Predecessors(n) \cup Exclude(n)
  BY Zenon DEF Before, Predecessors, Exclude
<1>2. PICK v \in Vars : Takes(dep[n][v], dep[m][v])
  BY <1>1, Zenon DEF Predecessors, Exclude, Takes
<1>3. AnnotateEnd(dep[m][v]) \in AnnotateBegin(dep[n][v])
  BY <1>0, <1>1, <1>2, BeginTakes, Zenon
<1>4. AnnotateEnd(dep[m][v]) \in Ptr
  BY <1>0, <1>3, Pointers, Zenon
<1>5. arc[m][v] = "no"
  BY <1>1, Zenon DEF Control, Drawing
<1>6. w \in clock[v][AnnotateEnd(dep[m][v])]
  BY <1>1, <1>4, <1>5, Zenon DEF KeptClock, Ends, Over
<1> QED BY <1>3, <1>6 DEF acquireDependencies, TakenUp

-----------------------------------------------------------------------------
(***************************************************************************)
(* The invariant is inductive.                                             *)
(***************************************************************************)
\* It holds before the first callback.
LEMMA InitInv == Init => IInv
<1> SUFFICES ASSUME Init PROVE IInv
  BY Zenon
<1>1. TypeOK
  BY OmpDepsAssumption, Zenon DEF Init, TypeOK, Place, ArcStep, Ptr
<1>2. Sequenced /\ Ordered /\ Running /\ Mapped /\ Drawing /\ Unended
  BY OmpDepsAssumption,
     Zenon DEF Init, Sequenced, Ordered, Running, Mapped, Drawing, Unended, Over
<1>3. \A n \in Tasks : ~Over(n) /\ at[n] = "new"
  BY Zenon DEF Init, Over
<1>4. Only /\ KeptPath
  BY <1>3, OmpDepsAssumption, Zenon DEF Init, Only, KeptPath
<1>5. KeptClock /\ Alone /\ FreshUnused
  BY <1>3, Zenon DEF KeptClock, Alone, FreshUnused, Ends
<1> QED BY <1>1, <1>2, <1>4, <1>5, Zenon DEF IInv, Control, Kept

\* A step that leaves the arcs, the clocks and the tasks that have ended alone, and
\* claims sync clocks at most, keeps what is said of the clocks.
LEMMA ClocksKept ==
  ASSUME IInv, arc' = arc, clock' = clock, overlap' = overlap, ended' = ended,
         \A v \in Vars : fresh'[v] \subseteq fresh[v],
         \A m \in Tasks, v \in Vars : \A p \in Ptr : Ends(m, v, p)' => Ends(m, v, p) \/ ended[m] = {},
         \A m \in Tasks, v \in Vars : \A p \in Ptr : Ends(m, v, p) => Ends(m, v, p)',
         \A m \in Tasks, v \in Vars : arc[m][v] # "no" => dep'[m][v] = dep[m][v]
  PROVE  /\ ~overlap' => KeptClock' /\ Alone' /\ FreshUnused'
         /\ \A v \in Vars, p \in Ptr : \A w \in clock'[v][p] :
              w = Earlier \/ \E m \in Tasks : Ends(m, v, p)' /\ w \in ended'[m]
<1>0. \A m \in Tasks, v \in Vars : arc[m][v] # "no" => AnnotateEnd(dep[m][v]) \in Ptr
  BY Pointers DEF IInv, Control, TypeOK, Drawing
<1>f. \A v \in Vars : fresh[v] \subseteq Ptr
  BY Zenon DEF IInv, Control, TypeOK
<1>1. ASSUME ~overlap' PROVE KeptClock' /\ Alone' /\ FreshUnused'
  <2>0. KeptClock /\ Alone /\ FreshUnused
    BY <1>1, Zenon DEF IInv, Kept
  <2>1. KeptClock'
    BY <2>0, Zenon DEF KeptClock
  <2>2. Alone'
    <3> SUFFICES ASSUME NEW n \in Tasks, NEW v \in Vars, arc[n][v] \in {"claim", "copy"},
                        NEW m \in Tasks, m # n, Ends(m, v, AnnotateEnd(dep[n][v]))'
                 PROVE  arc[m][v] = "todo" \/ ended[m] = {}
      BY Zenon DEF Alone
    <3>1. dep'[n][v] = dep[n][v] /\ AnnotateEnd(dep[n][v]) \in Ptr
      BY <1>0, Zenon
    <3>2. Ends(m, v, AnnotateEnd(dep[n][v])) \/ ended[m] = {}
      BY <3>1, Zenon DEF Ends
    <3> QED BY <2>0, <3>2, Zenon DEF Alone
  <2>3. FreshUnused'
    BY <1>f, <2>0, Zenon DEF FreshUnused
  <2> QED BY <2>1, <2>2, <2>3, Zenon
<1>2. \A v \in Vars, p \in Ptr : \A w \in clock'[v][p] :
        w = Earlier \/ \E m \in Tasks : Ends(m, v, p)' /\ w \in ended'[m]
  BY Zenon DEF IInv, Only
<1> QED BY <1>1, <1>2, Zenon

\* task_create.
LEMMA CreateKeeps ==
  ASSUME IInv, NEW n \in Tasks, ompt_tsan_task_create(n)
  PROVE  IInv'
<1> USE DEF ompt_tsan_task_create
<1>c. Control /\ Only
  BY Zenon DEF IInv
<1>w. <<n, "before">> \in Work /\ <<n, "before">> # Earlier
  BY OmpDepsAssumption, Zenon DEF Work, Earlier, Tasks
<1>a. /\ at[n] = "new" /\ at'[n] = "created"
      /\ \A m \in Tasks : m # n => at'[m] = at[m] /\ Task'[m] = Task[m] /\ made'[m] = made[m]
  BY <1>c, Zenon DEF Control, Generates, TypeOK
<1>p. /\ past'[Generator] = past[Generator] \cup {<<n, "before">>}
      /\ truth'[Generator] = truth[Generator] \cup {<<n, "before">>}
      /\ \A t \in Threads : t # Generator => past'[t] = past[t] /\ truth'[t] = truth[t]
      /\ Task'[n] = past'[Generator] /\ made'[n] = truth'[Generator]
  BY <1>c, OmpDepsAssumption DEF Control, Sequenced, Generates, TypeOK
<1>o. \A m \in Tasks : Over(m)' <=> Over(m)
  BY <1>a, Zenon DEF Over
<1>1. TypeOK'
  <2>1. past' \in [Threads -> SUBSET Work] /\ truth' \in [Threads -> SUBSET Work]
    BY <1>c, <1>w, OmpDepsAssumption, Zenon DEF Control, TypeOK
  <2>2. past'[Generator] \in SUBSET Work /\ truth'[Generator] \in SUBSET Work
    BY <2>1, OmpDepsAssumption, Zenon
  <2>3. Task' \in [Tasks -> SUBSET Work] /\ made' \in [Tasks -> SUBSET Work]
    BY <1>c, <2>2, Zenon DEF Control, TypeOK
  <2> QED BY <1>c, <2>1, <2>3, Zenon DEF Control, TypeOK, Place
<1>2. Sequenced'
  BY <1>c, <1>a, <1>p, OmpDepsAssumption DEF Control, Sequenced, Generates, Free, Tasks
<1>3. Ordered'
  BY <1>c, <1>a DEF Control, Ordered, Predecessors
<1>4. Running'
  <2>1. \A m \in Tasks : at[m] \in {"running", "ending"} => on[m] # Generator
    BY Zenon DEF Generates, Free
  <2> QED BY <1>c, <1>a, <1>p, <2>1 DEF Control, Running
<1>5. Mapped' /\ Drawing'
  BY <1>c, <1>a DEF Control, Mapped, Drawing
<1>6. Unended'
  BY <1>c, <1>w, <1>a, <1>p, <1>o, OmpDepsAssumption DEF Control, Unended
<1>7. \A m \in Tasks, v \in Vars : \A p \in Ptr : Ends(m, v, p)' <=> Ends(m, v, p)
  BY <1>o, Zenon DEF Ends
<1>8. /\ ~overlap' => KeptClock' /\ Alone' /\ FreshUnused'
      /\ \A v \in Vars, p \in Ptr : \A w \in clock'[v][p] :
           w = Earlier \/ \E m \in Tasks : Ends(m, v, p)' /\ w \in ended'[m]
  BY <1>7, ClocksKept, Zenon
<1>9. Only'
  <2>1. \A t \in Threads : past'[t] \subseteq truth'[t] \cup {Earlier}
    BY <1>c, <1>p, OmpDepsAssumption, Zenon DEF Only
  <2>2. \A m \in Tasks : at'[m] # "new" => Task'[m] \subseteq made'[m] \cup {Earlier}
    BY <1>c, <1>a, <1>p, <2>1, OmpDepsAssumption DEF Only
  <2> QED BY <1>8, <2>1, <2>2, Zenon DEF Only
<1>10. ASSUME ~overlap' PROVE KeptPath'
  <2>0. KeptPath
    BY <1>10, Zenon DEF IInv, Kept
  <2>1. \A t \in Threads : truth'[t] \subseteq past'[t]
    BY <1>p, <2>0, OmpDepsAssumption, Zenon DEF KeptPath
  <2>2. \A m \in Tasks : at'[m] # "new" => made'[m] \subseteq Task'[m]
    BY <1>a, <1>p, <2>0, <2>1, OmpDepsAssumption DEF KeptPath
  <2> QED BY <2>1, <2>2, Zenon DEF KeptPath
<1> QED BY <1>1, <1>2, <1>3, <1>4, <1>5, <1>6, <1>8, <1>9, <1>10, Zenon DEF IInv, Control, Kept

\* dependences: a variable without an entry has been in no task's dependences, so
\* no task has ended with an arc to its clocks.
LEMMA DependencesKeeps ==
  ASSUME IInv, NEW n \in Tasks, NEW d \in [Vars -> DependenceType \cup {"none"}],
         NEW used \in SUBSET Ptr, NEW old \in SUBSET {Earlier}, ompt_tsan_dependences(n, d, used, old)
  PROVE  IInv'
<1> USE DEF ompt_tsan_dependences
<1>c. Control /\ Only
  BY Zenon DEF IInv
<1>a. \A m \in Tasks : m # n => at'[m] = at[m] /\ dep'[m] = dep[m] /\ Task'[m] = Task[m]
  BY <1>c, Zenon DEF Control, TypeOK
<1>b. at[n] = "created" /\ at'[n] = "queued" /\ dep'[n] = d /\ Task'[n] = Task[n] \cup past[Generator]
  BY <1>c, Zenon DEF Control, TypeOK
<1>k. \A v \in DependencyMap : clock'[v] = clock[v] /\ fresh'[v] = fresh[v]
  BY <1>c, Zenon DEF Control, TypeOK
<1>n. \A v \in Vars \ DependencyMap : \A m \in Tasks : dep[m][v] = "none"
  BY <1>c, Zenon DEF Control, Mapped
<1>o. \A m \in Tasks : Over(m)' <=> Over(m)
  BY <1>a, <1>b, Zenon DEF Over
<1>1. TypeOK'
  <2>1. old \in SUBSET Work
    BY Zenon DEF Work
  <2>2. clock' \in [Vars -> [Ptr -> SUBSET Work]] /\ fresh' \in [Vars -> SUBSET Ptr]
    BY <1>c, <2>1, Zenon DEF Control, TypeOK
  <2>3. past[Generator] \in SUBSET Work
    BY <1>c, OmpDepsAssumption, Zenon DEF Control, TypeOK
  <2>4. Task' \in [Tasks -> SUBSET Work]
    BY <1>c, <2>3, Zenon DEF Control, TypeOK
  <2> QED BY <1>c, <2>2, <2>4, Zenon DEF Control, TypeOK, Place
<1>2. Sequenced'
  BY <1>c, <1>a, <1>b, OmpDepsAssumption DEF Control, Sequenced, Tasks
<1>3. Ordered'
  <2> SUFFICES ASSUME NEW k \in Tasks, at'[k] \in {"running", "ending", "done"}, NEW m \in Predecessors(k)'
               PROVE  at'[m] = "done"
    BY Zenon DEF Ordered
  <2>1. k # n /\ at[k] = at'[k] /\ dep'[k] = dep[k]
    BY <1>a, <1>b, Zenon
  <2>2. m \in Tasks /\ m < k
    BY Zenon DEF Predecessors
  <2>3. m # n
    BY <1>c, <1>b, <2>1, <2>2 DEF Control, Sequenced
  <2>4. m \in Predecessors(k)
    BY <1>a, <2>1, <2>2, <2>3, Zenon DEF Predecessors
  <2> QED BY <1>c, <1>a, <2>1, <2>2, <2>3, <2>4, Zenon DEF Control, Ordered
<1>4. Running' /\ Mapped' /\ Drawing'
  BY <1>c, <1>a, <1>b DEF Control, Running, Mapped, Drawing
<1>5. Unended'
  BY <1>c, <1>o, Zenon DEF Control, Unended
<1>6. ASSUME NEW m \in Tasks, NEW v \in Vars, NEW p \in Ptr
      PROVE  Ends(m, v, p)' <=> Ends(m, v, p)
  BY <1>a, <1>b, <1>o, Zenon DEF Ends, Over
<1>7. ASSUME NEW m \in Tasks, NEW v \in Vars \ DependencyMap, NEW p \in Ptr
      PROVE  ~Ends(m, v, p)
  BY <1>n, <1>7, Pointers, Zenon DEF Ends, DependenceType
<1>8. Only'
  <2>1. ASSUME NEW v \in Vars, NEW p \in Ptr, NEW w \in clock'[v][p], w # Earlier
        PROVE  \E m \in Tasks : Ends(m, v, p)' /\ w \in ended'[m]
    <3>1. CASE v \in DependencyMap
      BY <1>c, <1>k, <1>6, <2>1, <3>1, Zenon DEF Only
    <3>2. CASE v \notin DependencyMap
      <4>1. w \in clock[v][p]
        BY <2>1, <3>2, Zenon
      <4> QED BY <1>c, <1>6, <2>1, <4>1, Zenon DEF Only
    <3> QED BY <3>1, <3>2, Zenon
  <2>2. \A m \in Tasks : at'[m] # "new" => Task'[m] \subseteq made'[m] \cup {Earlier}
    <3>1. made[n] = truth[Generator]
      BY <1>c, <1>b, Zenon DEF Control, Sequenced
    <3> QED BY <1>c, <1>a, <1>b, <3>1, OmpDepsAssumption, Zenon DEF Only
  <2> QED BY <1>c, <2>1, <2>2, Zenon DEF Only
<1>9. ASSUME ~overlap' PROVE Kept'
  <2>0. KeptPath /\ KeptClock /\ Alone /\ FreshUnused
    BY <1>9, Zenon DEF IInv, Kept
  <2>1. KeptPath'
    BY <1>a, <1>b, <2>0, Zenon DEF KeptPath
  <2>2. KeptClock'
    <3> SUFFICES ASSUME NEW m \in Tasks, NEW v \in Vars, NEW p \in Ptr, Ends(m, v, p)', arc[m][v] = "no"
                 PROVE  ended[m] \subseteq clock'[v][p]
      BY Zenon DEF KeptClock
    <3>1. Ends(m, v, p) /\ v \in DependencyMap
      BY <1>6, <1>7, Zenon
    <3> QED BY <1>k, <2>0, <3>1, Zenon DEF KeptClock
  <2>3. Alone'
    <3> SUFFICES ASSUME NEW k \in Tasks, NEW v \in Vars, arc[k][v] \in {"claim", "copy"},
                        NEW m \in Tasks, m # k, Ends(m, v, AnnotateEnd(dep[k][v]))'
                 PROVE  arc[m][v] = "todo" \/ ended[m] = {}
      BY Zenon DEF Alone
    <3>1. dep'[k] = dep[k] /\ AnnotateEnd(dep[k][v]) \in Ptr
      <4>1. at[k] = "ending" /\ dep[k][v] # "none"
        BY <1>c, Zenon DEF Control, Drawing
      <4> QED BY <1>c, <1>a, <1>b, <4>1, Pointers DEF Control, TypeOK
    <3>2. Ends(m, v, AnnotateEnd(dep[k][v]))
      BY <1>6, <3>1 DEF Ends
    <3> QED BY <2>0, <3>2, Zenon DEF Alone
  <2>4. FreshUnused'
    <3> SUFFICES ASSUME NEW v \in Vars, NEW p \in fresh'[v], NEW m \in Tasks, Ends(m, v, p)'
                 PROVE  arc[m][v] \in {"todo", "claim"} \/ ended[m] = {}
      BY Zenon DEF FreshUnused
    <3>1. p \in Ptr
      BY <1>1, Zenon DEF TypeOK
    <3>2. Ends(m, v, p) /\ v \in DependencyMap
      BY <1>6, <1>7, <3>1, Zenon
    <3> QED BY <1>k, <2>0, <3>2, Zenon DEF FreshUnused
  <2> QED BY <2>1, <2>2, <2>3, <2>4, Zenon DEF Kept
<1> QED BY <1>1, <1>2, <1>3, <1>4, <1>5, <1>8, <1>9, Zenon DEF IInv, Control

\* startTask.
LEMMA StartKeeps ==
  ASSUME IInv, NEW n \in Tasks, NEW t \in Threads, startTask(n, t)
  PROVE  IInv'
<1> USE DEF startTask
<1>c. Control /\ Only
  BY Zenon DEF IInv
<1>a. /\ at[n] = "queued" /\ at'[n] = "running" /\ on'[n] = t
      /\ \A m \in Tasks : m # n => at'[m] = at[m] /\ on'[m] = on[m]
  BY <1>c, Zenon DEF Control, TypeOK
<1>p. /\ past'[t] = past[t] \cup acquireDependencies(n) \cup Task[n]
      /\ truth'[t] = truth[t] \cup Before(n) \cup made[n]
      /\ \A u \in Threads : u # t => past'[u] = past[u] /\ truth'[u] = truth[u]
  BY <1>c, Zenon DEF Control, TypeOK
<1>b. acquireDependencies(n) \subseteq Before(n) \cup {Earlier}
  BY <1>c, AcquireOnly, Zenon
<1>d. Before(n) \subseteq Work /\ Earlier \notin Before(n)
  BY <1>c DEF Before, Control, TypeOK, Unended, Predecessors, Exclude
<1>f. \A v \in Vars : fresh'[v] \subseteq fresh[v]
  BY Zenon DEF ClaimedBy
<1>o. \A m \in Tasks : Over(m)' <=> Over(m)
  BY <1>a, Zenon DEF Over
<1>g. \A m \in Tasks : at[m] \in {"running", "ending"} => on[m] # t
  BY Zenon DEF Free
<1>1. TypeOK'
  <2>1. acquireDependencies(n) \subseteq Work
    BY <1>b, <1>d, Zenon DEF Work
  <2>2. past' \in [Threads -> SUBSET Work] /\ truth' \in [Threads -> SUBSET Work]
    BY <1>c, <1>d, <2>1, Zenon DEF Control, TypeOK
  <2>3. fresh' \in [Vars -> SUBSET Ptr]
    BY <1>c, <1>f, Zenon DEF Control, TypeOK, ClaimedBy
  <2> QED BY <1>c, <2>2, <2>3, Zenon DEF Control, TypeOK, Place
<1>2. Sequenced'
  <2>1. \A m \in Tasks : at[m] = "created" => t # Generator
    BY Zenon DEF Free
  <2>2. \A m \in Tasks : at'[m] \in {"new", "created"} => m # n /\ at[m] = at'[m]
    BY <1>a, Zenon
  <2>3. \A m \in Tasks : at[m] = "created" => truth'[Generator] = truth[Generator]
    BY <1>p, <2>1, OmpDepsAssumption, Zenon
  <2> QED BY <1>c, <1>a, <2>1, <2>2, <2>3 DEF Control, Sequenced
<1>3. Ordered'
  <2>1. \A m \in Tasks : at[m] = "done" => at'[m] = "done"
    BY <1>a, Zenon
  <2>2. \A k \in Tasks : Predecessors(k)' = Predecessors(k)
    BY Zenon DEF Predecessors
  <2>3. \A k \in Tasks : Predecessors(k) \subseteq Tasks
    BY Zenon DEF Predecessors
  <2> QED BY <1>c, <1>a, <2>1, <2>2, <2>3 DEF Control, Ordered, Ready
<1>4. Running'
  BY <1>c, <1>a, <1>p, <1>g DEF Control, Running
<1>5. Mapped' /\ Drawing'
  BY <1>c, <1>a DEF Control, Mapped, Drawing
<1>6. Unended'
  BY <1>c, <1>p, <1>d, <1>o, Zenon DEF Control, Unended
<1>7. \A m \in Tasks, v \in Vars : \A p \in Ptr : Ends(m, v, p)' <=> Ends(m, v, p)
  BY <1>o, Zenon DEF Ends
<1>8. /\ ~overlap' => KeptClock' /\ Alone' /\ FreshUnused'
      /\ \A v \in Vars, p \in Ptr : \A w \in clock'[v][p] :
           w = Earlier \/ \E m \in Tasks : Ends(m, v, p)' /\ w \in ended'[m]
  BY <1>7, <1>f, ClocksKept, Zenon
<1>9. Only'
  <2>1. past'[t] \subseteq truth'[t] \cup {Earlier}
    BY <1>c, <1>a, <1>p, <1>b, Zenon DEF Only
  <2>2. \A u \in Threads : past'[u] \subseteq truth'[u] \cup {Earlier}
    BY <1>c, <1>p, <2>1, Zenon DEF Only
  <2> QED BY <1>c, <1>a, <1>8, <2>2, Zenon DEF Only
<1>10. ASSUME ~overlap' PROVE KeptPath'
  <2>0. KeptPath /\ KeptClock
    BY <1>10, Zenon DEF IInv, Kept
  <2>1. Before(n) \subseteq acquireDependencies(n)
    BY <1>c, <2>0, AcquireKept, Zenon
  <2>2. \A u \in Threads : truth'[u] \subseteq past'[u]
    BY <1>a, <1>p, <2>0, <2>1, Zenon DEF KeptPath
  <2> QED BY <1>a, <2>0, <2>2, Zenon DEF KeptPath
<1> QED BY <1>1, <1>2, <1>3, <1>4, <1>5, <1>6, <1>8, <1>9, <1>10, Zenon DEF IInv, Control, Kept

\* taskwait_complete: a taskwait ends with no path of its own.
LEMMA TaskwaitKeeps ==
  ASSUME IInv, NEW n \in Tasks, taskwait_complete(n)
  PROVE  IInv'
<1> USE DEF taskwait_complete
<1>c. Control /\ Only
  BY Zenon DEF IInv
<1>a. /\ at[n] = "queued" /\ at'[n] = "done"
      /\ \A m \in Tasks : m # n => at'[m] = at[m]
  BY <1>c, Zenon DEF Control, TypeOK
<1>p. /\ past'[Generator] = past[Generator] \cup acquireDependencies(n)
      /\ truth'[Generator] = truth[Generator] \cup Before(n)
      /\ \A u \in Threads : u # Generator => past'[u] = past[u] /\ truth'[u] = truth[u]
  BY <1>c, OmpDepsAssumption, Zenon DEF Control, TypeOK
<1>b. acquireDependencies(n) \subseteq Before(n) \cup {Earlier}
  BY <1>c, AcquireOnly, Zenon
<1>d. Before(n) \subseteq Work /\ Earlier \notin Before(n)
  BY <1>c DEF Before, Control, TypeOK, Unended, Predecessors, Exclude
<1>e. ended[n] = {}
  BY <1>c, <1>a, Zenon DEF Control, Unended, Over
<1>f. \A v \in Vars : fresh'[v] \subseteq fresh[v]
  BY Zenon DEF ClaimedBy
<1>o. \A m \in Tasks : m # n => (Over(m)' <=> Over(m))
  BY <1>a, Zenon DEF Over
<1>n. ~Over(n) /\ Over(n)'
  BY <1>a, Zenon DEF Over
<1>g. \A m \in Tasks : at[m] \in {"running", "ending"} => on[m] # Generator
  BY Zenon DEF Free
<1>1. TypeOK'
  <2>1. acquireDependencies(n) \subseteq Work
    BY <1>b, <1>d, Zenon DEF Work
  <2>2. past' \in [Threads -> SUBSET Work] /\ truth' \in [Threads -> SUBSET Work]
    BY <1>c, <1>d, <2>1, Zenon DEF Control, TypeOK
  <2>3. fresh' \in [Vars -> SUBSET Ptr]
    BY <1>c, <1>f, Zenon DEF Control, TypeOK, ClaimedBy
  <2> QED BY <1>c, <2>2, <2>3, Zenon DEF Control, TypeOK, Place
<1>2. Sequenced'
  <2>1. \A m \in Tasks : at'[m] \in {"new", "created"} => m # n /\ at[m] = at'[m]
    BY <1>a, Zenon
  <2>2. \A m \in Tasks : at[m] # "created"
    BY Zenon DEF Free
  <2> QED BY <1>c, <1>a, <2>1, <2>2 DEF Control, Sequenced
<1>3. Ordered'
  <2>1. \A m \in Tasks : at[m] = "done" => at'[m] = "done"
    BY <1>a, Zenon
  <2>2. \A k \in Tasks : Predecessors(k)' = Predecessors(k)
    BY Zenon DEF Predecessors
  <2>3. \A k \in Tasks : Predecessors(k) \subseteq Tasks
    BY Zenon DEF Predecessors
  <2> QED BY <1>c, <1>a, <2>1, <2>2, <2>3 DEF Control, Ordered, Ready
<1>4. Running'
  BY <1>c, <1>a, <1>p, <1>g DEF Control, Running
<1>5. Mapped' /\ Drawing'
  BY <1>c, <1>a DEF Control, Mapped, Drawing
<1>6. Unended'
  BY <1>c, <1>p, <1>d, <1>o, <1>e, OmpDepsAssumption, Zenon DEF Control, Unended
<1>7. \A m \in Tasks, v \in Vars : \A p \in Ptr :
        /\ Ends(m, v, p)' => Ends(m, v, p) \/ ended[m] = {}
        /\ Ends(m, v, p) => Ends(m, v, p)'
  BY <1>o, <1>n, <1>e, Zenon DEF Ends
<1>8. /\ ~overlap' => KeptClock' /\ Alone' /\ FreshUnused'
      /\ \A v \in Vars, p \in Ptr : \A w \in clock'[v][p] :
           w = Earlier \/ \E m \in Tasks : Ends(m, v, p)' /\ w \in ended'[m]
  BY <1>7, <1>f, ClocksKept, Zenon
<1>9. Only'
  <2>1. past'[Generator] \subseteq truth'[Generator] \cup {Earlier}
    BY <1>c, <1>p, <1>b, OmpDepsAssumption, Zenon DEF Only
  <2>2. \A u \in Threads : past'[u] \subseteq truth'[u] \cup {Earlier}
    BY <1>c, <1>p, <2>1, Zenon DEF Only
  <2> QED BY <1>c, <1>a, <1>8, <2>2, Zenon DEF Only
<1>10. ASSUME ~overlap' PROVE KeptPath'
  <2>0. KeptPath /\ KeptClock
    BY <1>10, Zenon DEF IInv, Kept
  <2>1. Before(n) \subseteq acquireDependencies(n)
    BY <1>c, <2>0, AcquireKept, Zenon
  <2>2. \A u \in Threads : truth'[u] \subseteq past'[u]
    BY <1>p, <2>0, <2>1, OmpDepsAssumption, Zenon DEF KeptPath
  <2> QED BY <1>a, <2>0, <2>2, Zenon DEF KeptPath
<1> QED BY <1>1, <1>2, <1>3, <1>4, <1>5, <1>6, <1>8, <1>9, <1>10, Zenon DEF IInv, Control, Kept

\* completeTask: the arcs of the task are still to be drawn.
LEMMA CompleteKeeps ==
  ASSUME IInv, NEW n \in Tasks, completeTask(n)
  PROVE  IInv'
<1> USE DEF completeTask
<1>c. Control /\ Only
  BY Zenon DEF IInv
<1>t. on[n] \in Threads /\ \A m \in Tasks : at[m] \in {"running", "ending"} /\ on[m] = on[n] => m = n
  BY <1>c, Zenon DEF Control, Running
<1>w. <<n, "body">> \in Work /\ <<n, "body">> # Earlier
  BY OmpDepsAssumption, Zenon DEF Work, Earlier, Tasks
<1>a. /\ at[n] = "running" /\ at'[n] = "ending"
      /\ \A m \in Tasks : m # n => at'[m] = at[m] /\ arc'[m] = arc[m] /\ ended'[m] = ended[m]
  BY <1>c, Zenon DEF Control, TypeOK
<1>p. /\ past'[on[n]] = past[on[n]] \cup {<<n, "body">>}
      /\ truth'[on[n]] = truth[on[n]] \cup {<<n, "body">>}
      /\ \A u \in Threads : u # on[n] => past'[u] = past[u] /\ truth'[u] = truth[u]
      /\ ended'[n] = truth'[on[n]]
  BY <1>c, <1>t, Zenon DEF Control, TypeOK
<1>r. \A v \in Vars : arc'[n][v] = IF dep[n][v] = "none" THEN "no" ELSE "todo"
  BY <1>c, Zenon DEF Control, TypeOK
<1>o. \A m \in Tasks : Over(m)' <=> Over(m) \/ m = n
  BY <1>a, Zenon DEF Over
<1>e. \A m \in Tasks, v \in Vars : \A p \in Ptr : Ends(m, v, p)' => Ends(m, v, p) \/ (m = n /\ arc'[n][v] = "todo")
  <2>1. \A v \in Vars : dep[n][v] = "none" => AnnotateEnd(dep[n][v]) \notin Ptr
    BY Pointers, Zenon
  <2> QED BY <1>r, <1>o, <2>1, Zenon DEF Ends
<1>f. ~Over(n) /\ \A m \in Tasks, v \in Vars : \A p \in Ptr : Ends(m, v, p) => Ends(m, v, p)' /\ m # n
  BY <1>a, <1>o, Zenon DEF Ends, Over
<1>1. TypeOK'
  <2>1. past' \in [Threads -> SUBSET Work] /\ truth' \in [Threads -> SUBSET Work]
    BY <1>c, <1>w DEF Control, TypeOK
  <2>2. truth'[on[n]] \in SUBSET Work
    BY <1>t, <2>1, Zenon
  <2>3. ended' \in [Tasks -> SUBSET Work]
    BY <1>c, <2>2, Zenon DEF Control, TypeOK
  <2>4. arc' \in [Tasks -> [Vars -> ArcStep]]
    BY <1>c, Zenon DEF Control, TypeOK, ArcStep
  <2> QED BY <1>c, <2>1, <2>3, <2>4, Zenon DEF Control, TypeOK, Place
<1>2. Sequenced'
  <2>1. \A m \in Tasks : at[m] = "created" => on[n] # Generator
    BY <1>c, <1>a, Zenon DEF Control, Sequenced
  <2>2. \A m \in Tasks : at[m] = "created" => truth'[Generator] = truth[Generator]
    BY <1>p, <2>1, OmpDepsAssumption, Zenon
  <2> QED BY <1>c, <1>a, <2>1, <2>2 DEF Control, Sequenced
<1>3. Ordered'
  <2>1. \A k \in Tasks : Predecessors(k)' = Predecessors(k) /\ Predecessors(k) \subseteq Tasks
    BY Zenon DEF Predecessors
  <2> QED BY <1>c, <1>a, <2>1 DEF Control, Ordered
<1>4. Running'
  <2>1. \A m \in Tasks : at'[m] \in {"running", "ending"} => at[m] \in {"running", "ending"}
    BY <1>a, Zenon
  <2>2. \A m \in Tasks : at'[m] \in {"running", "ending"} /\ m # n => on[m] # on[n]
    BY <1>t, <2>1, Zenon
  <2>3. \A m \in Tasks : at'[m] = "ending" => ended'[m] = truth'[on[m]]
    <3> SUFFICES ASSUME NEW m \in Tasks, at'[m] = "ending", m # n PROVE ended'[m] = truth'[on[m]]
      BY <1>p, Zenon
    <3>1. at[m] = "ending" /\ ended'[m] = ended[m] /\ on[m] # on[n]
      BY <1>a, <2>2, Zenon
    <3>2. on[m] \in Threads /\ ended[m] = truth[on[m]]
      BY <1>c, <3>1, Zenon DEF Control, Running
    <3> QED BY <1>p, <3>1, <3>2, Zenon
  <2> QED BY <1>c, <2>1, <2>3, Zenon DEF Control, Running
<1>5. Mapped' /\ Drawing'
  BY <1>c, <1>a, <1>r DEF Control, Mapped, Drawing
<1>6. Unended'
  <2>1. \A u \in Threads : Earlier \notin truth'[u]
    BY <1>c, <1>t, <1>w, <1>p, Zenon DEF Control, Unended
  <2>2. \A m \in Tasks : Earlier \notin ended'[m]
    BY <1>c, <1>t, <1>a, <1>p, <2>1 DEF Control, Unended
  <2>3. \A m \in Tasks : ~Over(m)' => ended'[m] = {}
    BY <1>c, <1>a, <1>o, Zenon DEF Control, Unended
  <2> QED BY <1>c, <2>1, <2>2, <2>3, Zenon DEF Control, Unended
<1>7. Only'
  <2>1. \A u \in Threads : past'[u] \subseteq truth'[u] \cup {Earlier}
    BY <1>c, <1>t, <1>p, Zenon DEF Only
  <2>2. \A m \in Tasks : ended[m] \subseteq ended'[m]
    BY <1>c, <1>a, Zenon DEF Control, Unended, Over
  <2>3. \A v \in Vars, p \in Ptr : \A w \in clock'[v][p] :
          w = Earlier \/ \E m \in Tasks : Ends(m, v, p)' /\ w \in ended'[m]
    BY <1>c, <1>f, <2>2, Zenon DEF Only
  <2> QED BY <1>c, <1>a, <2>1, <2>3, Zenon DEF Only
<1>8. ASSUME ~overlap' PROVE Kept'
  <2>0. KeptPath /\ KeptClock /\ Alone /\ FreshUnused
    BY <1>8, Zenon DEF IInv, Kept
  <2>1. KeptPath'
    BY <1>t, <1>a, <1>p, <2>0, Zenon DEF KeptPath
  <2>2. KeptClock'
    <3> SUFFICES ASSUME NEW m \in Tasks, NEW v \in Vars, NEW p \in Ptr, Ends(m, v, p)', arc'[m][v] = "no"
                 PROVE  ended'[m] \subseteq clock[v][p]
      BY Zenon DEF KeptClock
    <3>1. Ends(m, v, p)
      BY <1>e, Zenon
    <3>2. m # n
      BY <1>f, <3>1, Zenon
    <3>3. arc[m][v] = "no" /\ ended'[m] = ended[m]
      BY <1>a, <3>2, Zenon
    <3>4. ended[m] \subseteq clock[v][p]
      BY <2>0, <3>1, <3>3, Zenon DEF KeptClock
    <3> QED BY <3>3, <3>4, Zenon
  <2>3. Alone'
    <3> SUFFICES ASSUME NEW k \in Tasks, NEW v \in Vars, arc'[k][v] \in {"claim", "copy"},
                        NEW m \in Tasks, m # k, Ends(m, v, AnnotateEnd(dep[k][v]))'
                 PROVE  arc'[m][v] = "todo" \/ ended'[m] = {}
      BY Zenon DEF Alone
    <3>1. k # n /\ arc[k][v] \in {"claim", "copy"}
      BY <1>a, <1>r
    <3>2. dep[k][v] \in DependenceType /\ AnnotateEnd(dep[k][v]) \in Ptr
      <4>1. dep[k][v] # "none" /\ dep[k][v] \in DependenceType \cup {"none"}
        BY <1>c, <3>1 DEF Control, TypeOK, Drawing
      <4> QED BY <4>1, Pointers, Zenon
    <3>3. Ends(m, v, AnnotateEnd(dep[k][v]))'
      BY Zenon
    <3>4. Ends(m, v, AnnotateEnd(dep[k][v])) \/ (m = n /\ arc'[n][v] = "todo")
      BY <1>e, <3>2, <3>3, Zenon DEF Ends
    <3>5. CASE Ends(m, v, AnnotateEnd(dep[k][v]))
      <4>1. m # n
        BY <1>f, <3>2, <3>5, Zenon
      <4>2. arc[m][v] = "todo" \/ ended[m] = {}
        BY <2>0, <3>1, <3>5, Zenon DEF Alone
      <4> QED BY <1>a, <4>1, <4>2, Zenon
    <3> QED BY <3>4, <3>5, Zenon
  <2>4. FreshUnused'
    <3> SUFFICES ASSUME NEW v \in Vars, NEW p \in fresh[v], NEW m \in Tasks, Ends(m, v, p)'
                 PROVE  arc'[m][v] \in {"todo", "claim"} \/ ended'[m] = {}
      BY Zenon DEF FreshUnused
    <3>1. p \in Ptr
      BY <1>c, Zenon DEF Control, TypeOK
    <3>2. CASE Ends(m, v, p)
      <4>1. m # n
        BY <1>f, <3>1, <3>2, Zenon
      <4>2. arc[m][v] \in {"todo", "claim"} \/ ended[m] = {}
        BY <2>0, <3>2, Zenon DEF FreshUnused
      <4> QED BY <1>a, <4>1, <4>2, Zenon
    <3>3. Ends(m, v, p) \/ (m = n /\ arc'[n][v] = "todo")
      BY <1>e, <3>1, Zenon
    <3> QED BY <3>2, <3>3, Zenon
  <2> QED BY <2>1, <2>2, <2>3, <2>4, Zenon DEF Kept
<1> QED BY <1>1, <1>2, <1>3, <1>4, <1>5, <1>6, <1>7, <1>8, Zenon DEF IInv, Control

\* CheckArc: a task that finds the sync clock fresh is alone with it, unless the
\* step is recorded as an overlap.
LEMMA CheckKeeps ==
  ASSUME IInv, NEW n \in Tasks, NEW v \in Vars, CheckArc(n, v)
  PROVE  IInv'
<1> USE DEF CheckArc
<1>c. Control /\ Only
  BY Zenon DEF IInv
<1>a. /\ arc[n][v] = "todo" /\ arc'[n][v] = IF AnnotateEnd(dep[n][v]) \in fresh[v] THEN "claim" ELSE "max"
      /\ \A m \in Tasks, x \in Vars : m # n \/ x # v => arc'[m][x] = arc[m][x]
  BY <1>c, Zenon DEF Control, TypeOK
<1>b. at[n] = "ending" /\ dep[n][v] # "none"
  BY <1>c, <1>a, Zenon DEF Control, Drawing
<1>e. \A m \in Tasks : \A x, p : Ends(m, x, p)' <=> Ends(m, x, p)
  BY Zenon DEF Ends, Over
<1>1. TypeOK'
  <2>1. arc' \in [Tasks -> [Vars -> ArcStep]]
    BY <1>c, Zenon DEF Control, TypeOK, ArcStep
  <2>2. overlap' \in BOOLEAN
    BY Zenon
  <2> QED BY <1>c, <2>1, <2>2, Zenon DEF Control, TypeOK
<1>2. Sequenced' /\ Ordered' /\ Running' /\ Mapped'
  BY <1>c DEF Control, Sequenced, Ordered, Running, Mapped, Predecessors
<1>3. Drawing'
  BY <1>c, <1>a, <1>b DEF Control, Drawing
<1>4. Unended' /\ Only'
  BY <1>c, <1>e, Zenon DEF Control, Unended, Only, Over
<1>5. ASSUME ~overlap' PROVE Kept'
  <2>0. ~overlap /\ ~Found(n, v)
    BY <1>5, Zenon
  <2>k. KeptPath /\ KeptClock /\ Alone /\ FreshUnused
    BY <2>0, Zenon DEF IInv, Kept
  <2>1. KeptPath'
    BY <2>k, Zenon DEF KeptPath
  <2>2. KeptClock'
    BY <1>a, <1>e, <2>k DEF KeptClock
  <2>3. Alone'
    <3> SUFFICES ASSUME NEW k \in Tasks, NEW x \in Vars, arc'[k][x] \in {"claim", "copy"},
                        NEW m \in Tasks, m # k, Ends(m, x, AnnotateEnd(dep[k][x]))
                 PROVE  arc'[m][x] = "todo" \/ ended[m] = {}
      BY <1>e, Zenon DEF Alone
    <3>1. CASE k = n /\ x = v
      <4>1. AnnotateEnd(dep[n][v]) \in fresh[v]
        BY <1>a, <3>1
      <4>2. arc[m][v] \in {"todo", "claim"} \/ ended[m] = {}
        BY <2>k, <3>1, <4>1, Zenon DEF FreshUnused
      <4>3. arc[m][v] # "claim"
        BY <2>0, <3>1, Zenon DEF Found, Ends
      <4> QED BY <1>a, <3>1, <4>2, <4>3
    <3>2. CASE m = n /\ x = v
      <4>1. arc[k][v] \in {"claim", "copy"} /\ AnnotateEnd(dep[n][v]) = AnnotateEnd(dep[k][v])
        BY <1>a, <3>2 DEF Ends
      <4> QED BY <2>0, <3>2, <4>1, Zenon DEF Found
    <3>3. CASE x # v \/ (k # n /\ m # n)
      BY <1>a, <2>k, <3>3 DEF Alone
    <3> QED BY <3>1, <3>2, <3>3, Zenon
  <2>4. FreshUnused'
    <3> SUFFICES ASSUME NEW x \in Vars, NEW p \in fresh[x], NEW m \in Tasks, Ends(m, x, p)
                 PROVE  arc'[m][x] \in {"todo", "claim"} \/ ended[m] = {}
      BY <1>e, Zenon DEF FreshUnused
    <3>1. CASE m = n /\ x = v
      BY <1>a, <3>1, Zenon DEF Ends
    <3>2. CASE m # n \/ x # v
      BY <1>a, <2>k, <3>2, Zenon DEF FreshUnused
    <3> QED BY <3>1, <3>2, Zenon
  <2> QED BY <2>1, <2>2, <2>3, <2>4, Zenon DEF Kept
<1> QED BY <1>1, <1>2, <1>3, <1>4, <1>5, Zenon DEF IInv, Control

\* The claim.
LEMMA ClaimKeeps ==
  ASSUME IInv, NEW n \in Tasks, NEW v \in Vars, ClaimArc(n, v)
  PROVE  IInv'
<1> USE DEF ClaimArc
<1>c. Control /\ Only
  BY Zenon DEF IInv
<1>a. /\ arc[n][v] = "claim" /\ arc'[n][v] = "copy"
      /\ \A m \in Tasks, x \in Vars : m # n \/ x # v => arc'[m][x] = arc[m][x]
  BY <1>c, Zenon DEF Control, TypeOK
<1>b. at[n] = "ending" /\ dep[n][v] # "none"
  BY <1>c, <1>a, Zenon DEF Control, Drawing
<1>f. AnnotateEnd(dep[n][v]) \notin fresh'[v] /\ \A x \in Vars : fresh'[x] \subseteq fresh[x]
  BY <1>c, Zenon DEF Control, TypeOK
<1>e. \A m \in Tasks : \A x, p : Ends(m, x, p)' <=> Ends(m, x, p)
  BY Zenon DEF Ends, Over
<1>1. TypeOK'
  <2>1. arc' \in [Tasks -> [Vars -> ArcStep]]
    BY <1>c, Zenon DEF Control, TypeOK, ArcStep
  <2>2. fresh' \in [Vars -> SUBSET Ptr]
    BY <1>c, Zenon DEF Control, TypeOK
  <2> QED BY <1>c, <2>1, <2>2, Zenon DEF Control, TypeOK
<1>2. Sequenced' /\ Ordered' /\ Running' /\ Mapped'
  BY <1>c DEF Control, Sequenced, Ordered, Running, Mapped, Predecessors
<1>3. Drawing'
  BY <1>c, <1>a, <1>b DEF Control, Drawing
<1>4. Unended' /\ Only'
  BY <1>c, <1>e, Zenon DEF Control, Unended, Only, Over
<1>5. ASSUME ~overlap' PROVE Kept'
  <2>k. KeptPath /\ KeptClock /\ Alone /\ FreshUnused
    BY <1>5, Zenon DEF IInv, Kept
  <2>1. KeptPath'
    BY <2>k, Zenon DEF KeptPath
  <2>2. KeptClock'
    BY <1>a, <1>e, <2>k DEF KeptClock
  <2>3. Alone'
    <3> SUFFICES ASSUME NEW k \in Tasks, NEW x \in Vars, arc'[k][x] \in {"claim", "copy"},
                        NEW m \in Tasks, m # k, Ends(m, x, AnnotateEnd(dep[k][x]))
                 PROVE  arc'[m][x] = "todo" \/ ended[m] = {}
      BY <1>e, Zenon DEF Alone
    <3>1. arc[k][x] \in {"claim", "copy"}
      BY <1>a, Zenon
    <3>2. arc[m][x] = "todo" \/ ended[m] = {}
      BY <2>k, <3>1, Zenon DEF Alone
    <3> QED BY <1>a, <3>2, Zenon
  <2>4. FreshUnused'
    <3> SUFFICES ASSUME NEW x \in Vars, NEW p \in fresh'[x], NEW m \in Tasks, Ends(m, x, p)
                 PROVE  arc'[m][x] \in {"todo", "claim"} \/ ended[m] = {}
      BY <1>e, Zenon DEF FreshUnused
    <3>1. m # n \/ x # v
      BY <1>f, Zenon DEF Ends
    <3> QED BY <1>a, <1>f, <2>k, <3>1, Zenon DEF FreshUnused
  <2> QED BY <2>1, <2>2, <2>3, <2>4, Zenon DEF Kept
<1> QED BY <1>1, <1>2, <1>3, <1>4, <1>5, Zenon DEF IInv, Control

\* The store: a copy goes to a clock that nobody has stored to.
LEMMA StoreKeeps ==
  ASSUME IInv, NEW n \in Tasks, NEW v \in Vars, StoreArc(n, v)
  PROVE  IInv'
<1> DEFINE q == AnnotateEnd(dep[n][v])
<1> USE DEF StoreArc
<1>c. Control /\ Only
  BY Zenon DEF IInv
<1>a. /\ arc[n][v] \in {"copy", "max"} /\ arc'[n][v] = "no"
      /\ \A m \in Tasks, x \in Vars : m # n \/ x # v => arc'[m][x] = arc[m][x]
  BY <1>c, Zenon DEF Control, TypeOK
<1>b. at[n] = "ending" /\ dep[n][v] # "none" /\ q \in Ptr
  <2>1. at[n] = "ending" /\ dep[n][v] # "none" /\ dep[n][v] \in DependenceType \cup {"none"}
    BY <1>c, <1>a DEF Control, Drawing, TypeOK
  <2> QED BY <2>1, Pointers, Zenon
<1>t. on[n] \in Threads /\ ended[n] = truth[on[n]] /\ past[on[n]] \subseteq ended[n] \cup {Earlier}
  BY <1>c, <1>b, Zenon DEF Control, Running, Only
<1>s. /\ clock'[v][q] = IF arc[n][v] = "copy" THEN past[on[n]] ELSE clock[v][q] \cup past[on[n]]
      /\ \A x \in Vars, p \in Ptr : x # v \/ p # q => clock'[x][p] = clock[x][p]
  BY <1>c, <1>b, Zenon DEF Control, TypeOK
<1>e. \A m \in Tasks : \A x, p : Ends(m, x, p)' <=> Ends(m, x, p)
  BY Zenon DEF Ends, Over
<1>n. Ends(n, v, q)
  BY <1>b, Zenon DEF Ends, Over
<1>1. TypeOK'
  <2>1. arc' \in [Tasks -> [Vars -> ArcStep]]
    BY <1>c, Zenon DEF Control, TypeOK, ArcStep
  <2>2. past[on[n]] \in SUBSET Work
    BY <1>c, <1>t, Zenon DEF Control, TypeOK
  <2>3. clock' \in [Vars -> [Ptr -> SUBSET Work]]
    BY <1>c, <1>b, <2>2 DEF Control, TypeOK
  <2> QED BY <1>c, <2>1, <2>3, Zenon DEF Control, TypeOK
<1>2. Sequenced' /\ Ordered' /\ Running' /\ Mapped'
  BY <1>c DEF Control, Sequenced, Ordered, Running, Mapped, Predecessors
<1>3. Drawing'
  BY <1>c, <1>a DEF Control, Drawing
<1>4. Unended'
  BY <1>c, Zenon DEF Control, Unended, Over
<1> HIDE DEF q
<1>5. Only'
  <2> SUFFICES ASSUME NEW x \in Vars, NEW p \in Ptr, NEW w \in clock'[x][p], w # Earlier
               PROVE  \E m \in Tasks : Ends(m, x, p) /\ w \in ended[m]
    BY <1>c, <1>e, Zenon DEF Only
  <2>1. w \in clock[x][p] \/ (x = v /\ p = q /\ w \in past[on[n]])
    BY <1>s
  <2>2. CASE w \in clock[x][p]
    BY <1>c, <2>2, Zenon DEF Only
  <2>3. CASE x = v /\ p = q /\ w \in past[on[n]]
    BY <1>t, <1>n, <2>3, Zenon
  <2> QED BY <2>1, <2>2, <2>3, Zenon
<1>6. ASSUME ~overlap' PROVE Kept'
  <2>k. KeptPath /\ KeptClock /\ Alone /\ FreshUnused
    BY <1>6, Zenon DEF IInv, Kept
  <2>1. KeptPath'
    BY <2>k, Zenon DEF KeptPath
  <2>2. KeptClock'
    <3> SUFFICES ASSUME NEW m \in Tasks, NEW x \in Vars, NEW p \in Ptr, Ends(m, x, p), arc'[m][x] = "no"
                 PROVE  ended[m] \subseteq clock'[x][p]
      BY <1>e, Zenon DEF KeptClock
    <3>1. CASE m = n /\ x = v
      <4>1. p = q
        BY <3>1, Zenon DEF Ends, q
      <4>2. ended[n] \subseteq past[on[n]]
        BY <1>t, <2>k, Zenon DEF KeptPath
      <4> QED BY <1>s, <3>1, <4>1, <4>2
    <3>2. CASE x # v \/ p # q
      <4>1. m # n \/ x # v
        BY <3>2, Zenon DEF Ends, q
      <4> QED BY <1>a, <1>s, <2>k, <3>2, <4>1 DEF KeptClock
    <3>3. CASE m # n /\ x = v /\ p = q
      <4>1. arc[m][v] = "no"
        BY <1>a, <3>3, Zenon
      <4>2. ended[m] \subseteq clock[v][q]
        BY <1>b, <2>k, <3>3, <4>1, Zenon DEF KeptClock
      <4>3. arc[n][v] = "copy" => ended[m] = {}
        BY <2>k, <3>3, <4>1, Zenon DEF Alone, q
      <4> QED BY <1>a, <1>s, <3>3, <4>2, <4>3
    <3> QED BY <3>1, <3>2, <3>3, Zenon
  <2>3. Alone'
    <3> SUFFICES ASSUME NEW k \in Tasks, NEW x \in Vars, arc'[k][x] \in {"claim", "copy"},
                        NEW m \in Tasks, m # k, Ends(m, x, AnnotateEnd(dep[k][x]))
                 PROVE  arc'[m][x] = "todo" \/ ended[m] = {}
      BY <1>e, Zenon DEF Alone
    <3>1. arc[k][x] \in {"claim", "copy"}
      BY <1>a, Zenon
    <3>2. arc[m][x] = "todo" \/ ended[m] = {}
      BY <2>k, <3>1, Zenon DEF Alone
    <3> QED BY <1>a, <3>2, Zenon
  <2>4. FreshUnused'
    <3> SUFFICES ASSUME NEW x \in Vars, NEW p \in fresh[x], NEW m \in Tasks, Ends(m, x, p)
                 PROVE  arc'[m][x] \in {"todo", "claim"} \/ ended[m] = {}
      BY <1>e, Zenon DEF FreshUnused
    <3>1. arc[m][x] \in {"todo", "claim"} \/ ended[m] = {}
      BY <2>k, Zenon DEF FreshUnused
    <3> QED BY <1>a, <3>1, Zenon
  <2> QED BY <2>1, <2>2, <2>3, <2>4, Zenon DEF Kept
<1> QED BY <1>1, <1>2, <1>3, <1>4, <1>5, <1>6, Zenon DEF IInv, Control

\* The callback of a task that has drawn its arcs returns.
LEMMA EndedKeeps ==
  ASSUME IInv, NEW n \in Tasks, TaskEnded(n)
  PROVE  IInv'
<1> USE DEF TaskEnded
<1>c. Control /\ Only
  BY Zenon DEF IInv
<1>a. at[n] = "ending" /\ at'[n] = "done" /\ \A m \in Tasks : m # n => at'[m] = at[m]
  BY <1>c, Zenon DEF Control, TypeOK
<1>o. \A m \in Tasks : Over(m)' <=> Over(m)
  BY <1>a, Zenon DEF Over
<1>e. \A m \in Tasks : \A x, p : Ends(m, x, p)' <=> Ends(m, x, p)
  BY <1>o, Zenon DEF Ends
<1>1. TypeOK'
  BY <1>c, Zenon DEF Control, TypeOK, Place
<1>2. Sequenced'
  BY <1>c, <1>a DEF Control, Sequenced
<1>3. Ordered'
  <2>1. \A k \in Tasks : Predecessors(k)' = Predecessors(k) /\ Predecessors(k) \subseteq Tasks
    BY Zenon DEF Predecessors
  <2> QED BY <1>c, <1>a, <2>1 DEF Control, Ordered
<1>4. Running' /\ Mapped'
  BY <1>c, <1>a DEF Control, Running, Mapped
<1>5. Drawing'
  BY <1>c, <1>a DEF Control, Drawing
<1>6. Unended'
  BY <1>c, <1>o, Zenon DEF Control, Unended
<1>7. /\ ~overlap' => KeptClock' /\ Alone' /\ FreshUnused'
      /\ \A v \in Vars, p \in Ptr : \A w \in clock'[v][p] :
           w = Earlier \/ \E m \in Tasks : Ends(m, v, p)' /\ w \in ended'[m]
  BY <1>e, ClocksKept, Zenon
<1>8. Only'
  BY <1>c, <1>a, <1>7, Zenon DEF Only
<1>9. ASSUME ~overlap' PROVE KeptPath'
  <2>1. KeptPath
    BY <1>9, Zenon DEF IInv, Kept
  <2> QED BY <1>a, <2>1, Zenon DEF KeptPath
<1> QED BY <1>1, <1>2, <1>3, <1>4, <1>5, <1>6, <1>7, <1>8, <1>9, Zenon DEF IInv, Control, Kept

-----------------------------------------------------------------------------
\* It holds whatever the generating task and the threads do.
LEMMA InvInductive == Spec => []IInv
<1>1. ASSUME IInv, [Next]_vars PROVE IInv'
  <2>1. CASE UNCHANGED vars
    <3>0. IInv
      BY <1>1, Zenon
    <3>a. TypeOK' /\ Sequenced' /\ Running' /\ Mapped' /\ Drawing'
      BY <3>0, <2>1 DEF IInv, Control, vars, TypeOK, Sequenced, Running, Mapped, Drawing
    <3>b. Ordered' /\ Unended'
      BY <3>0, <2>1, Zenon DEF IInv, Control, vars, Ordered, Predecessors, Unended, Over
    <3>1. Control'
      BY <3>a, <3>b, Zenon DEF Control
    <3>c. Only'
      BY <3>0, <2>1, Zenon DEF IInv, vars, Only, Ends, Over
    <3>d. ASSUME ~overlap' PROVE Kept'
      <4>1. Kept
        BY <3>0, <3>d, <2>1, Zenon DEF IInv, vars
      <4>2. KeptPath' /\ KeptClock'
        BY <4>1, <2>1, Zenon DEF vars, Kept, KeptPath, KeptClock, Ends, Over
      <4>3. Alone' /\ FreshUnused'
        BY <4>1, <2>1, Zenon DEF vars, Kept, Alone, FreshUnused, Ends, Over
      <4> QED BY <4>2, <4>3, Zenon DEF Kept
    <3>2. Only' /\ (~overlap' => Kept')
      BY <3>c, <3>d, Zenon
    <3> QED BY <3>1, <3>2, Zenon DEF IInv
  <2>2. ASSUME NEW n \in Tasks, ompt_tsan_task_create(n) PROVE IInv'
    BY <1>1, <2>2, CreateKeeps, Zenon
  <2>3. ASSUME NEW n \in Tasks, NEW d \in [Vars -> DependenceType \cup {"none"}],
               NEW used \in SUBSET Ptr, NEW old \in SUBSET {Earlier}, ompt_tsan_dependences(n, d, used, old)
        PROVE  IInv'
    BY <1>1, <2>3, DependencesKeeps, Zenon
  <2>4. ASSUME NEW n \in Tasks, NEW t \in Threads, startTask(n, t) PROVE IInv'
    BY <1>1, <2>4, StartKeeps, Zenon
  <2>5. ASSUME NEW n \in Tasks, completeTask(n) PROVE IInv'
    BY <1>1, <2>5, CompleteKeeps, Zenon
  <2>6. ASSUME NEW n \in Tasks, taskwait_complete(n) PROVE IInv'
    BY <1>1, <2>6, TaskwaitKeeps, Zenon
  <2>7. ASSUME NEW n \in Tasks, NEW v \in Vars, CheckArc(n, v) \/ ClaimArc(n, v) \/ StoreArc(n, v) PROVE IInv'
    BY <1>1, <2>7, CheckKeeps, ClaimKeeps, StoreKeeps, Zenon
  <2>8. ASSUME NEW n \in Tasks, TaskEnded(n) PROVE IInv'
    BY <1>1, <2>8, EndedKeeps, Zenon
  <2>9. CASE Finished
    BY <2>1, <2>9, Zenon DEF Finished
  <2> QED BY <1>1, <2>1, <2>2, <2>3, <2>4, <2>5, <2>6, <2>7, <2>8, <2>9, Zenon DEF Next
<1> QED BY <1>1, InitInv, PTL DEF Spec

\* A thread that executes tasks never misses work that creation, dependences or
\* mutual exclusion order before it, unless two calls of OmpHBefore have overlapped
\* on a sync clock that one of them found fresh: the arcs of acquireDependencies
\* and releaseDependencies are complete, and the unlocked copy in OmpHBefore is all
\* that can lose one.
THEOREM DependsKeptHolds == Spec => []DependsKept
<1>1. IInv => DependsKept
  BY Zenon DEF IInv, Kept, KeptPath, DependsKept
<1> QED BY <1>1, InvInductive, PTL

\* No arc of acquireDependencies orders tasks of a generating task that their
\* dependence types leave unordered, however the calls of OmpHBefore overlap.
THEOREM DependsOnlyHolds == Spec => []DependsOnly
<1>1. IInv => DependsOnly
  BY Zenon DEF IInv, Only, DependsOnly
<1> QED BY <1>1, InvInductive, PTL
=============================================================================
