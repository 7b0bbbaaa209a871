------------------------------ MODULE OmpTeam -------------------------------
(***************************************************************************)
(* The arcs of a team of OpenMP threads: the fork, the barriers and the    *)
(* join of its parallel regions (the callbacks parallel_begin,             *)
(* implicit_task, sync_region and parallel_end of ompt-critical.cpp) over  *)
(* the three sync clocks of ParallelData, while the measurement is running.*)
(*                                                                         *)
(* A callback that draws arcs puts the calls it makes into todo[t] and the *)
(* thread works them off, store by store, interleaved with the others; in  *)
(* the build that locks scMutex a call is one step.  site[t] is where the  *)
(* thread is:                                                              *)
(*   "serial"    the primary thread, outside parallel regions              *)
(*   "forking"   the primary, from parallel_begin to its implicit task     *)
(*   "idle"      a worker without an implicit task                         *)
(*   "starting"  in implicit_task begin                                    *)
(*   "work"      in the code of the implicit task                          *)
(*   "barrier"   in an explicit barrier, from its begin callback           *)
(*   "leaving"   in the end callback of an explicit barrier                *)
(*   "join"      in the closing barrier, from its begin callback           *)
(*   "joining"   the primary, in the end callback of the closing barrier   *)
(*   "ending"    between that callback and implicit_task end               *)
(*   "ended"     the primary, until parallel_end                           *)
(***************************************************************************)
EXTENDS SyncClock, FiniteSetsExt

CONSTANTS
  Primary,      \* the thread with ThreadNum 0
  Workers,      \* the other threads of the team
  Barriers,     \* explicit barriers in a region
  Regions,      \* bound: parallel regions
  Locked,       \* UniqLock holds scMutex (the build with DependentMetric)
  PromptStart,  \* does every worker start its task before the primary thread
                \* reaches a barrier?
  Followed,     \* the clocks whose cells are modelled
  Start,        \* startProgrammTime
  MaxTime       \* bound of getTime()

Team == {Primary} \cup Workers

ASSUME OmpTeamAssumption ==
  /\ Primary \notin Workers
  /\ Barriers \in Nat /\ Regions \in Nat
  /\ {Locked, PromptStart} \subseteq BOOLEAN
  /\ Followed \subseteq ArcClock
  /\ Start \in Nat \ {0} /\ MaxTime \in Nat

VARIABLES
  now,           \* getTime()
  region,        \* parallel regions begun
  site,
  entered,       \* entered[t]: barriers entered by t, in all regions
  BarrierIndex,  \* of the TaskData of t
  thread,        \* thread[t]: member thread of the clocks of t
  clk,           \* clk[t]: members proc and critical of the clocks of t
  Barrier,       \* of the ParallelData, which every region gets from the pool
  todo, step, fresh,  \* calls t still has to make, and where it is in the first
  sent,          \* history: sent[n], the clocks brought to the n-th barrier;
                 \* sent[0], those brought to the last fork
  mine           \* history: mine[t], the clocks of t when it last began a callback

vars == <<now, region, site, entered, BarrierIndex, thread, clk, Barrier,
          todo, step, fresh, sent, mine>>

Site == {"serial", "forking", "idle", "starting", "work", "barrier", "leaving",
         "join", "joining", "ending", "ended"}

ArcCall == [op : {"HBefore", "HAfter", "CReset"}, b : 0..2]

LastBarrier == Regions * (Barriers + 1)

TypeOK ==
  /\ now \in Nat /\ region \in 0..Regions
  /\ site \in [Team -> Site]
  /\ entered \in [Team -> Nat]
  /\ BarrierIndex \in [Team -> 0..2]
  /\ thread \in [Team -> Bank] /\ clk \in [Team -> Banks] /\ mine \in [Team -> Banks]
  /\ Barrier \in [0..2 -> syncClock]
  /\ todo \in [Team -> Seq(ArcCall)] /\ step \in [Team -> Nat] /\ fresh \in [Team -> BOOLEAN]
  /\ sent \in [0..LastBarrier -> SUBSET Banks]

-----------------------------------------------------------------------------
\* The state of the clocks at a site (see ThreadClock for the state stack).
StateAt(s) == IF s \in {"serial", "work", "ending"} THEN "USEFUL" ELSE "OMP"

\* Mutant of Go: the arcs' members of the clocks keep their state.
GoThreadOnly(t, s, c) ==
  /\ site' = [site EXCEPT ![t] = s]
  /\ thread' = [thread EXCEPT ![t] = SwitchState(@, StateAt(site[t]), StateAt(s), now)]
  /\ clk' = clk
  /\ mine' = [mine EXCEPT ![t] = clk[t]]
  /\ todo' = [todo EXCEPT ![t] = c]
  /\ UNCHANGED <<now, Barrier, step, fresh>>

\* Thread t goes to site s; enterState or exitState switch its clocks, then
\* the callback makes the calls c.
Go(t, s, c) ==
  LET switched(bank) == SwitchState(bank, StateAt(site[t]), StateAt(s), now)
  IN /\ site' = [site EXCEPT ![t] = s]
     /\ thread' = [thread EXCEPT ![t] = switched(@)]
     /\ clk' = [clk EXCEPT ![t] = [m \in Member |-> switched(@[m])]]
     /\ mine' = [mine EXCEPT ![t] = [m \in Member |-> switched(clk[t][m])]]
     /\ todo' = [todo EXCEPT ![t] = c]
     /\ UNCHANGED <<now, Barrier, step, fresh>>

HBefore(b) == [op |-> "HBefore", b |-> b]
HAfter(b) == [op |-> "HAfter", b |-> b]
CReset(b) == [op |-> "CReset", b |-> b]

At(t, s) == site[t] = s /\ todo[t] = << >>

\* The runtime's barrier n: it releases the threads once all have returned
\* from the begin callback.
Arrived(t, n) ==
  \/ entered[t] > n
  \/ entered[t] = n /\ (site[t] \in {"barrier", "join"} => todo[t] = << >>)

Released(n) == \A u \in Team : Arrived(u, n)

\* GetParallelPtr(): the fork uses Barrier[1].
ParallelPtr == 1

-----------------------------------------------------------------------------
(***************************************************************************)
(* The callbacks.                                                          *)
(***************************************************************************)
Init ==
  /\ now = Start /\ region = 0
  /\ site = [t \in Team |-> IF t = Primary THEN "serial" ELSE "idle"]
  /\ entered = [t \in Team |-> 0] /\ BarrierIndex = [t \in Team |-> 0]
  /\ thread = [t \in Team |-> SwitchState(ZeroBank, "INIT", StateAt(site[t]), Start)]
  /\ clk = [t \in Team |-> [m \in Member |-> thread[t]]]
  /\ mine = clk
  /\ Barrier = [b \in 0..2 |-> FreshSync]
  /\ todo = [t \in Team |-> << >>] /\ step = [t \in Team |-> 0] /\ fresh = [t \in Team |-> FALSE]
  /\ sent = [n \in 0..LastBarrier |-> {}]

Tick ==
  /\ now < MaxTime
  /\ now' = now + 1
  /\ UNCHANGED <<region, site, entered, BarrierIndex, thread, clk, Barrier,
                 todo, step, fresh, sent, mine>>

\* ParallelData::New takes the object the last region gave back; neither New
\* nor Reset touches its sync clocks.
ompt_tsan_parallel_begin ==
  /\ At(Primary, "serial") /\ region < Regions
  /\ region' = region + 1
  /\ Go(Primary, "forking", <<HBefore(ParallelPtr)>>)
  /\ sent' = [sent EXCEPT ![0] = {clk'[Primary]}]
  /\ UNCHANGED <<entered, BarrierIndex>>

ompt_tsan_parallel_end ==
  /\ At(Primary, "ended")
  /\ Go(Primary, "serial", << >>)
  /\ UNCHANGED <<region, entered, BarrierIndex, sent>>

\* The barriers of the current region are those after this many.
BarriersBefore == (region - 1) * (Barriers + 1)

ompt_tsan_implicit_task_begin(t) ==
  /\ \/ t = Primary /\ At(t, "forking")
     \/ /\ t \in Workers /\ At(t, "idle")
        /\ region > 0 /\ entered[t] = BarriersBefore
        /\ site[Primary] # "forking" \/ todo[Primary] = << >>
  /\ Go(t, "starting", <<HAfter(ParallelPtr)>>)
  /\ UNCHANGED <<region, entered, BarrierIndex, sent>>

\* After the arc: TaskData::New and enterState(STATE_USEFUL).
TaskStarted(t) ==
  /\ At(t, "starting")
  /\ BarrierIndex' = [BarrierIndex EXCEPT ![t] = 0]
  /\ Go(t, "work", << >>)
  /\ UNCHANGED <<region, entered, sent>>

HasStarted(w) == site[w] = "work" \/ entered[w] > BarriersBefore

\* Mutant of BarrierArcs: thread 0 resets the clock of the barrier before.
BarrierArcsOffByOne(t, b) ==
  <<HBefore(b)>> \o (IF t = Primary THEN <<CReset((b + 2) % 3)>> ELSE << >>)

\* Every thread draws its arc to the barrier; thread 0 also prepares the
\* sync clock of the next one.
BarrierArcs(t, b) ==
  <<HBefore(b)>> \o (IF t = Primary THEN <<CReset((b + 1) % 3)>> ELSE << >>)

ompt_tsan_sync_region_begin(t) ==
  /\ At(t, "work")
  /\ PromptStart /\ t = Primary => \A w \in Workers : HasStarted(w)
  /\ LET n == entered[t] + 1
     IN /\ entered' = [entered EXCEPT ![t] = n]
        /\ Go(t, IF n = BarriersBefore + Barriers + 1 THEN "join" ELSE "barrier",
              BarrierArcs(t, BarrierIndex[t]))
        /\ sent' = [sent EXCEPT ![n] = @ \cup {clk'[t]}]
  /\ UNCHANGED <<region, BarrierIndex>>

NextBarrier(t) == BarrierIndex' = [BarrierIndex EXCEPT ![t] = (@ + 1) % 3]

\* The end of a barrier draws its arc ...
ompt_tsan_sync_region_end(t) ==
  /\ Released(entered[t])
  /\ \/ At(t, "barrier") /\ Go(t, "leaving", <<HAfter(BarrierIndex[t])>>)
     \/ t = Primary /\ At(t, "join") /\ Go(t, "joining", <<HAfter(BarrierIndex[t])>>)
  /\ UNCHANGED <<region, entered, BarrierIndex, sent>>

\* ... and then turns to the next sync clock and leaves the OMP state.
BarrierEnded(t) ==
  /\ \/ At(t, "leaving") /\ Go(t, "work", << >>)
     \/ At(t, "joining") /\ Go(t, "ending", << >>)
  /\ NextBarrier(t)
  /\ UNCHANGED <<region, entered, sent>>

\* A worker gets the end of the closing barrier without parallel_data, maybe
\* only when the next region is forked; it draws no arc.
WorkerJoinEnded(w) ==
  /\ w \in Workers /\ At(w, "join") /\ Released(entered[w])
  /\ Go(w, "ending", << >>)
  /\ NextBarrier(w)
  /\ UNCHANGED <<region, entered, sent>>

ompt_tsan_implicit_task_end(t) ==
  /\ At(t, "ending")
  /\ Go(t, IF t = Primary THEN "ended" ELSE "idle", << >>)
  /\ UNCHANGED <<region, entered, BarrierIndex, sent>>

-----------------------------------------------------------------------------
(***************************************************************************)
(* The calls on a sync clock.                                              *)
(***************************************************************************)
Cells == {c \in Cell : c[2] \in Followed}
Order(call) == SelectSeq(IF call.op = "CReset" THEN ResetOrder ELSE ArcOrder,
                         LAMBDA c : c[2] \in Followed)

Call(t) == Head(todo[t])
IsReset(t) == Call(t).op = "CReset"
Sync(t) == Barrier[Call(t).b]

\* The clocks of the sync clock, and of t, after its call has visited cells.
SyncAfter(t, isFresh, cells) ==
  CASE Call(t).op = "HBefore" -> OmpHBefore(Sync(t).clocks, isFresh, clk[t], cells)
    [] Call(t).op = "HAfter"  -> Sync(t).clocks
    [] Call(t).op = "CReset"  -> OmpCReset(Sync(t).clocks, cells)

ClkAfter(t, cells) ==
  IF Call(t).op = "HAfter" THEN OmpHAfter(Sync(t).clocks, clk[t], cells) ELSE clk[t]

SyncStateAfter(t) ==
  IF IsReset(t) THEN "INIT" ELSE IF IsFresh(Sync(t)) THEN StateAt(site[t]) ELSE Sync(t).sync_state

SetSync(t, sc) == Barrier' = [Barrier EXCEPT ![Call(t).b] = sc]
SetClk(t, c) == clk' = [clk EXCEPT ![t] = c]

Returned(t) ==
  /\ todo' = [todo EXCEPT ![t] = Tail(@)]
  /\ step' = [step EXCEPT ![t] = 0] /\ fresh' = [fresh EXCEPT ![t] = FALSE]

GoOn(t, k) == step' = [step EXCEPT ![t] = k] /\ UNCHANGED todo

Calling(t) ==
  /\ todo[t] # << >>
  /\ UNCHANGED <<now, region, site, entered, BarrierIndex, thread, sent, mine>>

\* With DependentMetric the lock is held from the first to the last access.
LockedCall(t) ==
  /\ Locked /\ Calling(t)
  /\ SetSync(t, [sync_state |-> SyncStateAfter(t),
                 clocks |-> SyncAfter(t, IsFresh(Sync(t)), Cells)])
  /\ SetClk(t, ClkAfter(t, Cells))
  /\ Returned(t)

\* With TimeMetric UniqLock does not lock.  CheckArc reads sync_state ...
CheckArc(t) ==
  /\ ~Locked /\ Calling(t) /\ ~IsReset(t) /\ step[t] = 0
  /\ fresh' = [fresh EXCEPT ![t] = IsFresh(Sync(t))]
  /\ GoOn(t, IF IsFresh(Sync(t)) THEN 1 ELSE 2)
  /\ UNCHANGED <<clk, Barrier>>

\* ... and writes it if the clock is fresh ...
ClaimArc(t) ==
  /\ ~Locked /\ Calling(t) /\ ~IsReset(t) /\ step[t] = 1
  /\ SetSync(t, Claimed(Sync(t), StateAt(site[t])))
  /\ GoOn(t, 2)
  /\ UNCHANGED <<clk, fresh>>

\* Mutant of VisitCell: the arc out of the sync clock assigns, without max.
VisitCellAssigns(t) ==
  /\ ~Locked /\ Calling(t)
  /\ LET order == Order(Call(t))
         k == IF IsReset(t) THEN step[t] + 1 ELSE step[t] - 1
     IN /\ k \in 1..Len(order)
        /\ SetSync(t, [Sync(t) EXCEPT !.clocks = SyncAfter(t, fresh[t], {order[k]})])
        /\ IF Call(t).op = "HAfter"
             THEN SetClk(t, [clk[t] EXCEPT ![order[k][1]][order[k][2]] =
                               Sync(t).clocks[order[k][1]][order[k][2]]])
             ELSE UNCHANGED clk
        /\ IF k = Len(order) /\ ~IsReset(t)
             THEN Returned(t)
             ELSE GoOn(t, step[t] + 1) /\ UNCHANGED fresh

\* ... then the cells are visited one after the other ...
VisitCell(t) ==
  /\ ~Locked /\ Calling(t)
  /\ LET order == Order(Call(t))
         k == IF IsReset(t) THEN step[t] + 1 ELSE step[t] - 1
     IN /\ k \in 1..Len(order)
        /\ SetSync(t, [Sync(t) EXCEPT !.clocks = SyncAfter(t, fresh[t], {order[k]})])
        /\ SetClk(t, ClkAfter(t, {order[k]}))
        /\ IF k = Len(order) /\ ~IsReset(t)
             THEN Returned(t)
             ELSE GoOn(t, step[t] + 1) /\ UNCHANGED fresh

\* ... and OmpCReset writes sync_state last.
ResetState(t) ==
  /\ ~Locked /\ Calling(t) /\ IsReset(t) /\ step[t] = Len(Order(Call(t)))
  /\ SetSync(t, Claimed(Sync(t), "INIT"))
  /\ Returned(t)
  /\ UNCHANGED clk

-----------------------------------------------------------------------------
\* The program is over.
Finished ==
  /\ region = Regions /\ At(Primary, "serial") /\ now = MaxTime
  /\ \A w \in Workers : At(w, "idle")
  /\ UNCHANGED vars

ThreadStep(t) ==
  \/ ompt_tsan_implicit_task_begin(t) \/ TaskStarted(t)
  \/ ompt_tsan_sync_region_begin(t) \/ ompt_tsan_sync_region_end(t)
  \/ BarrierEnded(t) \/ WorkerJoinEnded(t) \/ ompt_tsan_implicit_task_end(t)
  \/ LockedCall(t) \/ CheckArc(t) \/ ClaimArc(t) \/ VisitCell(t) \/ ResetState(t)

Next ==
  \/ Tick \/ Finished
  \/ ompt_tsan_parallel_begin \/ ompt_tsan_parallel_end
  \/ \E t \in Team : ThreadStep(t)

Spec == Init /\ [][Next]_vars

-----------------------------------------------------------------------------
(***************************************************************************)
(* Properties.                                                             *)
(***************************************************************************)
Longest(banks, c) == Max({b[c[1]][c[2]] : b \in banks})

\* A barrier joins the paths of all threads of the team and nothing else: a
\* thread that has drawn the arc at its end is on the longest path any of
\* them brought to this very barrier.  The three sync clocks of a team are
\* reused in turn, from the region before without any reset: no arc is lost
\* by a reset that comes too early and none is left from an earlier barrier.
JoinExact ==
  \A t \in Team : At(t, "leaving") \/ At(t, "joining") =>
    \A c \in Cells : clk[t][c[1]][c[2]] = Longest(sent[entered[t]], c)

\* A fork is an arc from the primary thread to each task of the team: a thread
\* that starts its task is on the longer of its own path and that of the
\* thread that forked, which Barrier[1] carries.
ForkExact ==
  \A t \in Team : At(t, "starting") =>
    \A c \in Cells : clk[t][c[1]][c[2]] = Longest(sent[0] \cup {mine[t]}, c)

\* The time a clock shows.
Shows(bank, i, t) == Elapsed(bank[i], i, StateAt(site[t]), now)

\* Whatever the order of the stores, for USEFUL and OOMP no path of a thread
\* is shorter than its own time or longer than the measured interval: the
\* critical path time of the report is neither below the useful time of a
\* thread nor above the runtime.
PathBounds ==
  \A t \in Team, c \in Cells : c[2] # "OMPI" =>
    /\ Shows(thread[t], c[2], t) \in 0..Shows(clk[t][c[1]], c[2], t)
    /\ Shows(clk[t][c[1]], c[2], t) <= now - Start
=============================================================================
