--------------------------- MODULE OmpTeamProofs ----------------------------
(***************************************************************************)
(* Proofs about OmpTeam for every team, every number of barriers and       *)
(* regions, with and without the lock and with slow workers: type          *)
(* correctness, and the bounds of the paths.                               *)
(***************************************************************************)
EXTENDS OmpTeam, CpClocksProofs

\* The clocks that stand still in the OpenMP runtime.
Still == {"USEFUL", "OOMP"}

\* Arcs are drawn in the OMP state, so that the values that go through a sync
\* clock are those of stopped clocks ...
ArcsInOmp == \A t \in Team : todo[t] # << >> => StateAt(site[t]) = "OMP"

\* ... which never exceed the measured interval.
SyncBounds ==
  \A b \in 0..2, m \in Member, i \in Still : Barrier[b].clocks[m][i] <= now - Start

ClockBounds ==
  \A t \in Team, m \in Member, i \in Still :
    /\ 0 <= Shows(thread[t], i, t)
    /\ Shows(thread[t], i, t) <= Shows(clk[t][m], i, t)
    /\ Shows(clk[t][m], i, t) <= now - Start

\* The inductive invariant.
PInv == TypeOK /\ Start <= now /\ ArcsInOmp /\ SyncBounds /\ ClockBounds

-----------------------------------------------------------------------------
\* The operations on sync clocks yield clocks again.
LEMMA ArcTypes ==
  ASSUME NEW c \in Banks, NEW d \in Banks, NEW f \in BOOLEAN, NEW cells
  PROVE  /\ OmpHBefore(c, f, d, cells) \in Banks
         /\ OmpHAfter(c, d, cells) \in Banks
         /\ OmpCReset(c, cells) \in Banks
BY DEF Banks, Bank, OmpHBefore, OmpHAfter, OmpCReset, maxUpdate

\* Every cell that OmpHBefore, OmpHAfter or OmpCReset leaves behind holds a
\* value it, or its partner, held before, or 0; OmpHAfter lowers none.
LEMMA ArcValues ==
  ASSUME NEW c \in Banks, NEW d \in Banks, NEW f \in BOOLEAN, NEW cells,
         NEW m \in Member, NEW i \in ClockType
  PROVE  /\ OmpHBefore(c, f, d, cells)[m][i] \in {c[m][i], d[m][i]}
         /\ OmpHAfter(c, d, cells)[m][i] \in {c[m][i], d[m][i]}
         /\ OmpHAfter(c, d, cells)[m][i] >= d[m][i]
         /\ OmpCReset(c, cells)[m][i] \in {c[m][i], 0}
BY DEF Banks, Bank, OmpHBefore, OmpHAfter, OmpCReset, maxUpdate

\* Every site of the code has a state.
LEMMA StateAtType == \A s : StateAt(s) \in ClockState
BY DEF StateAt, ClockState

\* In the OMP state a still clock shows its value.
LEMMA ShowsInOmp ==
  ASSUME NEW t, StateAt(site[t]) = "OMP", NEW bank \in Bank, NEW i \in Still
  PROVE  Shows(bank, i, t) = bank[i]
BY DEF Shows, Elapsed, State, Still, Bank, ClockType

-----------------------------------------------------------------------------
\* What a thread's change of site does: the types, and no clock moves.
LEMMA GoStep ==
  ASSUME PInv, NEW t \in Team, NEW s \in Site, NEW c \in Seq(ArcCall), Go(t, s, c),
         c # << >> => StateAt(s) = "OMP"
  PROVE  /\ site' \in [Team -> Site] /\ thread' \in [Team -> Bank]
         /\ clk' \in [Team -> Banks] /\ mine' \in [Team -> Banks]
         /\ todo' \in [Team -> Seq(ArcCall)]
         /\ now' = now /\ Barrier' = Barrier /\ step' = step /\ fresh' = fresh
         /\ ArcsInOmp' /\ SyncBounds' /\ ClockBounds'
<1> DEFINE sw(bank) == SwitchState(bank, StateAt(site[t]), StateAt(s), now)
<1>0. /\ now \in Int /\ site \in [Team -> Site] /\ todo \in [Team -> Seq(ArcCall)]
      /\ thread \in [Team -> Bank] /\ clk \in [Team -> Banks] /\ mine \in [Team -> Banks]
  BY DEF PInv, TypeOK
<1>1. /\ site' = [site EXCEPT ![t] = s]
      /\ thread' = [thread EXCEPT ![t] = sw(thread[t])]
      /\ clk' = [clk EXCEPT ![t] = [m \in Member |-> sw(clk[t][m])]]
      /\ mine' = [mine EXCEPT ![t] = [m \in Member |-> sw(clk[t][m])]]
      /\ todo' = [todo EXCEPT ![t] = c]
      /\ now' = now /\ Barrier' = Barrier /\ step' = step /\ fresh' = fresh
  BY DEF Go
<1>2. /\ \A bank \in Bank : sw(bank) \in Bank
      /\ \A bank \in Bank, i \in ClockType :
           Elapsed(sw(bank)[i], i, StateAt(s), now) = Elapsed(bank[i], i, StateAt(site[t]), now)
  BY <1>0, SwitchType, SwitchKeeps, StateAtType
<1> HIDE DEF sw
<1>3. \A m \in Member : clk[t][m] \in Bank
  BY <1>0 DEF Banks
<1>4. thread[t] \in Bank /\ [m \in Member |-> sw(clk[t][m])] \in Banks
  BY <1>0, <1>2, <1>3 DEF Banks
<1>5. /\ site' \in [Team -> Site] /\ thread' \in [Team -> Bank]
      /\ clk' \in [Team -> Banks] /\ mine' \in [Team -> Banks]
      /\ todo' \in [Team -> Seq(ArcCall)]
  BY <1>0, <1>1, <1>2, <1>4
<1>6. ArcsInOmp'
  BY <1>0, <1>1 DEF PInv, ArcsInOmp
<1>7. SyncBounds'
  BY <1>1 DEF PInv, SyncBounds
<1>8. ClockBounds'
  <2>1. SUFFICES ASSUME NEW u \in Team, NEW m \in Member, NEW i \in Still
                 PROVE  /\ Shows(thread[u], i, u)' = Shows(thread[u], i, u)
                        /\ Shows(clk[u][m], i, u)' = Shows(clk[u][m], i, u)
    BY <1>1 DEF PInv, ClockBounds
  <2>2. CASE u # t
    BY <1>0, <1>1, <2>2 DEF Shows
  <2>3. CASE u = t
    <3>1. i \in ClockType
      BY DEF Still, ClockType
    <3>2. thread'[t] = sw(thread[t]) /\ clk'[t][m] = sw(clk[t][m]) /\ site'[t] = s
      BY <1>0, <1>1
    <3> QED
      BY <1>1, <1>2, <1>3, <1>4, <2>3, <3>1, <3>2 DEF Shows
  <2> QED
    BY <2>2, <2>3
<1> QED
  BY <1>1, <1>5, <1>6, <1>7, <1>8

-----------------------------------------------------------------------------
\* The call a thread is in.
LEMMA CallType ==
  ASSUME PInv, NEW t \in Team, todo[t] # << >>
  PROVE  /\ Call(t) \in ArcCall /\ Sync(t) \in syncClock
         /\ Tail(todo[t]) \in Seq(ArcCall)
         /\ clk[t] \in Banks /\ Sync(t).clocks \in Banks
<1>1. todo[t] \in Seq(ArcCall) /\ clk[t] \in Banks /\ Barrier \in [0..2 -> syncClock]
  BY DEF PInv, TypeOK
<1>2. Head(todo[t]) \in ArcCall /\ Tail(todo[t]) \in Seq(ArcCall)
  BY <1>1
<1>3. Call(t) \in ArcCall /\ Call(t).b \in 0..2
  BY <1>2 DEF Call, ArcCall
<1> QED
  BY <1>1, <1>2, <1>3 DEF Sync, syncClock

\* What a visit leaves in the sync clock and in the thread's clocks.
LEMMA VisitEffect ==
  ASSUME PInv, NEW t \in Team, todo[t] # << >>, NEW f \in BOOLEAN, NEW cells
  PROVE  /\ SyncAfter(t, f, cells) \in Banks /\ ClkAfter(t, cells) \in Banks
         /\ \A m \in Member, i \in Still :
              /\ SyncAfter(t, f, cells)[m][i] <= now - Start
              /\ ClkAfter(t, cells)[m][i] >= clk[t][m][i]
              /\ ClkAfter(t, cells)[m][i] <= now - Start
<1> DEFINE sy == Sync(t).clocks
           hb == OmpHBefore(sy, f, clk[t], cells)
           ha == OmpHAfter(sy, clk[t], cells)
           re == OmpCReset(sy, cells)
<1>1. Call(t) \in ArcCall /\ clk[t] \in Banks /\ sy \in Banks
  BY CallType
<1>2. hb \in Banks /\ ha \in Banks /\ re \in Banks
  BY <1>1, ArcTypes
<1>3. ASSUME NEW m \in Member, NEW i \in Still
      PROVE  /\ hb[m][i] <= now - Start /\ ha[m][i] <= now - Start /\ re[m][i] <= now - Start
             /\ ha[m][i] >= clk[t][m][i]
             /\ clk[t][m][i] <= now - Start /\ sy[m][i] <= now - Start
             /\ clk[t][m][i] \in Int
  <2>1. i \in ClockType
    BY DEF Still, ClockType
  <2>2. /\ hb[m][i] \in {sy[m][i], clk[t][m][i]}
        /\ ha[m][i] \in {sy[m][i], clk[t][m][i]}
        /\ ha[m][i] >= clk[t][m][i]
        /\ re[m][i] \in {sy[m][i], 0}
    BY <1>1, <2>1, ArcValues
  <2>3. clk[t][m] \in Bank /\ StateAt(site[t]) = "OMP"
    BY <1>1 DEF Banks, PInv, ArcsInOmp
  <2>4. Shows(clk[t][m], i, t) = clk[t][m][i]
    BY <2>3, ShowsInOmp
  <2>5. clk[t][m][i] <= now - Start
    BY <2>4 DEF PInv, ClockBounds
  <2>6. Call(t).b \in 0..2
    BY <1>1 DEF ArcCall
  <2>7. sy[m][i] <= now - Start
    BY <2>6 DEF PInv, SyncBounds, Sync
  <2>8. 0 <= now - Start /\ clk[t][m][i] \in Int
    BY <2>1, <2>3, OmpTeamAssumption DEF PInv, TypeOK, Bank
  <2> QED
    BY <2>2, <2>5, <2>7, <2>8
<1>4. SyncAfter(t, f, cells) \in {hb, sy, re}
  BY <1>1 DEF SyncAfter, ArcCall
<1>5. ClkAfter(t, cells) \in {ha, clk[t]}
  BY DEF ClkAfter
<1> HIDE DEF hb, ha, re, sy
<1> QED
  BY <1>1, <1>2, <1>3, <1>4, <1>5

\* A step of a call keeps the invariant if what it stores is within bounds.
LEMMA CallStep ==
  ASSUME PInv, NEW t \in Team, Calling(t),
         NEW sc \in syncClock, SetSync(t, sc),
         \A m \in Member, i \in Still : sc.clocks[m][i] <= now - Start,
         NEW c \in Banks, SetClk(t, c),
         \A m \in Member, i \in Still : c[m][i] >= clk[t][m][i] /\ c[m][i] <= now - Start,
         todo' \in {todo, [todo EXCEPT ![t] = Tail(@)]},
         step' \in [Team -> Nat], fresh' \in [Team -> BOOLEAN]
  PROVE  PInv'
<1>1. /\ Call(t) \in ArcCall /\ Tail(todo[t]) \in Seq(ArcCall) /\ clk[t] \in Banks
      /\ todo[t] # << >>
  BY CallType DEF Calling
<1>2. Call(t).b \in 0..2
  BY <1>1 DEF ArcCall
<1>3. /\ Barrier' = [Barrier EXCEPT ![Call(t).b] = sc] /\ clk' = [clk EXCEPT ![t] = c]
      /\ UNCHANGED <<now, region, site, entered, BarrierIndex, thread, sent, mine>>
  BY DEF SetSync, SetClk, Calling
<1>4. TypeOK
  BY DEF PInv
<1>5. TypeOK'
  BY <1>1, <1>2, <1>3, <1>4 DEF TypeOK
<1>6. Start <= now' /\ SyncBounds'
  BY <1>2, <1>3, <1>4 DEF PInv, SyncBounds, TypeOK
<1>7. ArcsInOmp'
  BY <1>1, <1>3, <1>4 DEF PInv, ArcsInOmp, TypeOK
<1>8. ClockBounds'
  <2>1. SUFFICES ASSUME NEW u \in Team, NEW m \in Member, NEW i \in Still
                 PROVE  /\ 0 <= Shows(thread[u], i, u)'
                        /\ Shows(thread[u], i, u)' <= Shows(clk[u][m], i, u)'
                        /\ Shows(clk[u][m], i, u)' <= now' - Start
    BY DEF ClockBounds
  <2>2. /\ 0 <= Shows(thread[u], i, u)
        /\ Shows(thread[u], i, u) <= Shows(clk[u][m], i, u)
        /\ Shows(clk[u][m], i, u) <= now - Start
    BY DEF PInv, ClockBounds
  <2>3. Shows(thread[u], i, u)' = Shows(thread[u], i, u) /\ now' = now
    BY <1>3 DEF Shows
  <2>4. CASE u # t
    <3>1. Shows(clk[u][m], i, u)' = Shows(clk[u][m], i, u)
      BY <1>3, <1>4, <2>4 DEF Shows, TypeOK
    <3> QED
      BY <2>2, <2>3, <3>1
  <2>5. CASE u = t
    <3>1. StateAt(site[t]) = "OMP" /\ clk[t][m] \in Bank /\ thread[t] \in Bank /\ c[m] \in Bank
      BY <1>1, <1>4 DEF PInv, ArcsInOmp, Banks, TypeOK
    <3>2. Shows(clk[t][m], i, t) = clk[t][m][i] /\ Shows(thread[t], i, t) = thread[t][i]
      BY <3>1, ShowsInOmp
    <3>3. Shows(clk[t][m], i, t)' = Elapsed(c[m][i], i, "OMP", now)
      BY <1>3, <1>4, <3>1 DEF Shows, TypeOK
    <3>4. Elapsed(c[m][i], i, "OMP", now) = c[m][i]
      BY <3>1 DEF Elapsed, State, Still, Bank, ClockType
    <3>i. i \in ClockType
      BY DEF Still, ClockType
    <3>5. /\ clk[t][m][i] \in Int /\ thread[t][i] \in Int /\ c[m][i] \in Int
          /\ now \in Int /\ Start \in Int
      BY <1>4, <3>1, <3>i, OmpTeamAssumption DEF Bank, TypeOK
    <3> QED
      BY <2>2, <2>3, <2>5, <3>2, <3>3, <3>4, <3>5
  <2> QED
    BY <2>4, <2>5
<1> QED
  BY <1>5, <1>6, <1>7, <1>8 DEF PInv

\* The five steps of a call.
LEMMA CallsKeep ==
  ASSUME PInv, NEW t \in Team,
         LockedCall(t) \/ CheckArc(t) \/ ClaimArc(t) \/ VisitCell(t) \/ ResetState(t)
  PROVE  PInv'
<1>0. /\ Calling(t) /\ todo[t] # << >>
  BY DEF LockedCall, CheckArc, ClaimArc, VisitCell, ResetState, Calling
<1>1. /\ TypeOK /\ Call(t) \in ArcCall /\ Sync(t) \in syncClock /\ clk[t] \in Banks
      /\ Sync(t).clocks \in Banks /\ Sync(t).sync_state \in ClockState
      /\ step \in [Team -> Nat] /\ fresh \in [Team -> BOOLEAN] /\ step[t] \in Nat
      /\ fresh[t] \in BOOLEAN
  BY <1>0, CallType DEF PInv, TypeOK, syncClock
<1>2. Call(t).b \in 0..2
  BY <1>1 DEF ArcCall
<1>3. \A m \in Member, i \in Still :
        Sync(t).clocks[m][i] <= now - Start /\ clk[t][m][i] <= now - Start
  <2>1. ASSUME NEW m \in Member, NEW i \in Still
        PROVE  Sync(t).clocks[m][i] <= now - Start /\ clk[t][m][i] <= now - Start
    <3>1. clk[t][m] \in Bank /\ StateAt(site[t]) = "OMP"
      BY <1>0, <1>1 DEF Banks, PInv, ArcsInOmp
    <3>2. Shows(clk[t][m], i, t) = clk[t][m][i]
      BY <3>1, ShowsInOmp
    <3>3. Shows(clk[t][m], i, t) <= now - Start
      BY DEF PInv, ClockBounds
    <3> QED
      BY <1>2, <3>2, <3>3 DEF PInv, SyncBounds, Sync
  <2> QED
    BY <2>1
<1>4. \A m \in Member, i \in Still : clk[t][m][i] >= clk[t][m][i]
  BY <1>1 DEF Banks, Bank, Still, ClockType
<1>5. Returned(t) => /\ todo' \in {todo, [todo EXCEPT ![t] = Tail(@)]}
                     /\ step' \in [Team -> Nat] /\ fresh' \in [Team -> BOOLEAN]
  BY <1>1 DEF Returned
<1>6. SetClk(t, clk[t]) <=> clk' = clk
  BY <1>1 DEF SetClk, TypeOK
<1>7. CASE LockedCall(t)
  <2> DEFINE f == IsFresh(Sync(t))
             sc == [sync_state |-> SyncStateAfter(t), clocks |-> SyncAfter(t, f, Cells)]
             c == ClkAfter(t, Cells)
  <2>1. f \in BOOLEAN
    BY DEF IsFresh
  <2>2. SyncStateAfter(t) \in ClockState
    BY <1>1, StateAtType DEF SyncStateAfter, ClockState
  <2>3. SetSync(t, sc) /\ SetClk(t, c) /\ Returned(t)
    BY <1>7 DEF LockedCall
  <2> HIDE DEF f
  <2>4. /\ SyncAfter(t, f, Cells) \in Banks /\ c \in Banks
        /\ \A m \in Member, i \in Still :
             /\ SyncAfter(t, f, Cells)[m][i] <= now - Start
             /\ c[m][i] >= clk[t][m][i]
             /\ c[m][i] <= now - Start
    BY <1>0, <2>1, VisitEffect
  <2>5. sc \in syncClock /\ sc.clocks = SyncAfter(t, f, Cells)
    BY <2>2, <2>4 DEF syncClock
  <2> HIDE DEF sc, c
  <2> QED
    BY <1>0, <1>5, <2>3, <2>4, <2>5, CallStep
<1>8. CASE CheckArc(t)
  <2>1. SetSync(t, Sync(t)) /\ SetClk(t, clk[t])
    BY <1>1, <1>2, <1>6, <1>8 DEF CheckArc, SetSync, Sync, TypeOK
  <2>2. todo' = todo /\ step' \in [Team -> Nat] /\ fresh' \in [Team -> BOOLEAN]
    BY <1>1, <1>8 DEF CheckArc, GoOn, IsFresh
  <2> QED
    BY <1>0, <1>1, <1>3, <1>4, <2>1, <2>2, CallStep
<1>9. CASE ClaimArc(t) \/ ResetState(t)
  <2>1. PICK cs \in ClockState : SetSync(t, Claimed(Sync(t), cs))
    BY <1>9, StateAtType DEF ClaimArc, ResetState, ClockState
  <2>2. /\ Claimed(Sync(t), cs) \in syncClock
        /\ Claimed(Sync(t), cs).clocks = Sync(t).clocks
    BY <1>1 DEF Claimed, syncClock
  <2>3. SetClk(t, clk[t])
    BY <1>6, <1>9 DEF ClaimArc, ResetState
  <2>4. /\ todo' \in {todo, [todo EXCEPT ![t] = Tail(@)]}
        /\ step' \in [Team -> Nat] /\ fresh' \in [Team -> BOOLEAN]
    BY <1>1, <1>5, <1>9 DEF ClaimArc, ResetState, GoOn
  <2> QED
    BY <1>0, <1>1, <1>3, <1>4, <2>1, <2>2, <2>3, <2>4, CallStep
<1>10. CASE VisitCell(t)
  <2>1. PICK cells :
          /\ SetSync(t, [Sync(t) EXCEPT !.clocks = SyncAfter(t, fresh[t], cells)])
          /\ SetClk(t, ClkAfter(t, cells))
          /\ Returned(t) \/ (GoOn(t, step[t] + 1) /\ fresh' = fresh)
    BY <1>10 DEF VisitCell
  <2> DEFINE sc == [Sync(t) EXCEPT !.clocks = SyncAfter(t, fresh[t], cells)]
             c == ClkAfter(t, cells)
  <2>2. /\ SyncAfter(t, fresh[t], cells) \in Banks /\ c \in Banks
        /\ \A m \in Member, i \in Still :
             /\ SyncAfter(t, fresh[t], cells)[m][i] <= now - Start
             /\ c[m][i] >= clk[t][m][i]
             /\ c[m][i] <= now - Start
    BY <1>0, <1>1, VisitEffect
  <2>3. sc \in syncClock /\ sc.clocks = SyncAfter(t, fresh[t], cells)
    BY <1>1, <2>2 DEF syncClock
  <2>4. /\ todo' \in {todo, [todo EXCEPT ![t] = Tail(@)]}
        /\ step' \in [Team -> Nat] /\ fresh' \in [Team -> BOOLEAN]
    BY <1>1, <1>5, <2>1 DEF GoOn
  <2>5. SetSync(t, sc) /\ SetClk(t, c)
    BY <2>1
  <2> HIDE DEF sc, c
  <2> QED
    BY <1>0, <2>2, <2>3, <2>4, <2>5, CallStep
<1> QED
  BY <1>7, <1>8, <1>9, <1>10

-----------------------------------------------------------------------------
\* A callback keeps the invariant if it changes its thread's site as GoStep
\* says and the counters within their types.
LEMMA CallbackStep ==
  ASSUME PInv, NEW t \in Team, NEW s \in Site, NEW c \in Seq(ArcCall), Go(t, s, c),
         c # << >> => StateAt(s) = "OMP",
         region' \in 0..Regions, entered' \in [Team -> Nat],
         BarrierIndex' \in [Team -> 0..2],
         sent' \in [0..LastBarrier -> SUBSET Banks]
  PROVE  PInv'
<1>1. /\ site' \in [Team -> Site] /\ thread' \in [Team -> Bank]
      /\ clk' \in [Team -> Banks] /\ mine' \in [Team -> Banks]
      /\ todo' \in [Team -> Seq(ArcCall)]
      /\ now' = now /\ Barrier' = Barrier /\ step' = step /\ fresh' = fresh
      /\ ArcsInOmp' /\ SyncBounds' /\ ClockBounds'
  BY GoStep
<1>2. TypeOK'
  BY <1>1 DEF PInv, TypeOK
<1> QED
  BY <1>1, <1>2 DEF PInv

\* The arcs of a callback are calls, and a callback that draws arcs puts its
\* thread into the OMP state.
LEMMA ArcSequences ==
  ASSUME PInv, NEW t \in Team
  PROVE  /\ << >> \in Seq(ArcCall)
         /\ <<HBefore(ParallelPtr)>> \in Seq(ArcCall) /\ <<HAfter(ParallelPtr)>> \in Seq(ArcCall)
         /\ <<HAfter(BarrierIndex[t])>> \in Seq(ArcCall)
         /\ BarrierArcs(t, BarrierIndex[t]) \in Seq(ArcCall)
<1> DEFINE b == BarrierIndex[t]
<1>1. b \in 0..2
  BY DEF PInv, TypeOK
<1>2. (b + 1) % 3 \in 0..2
  BY <1>1
<1>3. /\ HBefore(b) \in ArcCall /\ HAfter(b) \in ArcCall /\ CReset((b + 1) % 3) \in ArcCall
      /\ HBefore(ParallelPtr) \in ArcCall /\ HAfter(ParallelPtr) \in ArcCall
  BY <1>1, <1>2 DEF HBefore, HAfter, CReset, ArcCall, ParallelPtr
<1> DEFINE h == HBefore(b)
           r == CReset((b + 1) % 3)
<1>4. BarrierArcs(t, b) = <<h>> \o (IF t = Primary THEN <<r>> ELSE << >>)
  BY DEF BarrierArcs
<1>5. h \in ArcCall /\ r \in ArcCall
  BY <1>3
<1> HIDE DEF h, r
<1>6. BarrierArcs(t, b) \in Seq(ArcCall)
  BY <1>4, <1>5
<1> QED
  BY <1>3, <1>6

\* A thread's clocks may be noted in the history of a barrier or the fork.
LEMMA SentType ==
  ASSUME NEW N, NEW f \in [N -> SUBSET Banks], NEW x \in Banks, NEW n
  PROVE  /\ [f EXCEPT ![n] = @ \cup {x}] \in [N -> SUBSET Banks]
         /\ [f EXCEPT ![n] = {x}] \in [N -> SUBSET Banks]
<1> DEFINE B == Banks
<1>1. f \in [N -> SUBSET B] /\ x \in B
  OBVIOUS
<1> HIDE DEF B
<1>2. \A k \in N : f[k] \cup {x} \in SUBSET B /\ f[k] \in SUBSET B /\ {x} \in SUBSET B
  BY <1>1
<1>3. /\ [f EXCEPT ![n] = @ \cup {x}] \in [N -> SUBSET B]
      /\ [f EXCEPT ![n] = {x}] \in [N -> SUBSET B]
  BY <1>1, <1>2
<1> QED
  BY <1>3 DEF B

\* The callbacks of one thread.
LEMMA CallbacksKeep ==
  ASSUME PInv, NEW t \in Team,
         \/ ompt_tsan_implicit_task_begin(t) \/ TaskStarted(t)
         \/ ompt_tsan_sync_region_begin(t) \/ ompt_tsan_sync_region_end(t)
         \/ BarrierEnded(t) \/ WorkerJoinEnded(t) \/ ompt_tsan_implicit_task_end(t)
  PROVE  PInv'
<1>0. /\ region \in 0..Regions /\ entered \in [Team -> Nat] /\ BarrierIndex \in [Team -> 0..2]
      /\ sent \in [0..LastBarrier -> SUBSET Banks] /\ BarrierIndex[t] \in 0..2
  BY DEF PInv, TypeOK
<1>1. CASE \/ ompt_tsan_implicit_task_begin(t) \/ ompt_tsan_sync_region_end(t)
           \/ ompt_tsan_implicit_task_end(t)
  <2>1. UNCHANGED <<region, entered, BarrierIndex, sent>>
    BY <1>1 DEF ompt_tsan_implicit_task_begin, ompt_tsan_sync_region_end,
                ompt_tsan_implicit_task_end
  <2>2. PICK s \in Site, c \in Seq(ArcCall) :
          Go(t, s, c) /\ (c # << >> => StateAt(s) = "OMP")
    BY <1>1, ArcSequences DEF ompt_tsan_implicit_task_begin, ompt_tsan_sync_region_end,
                ompt_tsan_implicit_task_end, Site, StateAt
  <2> QED
    BY <1>0, <2>1, <2>2, CallbackStep
<1>2. CASE TaskStarted(t) \/ BarrierEnded(t) \/ WorkerJoinEnded(t)
  <2>1. UNCHANGED <<region, entered, sent>>
    BY <1>2 DEF TaskStarted, BarrierEnded, WorkerJoinEnded
  <2>2. (BarrierIndex[t] + 1) % 3 \in 0..2
    BY <1>0
  <2>3. BarrierIndex' \in [Team -> 0..2]
    BY <1>0, <1>2, <2>2 DEF TaskStarted, BarrierEnded, WorkerJoinEnded, NextBarrier
  <2>4. PICK s \in Site : Go(t, s, << >>)
    BY <1>2 DEF TaskStarted, BarrierEnded, WorkerJoinEnded, Site
  <2> QED
    BY <1>0, <2>1, <2>3, <2>4, ArcSequences, CallbackStep
<1>3. CASE ompt_tsan_sync_region_begin(t)
  <2> DEFINE n == entered[t] + 1
             c == BarrierArcs(t, BarrierIndex[t])
  <2>1. PICK s \in {"join", "barrier"} : Go(t, s, c)
    BY <1>3 DEF ompt_tsan_sync_region_begin
  <2>2. s \in Site /\ StateAt(s) = "OMP"
    BY <2>1 DEF Site, StateAt
  <2>3. c \in Seq(ArcCall)
    BY ArcSequences
  <2>4. clk' \in [Team -> Banks]
    BY <2>1, <2>2, <2>3, GoStep
  <2>5. /\ region' = region /\ BarrierIndex' = BarrierIndex
        /\ entered' = [entered EXCEPT ![t] = n]
        /\ sent' = [sent EXCEPT ![n] = @ \cup {clk'[t]}]
    BY <1>3 DEF ompt_tsan_sync_region_begin
  <2>6. entered' \in [Team -> Nat]
    BY <1>0, <2>5
  <2>7. sent' \in [0..LastBarrier -> SUBSET Banks]
    BY <1>0, <2>4, <2>5, SentType
  <2> HIDE DEF c
  <2> QED
    BY <1>0, <2>1, <2>2, <2>3, <2>5, <2>6, <2>7, CallbackStep
<1> QED
  BY <1>1, <1>2, <1>3

\* Time passes: what a clock shows grows at most as fast.
LEMMA TickKeeps == ASSUME PInv, Tick PROVE PInv'
<1>1. /\ now' = now + 1
      /\ UNCHANGED <<region, site, entered, BarrierIndex, thread, clk, Barrier,
                     todo, step, fresh, sent, mine>>
  BY DEF Tick
<1>2. /\ now \in Nat /\ Start \in Nat /\ TypeOK
  BY OmpTeamAssumption DEF PInv, TypeOK
<1>3. TypeOK' /\ Start <= now' /\ ArcsInOmp'
  BY <1>1, <1>2 DEF PInv, TypeOK, ArcsInOmp
<1>4. SyncBounds'
  <2>1. ASSUME NEW b \in 0..2, NEW m \in Member, NEW i \in Still
        PROVE  Barrier'[b].clocks[m][i] <= now' - Start
    <3>1. Barrier[b].clocks[m][i] <= now - Start
      BY DEF PInv, SyncBounds
    <3>2. Barrier[b].clocks \in Banks /\ i \in ClockType
      BY <1>2 DEF TypeOK, syncClock, Still, ClockType
    <3>3. Barrier[b].clocks[m][i] \in Int
      BY <3>2 DEF Banks, Bank
    <3> QED
      BY <1>1, <1>2, <3>1, <3>3
  <2> QED
    BY <2>1 DEF SyncBounds
<1>5. ClockBounds'
  <2>1. SUFFICES ASSUME NEW t \in Team, NEW m \in Member, NEW i \in Still
                 PROVE  /\ 0 <= Shows(thread[t], i, t)'
                        /\ Shows(thread[t], i, t)' <= Shows(clk[t][m], i, t)'
                        /\ Shows(clk[t][m], i, t)' <= now' - Start
    BY DEF ClockBounds
  <2>2. i \in ClockType /\ thread[t] \in Bank /\ clk[t] \in Banks
    BY <1>2 DEF Still, ClockType, TypeOK
  <2>3. thread[t][i] \in Int /\ clk[t][m][i] \in Int
    BY <2>2 DEF Bank, Banks
  <2> DEFINE r == i \in State[StateAt(site[t])]
             d == IF r THEN 1 ELSE 0
  <2>4. /\ Shows(thread[t], i, t) \in Int /\ Shows(clk[t][m], i, t) \in Int
        /\ Shows(thread[t], i, t)' = Shows(thread[t], i, t) + d
        /\ Shows(clk[t][m], i, t)' = Shows(clk[t][m], i, t) + d
    BY <1>1, <1>2, <2>3 DEF Shows, Elapsed
  <2>5. d \in 0..1
    OBVIOUS
  <2>6. /\ 0 <= Shows(thread[t], i, t)
        /\ Shows(thread[t], i, t) <= Shows(clk[t][m], i, t)
        /\ Shows(clk[t][m], i, t) <= now - Start
    BY DEF PInv, ClockBounds
  <2> HIDE DEF d
  <2> QED
    BY <1>1, <1>2, <2>4, <2>5, <2>6
<1> QED
  BY <1>3, <1>4, <1>5 DEF PInv

\* The initial state: the measurement has just started.
LEMMA InitHolds == ASSUME Init PROVE PInv
<1>1. ZeroBank \in Bank /\ Start \in Int /\ "INIT" \in ClockState
  BY OmpTeamAssumption DEF ZeroBank, Bank, ClockState
<1>2. ASSUME NEW t \in Team PROVE thread[t] \in Bank
  BY <1>1, SwitchType, StateAtType DEF Init
<1>3. thread \in [Team -> Bank] /\ clk \in [Team -> Banks]
  BY <1>2 DEF Init, Banks
<1>4. ZeroBanks \in Banks /\ FreshSync \in syncClock
  BY <1>1 DEF ZeroBanks, Banks, FreshSync, syncClock
<1>5. TypeOK
  BY <1>3, <1>4, OmpTeamAssumption DEF Init, TypeOK, Site
<1>6. ArcsInOmp
  BY DEF Init, ArcsInOmp
<1>7. SyncBounds
  BY <1>1 DEF Init, SyncBounds, FreshSync, ZeroBanks, ZeroBank, Still, ClockType
<1>8. ClockBounds
  <2>1. ASSUME NEW t \in Team, NEW m \in Member, NEW i \in Still
        PROVE  Shows(thread[t], i, t) = 0 /\ Shows(clk[t][m], i, t) = 0
    <3>1. i \in ClockType
      BY DEF Still, ClockType
    <3>2. thread[t] = SwitchState(ZeroBank, "INIT", StateAt(site[t]), Start)
          /\ clk[t][m] = thread[t] /\ now = Start
      BY DEF Init
    <3>3. Elapsed(thread[t][i], i, StateAt(site[t]), Start) = Elapsed(ZeroBank[i], i, "INIT", Start)
      BY <1>1, <3>1, <3>2, SwitchKeeps, StateAtType
    <3>4. Elapsed(ZeroBank[i], i, "INIT", Start) = 0
      BY <1>1, <3>1 DEF Elapsed, ZeroBank, State
    <3> QED
      BY <3>2, <3>3, <3>4 DEF Shows
  <2>2. now - Start = 0
    BY <1>1 DEF Init
  <2> QED
    BY <2>1, <2>2 DEF ClockBounds
<1> QED
  BY <1>1, <1>5, <1>6, <1>7, <1>8 DEF PInv, Init

\* Every step keeps the invariant.
LEMMA NextKeeps == ASSUME PInv, [Next]_vars PROVE PInv'
<1>0. Primary \in Team
  BY DEF Team
<1>1. CASE Tick
  BY <1>1, TickKeeps
<1>2. CASE UNCHANGED vars
  BY <1>2 DEF vars, PInv, TypeOK, ArcsInOmp, SyncBounds, ClockBounds, Shows
<1>3. CASE ompt_tsan_parallel_begin
  <2>1. Go(Primary, "forking", <<HBefore(ParallelPtr)>>) /\ region' = region + 1 /\ region < Regions
        /\ sent' = [sent EXCEPT ![0] = {clk'[Primary]}] /\ UNCHANGED <<entered, BarrierIndex>>
    BY <1>3 DEF ompt_tsan_parallel_begin
  <2>2. "forking" \in Site /\ StateAt("forking") = "OMP"
    BY DEF Site, StateAt
  <2>3. clk' \in [Team -> Banks]
    BY <1>0, <2>1, <2>2, ArcSequences, GoStep
  <2>4. /\ region' \in 0..Regions /\ entered' \in [Team -> Nat]
        /\ BarrierIndex' \in [Team -> 0..2]
    BY <2>1, OmpTeamAssumption DEF PInv, TypeOK
  <2>5. sent' \in [0..LastBarrier -> SUBSET Banks]
    BY <1>0, <2>1, <2>3, SentType DEF PInv, TypeOK
  <2> QED
    BY <1>0, <2>1, <2>2, <2>4, <2>5, ArcSequences, CallbackStep
<1>4. CASE ompt_tsan_parallel_end
  <2>1. Go(Primary, "serial", << >>) /\ UNCHANGED <<region, entered, BarrierIndex, sent>>
    BY <1>4 DEF ompt_tsan_parallel_end
  <2>2. "serial" \in Site
    BY DEF Site
  <2> QED
    BY <1>0, <2>1, <2>2, ArcSequences, CallbackStep DEF PInv, TypeOK
<1>5. ASSUME NEW t \in Team, ThreadStep(t) PROVE PInv'
  BY <1>5, CallbacksKeep, CallsKeep DEF ThreadStep
<1> QED
  BY <1>1, <1>2, <1>3, <1>4, <1>5 DEF Next, Finished

-----------------------------------------------------------------------------
\* The state of a team is well-typed: in particular a thread's calls name one
\* of the three sync clocks, whatever the number of barriers.
THEOREM TeamTypeCorrect == Spec => []TypeOK
<1>1. PInv => TypeOK
  BY DEF PInv
<1> QED
  BY <1>1, InitHolds, NextKeeps, PTL DEF Spec

\* No path is shorter than the thread's own time or longer than the measured
\* interval, for every team, in every interleaving of the stores, with and
\* without the lock.
THEOREM PathBoundsHold == Spec => []PathBounds
<1>1. PInv => PathBounds
  <2>1. SUFFICES ASSUME PInv, NEW t \in Team, NEW c \in Cells, c[2] # "OMPI"
                 PROVE  /\ Shows(thread[t], c[2], t) \in 0..Shows(clk[t][c[1]], c[2], t)
                        /\ Shows(clk[t][c[1]], c[2], t) <= now - Start
    BY DEF PathBounds
  <2>2. c[1] \in Member /\ c[2] \in Still /\ c[2] \in ClockType
    BY <2>1 DEF Cells, Cell, ArcClock, Still, ClockType
  <2>3. thread[t] \in Bank /\ clk[t][c[1]] \in Bank /\ now \in Int
    BY <2>1, <2>2 DEF PInv, TypeOK, Banks
  <2>4. Shows(thread[t], c[2], t) \in Int /\ Shows(clk[t][c[1]], c[2], t) \in Int
    BY <2>2, <2>3 DEF Shows, Elapsed, Bank
  <2> QED
    BY <2>1, <2>2, <2>4 DEF PInv, ClockBounds
<1> QED
  BY <1>1, InitHolds, NextKeeps, PTL DEF Spec
=============================================================================
