------------------------- MODULE ThreadClockProofs --------------------------
(***************************************************************************)
(* Proofs about ThreadClock for every set of workers, every combination of *)
(* the flags and every bound on time: type correctness, and what the       *)
(* operations on a thread's clock keep.                                    *)
(***************************************************************************)
EXTENDS ThreadClock, CpClocksProofs, TLAPS, SequenceTheorems

-----------------------------------------------------------------------------
(***************************************************************************)
(* One thread's clock.                                                     *)
(***************************************************************************)
\* A clock that exists: its stack is never empty and INIT is at the bottom,
\* so that exitState never takes the last element.
Rooted(c) ==
  /\ c \in threadClock
  /\ Len(c.clock_state_stack) >= 1
  /\ c.clock_state_stack[1] = "INIT"

\* Time shown by clock i of c at the given time of day.
View(c, i, time) == Elapsed(c.clocks[i], i, GetState(c), time)

\* pop_back removes the last element and keeps the others.
LEMMA PopBack ==
  ASSUME NEW S, NEW s \in Seq(S), Len(s) > 1
  PROVE  /\ pop_back(s) \in Seq(S)
         /\ Len(pop_back(s)) = Len(s) - 1
         /\ \A k \in 1..(Len(s) - 1) : pop_back(s)[k] = s[k]
BY DEF pop_back

\* The fresh clocks are well-typed, and a new clock is rooted.
LEMMA FreshClocks ==
  /\ NoClock \in threadClock /\ Rooted(NewClock)
  /\ GetState(NewClock) = "INIT"
  /\ \A i \in ClockType, time \in Int : View(NewClock, i, time) = 0
<1>1. ZeroBank \in Bank
  BY DEF ZeroBank, Bank
<1>2. NoClock \in threadClock /\ NewClock \in threadClock
  BY <1>1 DEF NewClock, NoClock, threadClock, ClockState
<1>3. GetState(NewClock) = "INIT"
  BY DEF NewClock, GetState
<1>4. State["INIT"] = {}
  BY DEF State
<1>5. \A i \in ClockType, time \in Int : View(NewClock, i, time) = 0
  BY <1>3, <1>4 DEF View, Elapsed, NewClock, ZeroBank
<1> QED
  BY <1>2, <1>3, <1>5 DEF Rooted, NewClock

\* The state on top of a rooted clock's stack is a state.
LEMMA TopState == ASSUME NEW c, Rooted(c) PROVE GetState(c) \in ClockState
BY DEF Rooted, threadClock, GetState

\* enterState keeps a clock rooted, pushes the state when measuring, and
\* changes nothing that the clock shows.
LEMMA EnterLemma ==
  ASSUME NEW c, Rooted(c), NEW r \in BOOLEAN, NEW time \in Int, NEW cs \in ClockState
  PROVE  /\ Rooted(enterState(c, r, time, cs))
         /\ ~r => enterState(c, r, time, cs) = c
         /\ r => GetState(enterState(c, r, time, cs)) = cs
         /\ \A i \in ClockType : View(enterState(c, r, time, cs), i, time) = View(c, i, time)
<1> DEFINE e == [clocks |-> SwitchState(c.clocks, GetState(c), cs, time),
                 clock_state_stack |-> Append(c.clock_state_stack, cs)]
<1>1. c.clocks \in Bank /\ c.clock_state_stack \in Seq(ClockState)
  BY DEF Rooted, threadClock
<1>2. e \in threadClock
  BY <1>1, TopState, SwitchType DEF threadClock
<1>3. Rooted(e) /\ GetState(e) = cs
  BY <1>1, <1>2 DEF Rooted, GetState
<1>4. \A i \in ClockType : View(e, i, time) = View(c, i, time)
  BY <1>1, <1>3, TopState, SwitchKeeps DEF View
<1> HIDE DEF e
<1>5. enterState(c, r, time, cs) = IF ~r THEN c ELSE e
  BY DEF enterState, e
<1> QED
  BY <1>3, <1>4, <1>5

\* exitState keeps a clock rooted and changes nothing that the clock shows.
LEMMA ExitLemma ==
  ASSUME NEW c, Rooted(c), NEW r \in BOOLEAN, NEW q \in BOOLEAN, NEW time \in Int
  PROVE  /\ Rooted(exitState(c, r, q, time))
         /\ ~r => exitState(c, r, q, time) = c
         /\ \A i \in ClockType : View(exitState(c, r, q, time), i, time) = View(c, i, time)
<1>1. CASE ~r \/ ~q \/ GetState(c) = "INIT"
  BY <1>1 DEF exitState
<1>2. CASE r /\ q /\ GetState(c) # "INIT"
  <2> DEFINE s == c.clock_state_stack
             b == pop_back(s)
             e == [clocks |-> SwitchState(c.clocks, GetState(c), b[Len(b)], time),
                   clock_state_stack |-> b]
  <2>1. c.clocks \in Bank /\ s \in Seq(ClockState)
    BY DEF Rooted, threadClock
  <2>2. Len(s) > 1
    BY <1>2, <2>1 DEF Rooted, GetState
  <2>3. b \in Seq(ClockState) /\ Len(b) >= 1 /\ b[1] = "INIT" /\ b[Len(b)] \in ClockState
    <3>1. /\ b \in Seq(ClockState) /\ Len(b) = Len(s) - 1
          /\ \A k \in 1..(Len(s) - 1) : b[k] = s[k]
      BY <2>1, <2>2, PopBack
    <3>2. Len(s) \in Nat
      BY <2>1
    <3> HIDE DEF b
    <3> QED
      BY <2>1, <2>2, <3>1, <3>2 DEF Rooted
  <2> HIDE DEF b
  <2>4. Rooted(e) /\ GetState(e) = b[Len(b)]
    BY <2>1, <2>3, TopState, SwitchType DEF Rooted, GetState, threadClock
  <2>5. \A i \in ClockType : View(e, i, time) = View(c, i, time)
    BY <2>1, <2>3, <2>4, TopState, SwitchKeeps DEF View
  <2>6. exitState(c, r, q, time) = e
    BY <1>2 DEF exitState, b
  <2> QED
    BY <1>2, <2>4, <2>5, <2>6
<1> QED
  BY <1>1, <1>2

\* setState(INIT), which stops a clock, keeps it rooted and changes nothing
\* that it shows at the time of the stop.
LEMMA SetInitLemma ==
  ASSUME NEW c, Rooted(c), NEW r \in BOOLEAN, NEW time \in Int
  PROVE  /\ Rooted(setState(c, r, time, "INIT"))
         /\ GetState(setState(c, r, time, "INIT")) = "INIT"
         /\ \A i \in ClockType : View(setState(c, r, time, "INIT"), i, time) = View(c, i, time)
         /\ c = NewClock => setState(c, r, time, "INIT") = NewClock
<1> DEFINE s == c.clock_state_stack
           n == [s EXCEPT ![Len(s)] = "INIT"]
           e == [clocks |-> SwitchState(c.clocks, GetState(c), "INIT", time),
                 clock_state_stack |-> n]
<1>1. c.clocks \in Bank /\ s \in Seq(ClockState) /\ Len(s) \in 1..Len(s)
  BY DEF Rooted, threadClock
<1>2. "INIT" \in ClockState
  BY DEF ClockState
<1>3. n \in Seq(ClockState) /\ Len(n) = Len(s) /\ n[1] = "INIT" /\ n[Len(n)] = "INIT"
  BY <1>1, <1>2 DEF Rooted
<1>4. setState(c, r, time, "INIT") = e
  BY DEF setState
<1> HIDE DEF n
<1>5. Rooted(e) /\ GetState(e) = "INIT"
  BY <1>1, <1>2, <1>3, TopState, SwitchType DEF Rooted, GetState, threadClock
<1>6. \A i \in ClockType : View(e, i, time) = View(c, i, time)
  BY <1>1, <1>2, <1>5, TopState, SwitchKeeps DEF View
<1>7. c = NewClock => e = NewClock
  <2>1. SUFFICES ASSUME c = NewClock PROVE e = NewClock
    OBVIOUS
  <2>2. SwitchState(c.clocks, GetState(c), "INIT", time) = ZeroBank
    BY <2>1 DEF NewClock, GetState, SwitchState, ZeroBank
  <2>3. n = <<"INIT">>
    BY <2>1 DEF NewClock, n
  <2> QED
    BY <2>2, <2>3 DEF NewClock
<1> QED
  BY <1>4, <1>5, <1>6, <1>7

-----------------------------------------------------------------------------
(***************************************************************************)
(* Type correctness.  TypeOK alone is not inductive: exitState needs a     *)
(* state below the one it pops, and the timers need a clock to work on.    *)
(***************************************************************************)
ClocksRooted == \A t \in Thread : HasClock(t) => Rooted(tc[t])

\* A barrier is never the outermost call: there is a task it belongs to.
TaskBelowBarrier ==
  \A t \in Thread : calls[t] # << >> => calls[t][1].call \notin {"barrier", "join"}

UserFrame == [call |-> "user", isRunning |-> FALSE]

\* Every thread that has entered the tool has a clock.
ClockPresent ==
  /\ \A t \in Thread : calls[t] = << >> \/ HasClock(t) \/ calls[t] = <<UserFrame>>
  /\ useMpi => HasClock(Initial)

TInv == TypeOK /\ ClocksRooted /\ TaskBelowBarrier /\ ClockPresent

\* A rooted clock is a clock.
LEMMA RootedHasClock ==
  ASSUME NEW c, Rooted(c) PROVE c \in threadClock /\ c.clock_state_stack # << >>
BY DEF Rooted, threadClock

\* The clock a thread works on, existing or new, is rooted.
LEMMA ClockOfRooted ==
  ASSUME TInv, NEW t \in Thread
  PROVE  Rooted(ClockOf(t)) /\ Rooted(mpiClock(t))
<1>1. Rooted(ClockOf(t))
  BY FreshClocks DEF TInv, ClocksRooted, ClockOf
<1>2. Sees(t) \in BOOLEAN /\ now \in Int /\ "USEFUL" \in ClockState
  BY DEF TInv, TypeOK, Sees, ClockState
<1> QED
  BY <1>1, <1>2, FreshClocks, EnterLemma DEF TInv, ClocksRooted, mpiClock

\* startTool keeps a clock rooted.
LEMMA StartToolRooted ==
  ASSUME TInv, NEW c, Rooted(c), NEW s \in BOOLEAN, NEW cs \in ClockState
  PROVE  Rooted(startTool(c, s, cs))
<1>1. now \in Int /\ "USEFUL" \in ClockState
  BY DEF TInv, TypeOK, ClockState
<1>2. Rooted(enterState(c, TRUE, now, "USEFUL"))
  BY <1>1, EnterLemma
<1> QED
  BY <1>1, <1>2, EnterLemma DEF startTool

\* Replacing a clock by a rooted one.
LEMMA UpdateLemma ==
  ASSUME TInv, NEW t \in Thread, NEW c, Rooted(c), Update(t, c)
  PROVE  /\ tc' \in [Thread -> threadClock] /\ ClocksRooted'
         /\ HasClock(t)' /\ \A u \in Thread : HasClock(u) => HasClock(u)'
BY RootedHasClock DEF TInv, TypeOK, ClocksRooted, Update, HasClock

\* Stopping all clocks.
LEMMA StopAllLemma ==
  ASSUME TInv, endProgrammTime' \in Nat, StopAllClocks
  PROVE  /\ tc' \in [Thread -> threadClock] /\ ClocksRooted'
         /\ \A u \in Thread : HasClock(u) => HasClock(u)'
<1>1. TimeArg(endProgrammTime') \in Int
  BY DEF TInv, TypeOK, TimeArg
<1>2. \A c : Rooted(c) => Rooted(StopClock(c))
  BY <1>1, SetInitLemma DEF StopClock
<1> HIDE DEF StopClock
<1> QED
  BY <1>2, RootedHasClock DEF TInv, TypeOK, ClocksRooted, StopAllClocks, HasClock

\* Opening a call.
LEMMA OpenedLemma ==
  ASSUME TInv, NEW t \in Thread, NEW call \in Call, NEW r \in BOOLEAN, Opened(t, call, r),
         calls[t] # << >> \/ call \notin {"barrier", "join"}
  PROVE  /\ calls' \in [Thread -> Seq(Frame)] /\ TaskBelowBarrier'
         /\ \A u \in Thread \ {t} : calls'[u] = calls[u]
<1> DEFINE f == [call |-> call, isRunning |-> r]
<1>1. f \in Frame
  BY DEF Frame
<1>2. calls \in [Thread -> Seq(Frame)]
  BY DEF TInv, TypeOK
<1>3. /\ Append(calls[t], f) \in Seq(Frame)
      /\ Append(calls[t], f)[1] = IF calls[t] = << >> THEN f ELSE calls[t][1]
  BY <1>1, <1>2
<1> QED
  BY <1>2, <1>3 DEF TInv, TaskBelowBarrier, Opened

\* Closing a call.
LEMMA ClosedLemma ==
  ASSUME TInv, NEW t \in Thread, calls[t] # << >>, Closed(t)
  PROVE  /\ calls' \in [Thread -> Seq(Frame)] /\ TaskBelowBarrier'
         /\ \A u \in Thread \ {t} : calls'[u] = calls[u]
<1>1. calls \in [Thread -> Seq(Frame)] /\ calls[t] \in Seq(Frame)
  BY DEF TInv, TypeOK
<1>2. /\ pop_back(calls[t]) \in Seq(Frame)
      /\ pop_back(calls[t]) # << >> => pop_back(calls[t])[1] = calls[t][1]
  BY <1>1 DEF pop_back
<1> HIDE DEF pop_back
<1> QED
  BY <1>1, <1>2 DEF TInv, TaskBelowBarrier, Closed

\* A thread step that updates a clock and changes the calls keeps TInv.
LEMMA ThreadStepLemma ==
  ASSUME TInv, NEW t \in Thread, NEW c, Rooted(c), Update(t, c),
         calls' \in [Thread -> Seq(Frame)], TaskBelowBarrier',
         \A u \in Thread \ {t} : calls'[u] = calls[u],
         late' \in SUBSET Thread,
         UNCHANGED <<now, loaded, useMpi, running, startProgrammTime, endProgrammTime, finished>>
  PROVE  TInv'
<1>1. /\ tc' \in [Thread -> threadClock] /\ ClocksRooted'
      /\ HasClock(t)' /\ \A u \in Thread : HasClock(u) => HasClock(u)'
  BY UpdateLemma
<1>2. TypeOK'
  BY <1>1 DEF TInv, TypeOK
<1>3. ClockPresent'
  BY <1>1 DEF TInv, ClockPresent, Thread
<1> QED
  BY <1>1, <1>2, <1>3 DEF TInv

\* The timers and callbacks that enter a state.
LEMMA EnterStep ==
  ASSUME TInv, NEW t \in Thread, NEW c, Rooted(c), NEW call \in Call, NEW time \in Nat,
         NEW cs \in ClockState, Enter(t, c, call, time, cs),
         calls[t] # << >> \/ call \notin {"barrier", "join"}
  PROVE  TInv'
<1>1. Sees(t) \in BOOLEAN /\ TimeArg(time) \in Int /\ late' \in SUBSET Thread
  BY DEF TInv, TypeOK, Sees, TimeArg, Enter, Tested
<1>2. Rooted(enterState(c, Sees(t), TimeArg(time), cs))
  BY <1>1, EnterLemma
<1>3. /\ calls' \in [Thread -> Seq(Frame)] /\ TaskBelowBarrier'
      /\ \A u \in Thread \ {t} : calls'[u] = calls[u]
  BY <1>1, OpenedLemma DEF Enter
<1> QED
  BY <1>1, <1>2, <1>3, ThreadStepLemma DEF Enter

\* The timers and callbacks that leave a state.
LEMMA LeaveStep ==
  ASSUME TInv, NEW t \in Thread, HasClock(t), NEW q \in BOOLEAN, Leave(t, q),
         calls' \in [Thread -> Seq(Frame)], TaskBelowBarrier',
         \A u \in Thread \ {t} : calls'[u] = calls[u]
  PROVE  TInv'
<1>1. Sees(t) \in BOOLEAN /\ now \in Int /\ late' \in SUBSET Thread
  BY DEF TInv, TypeOK, Sees, Leave, Tested
<1>2. Rooted(exitState(tc[t], Sees(t), q, now))
  BY <1>1, ExitLemma DEF TInv, ClocksRooted
<1> QED
  BY <1>1, <1>2, ThreadStepLemma DEF Leave

\* A thread that is in anything but user code has a clock.
LEMMA InHasClock ==
  ASSUME TInv, NEW t \in Thread, NEW K, In(t, K), "user" \notin K
  PROVE  HasClock(t) /\ calls[t] # << >>
BY DEF TInv, ClockPresent, In, InnerCall, UserFrame

\* Every step of the timers and callbacks of a thread keeps TInv.
LEMMA ThreadStepType == ASSUME TInv, NEW t \in Thread, ThreadStep(t) PROVE TInv'
<1> USE DEF Call
<1>0. {"USEFUL", "MPI", "OMP"} \subseteq ClockState
  BY DEF ClockState
<1>1. ASSUME mpiTimer(t) PROVE TInv'
  BY <1>0, <1>1, ClockOfRooted, EnterStep DEF mpiTimer
<1>2. ASSUME mpiTimerEnd(t) PROVE TInv'
  BY <1>2, InHasClock, ClosedLemma, LeaveStep DEF mpiTimerEnd
<1>3. ASSUME enterOpenMP(t) PROVE TInv'
  BY <1>0, <1>3, EnterStep DEF enterOpenMP, TInv, ClocksRooted
<1>4. ASSUME exitOpenMP(t) PROVE TInv'
  BY <1>4, InHasClock, ClosedLemma, LeaveStep DEF exitOpenMP
<1>5. ASSUME ompt_tsan_implicit_task_begin(t) PROVE TInv'
  <2> DEFINE reused == ~(t = Initial /\ Len(calls[t]) = 2) /\ GetState(tc[t]) = "INIT"
             inOmp == IF reused THEN enterState(tc[t], Sees(t), now, "OMP") ELSE tc[t]
             rt == [call |-> "rt", isRunning |-> InnerCall(t).isRunning \/ (reused /\ Sees(t))]
             user == [call |-> "user", isRunning |-> Sees(t)]
             new == pop_back(calls[t]) \o <<rt, user>>
  <2>1. Sees(t) \in BOOLEAN /\ now \in Int /\ late' \in SUBSET Thread
    BY <1>5 DEF TInv, TypeOK, Sees, ompt_tsan_implicit_task_begin, Tested
  <2>2. Rooted(tc[t]) /\ calls[t] # << >>
    BY <1>5, InHasClock DEF TInv, ClocksRooted, ompt_tsan_implicit_task_begin
  <2>3. Rooted(inOmp)
    BY <1>0, <2>1, <2>2, EnterLemma
  <2>4. Rooted(enterState(inOmp, Sees(t), now, "USEFUL"))
    BY <1>0, <2>1, <2>3, EnterLemma
  <2>5. calls[t] \in Seq(Frame) /\ calls \in [Thread -> Seq(Frame)] /\ rt \in Frame /\ user \in Frame
    <3>1. calls[t] \in Seq(Frame) /\ calls \in [Thread -> Seq(Frame)]
      BY DEF TInv, TypeOK
    <3>2. InnerCall(t) \in Frame
      BY <2>2, <3>1 DEF InnerCall
    <3> QED
      BY <2>1, <3>1, <3>2 DEF Frame
  <2> HIDE DEF rt, user
  <2>6. pop_back(calls[t]) \in Seq(Frame) /\ (pop_back(calls[t]) # << >> => pop_back(calls[t])[1] = calls[t][1])
    BY <2>2, <2>5 DEF pop_back
  <2>7. new \in Seq(Frame) /\ (new[1] = rt \/ new[1] = calls[t][1])
    <3> DEFINE p == pop_back(calls[t])
    <3> HIDE DEF p
    <3>1. p \in Seq(Frame)
      BY <2>6 DEF p
    <3>2. <<rt, user>> \in Seq(Frame) /\ Len(<<rt, user>>) = 2 /\ <<rt, user>>[1] = rt
      BY <2>5
    <3>3. p \o <<rt, user>> \in Seq(Frame)
      BY <3>1, <3>2
    <3>4. (p \o <<rt, user>>)[1] = IF p = << >> THEN rt ELSE p[1]
      BY <3>1, <3>2
    <3> QED
      BY <2>6, <3>3, <3>4 DEF p
  <2>8. calls' = [calls EXCEPT ![t] = new]
    BY <1>5 DEF ompt_tsan_implicit_task_begin, new, rt, user
  <2>9. rt.call = "rt"
    BY DEF rt
  <2> HIDE DEF new
  <2>10. /\ calls' \in [Thread -> Seq(Frame)] /\ TaskBelowBarrier'
         /\ \A u \in Thread \ {t} : calls'[u] = calls[u]
    BY <2>2, <2>5, <2>7, <2>8, <2>9 DEF TInv, TaskBelowBarrier
  <2>11. Update(t, enterState(inOmp, Sees(t), now, "USEFUL"))
    BY <1>5 DEF ompt_tsan_implicit_task_begin
  <2> QED
    BY <1>5, <2>1, <2>4, <2>10, <2>11, ThreadStepLemma DEF ompt_tsan_implicit_task_begin
<1>6. ASSUME ompt_tsan_implicit_task_end(t) PROVE TInv'
  <2>1. HasClock(t) /\ calls[t] # << >>
    BY <1>6, InHasClock DEF ompt_tsan_implicit_task_end
  <2>2. calls[t] \in Seq(Frame)
    BY DEF TInv, TypeOK
  <2>3. InnerCall(t) \in Frame
    BY <2>1, <2>2 DEF InnerCall
  <2>4. InnerCall(t).isRunning \in BOOLEAN
    BY <2>3 DEF Frame
  <2> QED
    BY <1>6, <2>1, <2>4, ClosedLemma, LeaveStep DEF ompt_tsan_implicit_task_end
<1>7. ASSUME NEW kind \in {"barrier", "join"}, ompt_tsan_sync_region_begin(t, kind) PROVE TInv'
  <2>1. calls[t] # << >> /\ Len(calls[t]) # 1
    BY <1>7 DEF ompt_tsan_sync_region_begin, In
  <2>2. HasClock(t)
    <3>1. Len(<<UserFrame>>) = 1
      OBVIOUS
    <3> QED
      BY <2>1, <3>1 DEF TInv, ClockPresent
  <2> QED
    BY <1>0, <1>7, <2>1, <2>2, EnterStep DEF ompt_tsan_sync_region_begin, TInv, ClocksRooted
<1>8. ASSUME ompt_tsan_sync_region_end(t) PROVE TInv'
  <2>1. HasClock(t) /\ calls[t] # << >> /\ InnerCall(t).call \in {"barrier", "join"}
    BY <1>8, InHasClock DEF ompt_tsan_sync_region_end, In
  <2>2. calls[t] \in Seq(Frame) /\ calls \in [Thread -> Seq(Frame)]
    BY DEF TInv, TypeOK
  <2>3. Len(calls[t]) > 1
    BY <2>1, <2>2 DEF TInv, TaskBelowBarrier, InnerCall
  <2>4. TaskIsRunning(t) \in BOOLEAN
    <3>1. calls[t][Len(calls[t]) - 1] \in Frame
      BY <2>2, <2>3
    <3> QED
      BY <3>1 DEF TaskIsRunning, Frame
  <2>5. CASE In(t, {"barrier"}) /\ Leave(t, TaskIsRunning(t)) /\ Closed(t)
    BY <2>1, <2>4, <2>5, ClosedLemma, LeaveStep
  <2>6. CASE /\ In(t, {"join"}) /\ Leave(t, TaskIsRunning(t))
             /\ calls' = [calls EXCEPT ![t] =
                    Append(pop_back(pop_back(@)),
                           [call |-> "leaving", isRunning |-> TaskIsRunning(t)])]
    <3> DEFINE f == [call |-> "leaving", isRunning |-> TaskIsRunning(t)]
               p == pop_back(pop_back(calls[t]))
               new == Append(p, f)
    <3>1. p \in Seq(Frame) /\ (p # << >> => p[1] = calls[t][1])
      BY <2>2, <2>3 DEF pop_back
    <3>2. f \in Frame /\ f.call = "leaving"
      BY <2>4 DEF Frame
    <3>3. calls' = [calls EXCEPT ![t] = new]
      BY <2>6
    <3> HIDE DEF p, f
    <3>4. new \in Seq(Frame) /\ new[1] = (IF p = << >> THEN f ELSE p[1])
      BY <3>1, <3>2
    <3> HIDE DEF new
    <3>5. /\ calls' \in [Thread -> Seq(Frame)] /\ TaskBelowBarrier'
          /\ \A u \in Thread \ {t} : calls'[u] = calls[u]
      BY <2>1, <2>2, <3>1, <3>2, <3>3, <3>4 DEF TInv, TaskBelowBarrier
    <3> QED
      BY <2>1, <2>4, <2>6, <3>5, LeaveStep
  <2> QED
    BY <1>8, <2>5, <2>6 DEF ompt_tsan_sync_region_end
<1> QED
  BY <1>1, <1>2, <1>3, <1>4, <1>5, <1>6, <1>7, <1>8 DEF ThreadStep

\* A step that starts or stops nothing but the clock of the initial thread.
LEMMA InitialStepLemma ==
  ASSUME TInv, NEW c, Rooted(c), Update(Initial, c),
         calls' \in [Thread -> Seq(Frame)], TaskBelowBarrier',
         \A u \in Thread \ {Initial} : calls'[u] = calls[u],
         late' \in SUBSET Thread, now' = now,
         {loaded', useMpi', running', finished'} \subseteq BOOLEAN,
         startProgrammTime' \in Nat \ {0}, endProgrammTime' \in Nat
  PROVE  TInv'
<1>0. Initial \in Thread
  BY DEF Thread
<1>1. /\ tc' \in [Thread -> threadClock] /\ ClocksRooted'
      /\ HasClock(Initial)' /\ \A u \in Thread : HasClock(u) => HasClock(u)'
  BY <1>0, UpdateLemma
<1>2. TypeOK'
  BY <1>1 DEF TInv, TypeOK
<1>3. ClockPresent'
  BY <1>1 DEF TInv, ClockPresent
<1> QED
  BY <1>1, <1>2, <1>3 DEF TInv

\* stopMeasurement keeps the types of what it assigns.
LEMMA StopMeasurementType ==
  ASSUME TInv, stopMeasurement
  PROVE  running' = FALSE /\ endProgrammTime' \in Nat /\ late' \in SUBSET Thread
<1>1. Overtaken \subseteq SUBSET Thread
  BY DEF Overtaken, Thread
<1> QED
  BY <1>1 DEF TInv, TypeOK, stopMeasurement

\* Stopping all clocks, with the calls unchanged, keeps TInv.
LEMMA StopAllStep ==
  ASSUME TInv, stopMeasurement, StopAllClocks, finished' \in BOOLEAN,
         UNCHANGED <<now, loaded, useMpi, startProgrammTime, calls>>
  PROVE  TInv'
<1>1. running' = FALSE /\ endProgrammTime' \in Nat /\ late' \in SUBSET Thread
  BY StopMeasurementType
<1>2. /\ tc' \in [Thread -> threadClock] /\ ClocksRooted'
      /\ \A u \in Thread : HasClock(u) => HasClock(u)'
  BY <1>1, StopAllLemma
<1>3. TypeOK'
  BY <1>1, <1>2 DEF TInv, TypeOK
<1>4. ClockPresent' /\ TaskBelowBarrier'
  BY <1>2 DEF TInv, ClockPresent, TaskBelowBarrier, Thread
<1> QED
  BY <1>2, <1>3, <1>4 DEF TInv

\* TInv holds initially.
LEMMA InitType == Init => TInv
<1> SUFFICES ASSUME Init PROVE TInv
  OBVIOUS
<1>1. UserFrame \in Frame /\ UserFrame.call = "user"
  BY DEF Frame, UserFrame, Call
<1>2. calls = [t \in Thread |-> IF t = Initial THEN <<UserFrame>> ELSE << >>]
  BY DEF Init, UserFrame
<1>3. TypeOK
  <2>1. calls \in [Thread -> Seq(Frame)]
    BY <1>1, <1>2
  <2>2. tc \in [Thread -> threadClock]
    BY FreshClocks DEF Init
  <2> QED
    BY <2>1, <2>2, ThreadClockAssumption DEF Init, TypeOK
<1>4. TaskBelowBarrier
  BY <1>1, <1>2 DEF TaskBelowBarrier
<1>5. ClocksRooted
  BY DEF Init, ClocksRooted, HasClock, NoClock
<1>6. ClockPresent
  BY <1>2 DEF ClockPresent, Init
<1> QED
  BY <1>3, <1>4, <1>5, <1>6 DEF TInv

\* Every step keeps TInv.
LEMMA NextType == TInv /\ [Next]_vars => TInv'
<1> SUFFICES ASSUME TInv, [Next]_vars PROVE TInv'
  OBVIOUS
<1> USE DEF Call
<1>0. {"USEFUL", "MPI", "OMP"} \subseteq ClockState /\ Initial \in Thread
  BY DEF ClockState, Thread
<1>a. /\ now \in Nat \ {0} /\ {loaded, useMpi, running, finished} \subseteq BOOLEAN
      /\ startProgrammTime \in Nat \ {0} /\ endProgrammTime \in Nat
      /\ calls \in [Thread -> Seq(Frame)] /\ late \in SUBSET Thread
  BY DEF TInv, TypeOK
<1>c. now \in Int /\ running \in BOOLEAN /\ \A x : (running \/ x) \in BOOLEAN
  BY <1>a
<1>b. \A s : Starts(s) \in BOOLEAN
  BY DEF Starts
<1>1. CASE Tick
  BY <1>1, <1>a DEF Tick, TInv, TypeOK, ClocksRooted, TaskBelowBarrier, ClockPresent, HasClock, Rooted
<1>2. CASE onLibraryLoad
  <2>1. CASE LibraryConstructor
    <3>1. Rooted(enterState(NewClock, running, now, "USEFUL"))
      BY <1>0, <1>a, FreshClocks, EnterLemma
    <3>2. TaskBelowBarrier'
      BY <1>2 DEF onLibraryLoad, TInv, TaskBelowBarrier
    <3> QED
      BY <1>2, <1>a, <2>1, <3>1, <3>2, InitialStepLemma DEF onLibraryLoad
  <2>2. CASE ~LibraryConstructor
    BY <1>2, <1>a, <2>2
    DEF onLibraryLoad, TInv, TypeOK, ClocksRooted, TaskBelowBarrier, ClockPresent, HasClock
  <2> QED
    BY <2>1, <2>2
<1>3. CASE ompt_tsan_initialize
  <2> DEFINE starts == Starts(FALSE)
             clock == startTool(ClockOf(Initial), starts, "USEFUL")
             e == enterState(clock, running \/ starts, now, "OMP")
  <2>1. Rooted(clock)
    BY <1>0, <1>b, ClockOfRooted, StartToolRooted
  <2>2. Rooted(e)
    BY <1>0, <1>c, <2>1, EnterLemma
  <2>3. running' \in BOOLEAN /\ startProgrammTime' \in Nat \ {0} /\ Update(Initial, e)
    BY <1>3, <1>a, <1>b DEF ompt_tsan_initialize, startMeasurement
  <2>4. /\ calls' \in [Thread -> Seq(Frame)] /\ TaskBelowBarrier'
        /\ \A u \in Thread \ {Initial} : calls'[u] = calls[u]
    BY <1>0, <1>3, <2>3, OpenedLemma DEF ompt_tsan_initialize
  <2> HIDE DEF e
  <2> QED
    BY <1>3, <1>a, <2>2, <2>3, <2>4, InitialStepLemma DEF ompt_tsan_initialize
<1>4. CASE MPI_Init_begin
  <2>1. Rooted(enterState(mpiClock(Initial), running, now, "MPI"))
    <3> HIDE DEF mpiClock
    <3> QED
      BY <1>0, <1>c, ClockOfRooted, EnterLemma
  <2>2. /\ calls' \in [Thread -> Seq(Frame)] /\ TaskBelowBarrier'
        /\ \A u \in Thread \ {Initial} : calls'[u] = calls[u]
    BY <1>0, <1>4, <1>a, OpenedLemma DEF MPI_Init_begin
  <2> QED
    BY <1>4, <1>a, <2>1, <2>2, InitialStepLemma DEF MPI_Init_begin
<1>5. CASE MPI_Init_end
  <2> DEFINE starts == Starts(FALSE)
             clock == startTool(tc[Initial], starts, "MPI")
             e == exitState(clock, running \/ starts, TRUE, now)
  <2>0. HasClock(Initial) /\ calls[Initial] # << >>
    BY <1>0, <1>5, InHasClock DEF MPI_Init_end
  <2>1. Rooted(clock)
    BY <1>0, <1>b, <2>0, StartToolRooted DEF TInv, ClocksRooted
  <2>2. Rooted(e)
    BY <1>0, <1>c, <2>1, ExitLemma
  <2>3. running' \in BOOLEAN /\ startProgrammTime' \in Nat \ {0} /\ Update(Initial, e)
    BY <1>5, <1>a, <1>b DEF MPI_Init_end, startMeasurement
  <2>4. /\ calls' \in [Thread -> Seq(Frame)] /\ TaskBelowBarrier'
        /\ \A u \in Thread \ {Initial} : calls'[u] = calls[u]
    BY <1>0, <1>5, <2>0, ClosedLemma DEF MPI_Init_end
  <2> HIDE DEF e
  <2> QED
    BY <1>5, <1>a, <2>2, <2>3, <2>4, InitialStepLemma DEF MPI_Init_end
<1>m. ASSUME MayMark PROVE HasClock(Initial)
  <2>1. Len(<<UserFrame>>) = 1 /\ Len(<< >>) = 0
    OBVIOUS
  <2> QED
    BY <1>0, <1>m, <2>1 DEF TInv, ClockPresent, MayMark
<1>6. CASE StartMarker
  <2> DEFINE e == startTool(tc[Initial], Starts(TRUE), "USEFUL")
  <2>1. Rooted(e)
    BY <1>0, <1>6, <1>b, <1>m, StartToolRooted DEF StartMarker, TInv, ClocksRooted
  <2>2. running' \in BOOLEAN /\ startProgrammTime' \in Nat \ {0} /\ Update(Initial, e)
    BY <1>6, <1>a, <1>b DEF StartMarker, startMeasurement
  <2>3. TaskBelowBarrier'
    BY <1>6 DEF StartMarker, TInv, TaskBelowBarrier
  <2> HIDE DEF e
  <2> QED
    BY <1>6, <1>a, <2>1, <2>2, <2>3, InitialStepLemma DEF StartMarker
<1>7. CASE stopTool
  <2>0. finished' \in BOOLEAN /\ TaskBelowBarrier' /\ stopMeasurement
    BY <1>7, <1>a, ThreadClockAssumption DEF stopTool, TInv, TaskBelowBarrier
  <2>1. running' = FALSE /\ endProgrammTime' \in Nat /\ late' \in SUBSET Thread
    BY <2>0, StopMeasurementType
  <2>2. Rooted(tc[Initial])
    BY <1>0, <1>7, <1>m DEF stopTool, TInv, ClocksRooted
  <2>3. CASE DumpOnStop /\ ~finished
    BY <1>7, <2>0, <2>3, StopAllStep DEF stopTool
  <2>4. CASE ~(DumpOnStop /\ ~finished) /\ running /\ ~DumpOnStop
    <3>1. TimeArg(endProgrammTime') \in Int
      BY <1>a, <2>1 DEF TimeArg
    <3>2. Rooted(StopClock(tc[Initial]))
      BY <2>2, <3>1, SetInitLemma DEF StopClock
    <3> HIDE DEF StopClock
    <3> QED
      BY <1>7, <1>a, <2>0, <2>1, <2>4, <3>2, InitialStepLemma DEF stopTool
  <2>5. CASE ~(DumpOnStop /\ ~finished) /\ ~(running /\ ~DumpOnStop)
    <3>1. UNCHANGED tc
      BY <1>7, <2>5 DEF stopTool
    <3> QED
      BY <1>7, <1>a, <2>0, <2>1, <3>1
      DEF stopTool, TInv, TypeOK, ClocksRooted, ClockPresent, HasClock
  <2> QED
    BY <2>3, <2>4, <2>5
<1>8. CASE finishMeasurement
  BY <1>8, StopAllStep DEF finishMeasurement
<1>9. CASE ompt_tsan_parallel_begin
  <2>1. HasClock(Initial)
    BY <1>9, <1>m DEF ompt_tsan_parallel_begin, MayMark
  <2> QED
    BY <1>0, <1>9, <2>1, EnterStep DEF ompt_tsan_parallel_begin, TInv, ClocksRooted
<1>10. CASE ompt_tsan_parallel_end
  BY <1>0, <1>10, InHasClock, ClosedLemma, LeaveStep DEF ompt_tsan_parallel_end
<1>11. ASSUME NEW w \in Workers, ompt_tsan_thread_begin(w) PROVE TInv'
  <2>1. w \in Thread
    BY DEF Thread
  <2> QED
    BY <1>0, <1>11, <1>a, <2>1, ClockOfRooted, EnterStep DEF ompt_tsan_thread_begin
<1>12. CASE \E t \in Thread : ThreadStep(t)
  BY <1>12, ThreadStepType
<1>13. CASE UNCHANGED vars
  BY <1>13 DEF vars, TInv, TypeOK, ClocksRooted, TaskBelowBarrier, ClockPresent, HasClock
<1> QED
  BY <1>1, <1>2, <1>3, <1>4, <1>5, <1>6, <1>7, <1>8, <1>9, <1>10, <1>11, <1>12, <1>13 DEF Next, AfterLoad

\* Type correctness of the thread clocks, with every combination of flags and
\* even when the stop overtakes threads: in particular exitState never pops
\* the INIT at the bottom of a state stack.
THEOREM TypeCorrect == Spec => []TypeOK
<1>1. TInv => TypeOK
  BY DEF TInv
<1> QED
  BY InitType, NextType, <1>1, PTL DEF Spec
=============================================================================
