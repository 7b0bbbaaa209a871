------------------------ MODULE StopwatchRefinement -------------------------
(***************************************************************************)
(* The thread clocks implement Stopwatch, for every set of workers and     *)
(* every combination of the flags, as long as the stop overtakes no thread *)
(* (Straddle is FALSE).                                                    *)
(***************************************************************************)
EXTENDS ThreadClockProofs

\* The runtime frame of a worker stays at the bottom, a task above it.
WorkerCalls ==
  \A w \in Workers : calls[w] # << >> =>
    /\ calls[w][1].call = "rt"
    /\ Len(calls[w]) >= 2 => calls[w][2].call \in {"user", "leaving"}

Before == ~running /\ endProgrammTime = 0

RInv ==
  /\ TInv /\ WorkerCalls
  /\ late = {}
  /\ ~loaded => Before
  /\ running => endProgrammTime = 0
  /\ Before => \A t \in Thread : tc[t] \in {NoClock, NewClock}
  /\ \A w \in Workers : calls[w] = << >> => tc[w] = NoClock

-----------------------------------------------------------------------------
(***************************************************************************)
(* Steps that keep the phase.                                              *)
(***************************************************************************)
\* A thread's clock is replaced by one that shows the same: a Switch while
\* measuring, nothing visible otherwise.
LEMMA SameTimeStep ==
  ASSUME RInv, NEW t \in Thread, NEW c, Rooted(c), Update(t, c),
         UNCHANGED <<now, running, startProgrammTime, endProgrammTime>>,
         ~running => c = ClockOf(t),
         running => \A i \in ClockType : View(c, i, now) = Shows(t, i)
  PROVE  /\ [SW!Next]_(SW!swVars)
         /\ Before' => \A u \in Thread : tc'[u] \in {NoClock, NewClock}
<1>0. /\ tc \in [Thread -> threadClock] /\ now \in Int /\ endProgrammTime \in Int
      /\ c.clock_state_stack # << >>
  BY RootedHasClock DEF RInv, TInv, TypeOK
<1>1. tc' = [tc EXCEPT ![t] = c]
  BY DEF Update
<1>2. \A u \in Thread \ {t} : /\ tc'[u] = tc[u] /\ HasClock(u)' = HasClock(u)
                              /\ \A i \in ClockType : Shows(u, i)' = Shows(u, i)
  BY <1>0, <1>1 DEF HasClock, Shows, Over
<1>3. tc'[t] = c /\ HasClock(t)'
  BY <1>0, <1>1 DEF HasClock
<1>4. \A i \in ClockType : Shows(t, i)' = View(c, i, IF Over THEN endProgrammTime ELSE now)
  BY <1>3 DEF Shows, Over, View
<1>5. CASE running
  <2>1. \A i \in ClockType : Shows(t, i)' = Shows(t, i)
    BY <1>4, <1>5 DEF Over
  <2>2. swTotal' = swTotal
    BY <1>2, <2>1 DEF swTotal
  <2>3. swMode' = [swMode EXCEPT ![t] = GetState(c)]
    BY <1>2, <1>3, <1>5 DEF swMode
  <2>4. swPhase = "on" /\ swPhase' = "on" /\ Measured' = Measured
    BY <1>5 DEF swPhase, Measured
  <2>5. GetState(c) \in ClockState
    BY TopState
  <2>6. SW!Switch(t, GetState(c))
    BY <2>2, <2>3, <2>4 DEF SW!Switch
  <2> QED
    BY <1>5, <2>5, <2>6 DEF SW!Next, SW!ClockState, ClockState, Before
<1>6. CASE ~running
  <2>1. \A i \in ClockType : Shows(t, i)' = Shows(t, i)
    <3>1. CASE HasClock(t)
      BY <1>1, <1>3, <1>6, <3>1 DEF ClockOf, Shows, Over
    <3>2. CASE ~HasClock(t)
      <4>1. c = NewClock
        BY <1>6, <3>2 DEF ClockOf
      <4>2. \A i \in ClockType : Shows(t, i)' = 0
        BY <1>0, <1>4, <4>1, FreshClocks
      <4> QED
        BY <3>2, <4>2 DEF Shows
    <3> QED
      BY <3>1, <3>2
  <2>2. swTotal' = swTotal /\ swMode' = swMode /\ swPhase' = swPhase /\ Measured' = Measured
    BY <1>2, <1>6, <2>1 DEF swTotal, swMode, swPhase, Measured, Over
  <2>3. Before' => \A u \in Thread : tc'[u] \in {NoClock, NewClock}
    BY <1>2, <1>3, <1>6 DEF Before, RInv, ClockOf
  <2> QED
    BY <2>2, <2>3 DEF SW!swVars
<1> QED
  BY <1>5, <1>6

\* The clock a timer works on shows what its thread's clock shows.
LEMMA ClockOfView ==
  ASSUME RInv, NEW t \in Thread
  PROVE  /\ ~running => mpiClock(t) = ClockOf(t)
         /\ running => \A i \in ClockType : /\ View(ClockOf(t), i, now) = Shows(t, i)
                                            /\ View(mpiClock(t), i, now) = Shows(t, i)
<1>1. now \in Int /\ running \in BOOLEAN /\ Sees(t) = running /\ "USEFUL" \in ClockState
  BY DEF RInv, TInv, TypeOK, Sees, ClockState
<1>2. running => \A i \in ClockType : View(ClockOf(t), i, now) = Shows(t, i)
  BY <1>1, FreshClocks DEF ClockOf, Shows, Over, View
<1>3. ~running => mpiClock(t) = ClockOf(t)
  BY <1>1, FreshClocks, EnterLemma DEF mpiClock, ClockOf
<1>4. ~HasClock(t) => \A i \in ClockType : View(mpiClock(t), i, now) = View(NewClock, i, now)
  BY <1>1, FreshClocks, EnterLemma DEF mpiClock
<1>5. HasClock(t) => mpiClock(t) = ClockOf(t)
  BY DEF mpiClock, ClockOf
<1> QED
  BY <1>2, <1>3, <1>4, <1>5 DEF ClockOf

\* A timer or callback that enters a state at the current time.
LEMMA EnterRefines ==
  ASSUME RInv, NEW t \in Thread, NEW c, Rooted(c), NEW call, NEW cs \in ClockState,
         Enter(t, c, call, 0, cs),
         ~running => c = ClockOf(t),
         running => \A i \in ClockType : View(c, i, now) = Shows(t, i)
  PROVE  /\ [SW!Next]_(SW!swVars)
         /\ Before' => \A u \in Thread : tc'[u] \in {NoClock, NewClock}
         /\ late' = {}
<1> DEFINE e == enterState(c, Sees(t), now, cs)
<1>1. now \in Int /\ Sees(t) \in BOOLEAN /\ Sees(t) = running /\ TimeArg(0) = now
  BY DEF RInv, TInv, TypeOK, Sees, TimeArg
<1>2. /\ Rooted(e)
      /\ ~running => e = c
      /\ \A i \in ClockType : View(e, i, now) = View(c, i, now)
  BY <1>1, EnterLemma
<1>3. Update(t, e) /\ late' = {}
  BY <1>1 DEF Enter, Tested, RInv
<1> HIDE DEF e
<1> QED
  BY <1>2, <1>3, SameTimeStep DEF Enter

\* A timer or callback that leaves a state.
LEMMA LeaveRefines ==
  ASSUME RInv, NEW t \in Thread, HasClock(t), NEW q \in BOOLEAN, Leave(t, q)
  PROVE  /\ [SW!Next]_(SW!swVars)
         /\ Before' => \A u \in Thread : tc'[u] \in {NoClock, NewClock}
         /\ late' = {}
<1> DEFINE e == exitState(tc[t], Sees(t), q, now)
<1>1. /\ now \in Int /\ Sees(t) \in BOOLEAN /\ Sees(t) = running
      /\ Rooted(tc[t]) /\ ClockOf(t) = tc[t]
  BY DEF RInv, TInv, TypeOK, Sees, ClocksRooted, ClockOf
<1>2. /\ Rooted(e)
      /\ ~running => e = ClockOf(t)
      /\ running => \A i \in ClockType : View(e, i, now) = Shows(t, i)
  BY <1>1, ExitLemma, ClockOfView
<1>3. Update(t, e) /\ late' = {}
  BY DEF Leave, Tested, RInv
<1> HIDE DEF e
<1> QED
  BY <1>2, <1>3, SameTimeStep DEF Leave

-----------------------------------------------------------------------------
(***************************************************************************)
(* The open calls of the workers.                                          *)
(***************************************************************************)
GoodCalls(s) ==
  /\ s # << >> /\ s[1].call = "rt"
  /\ Len(s) >= 2 => s[2].call \in {"user", "leaving"}

\* Opening a call inside a task.
LEMMA GoodAppend ==
  ASSUME NEW s \in Seq(Frame), GoodCalls(s), NEW f,
         Len(s) >= 2 \/ f.call \in {"user", "leaving"}
  PROVE  GoodCalls(Append(s, f))
BY DEF GoodCalls

\* Closing any call but the lowest.
LEMMA GoodPop ==
  ASSUME NEW s \in Seq(Frame), GoodCalls(s), Len(s) >= 2
  PROVE  pop_back(s) \in Seq(Frame) /\ GoodCalls(pop_back(s))
<1>1. /\ pop_back(s) \in Seq(Frame)
      /\ Len(pop_back(s)) = Len(s) - 1
      /\ \A k \in 1..(Len(s) - 1) : pop_back(s)[k] = s[k]
  BY PopBack
<1> QED
  BY <1>1 DEF GoodCalls

\* The start of a task replaces the runtime frame and opens the task's.
LEMMA GoodTask ==
  ASSUME NEW s \in Seq(Frame), GoodCalls(s), s[Len(s)].call = "rt",
         NEW f \in Frame, f.call = "rt", NEW g \in Frame, g.call = "user"
  PROVE  GoodCalls(pop_back(s) \o <<f, g>>)
<1>a. Len(s) # 2
  BY DEF GoodCalls
<1>b. Len(s) \in Nat /\ Len(s) # 0
  BY DEF GoodCalls
<1>c. \A n \in Nat : n # 0 /\ n # 2 => n = 1 \/ n >= 3
  OBVIOUS
<1>d. \A e \in Frame, h \in Frame : e.call = "rt" /\ h.call = "user" => GoodCalls(<<e, h>>)
  BY DEF GoodCalls
<1>1. CASE Len(s) = 1
  <2>1. pop_back(s) = << >>
    BY <1>1 DEF pop_back
  <2>2. pop_back(s) \o <<f, g>> = <<f, g>>
    BY <2>1
  <2> QED
    BY <1>d, <2>2
<1>2. CASE Len(s) >= 3
  <2> DEFINE p == pop_back(s)
  <2>1. p \in Seq(Frame) /\ GoodCalls(p) /\ Len(p) >= 2
    BY <1>2, GoodPop, PopBack
  <2> HIDE DEF p
  <2>2. /\ p \o <<f, g>> # << >> /\ (p \o <<f, g>>)[1] = p[1]
        /\ (p \o <<f, g>>)[2] = p[2]
    BY <2>1
  <2> QED
    BY <2>1, <2>2 DEF GoodCalls, p
<1> QED
  BY <1>a, <1>b, <1>c, <1>1, <1>2

\* A thread's step keeps what RInv says about the calls of workers.
LEMMA CallsStep ==
  ASSUME RInv, NEW t \in Thread, NEW c, Rooted(c), Update(t, c),
         calls' \in [Thread -> Seq(Frame)],
         \A u \in Thread \ {t} : calls'[u] = calls[u],
         t \in Workers => GoodCalls(calls'[t])
  PROVE  WorkerCalls' /\ \A w \in Workers : calls'[w] = << >> => tc'[w] = NoClock
<1>1. \A u \in Thread \ {t} : tc'[u] = tc[u]
  BY DEF Update, RInv, TInv, TypeOK
<1>2. \A w \in Workers : w \in Thread
  BY DEF Thread
<1> QED
  BY <1>1, <1>2 DEF RInv, WorkerCalls, GoodCalls

\* The calls of a worker that has any.
LEMMA WorkerGood ==
  ASSUME RInv, NEW w \in Workers, calls[w] # << >>
  PROVE  calls[w] \in Seq(Frame) /\ GoodCalls(calls[w]) /\ HasClock(w)
<1>1. w \in Thread
  BY DEF Thread
<1>2. calls[w] \in Seq(Frame) /\ GoodCalls(calls[w])
  BY <1>1 DEF RInv, WorkerCalls, GoodCalls, TInv, TypeOK
<1>3. calls[w] # <<UserFrame>>
  <2>1. <<UserFrame>>[1].call = "user"
    BY DEF UserFrame
  <2> QED
    BY <1>2, <2>1 DEF GoodCalls
<1> QED
  BY <1>1, <1>2, <1>3 DEF RInv, TInv, ClockPresent

\* In a call other than the lowest two kinds, a worker is at depth three.
LEMMA WorkerDepth ==
  ASSUME RInv, NEW w \in Workers, NEW K, In(w, K)
  PROVE  /\ K \cap {"rt"} = {} => Len(calls[w]) >= 2
         /\ K \cap {"rt", "user", "leaving"} = {} => Len(calls[w]) >= 3
<1>1. calls[w] # << >> /\ calls[w] \in Seq(Frame) /\ GoodCalls(calls[w])
  BY WorkerGood DEF In
<1>2. Len(calls[w]) \in Nat /\ Len(calls[w]) >= 1
  BY <1>1
<1>3. calls[w][Len(calls[w])].call \in K
  BY DEF In, InnerCall
<1> QED
  BY <1>1, <1>2, <1>3 DEF GoodCalls

-----------------------------------------------------------------------------
(***************************************************************************)
(* The steps of a thread.                                                  *)
(***************************************************************************)
\* Opening a call, if a worker opens it inside a task.
LEMMA OpenedGood ==
  ASSUME RInv, NEW t \in Thread, NEW call, NEW r, Opened(t, call, r), In(t, {"user"})
  PROVE  t \in Workers => GoodCalls(calls'[t])
<1>1. SUFFICES ASSUME t \in Workers PROVE GoodCalls(calls'[t])
  OBVIOUS
<1>2. calls[t] \in Seq(Frame) /\ GoodCalls(calls[t]) /\ Len(calls[t]) >= 2
  <2>1. {"user"} \cap {"rt"} = {} /\ calls[t] # << >>
    BY DEF In
  <2> QED
    BY <1>1, <2>1, WorkerGood, WorkerDepth
<1>3. calls'[t] = Append(calls[t], [call |-> call, isRunning |-> r])
  BY DEF Opened, RInv, TInv, TypeOK
<1> QED
  BY <1>2, <1>3, GoodAppend

\* Closing any call but the runtime frame of a worker.
LEMMA ClosedGood ==
  ASSUME RInv, NEW t \in Thread, Closed(t), NEW K, In(t, K), "rt" \notin K
  PROVE  t \in Workers => GoodCalls(calls'[t])
<1>1. SUFFICES ASSUME t \in Workers PROVE GoodCalls(calls'[t])
  OBVIOUS
<1>2. calls[t] \in Seq(Frame) /\ GoodCalls(calls[t]) /\ Len(calls[t]) >= 2
  <2>1. K \cap {"rt"} = {} /\ calls[t] # << >>
    BY DEF In
  <2> QED
    BY <1>1, <2>1, WorkerGood, WorkerDepth
<1>3. calls'[t] = pop_back(calls[t])
  BY DEF Closed, RInv, TInv, TypeOK
<1> QED
  BY <1>2, <1>3, GoodPop

\* A clock update by a thread that is visible as a Stopwatch step, with the
\* calls changed as above, keeps RInv.
LEMMA ThreadRefines ==
  ASSUME RInv, TInv', NEW t \in Thread, NEW c, Rooted(c), Update(t, c),
         \A u \in Thread \ {t} : calls'[u] = calls[u],
         t \in Workers => GoodCalls(calls'[t]),
         UNCHANGED <<loaded, running, endProgrammTime>>, late' = {},
         Before' => \A u \in Thread : tc'[u] \in {NoClock, NewClock}
  PROVE  RInv'
<1>1. WorkerCalls' /\ \A w \in Workers : calls'[w] = << >> => tc'[w] = NoClock
  BY CallsStep DEF TInv, TypeOK
<1> QED
  BY <1>1 DEF RInv, Before

\* Entering a state, with the call opened.
LEMMA EnterAll ==
  ASSUME RInv, TInv', NEW t \in Thread, NEW c, Rooted(c), NEW call, NEW cs \in ClockState,
         Enter(t, c, call, 0, cs), In(t, {"user"}),
         ~running => c = ClockOf(t),
         running => \A i \in ClockType : View(c, i, now) = Shows(t, i)
  PROVE  RInv' /\ [SW!Next]_(SW!swVars)
<1> DEFINE e == enterState(c, Sees(t), TimeArg(0), cs)
<1>1. Sees(t) \in BOOLEAN /\ TimeArg(0) \in Int
  BY DEF RInv, TInv, TypeOK, Sees, TimeArg
<1>2. Rooted(e) /\ Update(t, e)
  BY <1>1, EnterLemma DEF Enter
<1>3. /\ [SW!Next]_(SW!swVars) /\ late' = {}
      /\ Before' => \A u \in Thread : tc'[u] \in {NoClock, NewClock}
  BY EnterRefines
<1>4. \A u \in Thread \ {t} : calls'[u] = calls[u]
  BY DEF Enter, Opened, RInv, TInv, TypeOK
<1>5. t \in Workers => GoodCalls(calls'[t])
  BY OpenedGood DEF Enter
<1>6. UNCHANGED <<loaded, running, endProgrammTime>>
  BY DEF Enter
<1> HIDE DEF e
<1> QED
  BY <1>2, <1>3, <1>4, <1>5, <1>6, ThreadRefines

\* Leaving a state, whatever becomes of the thread's own calls.
LEMMA LeaveAll ==
  ASSUME RInv, TInv', NEW t \in Thread, HasClock(t), NEW q \in BOOLEAN, Leave(t, q),
         \A u \in Thread \ {t} : calls'[u] = calls[u],
         t \in Workers => GoodCalls(calls'[t])
  PROVE  RInv' /\ [SW!Next]_(SW!swVars)
<1> DEFINE e == exitState(tc[t], Sees(t), q, now)
<1>1. Sees(t) \in BOOLEAN /\ now \in Int /\ Rooted(tc[t])
  BY DEF RInv, TInv, TypeOK, Sees, ClocksRooted
<1>2. Rooted(e) /\ Update(t, e)
  BY <1>1, ExitLemma DEF Leave
<1>3. /\ [SW!Next]_(SW!swVars) /\ late' = {}
      /\ Before' => \A u \in Thread : tc'[u] \in {NoClock, NewClock}
  BY LeaveRefines
<1>4. UNCHANGED <<loaded, running, endProgrammTime>>
  BY DEF Leave
<1> HIDE DEF e
<1> QED
  BY <1>2, <1>3, <1>4, ThreadRefines

\* Leaving a state and closing the call.
LEMMA LeaveClosed ==
  ASSUME RInv, TInv', NEW t \in Thread, NEW q \in BOOLEAN, Leave(t, q), Closed(t),
         NEW K, In(t, K), K \cap {"rt", "user"} = {}
  PROVE  RInv' /\ [SW!Next]_(SW!swVars)
<1>1. HasClock(t)
  BY InHasClock DEF RInv
<1>2. \A u \in Thread \ {t} : calls'[u] = calls[u]
  BY DEF Closed, RInv, TInv, TypeOK
<1>3. t \in Workers => GoodCalls(calls'[t])
  BY ClosedGood
<1> QED
  BY <1>1, <1>2, <1>3, LeaveAll

\* Every step of the timers and callbacks of a thread.
LEMMA ThreadStepRefines ==
  ASSUME RInv, NEW t \in Thread, ThreadStep(t)
  PROVE  RInv' /\ [SW!Next]_(SW!swVars)
<1>0. TInv /\ TInv' /\ {"USEFUL", "MPI", "OMP"} \subseteq ClockState
  BY ThreadStepType DEF RInv, ClockState
<1>t. /\ tc \in [Thread -> threadClock] /\ calls \in [Thread -> Seq(Frame)]
      /\ calls[t] \in Seq(Frame) /\ now \in Int /\ running \in BOOLEAN
      /\ Sees(t) \in BOOLEAN /\ Sees(t) = running
  BY DEF RInv, TInv, TypeOK, Sees
<1>1. ASSUME mpiTimer(t) PROVE RInv' /\ [SW!Next]_(SW!swVars)
  BY <1>0, <1>1, ClockOfRooted, ClockOfView, EnterAll DEF mpiTimer
<1>2. ASSUME mpiTimerEnd(t) PROVE RInv' /\ [SW!Next]_(SW!swVars)
  BY <1>0, <1>2, LeaveClosed DEF mpiTimerEnd
<1>3. ASSUME enterOpenMP(t) PROVE RInv' /\ [SW!Next]_(SW!swVars)
  <2>1. tc[t] = ClockOf(t) /\ Rooted(tc[t])
    BY <1>0, <1>3 DEF enterOpenMP, ClockOf, TInv, ClocksRooted
  <2> QED
    BY <1>0, <1>3, <2>1, ClockOfView, EnterAll DEF enterOpenMP
<1>4. ASSUME exitOpenMP(t) PROVE RInv' /\ [SW!Next]_(SW!swVars)
  BY <1>0, <1>4, LeaveClosed DEF exitOpenMP
<1>5. ASSUME ompt_tsan_implicit_task_begin(t) PROVE RInv' /\ [SW!Next]_(SW!swVars)
  <2> DEFINE reused == ~(t = Initial /\ Len(calls[t]) = 2) /\ GetState(tc[t]) = "INIT"
             inOmp == IF reused THEN enterState(tc[t], Sees(t), now, "OMP") ELSE tc[t]
             e == enterState(inOmp, Sees(t), now, "USEFUL")
             rt == [call |-> "rt", isRunning |-> InnerCall(t).isRunning \/ (reused /\ Sees(t))]
             user == [call |-> "user", isRunning |-> Sees(t)]
             new == pop_back(calls[t]) \o <<rt, user>>
  <2>1. HasClock(t) /\ Rooted(tc[t]) /\ calls[t] # << >> /\ tc[t] = ClockOf(t)
    BY <1>0, <1>5, InHasClock DEF TInv, ClocksRooted, ompt_tsan_implicit_task_begin, ClockOf
  <2>2. /\ Rooted(inOmp)
        /\ ~running => inOmp = tc[t]
        /\ \A i \in ClockType : View(inOmp, i, now) = View(tc[t], i, now)
    BY <1>0, <1>t, <2>1, EnterLemma
  <2> HIDE DEF inOmp
  <2>3. /\ Rooted(e)
        /\ ~running => e = tc[t]
        /\ \A i \in ClockType : View(e, i, now) = View(inOmp, i, now)
    BY <1>0, <1>t, <2>2, EnterLemma
  <2>4. Update(t, e) /\ UNCHANGED <<now, loaded, running, startProgrammTime, endProgrammTime>> /\ late' = {}
    BY <1>5 DEF ompt_tsan_implicit_task_begin, inOmp, Tested, RInv
  <2> HIDE DEF e
  <2>5. /\ [SW!Next]_(SW!swVars)
        /\ Before' => \A u \in Thread : tc'[u] \in {NoClock, NewClock}
    BY <2>1, <2>2, <2>3, <2>4, ClockOfView, SameTimeStep
  <2>6. calls' = [calls EXCEPT ![t] = new]
    BY <1>5 DEF ompt_tsan_implicit_task_begin
  <2>7. t \in Workers => GoodCalls(new)
    <3>1. SUFFICES ASSUME t \in Workers PROVE GoodCalls(new)
      OBVIOUS
    <3>2. GoodCalls(calls[t]) /\ calls[t][Len(calls[t])].call = "rt"
      BY <1>5, <2>1, <3>1, WorkerGood DEF ompt_tsan_implicit_task_begin, In, InnerCall
    <3>3. rt \in Frame /\ rt.call = "rt" /\ user \in Frame /\ user.call = "user"
      <4>1. InnerCall(t) \in Frame
        BY <1>t, <2>1 DEF InnerCall
      <4> QED
        BY <1>t, <4>1 DEF Frame, Call
    <3> HIDE DEF rt, user
    <3> QED
      BY <1>t, <3>2, <3>3, GoodTask
  <2> HIDE DEF new
  <2>8. \A u \in Thread \ {t} : calls'[u] = calls[u]
    BY <1>t, <2>6
  <2>9. t \in Workers => GoodCalls(calls'[t])
    BY <1>t, <2>6, <2>7
  <2> QED
    BY <1>0, <2>3, <2>4, <2>5, <2>8, <2>9, ThreadRefines
<1>6. ASSUME ompt_tsan_implicit_task_end(t) PROVE RInv' /\ [SW!Next]_(SW!swVars)
  <2>1. calls[t] # << >>
    BY <1>6 DEF ompt_tsan_implicit_task_end, In
  <2>2. InnerCall(t) \in Frame
    BY <1>t, <2>1 DEF InnerCall
  <2>3. InnerCall(t).isRunning \in BOOLEAN
    BY <2>2 DEF Frame
  <2> QED
    BY <1>0, <1>6, <2>3, LeaveClosed DEF ompt_tsan_implicit_task_end
<1>7. ASSUME NEW kind \in {"barrier", "join"}, ompt_tsan_sync_region_begin(t, kind)
      PROVE  RInv' /\ [SW!Next]_(SW!swVars)
  <2>1. calls[t] # << >> /\ Len(calls[t]) # 1 /\ Len(<<UserFrame>>) = 1
    BY <1>7 DEF ompt_tsan_sync_region_begin, In
  <2>2. tc[t] = ClockOf(t) /\ Rooted(tc[t])
    BY <1>0, <2>1 DEF TInv, ClockPresent, ClocksRooted, ClockOf
  <2> QED
    BY <1>0, <1>7, <2>2, ClockOfView, EnterAll DEF ompt_tsan_sync_region_begin
<1>8. ASSUME ompt_tsan_sync_region_end(t) PROVE RInv' /\ [SW!Next]_(SW!swVars)
  <2>1. HasClock(t) /\ calls[t] # << >> /\ InnerCall(t).call \in {"barrier", "join"}
    BY <1>0, <1>8, InHasClock DEF ompt_tsan_sync_region_end, In
  <2>2. Len(calls[t]) > 1
    BY <1>0, <1>t, <2>1 DEF TInv, TaskBelowBarrier, InnerCall
  <2>3. TaskIsRunning(t) \in BOOLEAN
    <3>1. calls[t][Len(calls[t]) - 1] \in Frame
      BY <1>t, <2>2
    <3> QED
      BY <3>1 DEF TaskIsRunning, Frame
  <2>4. CASE In(t, {"barrier"}) /\ Leave(t, TaskIsRunning(t)) /\ Closed(t)
    BY <1>0, <2>3, <2>4, LeaveClosed
  <2>5. CASE /\ In(t, {"join"}) /\ Leave(t, TaskIsRunning(t))
             /\ calls' = [calls EXCEPT ![t] =
                    Append(pop_back(pop_back(@)),
                           [call |-> "leaving", isRunning |-> TaskIsRunning(t)])]
    <3> DEFINE f == [call |-> "leaving", isRunning |-> TaskIsRunning(t)]
               p == pop_back(pop_back(calls[t]))
    <3>1. calls' = [calls EXCEPT ![t] = Append(p, f)] /\ f.call = "leaving"
      BY <2>5
    <3> HIDE DEF f
    <3>2. t \in Workers => GoodCalls(Append(p, f))
      <4>1. SUFFICES ASSUME t \in Workers PROVE GoodCalls(Append(p, f))
        OBVIOUS
      <4>2. GoodCalls(calls[t]) /\ Len(calls[t]) >= 3
        BY <2>1, <2>5, <4>1, WorkerGood, WorkerDepth
      <4>3. /\ pop_back(calls[t]) \in Seq(Frame) /\ GoodCalls(pop_back(calls[t]))
            /\ Len(pop_back(calls[t])) >= 2
        BY <1>t, <4>2, GoodPop, PopBack
      <4>4. p \in Seq(Frame) /\ GoodCalls(p)
        BY <4>3, GoodPop
      <4> QED
        BY <3>1, <4>4, GoodAppend
    <3>3. \A u \in Thread \ {t} : calls'[u] = calls[u]
      BY <1>t, <3>1
    <3>4. t \in Workers => GoodCalls(calls'[t])
      BY <1>t, <3>1, <3>2
    <3> QED
      BY <1>0, <2>1, <2>3, <2>5, <3>3, <3>4, LeaveAll
  <2> QED
    BY <1>8, <2>4, <2>5 DEF ompt_tsan_sync_region_end
<1> QED
  BY <1>1, <1>2, <1>3, <1>4, <1>5, <1>6, <1>7, <1>8 DEF ThreadStep

-----------------------------------------------------------------------------
(***************************************************************************)
(* Time, start and stop.                                                   *)
(***************************************************************************)
\* Before the measurement every clock shows nothing.
LEMMA BeforeZero ==
  ASSUME RInv, Before, NEW t \in Thread
  PROVE  /\ \A i \in ClockType : Shows(t, i) = 0
         /\ \A time \in Int, i \in ClockType : View(ClockOf(t), i, time) = 0
         /\ HasClock(t) => GetState(tc[t]) = "INIT"
<1>1. tc[t] \in {NoClock, NewClock} /\ now \in Int /\ endProgrammTime \in Int
  BY DEF RInv, TInv, TypeOK
<1>2. HasClock(t) => tc[t] = NewClock
  BY <1>1 DEF HasClock, NoClock
<1>3. \A i \in ClockType : Shows(t, i) = 0
  BY <1>1, <1>2, FreshClocks DEF Shows, View
<1> QED
  BY <1>2, <1>3, FreshClocks DEF ClockOf

\* The measurement starts with a clock of the initial thread that shows zero.
LEMMA StartStep ==
  ASSUME RInv, Before, NEW c, Rooted(c), Update(Initial, c),
         running' = TRUE, startProgrammTime' = now, UNCHANGED <<now, endProgrammTime>>,
         \A i \in ClockType : View(c, i, now) = 0
  PROVE  SW!Next
<1>0. /\ tc \in [Thread -> threadClock] /\ now \in Int /\ Initial \in Thread
      /\ c.clock_state_stack # << >>
  BY RootedHasClock DEF RInv, TInv, TypeOK, Thread
<1>1. \A u \in Thread \ {Initial} : tc'[u] = tc[u] /\ HasClock(u)' = HasClock(u)
  BY <1>0 DEF Update, HasClock
<1>2. tc'[Initial] = c /\ HasClock(Initial)'
  BY <1>0 DEF Update, HasClock
<1>3. \A u \in Thread, i \in ClockType : Shows(u, i) = 0
  BY BeforeZero
<1>4. \A u \in Thread, i \in ClockType : Shows(u, i)' = 0
  <2>1. \A i \in ClockType : Shows(Initial, i)' = 0
    BY <1>2 DEF Shows, Over, View
  <2>2. \A u \in Thread \ {Initial}, i \in ClockType : Shows(u, i)' = Shows(u, i)
    BY <1>1 DEF Shows, Over, Before
  <2> QED
    BY <1>3, <2>1, <2>2
<1>5. swTotal' = swTotal
  BY <1>3, <1>4 DEF swTotal
<1>6. swMode' = [swMode EXCEPT ![Initial] = GetState(c)]
  BY <1>0, <1>1, <1>2, BeforeZero DEF swMode, Before
<1>7. swPhase = "before" /\ swPhase' = "on" /\ Measured = 0 /\ Measured' = 0
  BY <1>0 DEF swPhase, Measured, Over, Before
<1>8. SW!Start(Initial, GetState(c))
  BY <1>5, <1>6, <1>7 DEF SW!Start
<1>9. GetState(c) \in ClockState
  BY TopState
<1> QED
  BY <1>0, <1>8, <1>9 DEF SW!Next, SW!ClockState, ClockState

\* Time passes.
LEMMA TickRefines ==
  ASSUME RInv, Tick, loaded
  PROVE  RInv' /\ [SW!Next]_(SW!swVars)
<1>0. /\ now \in Int /\ now' = now + 1 /\ startProgrammTime \in Int
      /\ tc \in [Thread -> threadClock] /\ TInv'
      /\ UNCHANGED <<loaded, running, startProgrammTime, endProgrammTime, tc, calls, late>>
  <2>1. TInv /\ Next
    BY DEF RInv, Next, AfterLoad
  <2>2. TInv'
    BY <2>1, NextType
  <2>3. now \in Int /\ startProgrammTime \in Int /\ tc \in [Thread -> threadClock]
    BY <2>1 DEF TInv, TypeOK
  <2>4. /\ now' = now + 1
        /\ UNCHANGED <<loaded, running, startProgrammTime, endProgrammTime, tc, calls, late>>
    BY DEF Tick
  <2> QED
    BY <2>2, <2>3, <2>4
<1>1. RInv'
  BY <1>0 DEF RInv, WorkerCalls, Before
<1>2. CASE running
  <2>1. \A t \in Thread, i \in ClockType : Shows(t, i)' =
          IF i \in State[swMode[t]] THEN Shows(t, i) + 1 ELSE Shows(t, i)
    <3>1. State["INIT"] = {}
      BY DEF State
    <3>2. SUFFICES ASSUME NEW t \in Thread, NEW i \in ClockType
                   PROVE  Shows(t, i)' =
                            IF i \in State[swMode[t]] THEN Shows(t, i) + 1 ELSE Shows(t, i)
      OBVIOUS
    <3>3. CASE ~HasClock(t)
      BY <1>0, <1>2, <3>1, <3>3 DEF Shows, swMode, HasClock
    <3>4. CASE HasClock(t)
      <4>1. tc[t].clocks[i] \in Int
        BY <1>0 DEF threadClock, Bank
      <4>2. swMode[t] = GetState(tc[t]) /\ HasClock(t)'
        BY <1>0, <1>2, <3>4 DEF swMode, HasClock
      <4> QED
        BY <1>0, <1>2, <3>4, <4>1, <4>2 DEF Shows, Over, Elapsed
    <3> QED
      BY <3>3, <3>4
  <2>2. /\ swMode' = swMode /\ swPhase = "on" /\ swPhase' = "on"
        /\ Measured \in Int /\ Measured' = Measured + 1
    BY <1>0, <1>2 DEF swMode, swPhase, Measured, HasClock
  <2>3. \A t \in Thread, i \in ClockType : swTotal[t][i] = Shows(t, i)
    BY DEF swTotal
  <2>4. swTotal' = [t \in Thread |-> [i \in ClockType |->
                     IF i \in State[swMode[t]] THEN swTotal[t][i] + (Measured' - Measured)
                                               ELSE swTotal[t][i]]]
    <3>1. Measured' - Measured = 1
      BY <2>2
    <3>2. swTotal' = [t \in Thread |-> [i \in ClockType |-> Shows(t, i)']]
      BY DEF swTotal
    <3> QED
      BY <2>1, <2>3, <3>1, <3>2
  <2>5. SW!Advance
    BY <2>2, <2>4 DEF SW!Advance, SW!State, State, SW!ClockType, ClockType
  <2> QED
    BY <1>1, <2>5 DEF SW!Next
<1>3. CASE ~running
  <2>1. \A t \in Thread, i \in ClockType : Shows(t, i)' = Shows(t, i)
    <3>1. CASE Over
      BY <1>0, <3>1 DEF Shows, Over, HasClock
    <3>2. CASE ~Over
      <4>1. Before /\ Before'
        BY <1>0, <1>3, <3>2 DEF Over, Before
      <4>2. \A t \in Thread, i \in ClockType : Shows(t, i) = 0
        BY <4>1, BeforeZero
      <4>3. \A t \in Thread : HasClock(t) => tc[t] = NewClock
        BY <4>1 DEF RInv, HasClock, NoClock
      <4>4. \A t \in Thread, i \in ClockType : Shows(t, i)' = 0
        BY <1>0, <3>2, <4>3, FreshClocks DEF Shows, View, Over, HasClock
      <4> QED
        BY <4>2, <4>4
    <3> QED
      BY <3>1, <3>2
  <2>2. swTotal' = swTotal /\ swMode' = swMode /\ swPhase' = swPhase /\ Measured' = Measured
    BY <1>0, <1>3, <2>1 DEF swTotal, swMode, swPhase, Measured, Over, HasClock
  <2> QED
    BY <1>1, <2>2 DEF SW!swVars
<1> QED
  BY <1>2, <1>3, <1>0 DEF RInv, TInv, TypeOK

\* stopMeasurement, with clocks stopped or left alone: a Freeze if measuring,
\* nothing visible otherwise.
LEMMA StopStep ==
  ASSUME RInv, TInv', loaded, Straddle = FALSE, stopMeasurement,
         UNCHANGED <<now, loaded, startProgrammTime, calls>>,
         \A t \in Thread : tc'[t] = tc[t] \/ (HasClock(t) /\ tc'[t] = StopClock(tc[t]))
  PROVE  RInv' /\ [SW!Next]_(SW!swVars)
<1> DEFINE stop == TimeArg(endProgrammTime')
<1>0. /\ now \in Int /\ now # 0 /\ endProgrammTime \in Nat /\ endProgrammTime' \in Nat
      /\ running' = FALSE /\ stop \in Int /\ running \in BOOLEAN
  BY DEF RInv, TInv, TypeOK, stopMeasurement, TimeArg
<1>1. late' = {}
  BY DEF stopMeasurement, Overtaken, RInv
<1>2. \A t \in Thread : HasClock(t) =>
         /\ HasClock(t)'
         /\ \A i \in ClockType : View(tc'[t], i, stop) = View(tc[t], i, stop)
         /\ tc[t] = NewClock => tc'[t] = NewClock
  <2>1. \A t \in Thread : HasClock(t) => Rooted(tc[t]) /\ tc[t].clock_state_stack # << >>
    BY RootedHasClock DEF RInv, TInv, ClocksRooted
  <2>2. \A c : Rooted(c) => /\ Rooted(StopClock(c))
                            /\ \A i \in ClockType : View(StopClock(c), i, stop) = View(c, i, stop)
                            /\ c = NewClock => StopClock(c) = NewClock
    BY <1>0, SetInitLemma DEF StopClock
  <2> HIDE DEF StopClock, stop
  <2> QED
    BY <2>1, <2>2, RootedHasClock DEF HasClock
<1>3. \A t \in Thread : ~HasClock(t) => tc'[t] = tc[t] /\ ~HasClock(t)'
  BY DEF HasClock
<1>4. RInv'
  <2>1. WorkerCalls' /\ \A w \in Workers : calls'[w] = << >> => tc'[w] = NoClock
    <3>1. ~(NoClock.clock_state_stack # << >>) /\ \A w \in Workers : w \in Thread
      BY DEF NoClock, Thread
    <3> QED
      BY <1>3, <3>1 DEF RInv, WorkerCalls, HasClock
  <2>2. Before' => Before
    BY <1>0 DEF Before, stopMeasurement
  <2>3. Before' => \A t \in Thread : tc'[t] \in {NoClock, NewClock}
    <3>1. ~(NoClock.clock_state_stack # << >>)
      BY DEF NoClock
    <3> QED
      BY <1>2, <1>3, <2>2, <3>1 DEF RInv, HasClock
  <2> QED
    BY <1>0, <1>1, <2>1, <2>3 DEF RInv
<1>5. CASE running
  <2>1. endProgrammTime' = now /\ stop = now
    BY <1>0, <1>5 DEF stopMeasurement, TimeArg
  <2> HIDE DEF stop
  <2>2. \A t \in Thread, i \in ClockType : Shows(t, i)' = Shows(t, i)
    BY <1>0, <1>2, <1>3, <1>5, <2>1 DEF Shows, Over, View
  <2>3. swTotal' = swTotal /\ swMode' = [t \in Thread |-> "INIT"]
    BY <1>0, <2>2 DEF swTotal, swMode
  <2>4. swPhase = "on" /\ swPhase' = "over" /\ Measured' = Measured
    BY <1>0, <1>5, <2>1 DEF swPhase, Measured, Over
  <2>5. SW!Freeze
    BY <2>3, <2>4 DEF SW!Freeze
  <2> QED
    BY <1>4, <2>5 DEF SW!Next
<1>6. CASE ~running
  <2>1. UNCHANGED <<running, endProgrammTime>>
    BY <1>0, <1>6 DEF stopMeasurement
  <2>2. \A t \in Thread, i \in ClockType : Shows(t, i)' = Shows(t, i)
    <3>1. CASE Over
      <4>1. stop = endProgrammTime
        BY <2>1, <3>1 DEF Over, TimeArg
      <4> HIDE DEF stop
      <4> QED
        BY <1>2, <1>3, <2>1, <3>1, <4>1 DEF Shows, Over, View
    <3>2. CASE ~Over
      <4>1. Before
        BY <1>6, <3>2 DEF Over, Before
      <4>2. \A t \in Thread : HasClock(t) => tc[t] = NewClock
        BY <4>1 DEF RInv, HasClock, NoClock
      <4> QED
        BY <1>2, <1>3, <2>1, <3>2, <4>2 DEF Shows, Over
    <3> QED
      BY <3>1, <3>2
  <2>3. swTotal' = swTotal /\ swMode' = swMode /\ swPhase' = swPhase /\ Measured' = Measured
    BY <1>6, <2>1, <2>2 DEF swTotal, swMode, swPhase, Measured, Over
  <2> QED
    BY <1>4, <2>3 DEF SW!swVars
<1> QED
  BY <1>0, <1>5, <1>6

\* A worker comes up.
LEMMA ThreadBeginRefines ==
  ASSUME RInv, TInv', NEW w \in Workers, ompt_tsan_thread_begin(w)
  PROVE  RInv' /\ [SW!Next]_(SW!swVars)
<1> DEFINE e == enterState(NewClock, Sees(w), startProgrammTime, "OMP")
<1>0. /\ w \in Thread /\ now \in Int /\ startProgrammTime \in Int /\ startProgrammTime # 0
      /\ running \in BOOLEAN /\ Sees(w) \in BOOLEAN /\ Sees(w) = running
      /\ "OMP" \in ClockState /\ tc \in [Thread -> threadClock]
      /\ calls \in [Thread -> Seq(Frame)]
  BY DEF RInv, TInv, TypeOK, Thread, Sees, ClockState
<1>1. calls[w] = << >> /\ tc[w] = NoClock /\ ~HasClock(w) /\ ClockOf(w) = NewClock
  BY DEF ompt_tsan_thread_begin, RInv, ClockOf, HasClock, NoClock
<1>2. Enter(w, NewClock, "rt", startProgrammTime, "OMP") /\ TimeArg(startProgrammTime) = startProgrammTime
  BY <1>0, <1>1 DEF ompt_tsan_thread_begin, TimeArg
<1>3. /\ Rooted(e)
      /\ ~running => e = NewClock
      /\ running => GetState(e) = "OMP"
      /\ \A i \in ClockType : View(e, i, startProgrammTime) = 0
  BY <1>0, FreshClocks, EnterLemma
<1>4. /\ Update(w, e) /\ Opened(w, "rt", Sees(w)) /\ late' = {}
      /\ UNCHANGED <<now, loaded, running, startProgrammTime, endProgrammTime>>
  BY <1>2 DEF Enter, Tested, RInv
<1> HIDE DEF e
<1>5. \A u \in Thread \ {w} : calls'[u] = calls[u]
  BY <1>0, <1>4 DEF Opened
<1>6. GoodCalls(calls'[w])
  <2>1. calls'[w] = Append(<< >>, [call |-> "rt", isRunning |-> Sees(w)])
    BY <1>0, <1>1, <1>4 DEF Opened
  <2>2. calls'[w] = <<[call |-> "rt", isRunning |-> Sees(w)]>>
    BY <2>1
  <2> QED
    BY <2>2 DEF GoodCalls
<1>7. CASE ~running
  <2>1. /\ [SW!Next]_(SW!swVars)
        /\ Before' => \A u \in Thread : tc'[u] \in {NoClock, NewClock}
    BY <1>0, <1>1, <1>3, <1>4, <1>7, SameTimeStep
  <2> QED
    BY <1>0, <1>3, <1>4, <1>5, <1>6, <2>1, ThreadRefines
<1>8. CASE running
  <2>1. RInv'
    BY <1>0, <1>3, <1>4, <1>5, <1>6, <1>8, ThreadRefines DEF Before
  <2>2. /\ \A u \in Thread \ {w} : tc'[u] = tc[u] /\ HasClock(u)' = HasClock(u)
        /\ tc'[w] = e /\ HasClock(w)'
    BY <1>0, <1>3, <1>4, RootedHasClock DEF Update, HasClock
  <2>3. \A i \in ClockType : Shows(w, i)' = IF i \in State["OMP"] THEN Measured ELSE 0
    <3>1. SUFFICES ASSUME NEW i \in ClockType
                   PROVE  Shows(w, i)' = IF i \in State["OMP"] THEN Measured ELSE 0
      OBVIOUS
    <3>2. e.clocks[i] \in Int
      BY <1>3 DEF Rooted, threadClock, Bank
    <3>3. Shows(w, i)' = Elapsed(e.clocks[i], i, "OMP", now)
      BY <1>3, <1>4, <1>8, <2>2 DEF Shows, Over
    <3>4. Elapsed(e.clocks[i], i, "OMP", startProgrammTime) = 0
      BY <1>3, <1>8 DEF View
    <3> QED
      <4> DEFINE v == e.clocks[i]
      <4>1. Measured = now - startProgrammTime
        BY <1>8 DEF Measured
      <4>2. Shows(w, i)' = v + (IF i \in State["OMP"] THEN now ELSE 0)
        BY <3>3 DEF Elapsed
      <4>3. v + (IF i \in State["OMP"] THEN startProgrammTime ELSE 0) = 0
        BY <3>4 DEF Elapsed
      <4>4. v \in Int
        BY <3>2
      <4>5. now \in Int /\ startProgrammTime \in Int
        BY <1>0
      <4> HIDE DEF v
      <4>6. CASE i \in State["OMP"]
        <5>1. Shows(w, i)' = v + now /\ v + startProgrammTime = 0
          BY <4>2, <4>3, <4>6
        <5>2. v + now = now - startProgrammTime
          BY <4>4, <4>5, <5>1
        <5> QED
          BY <4>1, <4>6, <5>1, <5>2
      <4>7. CASE i \notin State["OMP"]
        BY <4>2, <4>3, <4>4, <4>7
      <4> QED
        BY <4>6, <4>7
  <2>4. \A u \in Thread \ {w}, i \in ClockType : Shows(u, i)' = Shows(u, i)
    BY <1>4, <2>2 DEF Shows, Over
  <2>5. \A i \in ClockType : Shows(w, i) = 0
    BY <1>1 DEF Shows
  <2>6. swMode[w] = "INIT" /\ swMode' = [swMode EXCEPT ![w] = "OMP"]
    BY <1>0, <1>1, <1>3, <1>4, <1>8, <2>2 DEF swMode
  <2>7. /\ swPhase = "on" /\ swPhase' = "on" /\ Measured' = Measured /\ Measured \in Int
        /\ \A t \in Thread, i \in ClockType : swTotal[t][i] = Shows(t, i)
    BY <1>0, <1>4, <1>8 DEF swPhase, Measured, swTotal
  <2>8. swTotal' = [swTotal EXCEPT ![w] = [i \in ClockType |->
                     IF i \in State["OMP"] THEN swTotal[w][i] + Measured ELSE swTotal[w][i]]]
    <3>1. swTotal' = [t \in Thread |-> [i \in ClockType |-> Shows(t, i)']]
      BY DEF swTotal
    <3>2. \A i \in ClockType : Shows(w, i)' =
             IF i \in State["OMP"] THEN swTotal[w][i] + Measured ELSE swTotal[w][i]
      <4>1. SUFFICES ASSUME NEW i \in ClockType
                     PROVE  Shows(w, i)' =
                       IF i \in State["OMP"] THEN swTotal[w][i] + Measured ELSE swTotal[w][i]
        OBVIOUS
      <4>2. swTotal[w][i] = 0
        BY <1>0, <2>5, <2>7
      <4>3. Shows(w, i)' = IF i \in State["OMP"] THEN Measured ELSE 0
        BY <2>3
      <4>4. 0 + Measured = Measured
        BY <2>7
      <4> QED
        BY <4>2, <4>3, <4>4
    <3>3. \A u \in Thread \ {w} : [i \in ClockType |-> Shows(u, i)'] = swTotal[u]
      BY <2>4 DEF swTotal
    <3>4. [i \in ClockType |-> Shows(w, i)'] = [i \in ClockType |->
             IF i \in State["OMP"] THEN swTotal[w][i] + Measured ELSE swTotal[w][i]]
      BY <3>2
    <3>5. swTotal = [t \in Thread |-> swTotal[t]]
      BY DEF swTotal
    <3> QED
      BY <1>0, <3>1, <3>3, <3>4, <3>5
  <2>9. SW!Join(w)
    BY <1>0, <2>5, <2>6, <2>7, <2>8 DEF SW!Join, SW!State, State, SW!ClockType, ClockType
  <2> QED
    BY <1>0, <2>1, <2>9 DEF SW!Next
<1> QED
  BY <1>0, <1>7, <1>8

\* startTool changes nothing that a clock shows, and does nothing if it does
\* not start.
LEMMA StartToolView ==
  ASSUME RInv, NEW c, Rooted(c), NEW b \in BOOLEAN, NEW cs \in ClockState
  PROVE  /\ Rooted(startTool(c, b, cs))
         /\ ~b => startTool(c, b, cs) = c
         /\ \A i \in ClockType : View(startTool(c, b, cs), i, now) = View(c, i, now)
<1>1. now \in Int /\ TInv /\ "USEFUL" \in ClockState
  <2>1. TInv /\ TypeOK
    BY DEF RInv, TInv
  <2>2. now \in Int
    BY <2>1 DEF TypeOK
  <2>3. "USEFUL" \in ClockState
    BY DEF ClockState
  <2> QED
    BY <2>1, <2>2, <2>3
<1> DEFINE f == IF cs = "MPI" /\ GetState(c) = "INIT" THEN enterState(c, TRUE, now, "USEFUL") ELSE c
<1>2. Rooted(f) /\ \A i \in ClockType : View(f, i, now) = View(c, i, now)
  BY <1>1, EnterLemma
<1>3. startTool(c, b, cs) = IF ~b THEN c ELSE enterState(f, TRUE, now, cs)
  BY DEF startTool
<1> HIDE DEF f
<1>4. /\ Rooted(enterState(f, TRUE, now, cs))
      /\ \A i \in ClockType : View(enterState(f, TRUE, now, cs), i, now) = View(f, i, now)
  BY <1>1, <1>2, EnterLemma
<1> QED
  BY <1>2, <1>3, <1>4

\* A step of the initial thread that may start the measurement.
LEMMA InitialRefines ==
  ASSUME RInv, TInv', loaded, endProgrammTime = 0, NEW b \in BOOLEAN, b => ~running,
         NEW c, Rooted(c), Update(Initial, c),
         startMeasurement(b), UNCHANGED <<now, loaded, endProgrammTime>>, late' = {},
         \A u \in Thread \ {Initial} : calls'[u] = calls[u],
         \A i \in ClockType : View(c, i, now) = View(ClockOf(Initial), i, now),
         ~running /\ ~b => c = ClockOf(Initial)
  PROVE  RInv' /\ [SW!Next]_(SW!swVars)
<1>0. /\ Initial \in Thread /\ Initial \notin Workers
      /\ now \in Int /\ running \in BOOLEAN /\ loaded' = TRUE
  <2>1. Initial \in Thread /\ Initial \notin Workers
    BY ThreadClockAssumption DEF Thread
  <2>2. TypeOK
    BY DEF RInv, TInv
  <2>3. now \in Int /\ running \in BOOLEAN
    BY <2>2 DEF TypeOK
  <2>4. loaded' = TRUE
    BY <2>2 DEF TypeOK
  <2> QED
    BY <2>1, <2>3, <2>4
<1>1. WorkerCalls' /\ \A w \in Workers : calls'[w] = << >> => tc'[w] = NoClock
  BY <1>0, CallsStep DEF TInv, TypeOK
<1>2. CASE b
  <2>1. running' = TRUE /\ startProgrammTime' = now /\ Before
    BY <1>2 DEF startMeasurement, Before
  <2>2. \A i \in ClockType : View(c, i, now) = 0
    BY <1>0, <2>1, BeforeZero
  <2>3. SW!Next
    BY <2>1, <2>2, StartStep
  <2> QED
    BY <1>0, <1>1, <2>1, <2>3 DEF RInv, Before
<1>3. CASE ~b
  <2>1. UNCHANGED <<running, startProgrammTime>>
    BY <1>0, <1>3 DEF startMeasurement
  <2>2. running => \A i \in ClockType : View(c, i, now) = Shows(Initial, i)
    BY <1>0, ClockOfView
  <2>3. /\ [SW!Next]_(SW!swVars)
        /\ Before' => \A u \in Thread : tc'[u] \in {NoClock, NewClock}
    BY <1>0, <1>3, <2>1, <2>2, SameTimeStep
  <2> QED
    BY <1>0, <1>1, <2>1, <2>3 DEF RInv
<1> QED
  BY <1>2, <1>3

\* Initially nothing is measured and every stopwatch shows zero.
LEMMA InitRefines == Init => RInv /\ SW!Init
<1> SUFFICES ASSUME Init PROVE RInv /\ SW!Init
  OBVIOUS
<1>1. TInv
  BY InitType
<1>2. RInv
  <2>1. WorkerCalls /\ Before
    BY ThreadClockAssumption DEF Init, WorkerCalls, Before, Thread
  <2> QED
    BY <1>1, <2>1 DEF RInv, Init, Thread
<1>3. Before
  BY DEF Init, Before
<1>4. /\ swTotal = [t \in Thread |-> [i \in ClockType |-> 0]]
      /\ swMode = [t \in Thread |-> "INIT"] /\ swPhase = "before" /\ Measured = 0
  BY <1>2, <1>3, BeforeZero DEF Before, swTotal, swMode, swPhase, Measured, Over
<1> QED
  BY <1>2, <1>4 DEF SW!Init, SW!ClockType, ClockType

\* Every step is a step of Stopwatch or invisible to it.
LEMMA NextRefines ==
  ASSUME Straddle = FALSE
  PROVE  RInv /\ [Next]_vars => RInv' /\ [SW!Next]_(SW!swVars)
<1> SUFFICES ASSUME RInv, [Next]_vars PROVE RInv' /\ [SW!Next]_(SW!swVars)
  OBVIOUS
<1>0. TInv /\ TInv' /\ Initial \in Thread /\ Initial \notin Workers
  BY NextType, ThreadClockAssumption DEF RInv, Thread
<1>t. /\ now \in Int /\ running \in BOOLEAN /\ {"USEFUL", "MPI", "OMP"} \subseteq ClockState
      /\ tc \in [Thread -> threadClock] /\ calls \in [Thread -> Seq(Frame)]
      /\ \A x \in BOOLEAN : (running \/ x) \in BOOLEAN
  BY <1>0 DEF TInv, TypeOK, ClockState
<1>b. \A x : Starts(x) \in BOOLEAN /\ (Starts(x) => ~running)
  BY DEF Starts
<1>r. Rooted(ClockOf(Initial)) /\ Rooted(mpiClock(Initial))
  BY <1>0, ClockOfRooted
<1>1. CASE onLibraryLoad
  <2>1. Before /\ ~running
    BY <1>1 DEF onLibraryLoad, RInv, Before
  <2>2. /\ UNCHANGED <<now, running, endProgrammTime, calls, late>> /\ loaded' = TRUE
        /\ tc' = tc \/ tc' = [tc EXCEPT ![Initial] = NewClock]
    <3>1. enterState(NewClock, running, now, "USEFUL") = NewClock
      BY <1>t, <2>1, FreshClocks, EnterLemma
    <3> QED
      BY <1>1, <3>1 DEF onLibraryLoad, Update
  <2>3. Before' /\ \A t \in Thread : tc'[t] \in {NoClock, NewClock}
    BY <1>t, <2>1, <2>2 DEF RInv, Before
  <2>4. WorkerCalls' /\ \A w \in Workers : calls'[w] = << >> => tc'[w] = NoClock
    BY <1>0, <1>t, <2>2 DEF RInv, WorkerCalls, Thread
  <2>5. RInv'
    BY <1>0, <2>1, <2>2, <2>3, <2>4 DEF RInv
  <2>6. \A t \in Thread, i \in ClockType : Shows(t, i) = 0
    BY <2>1, BeforeZero
  <2>7. \A t \in Thread, i \in ClockType : Shows(t, i)' = 0
    <3>1. \A t \in Thread : HasClock(t)' => tc'[t] = NewClock
      BY <2>3 DEF HasClock, NoClock
    <3>2. ~Over'
      BY <2>3 DEF Over, Before
    <3> QED
      BY <1>t, <2>2, <3>1, <3>2, FreshClocks DEF Shows, View
  <2>8. swTotal' = swTotal /\ swMode' = swMode /\ swPhase' = swPhase /\ Measured' = Measured
    BY <2>1, <2>2, <2>6, <2>7 DEF swTotal, swMode, swPhase, Measured, Over, Before
  <2> QED
    BY <2>5, <2>8 DEF SW!swVars
<1>2. CASE loaded /\ Tick
  BY <1>2, TickRefines
<1>3. CASE loaded /\ ompt_tsan_initialize
  <2> DEFINE b == Starts(FALSE)
             clock == startTool(ClockOf(Initial), b, "USEFUL")
             e == enterState(clock, running \/ b, now, "OMP")
  <2>0. b \in BOOLEAN /\ (b => ~running) /\ (running \/ b) \in BOOLEAN
    BY <1>b, <1>t
  <2> HIDE DEF b
  <2>1. /\ Rooted(clock)
        /\ ~b => clock = ClockOf(Initial)
        /\ \A i \in ClockType : View(clock, i, now) = View(ClockOf(Initial), i, now)
    BY <1>r, <1>t, <2>0, StartToolView
  <2> HIDE DEF clock
  <2>2. /\ Rooted(e)
        /\ ~running /\ ~b => e = clock
        /\ \A i \in ClockType : View(e, i, now) = View(clock, i, now)
    BY <1>t, <2>0, <2>1, EnterLemma
  <2>3. Update(Initial, e) /\ startMeasurement(b) /\ late' = {} /\ endProgrammTime = 0
    BY <1>3 DEF ompt_tsan_initialize, clock, b, RInv
  <2>4. \A u \in Thread \ {Initial} : calls'[u] = calls[u]
    BY <1>3, <1>t DEF ompt_tsan_initialize, Opened
  <2> HIDE DEF e
  <2> QED
    BY <1>0, <1>3, <2>0, <2>1, <2>2, <2>3, <2>4, InitialRefines DEF ompt_tsan_initialize
<1>4. CASE loaded /\ MPI_Init_begin
  <2> DEFINE e == enterState(mpiClock(Initial), running, now, "MPI")
  <2>1. /\ Rooted(e)
        /\ ~running => e = mpiClock(Initial)
        /\ \A i \in ClockType : View(e, i, now) = View(mpiClock(Initial), i, now)
    <3> HIDE DEF mpiClock
    <3> QED
      BY <1>r, <1>t, EnterLemma
  <2>2. Update(Initial, e) /\ late' = {} /\ endProgrammTime = 0
        /\ UNCHANGED <<now, loaded, running, startProgrammTime, endProgrammTime>>
    BY <1>4 DEF MPI_Init_begin, RInv
  <2>3. \A u \in Thread \ {Initial} : calls'[u] = calls[u]
    BY <1>4, <1>t DEF MPI_Init_begin, Opened
  <2> HIDE DEF e
  <2>4. /\ [SW!Next]_(SW!swVars)
        /\ Before' => \A u \in Thread : tc'[u] \in {NoClock, NewClock}
    BY <1>0, <2>1, <2>2, ClockOfView, SameTimeStep
  <2> QED
    BY <1>0, <2>1, <2>2, <2>3, <2>4, ThreadRefines
<1>5. CASE loaded /\ MPI_Init_end
  <2> DEFINE b == Starts(FALSE)
             clock == startTool(tc[Initial], b, "MPI")
             e == exitState(clock, running \/ b, TRUE, now)
  <2>0. b \in BOOLEAN /\ (b => ~running) /\ (running \/ b) \in BOOLEAN
    BY <1>b, <1>t
  <2> HIDE DEF b
  <2>c. tc[Initial] = ClockOf(Initial)
    BY <1>0, <1>5, InHasClock DEF MPI_Init_end, ClockOf
  <2>1. /\ Rooted(clock)
        /\ ~b => clock = ClockOf(Initial)
        /\ \A i \in ClockType : View(clock, i, now) = View(ClockOf(Initial), i, now)
    BY <1>r, <1>t, <2>0, <2>c, StartToolView
  <2> HIDE DEF clock
  <2>2. /\ Rooted(e)
        /\ ~running /\ ~b => e = clock
        /\ \A i \in ClockType : View(e, i, now) = View(clock, i, now)
    <3> DEFINE r == running \/ b
               q == TRUE
    <3>1. r \in BOOLEAN /\ q \in BOOLEAN /\ (~running /\ ~b => ~r)
      BY <2>0
    <3> HIDE DEF r, q
    <3>2. /\ Rooted(exitState(clock, r, q, now))
          /\ ~r => exitState(clock, r, q, now) = clock
          /\ \A i \in ClockType : View(exitState(clock, r, q, now), i, now) = View(clock, i, now)
      BY <1>t, <2>1, <3>1, ExitLemma
    <3>3. e = exitState(clock, r, q, now)
      BY DEF r, q
    <3> HIDE DEF e
    <3> QED
      BY <3>1, <3>2, <3>3
  <2>3. Update(Initial, e) /\ startMeasurement(b) /\ late' = {} /\ endProgrammTime = 0
    BY <1>5 DEF MPI_Init_end, clock, b, RInv
  <2>4. \A u \in Thread \ {Initial} : calls'[u] = calls[u]
    BY <1>5, <1>t DEF MPI_Init_end, Closed
  <2> HIDE DEF e
  <2> QED
    BY <1>0, <1>5, <2>0, <2>1, <2>2, <2>3, <2>4, InitialRefines DEF MPI_Init_end
<1>m. ASSUME MayMark PROVE HasClock(Initial) /\ tc[Initial] = ClockOf(Initial)
  <2>1. Len(<<UserFrame>>) = 1 /\ Len(<< >>) = 0
    OBVIOUS
  <2> QED
    BY <1>0, <1>m, <2>1 DEF TInv, ClockPresent, MayMark, ClockOf
<1>6. CASE loaded /\ StartMarker
  <2> DEFINE b == Starts(TRUE)
             e == startTool(tc[Initial], b, "USEFUL")
  <2>0. b \in BOOLEAN /\ (b => ~running) /\ tc[Initial] = ClockOf(Initial)
    BY <1>6, <1>b, <1>m DEF StartMarker
  <2> HIDE DEF b
  <2>1. /\ Rooted(e)
        /\ ~b => e = ClockOf(Initial)
        /\ \A i \in ClockType : View(e, i, now) = View(ClockOf(Initial), i, now)
    BY <1>r, <1>t, <2>0, StartToolView
  <2>2. Update(Initial, e) /\ startMeasurement(b) /\ late' = {} /\ endProgrammTime = 0
    BY <1>6 DEF StartMarker, b, RInv
  <2> HIDE DEF e
  <2> QED
    BY <1>0, <1>6, <2>0, <2>1, <2>2, InitialRefines DEF StartMarker
<1>7. CASE loaded /\ stopTool
  <2>1. \A t \in Thread : tc'[t] = tc[t] \/ (HasClock(t) /\ tc'[t] = StopClock(tc[t]))
    <3> HIDE DEF StopClock
    <3>1. CASE DumpOnStop /\ ~finished
      <4>1. StopAllClocks
        BY <1>7, <3>1 DEF stopTool
      <4> QED
        BY <4>1 DEF StopAllClocks
    <3>2. CASE ~(DumpOnStop /\ ~finished) /\ running /\ ~DumpOnStop
      <4>1. Update(Initial, StopClock(tc[Initial])) /\ HasClock(Initial)
        BY <1>7, <1>m, <3>2 DEF stopTool
      <4> QED
        BY <1>t, <4>1 DEF Update
    <3>3. CASE ~(DumpOnStop /\ ~finished) /\ ~(running /\ ~DumpOnStop)
      BY <1>7, <3>3 DEF stopTool
    <3> QED
      BY <3>1, <3>2, <3>3
  <2>2. stopMeasurement /\ UNCHANGED <<now, loaded, startProgrammTime, calls>>
    BY <1>7 DEF stopTool
  <2> QED
    BY <1>0, <1>7, <2>1, <2>2, StopStep
<1>8. CASE loaded /\ finishMeasurement
  <2>1. \A t \in Thread : tc'[t] = tc[t] \/ (HasClock(t) /\ tc'[t] = StopClock(tc[t]))
    <3> HIDE DEF StopClock
    <3> QED
      BY <1>8 DEF finishMeasurement, StopAllClocks
  <2>2. stopMeasurement /\ UNCHANGED <<now, loaded, startProgrammTime, calls>>
    BY <1>8 DEF finishMeasurement
  <2> QED
    BY <1>0, <1>8, <2>1, <2>2, StopStep
<1>9. CASE loaded /\ ompt_tsan_parallel_begin
  <2>1. In(Initial, {"user"}) /\ tc[Initial] = ClockOf(Initial)
    BY <1>9, <1>m DEF ompt_tsan_parallel_begin, MayMark, Serial
  <2> QED
    BY <1>0, <1>9, <1>r, <1>t, <2>1, ClockOfView, EnterAll DEF ompt_tsan_parallel_begin
<1>10. CASE loaded /\ ompt_tsan_parallel_end
  <2>1. HasClock(Initial)
    BY <1>0, <1>10, InHasClock DEF ompt_tsan_parallel_end
  <2>2. \A u \in Thread \ {Initial} : calls'[u] = calls[u]
    BY <1>10, <1>t DEF ompt_tsan_parallel_end, Closed
  <2> QED
    BY <1>0, <1>10, <2>1, <2>2, LeaveAll DEF ompt_tsan_parallel_end
<1>11. ASSUME NEW w \in Workers, ompt_tsan_thread_begin(w)
       PROVE  RInv' /\ [SW!Next]_(SW!swVars)
  BY <1>0, <1>11, ThreadBeginRefines
<1>12. CASE \E t \in Thread : ThreadStep(t)
  BY <1>12, ThreadStepRefines
<1>13. CASE UNCHANGED vars
  <2>1. RInv'
    BY <1>0, <1>13 DEF vars, RInv, WorkerCalls, Before
  <2>2. UNCHANGED SW!swVars
    BY <1>13 DEF vars, SW!swVars, swPhase, swMode, swTotal, Measured, Shows, Over, HasClock
  <2> QED
    BY <2>1, <2>2
<1> QED
  BY <1>1, <1>2, <1>3, <1>4, <1>5, <1>6, <1>7, <1>8, <1>9, <1>10, <1>11, <1>12, <1>13
  DEF Next, AfterLoad

\* The thread clocks implement Stopwatch: whatever the threads do, and however
\* the measurement is started and stopped, every clock shows exactly the time
\* its thread spent in the states that count for it.
THEOREM StopwatchImplemented == ASSUME Straddle = FALSE PROVE Spec => ImplementsStopwatch
<1>1. Init => RInv /\ SW!Init
  BY InitRefines
<1>2. RInv /\ [Next]_vars => RInv' /\ [SW!Next]_(SW!swVars)
  BY NextRefines
<1> QED
  BY <1>1, <1>2, PTL DEF Spec, ImplementsStopwatch, SW!Spec

\* What Stopwatch allows keeps every total within the measured interval.
LEMMA StepWithinRun ==
  ASSUME Measured \in Nat, Measured' \in Int, ChargedWithinRun, [SW!Next]_(SW!swVars)
  PROVE  Measured' \in Nat /\ ChargedWithinRun'
<1>0. /\ \A t \in Thread, i \in ClockType : swTotal[t][i] = Shows(t, i) /\ Shows(t, i) \in 0..Measured
      /\ \A t \in Thread, i \in ClockType : swTotal'[t][i] = Shows(t, i)'
  BY DEF swTotal, ChargedWithinRun
<1>1. SUFFICES /\ Measured' \in Nat
               /\ \A t \in Thread, i \in ClockType : swTotal'[t][i] \in 0..Measured'
  BY <1>0 DEF ChargedWithinRun
<1>2. CASE UNCHANGED SW!swVars
  BY <1>0, <1>2 DEF SW!swVars
<1>3. CASE SW!Advance
  <2>1. Measured' > Measured
    BY <1>3 DEF SW!Advance
  <2>2. \A t \in Thread, i \in ClockType :
           \/ swTotal'[t][i] = swTotal[t][i]
           \/ swTotal'[t][i] = swTotal[t][i] + (Measured' - Measured)
    BY <1>3 DEF SW!Advance, SW!ClockType, ClockType
  <2> QED
    BY <1>0, <2>1, <2>2
<1>4. ASSUME NEW t \in Thread, SW!Join(t)
      PROVE  /\ Measured' \in Nat
             /\ \A u \in Thread, i \in ClockType : swTotal'[u][i] \in 0..Measured'
  <2>1. Measured' = Measured /\ \A i \in ClockType : swTotal[t][i] = 0
    BY <1>4 DEF SW!Join, SW!ClockType, ClockType
  <2>2. \A u \in Thread, i \in ClockType : swTotal'[u][i] \in {swTotal[u][i], swTotal[t][i] + Measured}
    <3>1. swTotal = [u \in Thread |-> swTotal[u]]
      BY DEF swTotal
    <3> HIDE DEF swTotal
    <3>2. swTotal' = [swTotal EXCEPT ![t] = [i \in ClockType |->
                       IF i \in State["OMP"] THEN swTotal[t][i] + Measured ELSE swTotal[t][i]]]
      BY <1>4 DEF SW!Join, SW!ClockType, ClockType, SW!State, State
    <3>3. \A u \in Thread \ {t} : swTotal'[u] = swTotal[u]
      BY <3>1, <3>2
    <3>4. \A i \in ClockType : swTotal'[t][i] \in {swTotal[t][i], swTotal[t][i] + Measured}
      BY <3>1, <3>2
    <3> QED
      BY <3>3, <3>4
  <2> QED
    BY <1>0, <2>1, <2>2
<1>5. ASSUME NEW t \in Thread, NEW cs, SW!Start(t, cs) \/ SW!Switch(t, cs) \/ SW!Freeze
      PROVE  /\ Measured' \in Nat
             /\ \A u \in Thread, i \in ClockType : swTotal'[u][i] \in 0..Measured'
  <2>1. swTotal' = swTotal /\ Measured' = Measured
    BY <1>5 DEF SW!Start, SW!Switch, SW!Freeze
  <2> QED
    BY <1>0, <2>1
<1>6. Initial \in Thread
  BY DEF Thread
<1> QED
  BY <1>2, <1>3, <1>4, <1>5, <1>6 DEF SW!Next

\* No thread is charged more than the measured interval, or less than nothing,
\* on any clock, for every set of workers and every combination of flags.
THEOREM ChargedCorrect == ASSUME Straddle = FALSE PROVE Spec => []ChargedWithinRun
<1> DEFINE BInv == RInv /\ Measured \in Nat /\ ChargedWithinRun
<1>1. Init => BInv
  <2>1. SUFFICES ASSUME Init PROVE BInv
    OBVIOUS
  <2>2. RInv /\ Before
    BY <2>1, InitRefines DEF Init, Before
  <2>3. Measured = 0
    BY <2>2 DEF Measured, Before, Over
  <2> QED
    BY <2>2, <2>3, BeforeZero DEF ChargedWithinRun
<1>2. BInv /\ [Next]_vars => BInv'
  <2>1. SUFFICES ASSUME BInv, [Next]_vars PROVE BInv'
    OBVIOUS
  <2>2. RInv' /\ [SW!Next]_(SW!swVars)
    BY <2>1, NextRefines
  <2>3. Measured' \in Int
    BY <2>2 DEF RInv, TInv, TypeOK, Measured
  <2> QED
    BY <2>1, <2>2, <2>3, StepWithinRun
<1>3. BInv => ChargedWithinRun
  OBVIOUS
<1> HIDE DEF BInv
<1> QED
  BY <1>1, <1>2, <1>3, PTL DEF Spec
=============================================================================
