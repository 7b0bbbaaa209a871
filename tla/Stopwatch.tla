----------------------------- MODULE Stopwatch ------------------------------
(***************************************************************************)
(* What the thread clocks promise: every thread of the process has a       *)
(* stopwatch per clock type, and while the measurement is on a stopwatch   *)
(* shows the total time its thread spent in the states that count for it.  *)
(* There is one measurement; when it is over no stopwatch moves again.     *)
(***************************************************************************)
EXTENDS CpClocks

CONSTANT Thread

VARIABLES
  phase,   \* "before", "on" or "over"
  mode,    \* mode[t]: the state thread t is measured in, INIT when it is not
  total,   \* total[t][i]: the time shown by stopwatch i of thread t
  elapsed  \* length of the measured interval so far

swVars == <<phase, mode, total, elapsed>>

Init ==
  /\ phase = "before"
  /\ mode = [t \in Thread |-> "INIT"]
  /\ total = [t \in Thread |-> [i \in ClockType |-> 0]]
  /\ elapsed = 0

Start(t, cs) ==
  /\ phase = "before"
  /\ phase' = "on"
  /\ mode' = [mode EXCEPT ![t] = cs]
  /\ UNCHANGED <<total, elapsed>>

\* Time passes: the stopwatches that count in their thread's mode move by it.
Advance ==
  /\ phase = "on"
  /\ elapsed' > elapsed
  /\ total' = [t \in Thread |-> [i \in ClockType |->
                 IF i \in State[mode[t]] THEN total[t][i] + (elapsed' - elapsed)
                                         ELSE total[t][i]]]
  /\ UNCHANGED <<phase, mode>>

\* A thread changes its mode; no stopwatch changes what it shows.
Switch(t, cs) ==
  /\ phase = "on"
  /\ mode' = [mode EXCEPT ![t] = cs]
  /\ UNCHANGED <<phase, total, elapsed>>

\* A worker created during the measurement counts as having been in the
\* OpenMP runtime since the measurement started.
Join(t) ==
  /\ phase = "on"
  /\ mode[t] = "INIT" /\ \A i \in ClockType : total[t][i] = 0
  /\ mode' = [mode EXCEPT ![t] = "OMP"]
  /\ total' = [total EXCEPT ![t] = [i \in ClockType |->
                 IF i \in State["OMP"] THEN total[t][i] + elapsed ELSE total[t][i]]]
  /\ UNCHANGED <<phase, elapsed>>

Freeze ==
  /\ phase = "on"
  /\ phase' = "over"
  /\ mode' = [t \in Thread |-> "INIT"]
  /\ UNCHANGED <<total, elapsed>>

Next ==
  \/ Advance
  \/ \E t \in Thread, cs \in ClockState : Start(t, cs) \/ Switch(t, cs)
  \/ \E t \in Thread : Join(t)
  \/ Freeze

Spec == Init /\ [][Next]_swVars
=============================================================================
