------------------------------ MODULE CpClocks ------------------------------
(***************************************************************************)
(* The clock algebra of include/criticalPath.h.                            *)
(*                                                                         *)
(* A thread has one cpClocks per ClockType, with the members thread, proc  *)
(* and critical.  A clock is kept in offset form: a stopped clock holds    *)
(* the time it has accumulated, a running clock holds that time minus the  *)
(* moment it was started, so starting subtracts the time of day and        *)
(* stopping adds it.  Which clocks run is a function of the ClockState on  *)
(* top of the thread's stack.  SwitchState adds the same time to all three *)
(* members, so it is defined here for one member, a bank of clocks.        *)
(*                                                                         *)
(* Times are integers.  The rounding of doubles is left out; the atomic    *)
(* load/add/compare-exchange loops on one double are one step.             *)
(***************************************************************************)
EXTENDS Integers, Sequences

ClockState == {"INIT", "NONE", "USEFUL", "MPI", "OMP", "GPU"}
ClockType == {"USEFUL", "OMPI", "OOMP", "OGPU"}

\* The clocks that run in each state (the rows of the table State).
State == [INIT   |-> {},
          NONE   |-> {"OMPI", "OOMP", "OGPU"},
          USEFUL |-> {"USEFUL", "OMPI", "OOMP", "OGPU"},
          MPI    |-> {"OOMP", "OGPU"},
          OMP    |-> {"OMPI", "OGPU"},
          GPU    |-> {"OMPI", "OOMP"}]

\* One member of the clocks of a thread.
Bank == [ClockType -> Int]

ZeroBank == [i \in ClockType |-> 0]

-----------------------------------------------------------------------------
(***************************************************************************)
(* threadClock: the clocks of a thread and the stack of states it is in.   *)
(* A thread that has no clock yet has an empty stack.                      *)
(***************************************************************************)
threadClock == [clocks : Bank,
                clock_state_stack : Seq(ClockState)]

NoClock == [clocks |-> ZeroBank, clock_state_stack |-> << >>]

NewClock == [clocks |-> ZeroBank, clock_state_stack |-> <<"INIT">>]

GetState(tc) == tc.clock_state_stack[Len(tc.clock_state_stack)]

SwitchState(clocks, old_cs, new_cs, time) ==
  [i \in ClockType |->
     IF (i \in State[old_cs]) = (i \in State[new_cs])
       THEN clocks[i]
       ELSE clocks[i] + (IF i \in State[new_cs] THEN -time ELSE time)]

pop_back(stack) == SubSeq(stack, 1, Len(stack) - 1)

enterState(tc, running, time, cs) ==
  IF ~running
    THEN tc
    ELSE [clocks |-> SwitchState(tc.clocks, GetState(tc), cs, time),
          clock_state_stack |-> Append(tc.clock_state_stack, cs)]

exitState(tc, running, isRunning, time) ==
  IF ~running \/ ~isRunning \/ GetState(tc) = "INIT"
    THEN tc
    ELSE LET below == pop_back(tc.clock_state_stack)
         IN [clocks |-> SwitchState(tc.clocks, GetState(tc), below[Len(below)], time),
             clock_state_stack |-> below]

setState(tc, running, time, cs) ==
  IF ~running /\ cs # "INIT"
    THEN tc
    ELSE [clocks |-> SwitchState(tc.clocks, GetState(tc), cs, time),
          clock_state_stack |->
             [tc.clock_state_stack EXCEPT ![Len(tc.clock_state_stack)] = cs]]

-----------------------------------------------------------------------------
(***************************************************************************)
(* What a clock value means at a given time of day.                        *)
(***************************************************************************)
Elapsed(value, i, cs, time) == value + (IF i \in State[cs] THEN time ELSE 0)
=============================================================================
