----------------------------- MODULE SyncClock ------------------------------
(***************************************************************************)
(* syncClock of include/criticalPath.h: the clock object that carries an   *)
(* arc of the program's activity graph.  OmpHBefore, at the tail of an     *)
(* arc, takes the clocks of a thread into it; OmpHAfter, at the head,      *)
(* raises the clocks of a thread to it.                                    *)
(*                                                                         *)
(* The members proc and critical of the clocks USEFUL, OOMP and OMPI take  *)
(* part.  Each is an atomic of its own; the operations below act on a set  *)
(* of these cells, so that a step can stand for one store or for the whole *)
(* call.  The member thread of a syncClock is written and never read.      *)
(***************************************************************************)
EXTENDS CpClocks, FiniteSets

Member == {"proc", "critical"}
ArcClock == {"USEFUL", "OOMP", "OMPI"}
Cell == Member \X ArcClock

\* The order in which OmpHBefore and OmpHAfter, and OmpCReset, visit the cells.
ArcOrder == << <<"proc", "USEFUL">>, <<"critical", "USEFUL">>,
               <<"proc", "OOMP">>,   <<"critical", "OOMP">>,
               <<"proc", "OMPI">>,   <<"critical", "OMPI">> >>
ResetOrder == << <<"proc", "USEFUL">>, <<"critical", "USEFUL">>,
                 <<"proc", "OMPI">>,   <<"critical", "OMPI">>,
                 <<"proc", "OOMP">>,   <<"critical", "OOMP">> >>

Banks == [Member -> Bank]

syncClock == [sync_state : ClockState, clocks : Banks]

ZeroBanks == [m \in Member |-> ZeroBank]

FreshSync == [sync_state |-> "INIT", clocks |-> ZeroBanks]

\* update_maximum: the value an atomic holds after the loop.
maxUpdate(value, other) == IF value < other THEN other ELSE value

\* CheckArc tests for a fresh clock and then gives it the thread's state.
IsFresh(sc) == sc.sync_state = "INIT"
Claimed(sc, cs) == [sc EXCEPT !.sync_state = cs]

\* Mutant of OmpHBefore: a fresh clock is not told apart, its zeros count.
OmpHBeforeMaxOnly(clocks, fresh, mine, cells) ==
  [m \in Member |-> [i \in ClockType |->
     IF <<m, i>> \in cells THEN maxUpdate(clocks[m][i], mine[m][i]) ELSE clocks[m][i]]]

\* The clocks of a sync clock after the stores of OmpHBefore to cells: a copy
\* if the clock was fresh, else the maximum.
OmpHBefore(clocks, fresh, mine, cells) ==
  [m \in Member |-> [i \in ClockType |->
     CASE <<m, i>> \notin cells          -> clocks[m][i]
       [] <<m, i>> \in cells /\ fresh    -> mine[m][i]
       [] <<m, i>> \in cells /\ ~fresh   -> maxUpdate(clocks[m][i], mine[m][i])]]

\* The clocks of the thread after the updates of OmpHAfter to cells.
OmpHAfter(clocks, mine, cells) ==
  [m \in Member |-> [i \in ClockType |->
     IF <<m, i>> \in cells THEN maxUpdate(mine[m][i], clocks[m][i]) ELSE mine[m][i]]]

\* The clocks of a sync clock after the stores of OmpCReset to cells.
OmpCReset(clocks, cells) ==
  [m \in Member |-> [i \in ClockType |->
     IF <<m, i>> \in cells THEN 0 ELSE clocks[m][i]]]
=============================================================================
