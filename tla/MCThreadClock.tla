--------------------------- MODULE MCThreadClock ---------------------------
(***************************************************************************)
(* ThreadClock for TLC in three modes: with the flags of the configuration;*)
(* with markers, a report at the stop and the library constructor; and, on *)
(* variables of its own, with a stop that may overtake a thread.           *)
(***************************************************************************)
EXTENDS ThreadClock

VARIABLES
  mode,
  now2, loaded2, useMpi2, running2, startProgrammTime2, endProgrammTime2,
  finished2, tc2, calls2, late2

vars2 == <<now2, loaded2, useMpi2, running2, startProgrammTime2, endProgrammTime2,
           finished2, tc2, calls2, late2>>

Marked == INSTANCE ThreadClock WITH Stopped <- TRUE, DumpOnStop <- TRUE,
                                       LibraryConstructor <- TRUE

LateStop == INSTANCE ThreadClock WITH
  Straddle <- TRUE,
  now <- now2, loaded <- loaded2, useMpi <- useMpi2, running <- running2,
  startProgrammTime <- startProgrammTime2, endProgrammTime <- endProgrammTime2,
  finished <- finished2, tc <- tc2, calls <- calls2, late <- late2

MCInit == Init /\ LateStop!Init /\ mode \in {"whole", "marked", "overtaken"}
MCNext ==
  /\ \/ mode = "whole" /\ Next /\ UNCHANGED vars2
     \/ mode = "marked" /\ Marked!Next /\ UNCHANGED vars2
     \/ mode = "overtaken" /\ LateStop!Next /\ UNCHANGED vars
  /\ UNCHANGED mode
MCSpec == MCInit /\ [][MCNext]_<<vars, vars2, mode>>

\* LateErrorBounded where stopMeasurement may overtake a thread that has just
\* tested analysis_flags->running: what the report is wrong by is at most the
\* time by which the thread is late.
LateBooking == mode = "overtaken" => LateStop!LateErrorBounded
=============================================================================
