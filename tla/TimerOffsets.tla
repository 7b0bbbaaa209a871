---------------------------- MODULE TimerOffsets ----------------------------
(***************************************************************************)
(* init_timer_offsets (mpi-critical.cpp): rank 0 exchanges NTIMES messages *)
(* with every other rank, estimates the offset of its clock from each, and *)
(* takes the median.  A trip is [out, back], the time the message and the  *)
(* answer take; skew[j] is how far the clock of rank j is ahead.  Doubled  *)
(* times keep the mean of two times an integer.                            *)
(***************************************************************************)
EXTENDS Integers, Sequences, SequencesExt

CONSTANT NTIMES  \* 19

\* What rank 0 computes of a trip that starts at time localTime.
Sample(localTime, skew, trip) ==
  LET remoteTime == localTime + trip.out + skew
      endTime == localTime + trip.out + trip.back
  IN 2 * remoteTime - (localTime + endTime)

\* trips[j][i] is the i-th trip to rank j, from 0 on; a trip starts at time i.
\* allTimes is one array for all ranks, with zeros for rank 0.
allTimes(size, skew, trips) ==
  [x \in 0..(size * NTIMES - 1) |->
     LET j == x \div NTIMES
         i == x % NTIMES
     IN IF j = 0 THEN 0 ELSE Sample(i, skew[j], trips[j][i])]

\* Mutant of Segment: not sorted.
SegmentUnsorted(all, j) == [i \in 1..NTIMES |-> all[j * NTIMES + i - 1]]

\* The part of rank j, sorted.
Segment(all, j) == SortSeq([i \in 1..NTIMES |-> all[j * NTIMES + i - 1]], LAMBDA a, b : a < b)

timeOffset(all, j) == Segment(all, j)[NTIMES \div 2 + 1]

init_timer_offsets(size, skew, trips) ==
  LET all == allTimes(size, skew, trips) IN [j \in 0..(size - 1) |-> timeOffset(all, j)]
=============================================================================
