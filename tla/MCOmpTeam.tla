----------------------------- MODULE MCOmpTeam ------------------------------
(***************************************************************************)
(* OmpTeam for TLC: the team of the configuration or, on variables of its  *)
(* own, one worker and one region in the build that does not lock scMutex. *)
(***************************************************************************)
EXTENDS OmpTeam, TLC

CONSTANT LateWorker   \* the one worker of that team

VARIABLES
  loose,   \* is it the team without the lock?
  now2, region2, site2, entered2, BarrierIndex2, thread2, clk2, Barrier2,
  todo2, step2, fresh2, sent2, mine2

vars2 == <<now2, region2, site2, entered2, BarrierIndex2, thread2, clk2, Barrier2,
           todo2, step2, fresh2, sent2, mine2>>

Loose == INSTANCE OmpTeam WITH
  Workers <- {LateWorker}, Barriers <- 1, Regions <- 1, Locked <- FALSE,
  PromptStart <- FALSE, Followed <- {"USEFUL"},
  now <- now2, region <- region2, site <- site2, entered <- entered2,
  BarrierIndex <- BarrierIndex2, thread <- thread2, clk <- clk2, Barrier <- Barrier2,
  todo <- todo2, step <- step2, fresh <- fresh2, sent <- sent2, mine <- mine2

MCInit == Init /\ Loose!Init /\ loose \in BOOLEAN
MCNext ==
  /\ \/ ~loose /\ Next /\ UNCHANGED vars2
     \/ loose /\ Loose!Next /\ UNCHANGED vars
  /\ UNCHANGED loose
MCSpec == MCInit /\ [][MCNext]_<<vars, vars2, loose>>

\* PathBounds in the build without the lock and with a worker that starts its
\* task late: no interleaving of the stores of two threads into one sync clock
\* makes a path shorter than the thread's own time or longer than the run.
UnlockedPathBounds == loose => Loose!PathBounds

\* The workers of a team are interchangeable.
Symmetry == Permutations(Workers)
=============================================================================
