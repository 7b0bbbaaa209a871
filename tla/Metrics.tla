------------------------------ MODULE Metrics ------------------------------
(***************************************************************************)
(* The metrics that finishMeasurement (critical-core.cpp) computes from    *)
(* the clocks of all threads of all processes.  A process is               *)
(*   threads   <<[useful, oomp]>>: the member thread of its clocks,        *)
(*   proc      [useful, ompi, oomp] of its initial thread,                 *)
(*   crit      [useful, ompi, oomp] of its initial thread,                 *)
(*   runtime   endProgrammTime - startProgrammTime.                        *)
(* Times are integers and metrics are fractions <<numerator, denominator>>.*)
(***************************************************************************)
EXTENDS Integers, Sequences, SequencesExt, FiniteSetsExt

Times(a, b) == <<a[1] * b[1], a[2] * b[2]>>
Over(a, b) == <<a[1] * b[2], a[2] * b[1]>>
Same(a, b) == a[1] * b[2] = b[1] * a[2]
AtMostOne(a) == 0 <= a[1] /\ a[1] <= a[2]

SumOf(s) == FoldLeft(LAMBDA sum, x : sum + x, 0, s)

\* uc_max and uc_avg of a process.
uc_max(p) ==
  LET useful == Max({p.threads[i].useful : i \in DOMAIN p.threads} \cup {0})
  IN [k \in 0..6 |->
        CASE k = 0 -> useful
          [] k = 1 -> p.proc.ompi
          [] k = 2 -> Max({p.threads[i].oomp : i \in DOMAIN p.threads} \cup {0})
          [] k = 3 -> p.proc.useful
          [] k = 4 -> p.proc.oomp
          [] k = 5 -> p.proc.useful - p.proc.oomp
          [] k = 6 -> useful]

uc_avg(p) ==
  LET num_threads == Len(p.threads)
  IN [k \in 0..6 |->
        CASE k = 0 -> SumOf([i \in DOMAIN p.threads |-> p.threads[i].useful])
          [] k = 2 -> SumOf([i \in DOMAIN p.threads |-> p.threads[i].oomp])
          [] k \in {5, 6} -> uc_max(p)[k] * num_threads
          [] OTHER -> uc_max(p)[k]]

\* The reductions to rank 0: maxComputation and avgComputation.
maxComputation(ps) == [k \in 0..6 |-> Max({uc_max(ps[r])[k] : r \in DOMAIN ps})]

total_threads(ps) == SumOf([r \in DOMAIN ps |-> Len(ps[r].threads)])

\* Mutant of Divisor: the sixth value is averaged over the processes.
DivisorPerProcess(ps, k) == IF k \in {1, 3, 4, 6} THEN Len(ps) ELSE total_threads(ps)
\* Values of the whole process are averaged over the processes, the others
\* over the threads.
Divisor(ps, k) == IF k \in {1, 3, 4} THEN Len(ps) ELSE total_threads(ps)

avgComputation(ps) ==
  [k \in 0..6 |-> <<SumOf([r \in DOMAIN ps |-> uc_avg(ps[r])[k]]), Divisor(ps, k)>>]

\* The flag runtime replaces the measured time.
totalRuntimeReal(ps, flag) == IF flag > 0 THEN flag ELSE Max({ps[r].runtime : r \in DOMAIN ps})

\* The table that rank 0 prints; root is its process.
Table(max, avg, root, runtime) ==
  LET ideal == root.crit.useful
      CommE == <<max[0], runtime>>
      TE == <<ideal, runtime>>
      SerE == <<max[0], ideal>>
      LB == Over(avg[0], <<max[0], 1>>)
      mpiLB == Over(avg[6], <<max[0], 1>>)
      ompLB == Over(LB, mpiLB)
      ompTE == <<root.crit.oomp, runtime>>
      mpiTE == Over(TE, ompTE)
      mpiSerE == <<max[3], ideal>>
      ompSerE == Over(SerE, mpiSerE)
      mpiCommE == Times(mpiSerE, mpiTE)
      ompCommE == Times(ompSerE, ompTE)
  IN [PE |-> Times(LB, CommE), LB |-> LB, CommE |-> CommE, SerE |-> SerE, TE |-> TE,
      mpiPE |-> Times(mpiLB, mpiCommE), mpiLB |-> mpiLB, mpiCommE |-> mpiCommE,
      mpiSerE |-> mpiSerE, mpiTE |-> mpiTE,
      ompPE |-> Times(ompLB, ompCommE), ompLB |-> ompLB, ompCommE |-> ompCommE,
      ompSerE |-> ompSerE, ompTE |-> ompTE]

finishMeasurement(ps, flag) ==
  Table(maxComputation(ps), avgComputation(ps), ps[1], totalRuntimeReal(ps, flag))
=============================================================================
