---------------------------- MODULE MCOmpTasks ----------------------------
(* OmpTasks for TLC: a few programs; the objects of the pools are          *)
(* interchangeable.                                                        *)
EXTENDS OmpTasks, TLC

Symmetry == Permutations(TaskObj)

\* A program whose tasks are created by the implicit tasks of the threads of by
\* (and by explicit tasks).
P(types, uses, by, tasks) ==
  [types |-> types, uses |-> uses, by |-> by, tasks |-> tasks, reuse |-> FALSE]

Tied == P({"tied", "undeferred"}, {"taskwait"}, {0, 1}, 2)
Nested == P({"tied"}, {"taskwait"}, {0}, 3)
Grouped == P({"tied"}, {"taskgroup"}, {0}, 2)
Untied == P({"untied"}, {"yield"}, {0}, 2)
UntiedWaits == P({"untied"}, {"taskwait", "yield"}, {0, 1}, 1)
Pooled == [Tied EXCEPT !.reuse = TRUE]
Events == P({"detachable"}, {"taskwait"}, {0, 1}, 2)

\* One program for each question: tasks created by several threads or executed
\* at once, nested tasks, taskgroups, tasks that change threads, reused
\* objects, events.
AllPrograms == {Tied, Nested, Grouped, Untied, UntiedWaits, Pooled, Events}
Plain == {[types |-> {"tied"}, uses |-> {}, by |-> {0, 1}, tasks |-> 1, reuse |-> FALSE]}
=============================================================================
