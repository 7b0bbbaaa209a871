----------------------------- MODULE MCPiggyback -----------------------------
\* Piggyback with small programs on three ranks; rank 3 may have two threads.
EXTENDS Piggyback

MCRankOf == [t \in Threads |-> IF t = 4 THEN 3 ELSE t]
MCZero == [t \in Threads |-> 0]

Op(fn, dest, src, tag) == [fn |-> fn, dest |-> dest, src |-> src, tag |-> tag]
To(fn, dest) == Op(fn, dest, ProcNull, 1)
From(fn, src, tag) == Op(fn, ProcNull, src, tag)
Coll(fn, root) == Op(fn, root, ProcNull, 1)
Just(fns) == {[fn |-> f] : f \in fns}
Times(n, S) == [i \in 1..n |-> S]

Program(ranks, first, script) == [ranks |-> ranks, epoch |-> first, calls |-> script]

\* Two senders, and a rank that receives from anyone, in all the ways there are.
Wildcards ==
  Program({1, 2, 3}, 1,
    <<Times(2, {To("Send", 3)}), Times(1, {To("Send", 3)}),
      Times(4, {From("Recv", ANY, 1), From("Irecv", ANY, ANY), From("Mprobe", ANY, ANY)}
               \cup Just({"Wait", "Mrecv", "Imrecv"})), <<>>>>)

\* Requests that are started again and again, and cancelled in between.
PersistentRequests ==
  Program({1, 3}, 1,
    <<<<{To("Send_init", 3)}, Just({"Start"}), {To("Isend", 3)}>>
      \o Times(3, Just({"Wait", "Start", "Request_free"})), <<>>,
      <<{From("Recv_init", 1, 1), From("Irecv", 1, 1)}>>
      \o Times(4, {From("Irecv", 1, 1)} \cup Just({"Start", "Wait", "Cancel"})), <<>>>>)

\* Two threads of a rank, which share the pools, and a receive that is cancelled.
TwoThreads ==
  Program({1, 3}, 1,
    <<<<{To("Isend", 3)}, {Op("Isend", 3, ProcNull, 2)}>>, <<>>,
      <<{From("Irecv", 1, 1)}>> \o Times(3, {From("Irecv", 1, 1)} \cup Just({"Wait", "Cancel"})),
      <<{From("Irecv", 1, 2)}, Just({"Wait"})>>>>)

\* Sends and receives in one.
Exchange ==
  Program({1, 3}, 1,
    <<Times(2, {Op(f, 3, 3, 1) : f \in {"Sendrecv", "Isendrecv"}}) \o <<Just({"Wait"})>>, <<>>,
      Times(2, {Op(f, 1, 1, 1) : f \in {"Sendrecv", "Isendrecv"}}
               \cup {Op(f, 1, ProcNull, 1) : f \in {"Sendrecv", "Isendrecv"}})
      \o Times(2, Just({"Wait"})), <<>>>>)

Blocked(root) == {Coll(f, root) : f \in {"Bcast", "Reduce"}} \cup {Coll("Allreduce", ProcNull)}
Immediate(root) == {Coll(f, root) : f \in {"Ibcast", "Ireduce"}} \cup {Coll("Iallreduce", ProcNull)}
Inits(root) ==
  {Coll(f, root) : f \in {"Bcast_init", "Reduce_init"}} \cup {Coll("Allreduce_init", ProcNull)}

\* All ranks call two collectives, and MPI_Finalize.
Collectives ==
  Program({1, 2, 3}, 1,
    [t \in 1..3 |-> <<Blocked(1), Blocked(1) \cup Immediate(3), Just({"Wait", "Finalize"}),
                      Just({"Finalize"})>>] \o <<<<>>>>)

\* Two ranks start persistent collectives again, with an immediate one pending.
PersistentCollectives ==
  LET Steps == <<Inits(3), Just({"Start"}), Immediate(1) \cup Just({"Wait"})>>
               \o Times(3, Just({"Start", "Wait"}))
  IN Program({1, 3}, 1, <<Steps, <<>>, Steps, <<>>>>)

\* The tool is started and stopped, with or without barriers.
Markers(first, marker) ==
  LET Steps(early, post, begin) ==
        <<{marker} \cup early, {marker} \cup post, {marker} \cup begin,
          {marker} \cup Just({"Wait", "Start"}), {marker} \cup Just({"Wait", "Cancel", "Finalize"}),
          Just({"Finalize"})>>
  IN Program({1, 3}, first,
       <<Steps({To("Send", 3)}, {To("Send", 3)}, {To("Isend", 3), To("Send_init", 3)}), <<>>,
         Steps({From("Mprobe", ANY, 1)}, {From("Recv", ANY, 1)} \cup Just({"Mrecv"}),
               {From("Irecv", 1, 1)} \cup {From("Recv_init", v, 1) : v \in {1, ANY}}), <<>>>>)

Barrier == Coll("Pcontrol", ProcNull)
Marker == [fn |-> "Marker"]

\* Partners that are MPI_PROC_NULL, and a persistent receive from anyone.
Nobody ==
  Program({1, 2, 3}, 1,
    <<<<{To(f, ProcNull) : f \in {"Send", "Isend", "Send_init"}}>>
      \o Times(2, {To("Send", 3)} \cup Just({"Wait", "Start"})), <<{To("Send", 3)}>>,
      <<{From(f, ProcNull, 1) : f \in {"Recv", "Irecv"}} \cup {From("Recv_init", s, ANY) : s \in {ProcNull, ANY}}>>
      \o Times(3, {From("Recv", 1, 1)} \cup Just({"Wait", "Start", "Cancel"})), <<>>>>)

MCPrograms ==
  {Wildcards, PersistentRequests, TwoThreads, Exchange, Collectives, PersistentCollectives, Nobody}
  \cup {Markers(e, m) : e \in {0, 1}, m \in {Barrier, Marker}}

\* A persistent receive from anyone that is started twice, with two senders.
RestartedWildcard ==
  {Program({1, 2, 3}, 1,
     <<<<{To("Send", 3)}>>, <<{To("Send", 3)}>>,
       <<{From("Recv_init", ANY, 1)}, Just({"Start"}), Just({"Wait"}), Just({"Start"}), Just({"Wait"})>>,
       <<>>>>)}
==============================================================================
