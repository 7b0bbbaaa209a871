------------------------------ MODULE Piggyback ------------------------------
(***************************************************************************)
(* Clocks that travel with MPI communication: the classes of               *)
(* mpi-critical.h, the callbacks of mpi-critical.cpp and the RequestData   *)
(* of handle-data.h.  A wrapper constructs an object of its class, calls   *)
(* PMPI and destroys the object: the constructor sends the thread's clock, *)
(* or posts the receive for the sender's, on the duplicate communicator;   *)
(* the destructor waits for it, or leaves that to the completion of the    *)
(* request.  With a wildcard the sender is known only after the program's  *)
(* own receive; then the clock is received from the sender in its status.  *)
(*                                                                         *)
(* clock[t] is the tool's clock of thread t and past[t] what it should be: *)
(* for each thread the number of its pieces of work (one before each MPI   *)
(* call) that lie on a path to where t is.  A maximum of clocks is a       *)
(* maximum by component.  The program's messages carry past, the tool's    *)
(* carry clock.                                                            *)
(***************************************************************************)
EXTENDS MpiEngine

CONSTANTS
  Threads, RankOf,
  MaxData,      \* bound: RequestData objects of a rank
  Programs,     \* the programs: ranks, first epoch, and for each thread the sets its calls are from
  Kept,         \* the rules that hold, see Rule
  Zero          \* the clock of a thread that has not worked

\* What the programs, or the build, keep to beyond the MPI standard, and without
\* which a call below fails or a clock is lost:
\*   PromptProbe      the clock of a probed message has arrived when MPI_Mrecv is called;
\*   ActiveWait       no wait for a persistent wildcard receive that is not active;
\*   WildcardRunning  a persistent wildcard receive is started only while the tool is running;
\*   CancelInTime     a receive is cancelled only while it, and its clock, have not arrived;
\*   CancelRunning    a persistent receive is cancelled only while the tool is running;
\*   Status           MPI_Test of a wildcard receive, and a wildcard probe while the
\*                    tool is not running, are given a status;
\*   TagNotAny        the tag that MPI_Imrecv leaves uninitialised is not MPI_ANY_TAG.
Rule == {"PromptProbe", "ActiveWait", "WildcardRunning", "CancelInTime", "CancelRunning", "Status",
         "TagNotAny"}

ASSUME KeptAssumption == Kept \subseteq Rule

VARIABLES
  program, \* the program
  clock, past,
  epoch,   \* epoch[r]: 0 before the start marker, 1 while running, 2 after the stop marker
  data,    \* data[d]: RequestData; d = <<r, i>> is from the pools of rank r, <<0, t>> on the stack of t
  pool,    \* pool[r]: free RequestData of the factories rf and mf
  made,    \* made[r]: RequestData allocated
  at,      \* at[t]: where t is, see Place
  call,    \* call[t]: the call t is in
  calls,   \* calls[t]: calls made
  reqs,    \* reqs[t]: its requests
  msgs,    \* msgs[t]: its probed messages
  plan,    \* the program's sequence of collectives
  failed   \* DCHECKs that have failed, and calls of the tool that MPI does not define

vars == <<engine, program, clock, past, epoch, data, pool, made, at, call, calls, reqs, msgs, plan,
          failed>>

Place == {"user", "call", "app", "pb", "final", "ended"}

Data == ({0} \X Threads) \cup (Ranks \X (1..MaxData))
Stack(t) == <<0, t>>

Join(v, w) == [t \in Threads |-> IF v[t] >= w[t] THEN v[t] ELSE w[t]]
JoinAll(S) == [t \in Threads |-> CHOOSE n \in {v[t] : v \in S} : \A v \in S : v[t] <= n]
Covers(v, w) == \A t \in Threads : v[t] >= w[t]

Wild(src, tag) == src = ANY \/ tag = ANY
Colls == {"bcast", "reduce", "allreduce"}

\* An MPI request: dest and src are ranks, wildcards or MPI_PROC_NULL; op names
\* a receive in the engine, or numbers a collective with root dest.
NullRequest == [kind |-> "null", dest |-> ProcNull, src |-> ProcNull, tag |-> ANY,
                op |-> <<>>, live |-> FALSE]
Request(k, kind, c, live) ==
  [kind |-> kind, dest |-> k.dest, src |-> k.src, tag |-> k.tag, live |-> live,
   op |-> IF kind \in Colls THEN <<k.nth[c]>> ELSE <<c, k.id>>]

\* RequestData(), and RequestData::fini, which leaves the values.
RequestData ==
  [values |-> Zero, persistent |-> FALSE, startCallback |-> "none",
   cancelCallback |-> "none", completionCallback |-> "none", freed |-> TRUE,
   cancelled |-> FALSE, pb |-> NullRequest, remote |-> ProcNull, tag |-> ProcNull,
   handle |-> NullRequest]
fini(x) == [RequestData EXCEPT !.values = x.values, !.persistent = x.persistent]

\* RequestData::init with the arguments of the operation ...
init(x, remote, tag) ==
  [x EXCEPT !.remote = remote, !.tag = tag, !.persistent = FALSE, !.freed = FALSE,
            !.cancelled = FALSE]

\* Mutant of newRequest: an object that was in the pool still counts as freed.
newRequestStillFreed(x, q, persistent) ==
  [x EXCEPT !.handle = q, !.persistent = persistent, !.cancelled = FALSE]

\* ... and as RequestFactory::newRequest calls it, with the program's request.
newRequest(x, q, persistent) ==
  [x EXCEPT !.handle = q, !.persistent = persistent, !.freed = FALSE, !.cancelled = FALSE]

setStartCallback(x, f) == [x EXCEPT !.startCallback = f, !.persistent = TRUE]

Init ==
  /\ EngineInit
  /\ program \in Programs
  /\ clock = [t \in Threads |-> Zero] /\ past = clock
  /\ epoch = [r \in Ranks |-> program.epoch]
  /\ data = [d \in Data |-> RequestData]
  /\ pool = [r \in Ranks |-> [rf |-> <<>>, mf |-> <<>>]]
  /\ made = [r \in Ranks |-> 0]
  /\ at = [t \in Threads |-> "user"]
  /\ call = [t \in Threads |-> [fn |-> "none"]]
  /\ calls = [t \in Threads |-> 0]
  /\ reqs = [t \in Threads |-> {}] /\ msgs = [t \in Threads |-> {}]
  /\ plan = <<>> /\ failed = {}

Running(r) == epoch[r] = 1

-----------------------------------------------------------------------------
(***************************************************************************)
(* Constructors: the RequestData x that the call k of a thread with clock  *)
(* now starts with.  The request in its pb is posted, if it is live.       *)
(***************************************************************************)
\* MpiHappensBefore
MpiHappensBefore(x, now) == [x EXCEPT !.values = now]

WithPB(x, k, kind, live) == [x EXCEPT !.pb = Request(k, kind, "dup", live)]

\* Mutant of mpiSendPB: running is not tested.
mpiSendPBAlways(x, k, now) ==
  IF k.dest = ProcNull THEN x ELSE WithPB(MpiHappensBefore(x, now), k, "send", TRUE)

mpiSendPB(x, k, now) ==
  IF ~k.run \/ k.dest = ProcNull THEN x
  ELSE WithPB(MpiHappensBefore(x, now), k, "send", TRUE)

mpiIsendPB(x, k, now) ==
  IF ~k.run \/ k.dest = ProcNull THEN x
  ELSE WithPB(MpiHappensBefore(x, now), k, "send", TRUE)

\* Mutant of mpiSendInitPB: the clock is sent but never loaded.
mpiSendInitPBNoLoad(x, k, now) ==
  IF k.dest = ProcNull THEN x
  ELSE WithPB([setStartCallback(x, "PersPBnoHB") EXCEPT !.completionCallback = "PersPBnoHB"],
              k, "send", FALSE)

mpiSendInitPB(x, k, now) ==
  IF k.dest = ProcNull THEN x
  ELSE WithPB([setStartCallback(x, "PersPBHB") EXCEPT !.completionCallback = "PersPBnoHB"],
              k, "send", FALSE)

mpiRecvPB(x, k, now) ==
  IF ~k.run \/ k.src = ProcNull \/ Wild(k.src, k.tag) THEN x ELSE WithPB(x, k, "recv", TRUE)

mpiIrecvPB(x, k, now) ==
  IF ~k.run \/ k.src = ProcNull \/ Wild(k.src, k.tag) THEN x ELSE WithPB(x, k, "recv", TRUE)

mpiRecvInitPB(x, k, now) ==
  CASE k.src = ProcNull -> x
    [] k.src # ProcNull /\ Wild(k.src, k.tag) -> [x EXCEPT !.completionCallback = "PBWC"]
    [] OTHER -> WithPB([setStartCallback(x, "PersPBnoHB")
                          EXCEPT !.completionCallback = "PersPBHB", !.cancelCallback = "PB"],
                       k, "recv", FALSE)

\* PMPI_Isendrecv_replace sends the values and receives into them.
mpiSendrecvPB(x, k, now) ==
  IF ~k.run \/ (k.src = ProcNull /\ k.dest = ProcNull) THEN x
  ELSE WithPB(MpiHappensBefore(x, now), k, "sendrecv", TRUE)

mpiIsendrecvPB(x, k, now) ==
  IF ~k.run \/ (k.src = ProcNull /\ k.dest = ProcNull) THEN x
  ELSE WithPB(MpiHappensBefore(x, now), k, "sendrecv", TRUE)

\* The blocking collectives: an immediate one on the duplicate communicator,
\* for a broadcast with the clock of the root alone.
mpiCollBcastPB(x, k, now) ==
  IF ~k.run THEN x
  ELSE WithPB(IF k.dest = k.rank THEN MpiHappensBefore(x, now) ELSE x, k, "bcast", TRUE)

mpiCollAllreducePB(x, k, now) ==
  IF ~k.run THEN x ELSE WithPB(MpiHappensBefore(x, now), k, "allreduce", TRUE)

mpiCollReducePB(x, k, now) ==
  IF ~k.run THEN x ELSE WithPB(MpiHappensBefore(x, now), k, "reduce", TRUE)

mpiIcollBcastPB(x, k, now) ==
  IF ~k.run THEN x
  ELSE WithPB(IF k.dest = k.rank THEN MpiHappensBefore(x, now) ELSE x, k, "bcast", TRUE)

mpiIcollAllreducePB(x, k, now) ==
  IF ~k.run THEN x ELSE WithPB(MpiHappensBefore(x, now), k, "allreduce", TRUE)

mpiIcollReducePB(x, k, now) ==
  IF ~k.run THEN x
  ELSE WithPB([MpiHappensBefore(x, now) EXCEPT
                 !.completionCallback = IF k.dest = k.rank THEN "PBHB" ELSE "PBnoHB"],
              k, "reduce", TRUE)

\* The persistent ones load the clock when they are started.
mpiCollBcastInitPB(x, k, now) ==
  WithPB([setStartCallback(x, IF k.dest = k.rank THEN "PersPBHB" ELSE "PersPBnoHB")
            EXCEPT !.completionCallback = "PersPBHB"], k, "bcast", FALSE)

mpiCollAllreduceInitPB(x, k, now) ==
  WithPB([setStartCallback(x, "PersPBHB") EXCEPT !.completionCallback = "PersPBHB"],
         k, "allreduce", FALSE)

mpiCollReduceInitPB(x, k, now) ==
  WithPB([setStartCallback(x, "PersPBHB") EXCEPT
            !.completionCallback = IF k.dest = k.rank THEN "PersPBHB" ELSE "PersPBnoHB"],
         k, "reduce", FALSE)

Constructor(x, k, now) ==
  CASE k.fn = "Send" -> mpiSendPB(x, k, now)
    [] k.fn = "Isend" -> mpiIsendPB(x, k, now)
    [] k.fn = "Send_init" -> mpiSendInitPB(x, k, now)
    [] k.fn = "Recv" -> mpiRecvPB(x, k, now)
    [] k.fn = "Irecv" -> mpiIrecvPB(x, k, now)
    [] k.fn = "Recv_init" -> mpiRecvInitPB(x, k, now)
    [] k.fn = "Sendrecv" -> mpiSendrecvPB(x, k, now)
    [] k.fn = "Isendrecv" -> mpiIsendrecvPB(x, k, now)
    [] k.fn = "Bcast" -> mpiCollBcastPB(x, k, now)
    [] k.fn \in {"Allreduce", "Pcontrol"} -> mpiCollAllreducePB(x, k, now)
    [] k.fn = "Reduce" -> mpiCollReducePB(x, k, now)
    [] k.fn = "Ibcast" -> mpiIcollBcastPB(x, k, now)
    [] k.fn = "Iallreduce" -> mpiIcollAllreducePB(x, k, now)
    [] k.fn = "Ireduce" -> mpiIcollReducePB(x, k, now)
    [] k.fn = "Bcast_init" -> mpiCollBcastInitPB(x, k, now)
    [] k.fn = "Allreduce_init" -> mpiCollAllreduceInitPB(x, k, now)
    [] k.fn = "Reduce_init" -> mpiCollReduceInitPB(x, k, now)

-----------------------------------------------------------------------------
(***************************************************************************)
(* Destructors.  The ones of calls that return a request fill in its       *)
(* RequestData; AppRequest is what PMPI has made of the program's call.    *)
(***************************************************************************)
AppKind(fn) ==
  CASE fn \in {"Send", "Isend", "Send_init"} -> "send"
    [] fn \in {"Recv", "Irecv", "Recv_init"} -> "recv"
    [] fn \in {"Sendrecv", "Isendrecv"} -> "sendrecv"
    [] fn \in {"Bcast", "Ibcast", "Bcast_init"} -> "bcast"
    [] fn \in {"Reduce", "Ireduce", "Reduce_init"} -> "reduce"
    [] fn \in {"Allreduce", "Iallreduce", "Allreduce_init", "Pcontrol"} -> "allreduce"

Wrappers ==
  {"Send", "Isend", "Send_init", "Recv", "Irecv", "Recv_init", "Sendrecv", "Isendrecv", "Bcast",
   "Ibcast", "Bcast_init", "Reduce", "Ireduce", "Reduce_init", "Allreduce", "Iallreduce",
   "Allreduce_init", "Pcontrol"}

Persistent(fn) ==
  fn \in {"Send_init", "Recv_init", "Bcast_init", "Reduce_init", "Allreduce_init"}

AppRequest(k) == Request(k, AppKind(k.fn), "app", ~Persistent(k.fn))

mpiIsendPBEnd(x, k) ==
  newRequest(IF k.run /\ k.dest # ProcNull
             THEN [init(x, k.dest, ANY) EXCEPT !.completionCallback = "PBnoHB"] ELSE x,
             AppRequest(k), FALSE)

mpiSendInitPBEnd(x, k) ==
  newRequest(IF k.dest # ProcNull THEN init(x, k.dest, ANY) ELSE x, AppRequest(k), TRUE)

\* Mutant of mpiIrecvPBEnd: no completion callback for a receive from a given rank.
mpiIrecvPBEndForgets(x, k) ==
  newRequest(CASE ~k.run \/ k.src = ProcNull -> x
               [] k.run /\ k.src # ProcNull /\ Wild(k.src, k.tag) ->
                    [init(x, k.src, k.tag) EXCEPT !.completionCallback = "PBWC"]
               [] OTHER -> [init(x, k.src, ANY) EXCEPT !.cancelCallback = "PB"],
             AppRequest(k), FALSE)

mpiIrecvPBEnd(x, k) ==
  newRequest(CASE ~k.run \/ k.src = ProcNull -> x
               [] k.run /\ k.src # ProcNull /\ Wild(k.src, k.tag) ->
                    [init(x, k.src, k.tag) EXCEPT !.completionCallback = "PBWC"]
               [] OTHER -> [init(x, k.src, ANY) EXCEPT !.completionCallback = "PBHB",
                                                       !.cancelCallback = "PB"],
             AppRequest(k), FALSE)

mpiRecvInitPBEnd(x, k) ==
  newRequest(CASE k.src = ProcNull -> x
               [] k.src # ProcNull /\ Wild(k.src, k.tag) -> init(x, k.src, k.tag)
               [] OTHER -> init(x, k.src, ANY),
             AppRequest(k), TRUE)

mpiIsendrecvPBEnd(x, k) ==
  newRequest(IF k.run
             THEN [init(x, k.src, ANY) EXCEPT
                     !.completionCallback = IF k.src # ProcNull THEN "PBHB" ELSE "PBnoHB",
                     !.cancelCallback = "PB"]
             ELSE x,
             AppRequest(k), FALSE)

\* Of mpiIcollBcastPBImpl and mpiIcollAllreducePBImpl, and of mpiIcollReducePBImpl.
mpiIcollPBEnd(x, k) ==
  newRequest(IF k.run THEN [init(x, 0, ANY) EXCEPT !.completionCallback = "PBHB"] ELSE x,
             AppRequest(k), FALSE)

mpiIcollReducePBEnd(x, k) ==
  newRequest(IF k.run THEN init(x, 0, ANY) ELSE x, AppRequest(k), FALSE)

mpiCollInitPBEnd(x, k) == newRequest(init(x, 0, ANY), AppRequest(k), TRUE)

Destructor(x, k) ==
  CASE k.fn = "Isend" -> mpiIsendPBEnd(x, k)
    [] k.fn = "Send_init" -> mpiSendInitPBEnd(x, k)
    [] k.fn = "Irecv" -> mpiIrecvPBEnd(x, k)
    [] k.fn = "Recv_init" -> mpiRecvInitPBEnd(x, k)
    [] k.fn = "Isendrecv" -> mpiIsendrecvPBEnd(x, k)
    [] k.fn \in {"Ibcast", "Iallreduce"} -> mpiIcollPBEnd(x, k)
    [] k.fn = "Ireduce" -> mpiIcollReducePBEnd(x, k)
    [] k.fn \in {"Bcast_init", "Allreduce_init", "Reduce_init"} -> mpiCollInitPBEnd(x, k)

\* The ones of blocking calls, and the completion callbacks of requests, wait for
\* the tool's requests and update the clock ("update"), only wait ("wait"), or do
\* nothing ("return").  The destructor of mpiSendPB waits if there is nothing to
\* wait for.
mpiSendPBEnd(k) == IF ~k.run \/ k.dest # ProcNull THEN "return" ELSE "wait"

mpiRecvPBEnd(k) == IF ~k.run \/ k.src = ProcNull THEN "return" ELSE "update"

mpiSendrecvPBEnd(k) ==
  CASE ~k.run \/ (k.src = ProcNull /\ k.dest = ProcNull) -> "return"
    [] k.run /\ k.src # ProcNull -> "update"
    [] OTHER -> "wait"

mpiCollBcastPBEnd(k) == IF k.run THEN "update" ELSE "return"

mpiCollAllreducePBEnd(k) == IF k.run THEN "update" ELSE "return"

mpiCollReducePBEnd(k) ==
  CASE ~k.run -> "return"
    [] k.run /\ k.dest = k.rank -> "update"
    [] OTHER -> "wait"

Destroyed(k) ==
  CASE k.fn = "Send" -> mpiSendPBEnd(k)
    [] k.fn = "Recv" -> mpiRecvPBEnd(k)
    [] k.fn = "Sendrecv" -> mpiSendrecvPBEnd(k)
    [] k.fn = "Bcast" -> mpiCollBcastPBEnd(k)
    [] k.fn \in {"Allreduce", "Pcontrol"} -> mpiCollAllreducePBEnd(k)
    [] k.fn = "Reduce" -> mpiCollReducePBEnd(k)

completePBWC(x, run) == IF x.cancelled THEN "return" ELSE "update"

\* Mutant of completePBHB: a cancelled receive updates the clock, too.
completePBHBCancelled(x, run) == "update"

completePBHB(x, run) == IF x.cancelled THEN "wait" ELSE "update"

completePBnoHB(x, run) == "wait"

completePersPBHB(x, run) ==
  CASE ~run -> "return"
    [] run /\ x.cancelled -> "wait"
    [] OTHER -> "update"

completePersPBnoHB(x, run) == IF run THEN "wait" ELSE "return"

\* RequestData::complete
complete(x, run) ==
  CASE x.completionCallback = "none" -> "return"
    [] x.completionCallback = "PBWC" -> completePBWC(x, run)
    [] x.completionCallback = "PBHB" -> completePBHB(x, run)
    [] x.completionCallback = "PBnoHB" -> completePBnoHB(x, run)
    [] x.completionCallback = "PersPBHB" -> completePersPBHB(x, run)
    [] x.completionCallback = "PersPBnoHB" -> completePersPBnoHB(x, run)

-----------------------------------------------------------------------------
(***************************************************************************)
(* The program's calls.                                                    *)
(***************************************************************************)
\* Request q of rank r is made: eager sends, receives, collectives.
Post(c, r, q, value, buf) ==
  /\ chan' = IF q.live /\ q.kind \in {"send", "sendrecv"} /\ q.dest # ProcNull
             THEN [chan EXCEPT ![c][r, q.dest] =
                     Append(@, [src |-> r, tag |-> q.tag, side |-> epoch[r], val |-> value])]
             ELSE chan
  /\ posted' = IF q.live /\ q.kind \in {"recv", "sendrecv"} /\ q.src # ProcNull
               THEN [posted EXCEPT ![c][r] =
                       Append(@, [src |-> q.src, tag |-> q.tag, side |-> epoch[r],
                                  op |-> q.op, buf |-> buf])]
               ELSE posted
  /\ coll' = IF q.live /\ q.kind \in Colls
             THEN [coll EXCEPT ![c][r] = Append(@, [op |-> q.kind, root |-> q.dest,
                                                    group |-> program.ranks, val |-> value])]
             ELSE coll

Completed(c, r, q) ==
  CASE ~q.live \/ q.kind \in {"null", "send"} -> TRUE
    [] q.live /\ q.kind \in {"recv", "sendrecv"} -> q.src = ProcNull \/ Received(q.op)
    [] q.live /\ q.kind \in Colls -> CollDone(c, r, q.op[1])

\* What request q has brought its rank when it is complete, if anything.
Brought(c, r, q, nothing) ==
  CASE ~q.live \/ q.kind \in {"null", "send"} -> nothing
    [] q.live /\ q.kind \in {"recv", "sendrecv"} ->
         IF q.src = ProcNull \/ MessageOf(q.op) = NoMessage THEN nothing
         ELSE MessageOf(q.op).val
    [] q.live /\ q.kind = "bcast" -> coll[c][q.dest][q.op[1]].val
    [] q.live /\ q.kind \in {"reduce", "allreduce"} ->
         IF q.kind = "reduce" /\ q.dest # r THEN nothing
         ELSE JoinAll({coll[c][p][q.op[1]].val : p \in program.ranks})

Forget(q) == {g \in got : g.op # q.op}

\* The piece of work before a call, if the tool is running.
Worked(v, t) == IF Running(RankOf[t]) THEN [v EXCEPT ![t] = @ + 1] ELSE v

\* The calls the program may make next in thread t.
NextCalls(t) == IF calls[t] < Len(program.calls[t]) THEN program.calls[t][calls[t] + 1] ELSE {}

Enter(t, k, place) ==
  /\ at[t] = "user"
  /\ at' = [at EXCEPT ![t] = place]
  /\ calls' = [calls EXCEPT ![t] = @ + 1]
  /\ call' = [call EXCEPT ![t] = k]

Leave(t, place) == at' = [at EXCEPT ![t] = place] /\ call' = [call EXCEPT ![t] = [fn |-> "none"]]

\* DataPool::getData, and the object it yields.
Drawn(r) == IF pool[r].rf # <<>> THEN Last(pool[r].rf) ELSE <<r, made[r] + 1>>
getData(r) ==
  \/ /\ pool[r].rf # <<>> /\ pool' = [pool EXCEPT ![r].rf = Front(@)] /\ UNCHANGED made
  \/ /\ pool[r].rf = <<>> /\ made[r] < MaxData
     /\ made' = [made EXCEPT ![r] = @ + 1] /\ UNCHANGED pool

\* What the program keeps to.  While a wildcard receive is pending, no other
\* receive of the rank can take its message, except wildcard receives posted
\* after it, which are completed after it.  All ranks call the same collectives,
\* on the same side of a marker.
PendingWild(r) ==
  {[src |-> data[d].handle.src, tag |-> data[d].handle.tag, id |-> data[d].handle.op[2]] :
     d \in {e \in UNION {reqs[t] : t \in {u \in Threads : RankOf[u] = r}} :
              data[e].handle.live /\ data[e].handle.kind = "recv"
              /\ Wild(data[e].handle.src, data[e].handle.tag)}}
  \cup {[src |-> call[t].src, tag |-> call[t].tag, id |-> call[t].id] :
          t \in {u \in Threads : RankOf[u] = r /\ call[u].fn \in {"Recv", "Irecv"}
                                 /\ at[u] \in {"call", "app"}
                                 /\ Wild(call[u].src, call[u].tag)}}
Overlap(v, w) ==
  (ANY \in {v.src, w.src} \/ v.src = w.src) /\ (ANY \in {v.tag, w.tag} \/ v.tag = w.tag)

MayReceive(t, fn, v) ==
  \A w \in PendingWild(RankOf[t]) : Overlap(v, w) => fn = "Irecv" /\ Wild(v.src, v.tag)

NthCollective(r) == Len(coll["app"][r]) + 1
MayCollect(r, what) == Len(plan) >= NthCollective(r) => plan[NthCollective(r)] = what
Planned(r, what) == IF Len(plan) >= NthCollective(r) THEN plan ELSE Append(plan, what)

Blocking == {"Send", "Recv", "Sendrecv", "Bcast", "Allreduce", "Reduce", "Pcontrol"}

\* No thread of the rank is in a call or has a request that is not complete.
Quiet(r) ==
  \A t \in Threads : RankOf[t] = r =>
    at[t] = "user" /\ msgs[t] = {} /\ \A d \in reqs[t] : ~data[d].handle.live

\* A wrapper is entered and the object of its class constructed.
Call(t) ==
  LET r == RankOf[t]
      now == Worked(clock[t], t)
  IN \E f \in NextCalls(t) :
       LET blocking == f.fn \in Blocking
           d == IF blocking THEN Stack(t) ELSE Drawn(r)
           k == [fn |-> f.fn, dest |-> f.dest, src |-> f.src, tag |-> f.tag, d |-> d, rank |-> r,
                 run |-> Running(r), id |-> <<t, calls[t] + 1>>, end |-> "none",
                 nth |-> [c \in Comms |-> Len(coll[c][r]) + 1]]
           x == Constructor(IF blocking THEN RequestData ELSE data[d], k, now)
           what == <<AppKind(f.fn), f.dest, epoch[r]>>
       IN /\ f.fn \in Wrappers
          /\ f.fn = "Pcontrol" => Quiet(r) /\ epoch[r] < 2
          /\ AppKind(f.fn) \in {"recv", "sendrecv"} /\ ~Persistent(f.fn) => MayReceive(t, f.fn, f)
          /\ AppKind(f.fn) \in Colls /\ ~Persistent(f.fn) => MayCollect(r, what)
          /\ plan' = IF AppKind(f.fn) \in Colls /\ ~Persistent(f.fn) THEN Planned(r, what) ELSE plan
          /\ Enter(t, k, "call")
          /\ IF blocking THEN UNCHANGED <<pool, made>> ELSE getData(r)
          /\ data' = [data EXCEPT ![d] = x]
          /\ Post("dup", r, x.pb, x.values, d)
          /\ clock' = [clock EXCEPT ![t] = now] /\ past' = [past EXCEPT ![t] = Worked(@, t)]
  /\ UNCHANGED <<program, got, epoch, reqs, msgs, failed>>

\* It calls PMPI; if the call returns a request, the object is destroyed.
PMPI(t) ==
  LET k == call[t]
      r == RankOf[t]
      q == AppRequest(k)
  IN /\ at[t] = "call" /\ k.fn # "Start"
     /\ Post("app", r, q, past[t], k.d)
     /\ IF k.fn \in Blocking
        THEN at' = [at EXCEPT ![t] = "app"] /\ UNCHANGED <<call, data, reqs>>
        ELSE /\ Leave(t, "user")
             /\ data' = [data EXCEPT ![k.d] = Destructor(@, k)]
             /\ reqs' = [reqs EXCEPT ![t] = @ \cup {k.d}]
     /\ UNCHANGED <<program, clock, past, epoch, got, pool, made, calls, msgs, plan, failed>>

\* startTool and stopTool at the end of MPI_Pcontrol.
Marked(t) ==
  epoch' = [epoch EXCEPT ![RankOf[t]] = IF call[t].fn = "Pcontrol" THEN @ + 1 ELSE @]

\* A blocking call is through, and the destructor runs up to the wait for the
\* tool's request, which for a wildcard receive it makes now.
Return(t) ==
  LET k == call[t]
      r == RankOf[t]
      q == AppRequest(k)
      m == MessageOf(q.op)
      end == Destroyed(k)
      x == IF k.fn = "Recv" /\ end = "update" /\ Wild(k.src, k.tag)
           THEN WithPB(data[k.d], [k EXCEPT !.src = m.src, !.tag = m.tag], "recv", TRUE)
           ELSE data[k.d]
  IN /\ at[t] = "app" /\ Completed("app", r, q)
     /\ past' = [past EXCEPT ![t] = IF k.run THEN Join(@, Brought("app", r, q, Zero)) ELSE @]
     /\ data' = [data EXCEPT ![k.d] = x]
     /\ IF x.pb # data[k.d].pb
        THEN Post("dup", r, x.pb, Zero, k.d) ELSE UNCHANGED <<chan, posted, coll>>
     /\ got' = Forget(q)
     /\ IF end = "return"
        THEN Leave(t, "user") /\ Marked(t)
        ELSE /\ at' = [at EXCEPT ![t] = "pb"] /\ call' = [call EXCEPT ![t].end = end]
             /\ UNCHANGED epoch
     /\ UNCHANGED <<program, clock, pool, made, calls, reqs, msgs, plan, failed>>

\* MpiHappensAfter
MpiHappensAfter(v, x, r) == IF Running(r) THEN Join(v, x.values) ELSE v

\* A request that is complete: a persistent one stays, another goes to the pool.
completeRequest(x, r, d, t) ==
  IF x.persistent
  THEN /\ data' = [data EXCEPT ![d] = [x EXCEPT !.handle.live = FALSE, !.pb.live = FALSE]]
       /\ UNCHANGED <<pool, reqs>>
  ELSE /\ data' = [data EXCEPT ![d] = fini(x)]
       /\ pool' = [pool EXCEPT ![r].rf = Append(@, d)]
       /\ reqs' = [reqs EXCEPT ![t] = @ \ {d}]

\* The tool's request is complete, too.
PBDone(t) ==
  LET k == call[t]
      r == RankOf[t]
      x == data[k.d]
      y == IF x.pb.kind \in Colls
           THEN [x EXCEPT !.values = Brought("dup", r, x.pb, @)] ELSE x
  IN /\ at[t] = "pb" /\ Completed("dup", r, x.pb)
     /\ clock' = [clock EXCEPT ![t] = IF k.end = "update" THEN MpiHappensAfter(@, y, r) ELSE @]
     /\ got' = Forget(x.pb)
     /\ IF k.fn = "Wait"
        THEN completeRequest([y EXCEPT !.cancelled = FALSE], r, k.d, t)
        ELSE data' = [data EXCEPT ![k.d] = y] /\ UNCHANGED <<pool, reqs>>
     /\ Leave(t, "user") /\ Marked(t)
     /\ UNCHANGED <<program, past, chan, posted, coll, made, calls, msgs, plan, failed>>

\* The status of a request that is not active.
EmptyStatus == [src |-> ANY, tag |-> ANY]

\* The completion callbacks that do not call isCancelled, if they only return.
KeepsCancelled == {"none", "PersPBHB"}

\* MPI_Wait, and every other completion function for a request it finds complete:
\* completePBWC receives the clock from the sender that the status names. A
\* persistent request that is not active is complete at once.
MPI_Wait(t, d) ==
  LET r == RankOf[t]
      x == data[d]
      q == x.handle
      m == IF q.live THEN MessageOf(q.op) ELSE EmptyStatus
      k == [fn |-> "Wait", d |-> d, id |-> <<t, calls[t] + 1>>, end |-> complete(x, Running(r)),
            dest |-> ProcNull, src |-> m.src, tag |-> m.tag]
      receive == x.completionCallback = "PBWC" /\ ~x.cancelled
      y == IF receive
           THEN WithPB([x EXCEPT !.remote = IF @ = ANY THEN m.src ELSE @], k, "recv", TRUE)
           ELSE x
  IN /\ [fn |-> "Wait"] \in NextCalls(t)
     /\ d \in reqs[t] /\ Completed("app", r, q)
     /\ ~q.live /\ "ActiveWait" \in Kept => x.completionCallback # "PBWC"
     /\ q.live /\ q.kind = "recv" /\ Wild(q.src, q.tag) =>
          \A w \in PendingWild(r) : Overlap(q, w) => w.id[2] >= q.op[2][2]
     /\ IF k.end = "return" THEN Enter(t, [fn |-> "none"], "user") ELSE Enter(t, k, "pb")
     /\ past' = [past EXCEPT ![t] = IF Running(r) THEN Join(Worked(@, t), Brought("app", r, q, Zero))
                                    ELSE @]
     /\ clock' = [clock EXCEPT ![t] = Worked(@, t)]
     /\ got' = Forget(q)
     /\ IF receive THEN Post("dup", r, y.pb, Zero, d) ELSE UNCHANGED <<chan, posted, coll>>
     /\ failed' = failed
          \cup (IF x.freed THEN {"freed"} ELSE {})
          \cup (IF receive /\ m.src \notin Ranks THEN {"source"} ELSE {})
          \cup (IF receive /\ "Status" \notin Kept THEN {"no status"} ELSE {})
          \cup (IF receive /\ (x.remote \notin {ANY, m.src} \/ x.tag \notin {ANY, m.tag})
                THEN {"status"} ELSE {})
     /\ IF k.end = "return"
        THEN completeRequest([x EXCEPT !.cancelled = @ /\ x.completionCallback \in KeepsCancelled],
                             r, d, t)
        ELSE data' = [data EXCEPT ![d] = y] /\ UNCHANGED <<pool, reqs>>
     /\ UNCHANGED <<program, epoch, made, msgs, plan>>

\* RequestData::start with startPersPBHB or startPersPBnoHB.
Started(q, c, t) ==
  [q EXCEPT !.live = q.kind # "null",
            !.op = IF q.kind \in Colls THEN <<Len(coll[c][RankOf[t]]) + 1>>
                   ELSE <<c, <<t, calls[t] + 1>>>>]

startPersPBHB(x, now, t) ==
  IF ~Running(RankOf[t]) THEN x
  ELSE [MpiHappensBefore(x, now) EXCEPT !.pb = Started(@, "dup", t)]

startPersPBnoHB(x, now, t) ==
  IF ~Running(RankOf[t]) THEN x ELSE [x EXCEPT !.pb = Started(@, "dup", t)]

\* MPI_Start: the start callback, then PMPI_Start.
MPI_Start(t, d) ==
  LET r == RankOf[t]
      x == data[d]
      now == Worked(clock[t], t)
      q == Started(x.handle, "app", t)
      what == <<q.kind, q.dest, epoch[r]>>
      y == CASE x.startCallback = "none" -> x
             [] x.startCallback = "PersPBHB" -> startPersPBHB(x, now, t)
             [] x.startCallback = "PersPBnoHB" -> startPersPBnoHB(x, now, t)
  IN /\ [fn |-> "Start"] \in NextCalls(t)
     /\ d \in reqs[t] /\ x.persistent /\ ~x.handle.live
     /\ q.kind = "recv" => MayReceive(t, "Start", q)
     /\ q.kind = "recv" /\ Wild(q.src, q.tag) /\ "WildcardRunning" \in Kept => Running(r)
     /\ q.kind \in Colls => MayCollect(r, what)
     /\ plan' = IF q.kind \in Colls THEN Planned(r, what) ELSE plan
     /\ Enter(t, [fn |-> "Start", d |-> d, q |-> q], "call")
     /\ data' = [data EXCEPT ![d] = y]
     /\ IF y.pb.live THEN Post("dup", r, y.pb, y.values, d) ELSE UNCHANGED <<chan, posted, coll>>
     /\ clock' = [clock EXCEPT ![t] = now] /\ past' = [past EXCEPT ![t] = Worked(@, t)]
     /\ failed' = failed \cup (IF x.freed THEN {"freed"} ELSE {})
     /\ UNCHANGED <<program, epoch, got, pool, made, reqs, msgs>>

PMPI_Start(t) ==
  LET k == call[t]
  IN /\ at[t] = "call" /\ k.fn = "Start"
     /\ Post("app", RankOf[t], k.q, past[t], k.d)
     /\ data' = [data EXCEPT ![k.d].handle = k.q]
     /\ Leave(t, "user")
     /\ UNCHANGED <<program, clock, past, epoch, got, pool, made, calls, reqs, msgs, plan, failed>>

\* Mutant of cancelPB: the tool's receive is not cancelled.
cancelPBNot(x) == {}

\* cancelPB: whether or not the tool's request is active.
cancelPB(x) == IF x.pb.kind # "null" THEN {x.pb} ELSE {}

\* MPI_Cancel of a receive: PMPI_Cancel, then RequestData::cancel with cancelPB. A
\* receive that has its message is not affected.
MPI_Cancel(t, d) ==
  LET r == RankOf[t]
      x == data[d]
      pbs == IF x.cancelCallback = "PB" THEN cancelPB(x) ELSE {}
      ops == {x.handle.op} \cup {q.op : q \in pbs}
      Open(c) == {v \in ToSet(posted[c][r]) : v.op \in ops}
  IN /\ [fn |-> "Cancel"] \in NextCalls(t)
     /\ d \in reqs[t] /\ x.handle.live /\ x.handle.kind = "recv"
     /\ "CancelInTime" \in Kept =>
          Cancelled("app", r, x.handle.op) /\ (x.pb.live => Cancelled("dup", r, x.pb.op))
     /\ "CancelRunning" \in Kept /\ x.persistent => Running(r)
     /\ Enter(t, [fn |-> "none"], "user")
     /\ posted' = [c \in Comms |-> [posted[c] EXCEPT ![r] = SelectSeq(@, LAMBDA v : v.op \notin ops)]]
     /\ got' = got \cup {[op |-> v.op, buf |-> v.buf, m |-> NoMessage] :
                           v \in UNION {Open(c) : c \in Comms}}
     /\ data' = [data EXCEPT ![d].cancelled = TRUE]
     /\ clock' = [clock EXCEPT ![t] = Worked(@, t)] /\ past' = [past EXCEPT ![t] = Worked(@, t)]
     /\ failed' = failed
          \cup (IF x.freed THEN {"freed"} ELSE {})
          \cup (IF x.cancelled THEN {"cancelled"} ELSE {})
          \cup (IF \E q \in pbs : ~q.live THEN {"inactive"} ELSE {})
     /\ UNCHANGED <<program, epoch, chan, coll, pool, made, reqs, msgs, plan>>

\* MPI_Request_free of a send or of a request that is not active: freeHandle.
MPI_Request_free(t, d) ==
  LET r == RankOf[t]
  IN /\ [fn |-> "Request_free"] \in NextCalls(t)
     /\ d \in reqs[t] /\ (data[d].handle.kind = "send" \/ ~data[d].handle.live)
     /\ Enter(t, [fn |-> "none"], "user")
     /\ data' = [data EXCEPT ![d] = fini(@)]
     /\ pool' = [pool EXCEPT ![r].rf = Append(@, d)]
     /\ reqs' = [reqs EXCEPT ![t] = @ \ {d}]
     /\ clock' = [clock EXCEPT ![t] = Worked(@, t)] /\ past' = [past EXCEPT ![t] = Worked(@, t)]
     /\ UNCHANGED <<engine, program, epoch, made, msgs, plan, failed>>

\* MPI_Mprobe and MPI_Improbe: the message is taken out of the queue, and its
\* clock awaited in a RequestData that becomes the message handle.
mpiMprobePB(t) ==
  LET r == RankOf[t]
      d == Drawn(r)
  IN \E f \in NextCalls(t) :
       /\ f.fn = "Mprobe" /\ MayReceive(t, "Mprobe", f)
       /\ \E sj \in Probed(r, f.src, f.tag, epoch[r]) :
            LET m == chan["app"][sj[1], r][sj[2]]
                k == [id |-> <<t, calls[t] + 1>>, dest |-> ProcNull, src |-> m.src, tag |-> m.tag]
                x == init(data[d], m.src, m.tag)
                y == IF Running(r) THEN WithPB(x, k, "recv", TRUE) ELSE x
            IN /\ chan' = [chan EXCEPT ![ "app"][sj[1], r] = RemoveAt(@, sj[2])]
               /\ posted' = IF Running(r)
                            THEN [posted EXCEPT !["dup"][r] =
                                    Append(@, [src |-> m.src, tag |-> m.tag, side |-> epoch[r],
                                               op |-> y.pb.op, buf |-> d])]
                            ELSE posted
               /\ data' = [data EXCEPT ![d] = y]
               /\ msgs' = [msgs EXCEPT ![t] = @ \cup {[d |-> d, m |-> m]}]
       /\ getData(r)
       /\ Enter(t, [fn |-> "none"], "user")
       /\ clock' = [clock EXCEPT ![t] = Worked(@, t)] /\ past' = [past EXCEPT ![t] = Worked(@, t)]
       /\ failed' = failed \cup (IF Wild(f.src, f.tag) /\ ~Running(r) /\ "Status" \notin Kept
                               THEN {"no status"} ELSE {})
  /\ UNCHANGED <<program, epoch, got, coll, reqs, plan>>

\* MPI_Improbe that finds nothing.
mpiImprobeNothing(t) ==
  LET r == RankOf[t]
  IN /\ \E f \in NextCalls(t) :
          f.fn = "Mprobe" /\ Probed(r, f.src, f.tag, epoch[r]) = {}
     /\ Enter(t, [fn |-> "none"], "user")
     /\ clock' = [clock EXCEPT ![t] = Worked(@, t)] /\ past' = [past EXCEPT ![t] = Worked(@, t)]
     /\ UNCHANGED <<engine, program, epoch, data, pool, made, reqs, msgs, plan, failed>>

\* MPI_Mrecv: the RequestData of the message is copied to the stack, with the
\* tool's request and with the values as they are, and goes to the pool of mf.
mpiRecvPBMessage(t, g) ==
  LET r == RankOf[t]
      x == data[g.d]
      run == Running(r)
      k == [fn |-> "Mrecv", d |-> Stack(t), end |-> "update"]
  IN /\ [fn |-> "Mrecv"] \in NextCalls(t)
     /\ g \in msgs[t]
     /\ "PromptProbe" \in Kept => Completed("dup", r, x.pb)
     /\ IF run THEN Enter(t, k, "pb") ELSE Enter(t, [fn |-> "none"], "user")
     /\ data' = [data EXCEPT ![Stack(t)] = IF run THEN [x EXCEPT !.handle = NullRequest] ELSE RequestData, ![g.d] = fini(x)]
     /\ pool' = [pool EXCEPT ![r].mf = Append(@, g.d)]
     /\ msgs' = [msgs EXCEPT ![t] = @ \ {g}]
     /\ past' = [past EXCEPT ![t] = IF run THEN Join(Worked(@, t), g.m.val) ELSE @]
     /\ clock' = [clock EXCEPT ![t] = Worked(@, t)]
     /\ UNCHANGED <<engine, program, epoch, made, reqs, plan, failed>>

\* MPI_Imrecv: the RequestData of the message becomes that of the request. The
\* destructor compares a tag that was never set, and may take the message for a
\* wildcard receive, on a communicator that was never set either.
mpiIrecvPBMessage(t, g) ==
  LET r == RankOf[t]
      q == [NullRequest EXCEPT !.kind = "recv", !.src = g.m.src, !.tag = g.m.tag,
                               !.op = <<"app", <<t, calls[t] + 1>>>>, !.live = TRUE]
      Known(x) == [x EXCEPT !.completionCallback = "PBHB", !.cancelCallback = "PB"]
      Wildcard(x) == [init(x, x.remote, ANY) EXCEPT !.completionCallback = "PBWC"]
  IN /\ [fn |-> "Imrecv"] \in NextCalls(t)
     /\ g \in msgs[t]
     /\ Enter(t, [fn |-> "none"], "user")
     /\ \/ /\ data' = [data EXCEPT ![g.d] = newRequest(IF Running(r) THEN Known(@) ELSE @, q, FALSE)]
           /\ UNCHANGED failed
        \/ /\ Running(r) /\ "TagNotAny" \notin Kept
           /\ data' = [data EXCEPT ![g.d] = newRequest(Wildcard(@), q, FALSE)]
           /\ failed' = failed \cup {"no communicator"}
     /\ reqs' = [reqs EXCEPT ![t] = @ \cup {g.d}]
     /\ msgs' = [msgs EXCEPT ![t] = @ \ {g}]
     /\ got' = got \cup {[op |-> q.op, buf |-> g.d, m |-> g.m]}
     /\ clock' = [clock EXCEPT ![t] = Worked(@, t)] /\ past' = [past EXCEPT ![t] = Worked(@, t)]
     /\ UNCHANGED <<chan, posted, coll, program, epoch, pool, made, plan>>

\* MPI_Pcontrol without the flag barrier; with it, it is a Call of MPI_Barrier.
MPI_Pcontrol(t) ==
  LET r == RankOf[t]
  IN /\ [fn |-> "Marker"] \in NextCalls(t)
     /\ Quiet(r) /\ epoch[r] < 2
     /\ Enter(t, [fn |-> "none"], "user")
     /\ epoch' = [epoch EXCEPT ![r] = @ + 1]
     /\ clock' = [clock EXCEPT ![t] = Worked(@, t)] /\ past' = [past EXCEPT ![t] = Worked(@, t)]
     /\ UNCHANGED <<engine, program, data, pool, made, reqs, msgs, plan, failed>>

\* MPI_Finalize: the maximum of all clocks, whether or not the tool is running.
MPI_Finalize(t) ==
  LET r == RankOf[t]
      now == Worked(clock[t], t)
      k == [fn |-> "Finalize", nth |-> Len(coll["dup"][r]) + 1]
  IN /\ [fn |-> "Finalize"] \in NextCalls(t)
     /\ Quiet(r) /\ MayCollect(r, <<"finalize">>) /\ plan' = Planned(r, <<"finalize">>)
     /\ Enter(t, k, "final")
     /\ coll' = [coll EXCEPT !["dup"][r] = Append(@, [op |-> "allreduce", root |-> r,
                                                      group |-> program.ranks, val |-> now])]
     /\ clock' = [clock EXCEPT ![t] = now] /\ past' = [past EXCEPT ![t] = Worked(@, t)]
     /\ UNCHANGED <<program, chan, posted, got, epoch, data, pool, made, reqs, msgs, failed>>

Finalized(t) ==
  LET r == RankOf[t]
      n == call[t].nth
  IN /\ at[t] = "final" /\ CollDone("dup", r, n)
     /\ clock' = [clock EXCEPT ![t] = JoinAll({@} \cup {coll["dup"][p][n].val : p \in program.ranks})]
     /\ past' = [past EXCEPT ![t] = JoinAll({past[u] : u \in {v \in Threads : at[v] \in {"final", "ended"}}})]
     /\ Leave(t, "ended")
     /\ UNCHANGED <<program, engine, epoch, data, pool, made, calls, reqs, msgs, plan, failed>>

\* The library matches a receive; a clock is written into its RequestData.
Deliver(c, r, s) ==
  /\ Match(c, r, s)
  /\ data' = [d \in Data |->
       IF \E g \in got' \ got : c = "dup" /\ g.buf = d
       THEN [data[d] EXCEPT !.values = (CHOOSE g \in got' \ got : TRUE).m.val] ELSE data[d]]
  /\ UNCHANGED <<program, clock, past, epoch, pool, made, at, call, calls, reqs, msgs, plan, failed>>

Step(t) ==
  \/ Call(t) \/ PMPI(t) \/ Return(t) \/ PBDone(t) \/ PMPI_Start(t)
  \/ mpiMprobePB(t) \/ mpiImprobeNothing(t) \/ MPI_Pcontrol(t) \/ MPI_Finalize(t) \/ Finalized(t)
  \/ \E d \in reqs[t] :
       MPI_Start(t, d) \/ MPI_Wait(t, d) \/ MPI_Cancel(t, d) \/ MPI_Request_free(t, d)
  \/ \E g \in msgs[t] : mpiRecvPBMessage(t, g) \/ mpiIrecvPBMessage(t, g)

Next == (\E t \in Threads : Step(t)) \/ (\E c \in Comms, r, s \in Ranks : Deliver(c, r, s))

\* The library delivers clocks and a thread whose clock has arrived goes on; one
\* of these steps is taken if there is any.  Which calls the program makes, and
\* when its own messages arrive, is not assumed.
Progress == (\E t \in Threads : PBDone(t)) \/ (\E r, s \in Ranks : Deliver("dup", r, s))

Spec == Init /\ [][Next]_vars /\ WF_vars(Progress)

-----------------------------------------------------------------------------
\* Every work on a path to a thread is in its clock when an MPI call has returned:
\* the clock that arrives is the one sent with the message that was received,
\* whatever wildcards, persistent requests, pooled RequestData and the order of
\* arrivals do.
NothingLost == \A t \in Threads : at[t] \in {"user", "ended"} => Covers(clock[t], past[t])

\* No clock has work that lies on no path to its thread: values left in a
\* recycled RequestData, or of another message, are never joined.
NothingAdded == \A t \in Threads : Covers(past[t], clock[t])

\* No DCHECK of RequestData::start, cancel and complete and of completePBWC fails,
\* and the tool cancels no request that is not active: no request is used after it
\* was freed, cancelled while an earlier cancellation still counts, or completed
\* with a status that names no sender, or another than the one it was posted for.
AssertionsHold == failed = {}

\* A receive of the tool that may still be written belongs to the RequestData
\* that waits for it: no object is recycled, or off the stack, before its clock
\* has arrived.
BuffersOwned ==
  \A r \in Ranks : \A v \in ToSet(posted["dup"][r]) :
    data[v.buf].pb.live /\ data[v.buf].pb.op = v.op

\* When no call is pending, the clocks under way are those of the messages under
\* way, in their order: none is left over to be taken for that of a later message.
ClocksPaired ==
  (\A r \in Ranks : Quiet(r)) =>
    \A sr \in Ranks \X Ranks :
      LET Tags(q) == [i \in DOMAIN q |-> q[i].tag]
      IN Tags(chan["dup"][sr]) = Tags(SelectSeq(chan["app"][sr], LAMBDA m : m.side = 1))

\* A thread that waits for a clock gets it: a moment when no thread waits for one
\* comes again and again, so waiting for the tool's own messages never stops a
\* program that MPI would not have stopped.
ClockArrives == []<>(\A t \in Threads : at[t] # "pb")
=============================================================================
