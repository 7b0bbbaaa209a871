------------------------------- MODULE Handles -------------------------------
(***************************************************************************)
(* The handles that the tool gives to the program in place of those of the *)
(* MPI library (tracking.h), and the wrappers that translate them: the     *)
(* completion functions (completion-wrappers.cpp), MPI_Comm_free and its   *)
(* like (man-wrappers.cpp), communicators as arguments (gen-wrappers.w),   *)
(* and the Fortran entry points (fort-wrappers.c).                         *)
(*                                                                         *)
(* A factory f ("rf" for requests, "cf" for communicators, "mf" for        *)
(* messages) owns a pool of data objects and, in the builds that need one, *)
(* dataTable and availableHandles.  The builds are                         *)
(*   "int"          MPICH: a handle is an index of dataTable;              *)
(*   "intFortran"   the same with FORTRAN_SUPPORT; MPI_Fint is the handle; *)
(*   "pointer"      Open MPI: a handle is the address of the data object;  *)
(*   "fortran"      the same with FORTRAN_SUPPORT; dataTable translates    *)
(*                  Fortran's integers.                                    *)
(*                                                                         *)
(* A thread is in at most one call, and one step of it is what happens     *)
(* under one lock, or between two.  AHMutex is held over several steps     *)
(* when the table grows, with DTMutex inside.                              *)
(***************************************************************************)
EXTENDS Integers, Sequences, SequencesExt, FiniteSets, FiniteSetsExt

CONSTANTS
  Threads,
  Vars,             \* the program's handle variables
  Scenes,           \* [build, lang, calls]: what a program consists of
  Array,            \* the variables that array_of_requests consists of, in order
  DatasPerBlock,    \* newDatas: 4096 / sizeof(T)
  HandlesPerBlock,  \* newAH: 4096 / 64
  MaxData,          \* bound: data objects (Mrecv hands them from one pool to another)
  NullF,            \* Fortran's integer for the null handle
  None              \* no thread, no data object

VARIABLES
  scene,
  pool,    \* pool[f]: dataPointer, the objects to use next at the end
  made,    \* objects that newDatas has constructed
  obj,     \* the contents of the objects
  table,   \* table[f]: dataTable; index i of the code is i + 1
  avail,   \* avail[f]: availableHandles
  ah,      \* ah[f]: the thread that holds AHMutex
  dt,      \* dt[f]: the thread that holds DTMutex exclusively
  moving,  \* moving[f]: dataTable is being reallocated
  var,     \* the handle in each variable
  want,    \* what the program knows of the variable's object
  call,    \* the call a thread is in
  failed   \* what has gone wrong: failed assertions, reads of a moving table

vars == <<scene, pool, made, obj, table, avail, ah, dt, moving, var, want, call, failed>>

Factories == {"rf", "cf", "mf"}
Data == 1..MaxData
NullHandle == -1  \* MPI_REQUEST_NULL, MPI_COMM_NULL, MPI_MESSAGE_NULL

Pointers == scene.build \in {"pointer", "fortran"}
Tables == scene.build # "pointer"

(***************************************************************************)
(* Data objects.  The library's handle for the object of variable i is i;  *)
(* cb is the variable whose clock the callbacks exchange.                  *)
(***************************************************************************)
Fresh == [handle |-> NullHandle, fHandle |-> -1, persistent |-> FALSE,
          freed |-> TRUE, cancelled |-> FALSE, cb |-> NullHandle]

\* Mutant of init: an object that was persistent stays so.
initKeepsPersistent(o, i, fId, persistent) ==
  [o EXCEPT !.handle = i, !.fHandle = fId, !.persistent = @ \/ persistent,
            !.freed = FALSE, !.cancelled = FALSE, !.cb = i]

init(o, i, fId, persistent) ==
  [o EXCEPT !.handle = i, !.fHandle = fId, !.persistent = persistent,
            !.freed = FALSE, !.cancelled = FALSE, !.cb = i]

fini(o) == [Fresh EXCEPT !.persistent = o.persistent]

\* The completion callback of MPI_Send_init: isCancelled resets the flag.
completePersPBnoHB(o) == [o EXCEPT !.cancelled = FALSE]

\* What the program knows of a variable without an object.
Nothing == [kind |-> "none", active |-> FALSE, persistent |-> FALSE, cancelled |-> FALSE]

Idle == [fn |-> "idle", on |-> <<>>]

\* The program's variables hold Fortran's integers, which are not the handles.
FortranInts == scene.lang = "Fortran" /\ Pointers
NullVar == IF FortranInts THEN NullF ELSE NullHandle

Init ==
  /\ scene \in Scenes
  /\ pool = [f \in Factories |-> <<>>]
  /\ made = 0
  /\ obj = [d \in Data |-> Fresh]
  /\ table = [f \in Factories |-> <<>>]
  /\ avail = [f \in Factories |-> <<>>]
  /\ ah = [f \in Factories |-> None]
  /\ dt = [f \in Factories |-> None]
  /\ moving = [f \in Factories |-> FALSE]
  /\ var = [i \in Vars |-> NullVar]
  /\ want = [i \in Vars |-> Nothing]
  /\ call = [t \in Threads |-> Idle]
  /\ failed = {}

(***************************************************************************)
(* The calls of the program.                                               *)
(***************************************************************************)
Creates == {"Isend", "Send_init", "Comm_dup", "Mprobe"}
Completes == {"Wait", "Waitall", "Waitany", "Waitsome", "Test", "Testall", "Testany", "Testsome"}
Starts == {"Start", "Startall"}
Frees == {"Request_free", "Comm_free"}
Arrays == {"Waitall", "Waitany", "Waitsome", "Testall", "Testany", "Testsome", "Startall"}

Factory(fn) ==
  CASE fn \in {"Comm_dup", "Comm_free", "Comm_rank"} -> "cf"
    [] fn \in {"Mprobe", "Mrecv", "Imrecv"} -> "mf"
    [] OTHER -> "rf"

\* What a correct program may call.  Two restrictions are the tool's: with
\* pointers MPI_Waitall and MPI_Testall write through a null handle, and
\* MPI_Waitany and MPI_Testany use the index MPI_UNDEFINED.
Legal(fn, I) ==
  LET Every(P(_)) == \A k \in DOMAIN I : P(want[I[k]])
      Fits(i) == want[i].kind = "request" \/ (want[i].kind = "none" /\ var[i] = NullVar)
  IN CASE fn \in Creates -> Every(LAMBDA w : w.kind = "none")
       [] fn \in Starts -> Every(LAMBDA w : w.persistent /\ ~w.active)
       [] fn = "Cancel" -> Every(LAMBDA w : w.active /\ ~w.cancelled)
       [] fn = "Request_free" ->
            Every(LAMBDA w : w.kind = "request" /\ (w.active => ~w.persistent))
       [] fn \in {"Comm_free", "Comm_rank"} -> Every(LAMBDA w : w.kind = "comm")
       [] fn \in {"Mrecv", "Imrecv"} -> Every(LAMBDA w : w.kind = "message")
       [] fn \in Completes ->
            /\ \A k \in DOMAIN I : Fits(I[k])
            /\ fn \in {"Waitall", "Testall"} /\ Pointers => Every(LAMBDA w : w.kind = "request")
            /\ fn \in {"Waitany", "Testany"} => \E k \in DOMAIN I : want[I[k]].active

Busy == UNION {ToSet(call[t].on) : t \in Threads}

\* mpiMprobePB takes the object of a message from the pool for requests.
Pool(fn) == IF fn = "Comm_dup" THEN "cf" ELSE "rf"

\* The bound MaxData: a call that takes an object begins only if there is one.
Room(fn) ==
  LET taking == {t \in Threads : call[t].fn \in Creates /\ call[t].step = "get"}
  IN fn \in Creates => Cardinality(taking) < Len(pool[Pool(fn)]) + MaxData - made

\* Fortran's integer to a handle and back (MPI_Comm_f2c, MPI_Comm_c2f).  In the
\* int build they are the same number.
f2c(f, h) ==
  IF ~FortranInts THEN h
  ELSE IF h = NullF THEN NullHandle ELSE table[f][h + 1]

c2f(h) ==
  IF ~FortranInts THEN h
  ELSE IF h = NullHandle THEN NullF ELSE obj[h].fHandle

\* The data object of a handle.
findData(f, h) == IF Pointers THEN h ELSE table[f][h + 1]

\* Mutant of SharedLock: the table is read without the lock.
SharedLockNot(f) == TRUE

\* A read of dataTable under DTMutex, shared; only f2c reads it with pointers.
SharedLock(f) == dt[f] = None
Torn(f, reads) == IF reads /\ moving[f] THEN {"table moved"} ELSE {}

Go(t, c) == call' = [call EXCEPT ![t] = c]

FirstStep(fn) ==
  CASE fn \in Creates -> "get"
    [] fn \in Starts -> "start"
    [] fn \in {"Mrecv", "Imrecv"} -> "detach"
    [] OTHER -> "read"

Enter(t) ==
  /\ call[t] = Idle
  /\ \E fn \in scene.calls : \E I \in IF fn \in Arrays THEN {Array} ELSE {<<i>> : i \in Vars} :
       LET f == Factory(fn)
       IN /\ ToSet(I) \cap Busy = {}
          /\ Legal(fn, I) /\ Room(fn)
          /\ FortranInts => SharedLock(f)
          /\ failed' = failed \cup Torn(f, FortranInts)
          /\ Go(t, [fn |-> fn, on |-> I, step |-> FirstStep(fn), data |-> None,
                    req |-> [k \in DOMAIN I |-> f2c(f, var[I[k]])],
                    mpi |-> [k \in DOMAIN I |-> NullHandle],
                    todo |-> [k \in DOMAIN I |-> k], done |-> <<>>])
  /\ UNCHANGED <<scene, pool, made, obj, table, avail, ah, dt, moving, var, want>>

(***************************************************************************)
(* A new handle.  The object is private until the call returns, so that it *)
(* does not matter whether init comes before or after the table's entry.   *)
(***************************************************************************)
newDatas == [j \in 1..DatasPerBlock |-> made + j]

getData(t) ==
  LET c == call[t]
      f == Pool(c.fn)
      block == IF pool[f] = <<>> THEN newDatas ELSE <<>>
      all == pool[f] \o block
  IN /\ c.fn # "idle" /\ c.step = "get"
     /\ made' = made + Len(block)
     /\ pool' = [pool EXCEPT ![f] = Front(all)]
     /\ Go(t, [c EXCEPT !.data = Last(all), !.step = "new"])
     /\ UNCHANGED <<scene, obj, table, avail, ah, dt, moving, var, want, failed>>

\* The flag that newRequest passes on. In the build with int handles and
\* FORTRAN_SUPPORT it is taken for init's parameter fRequest.
Persistent(fn) == fn = "Send_init" /\ scene.build # "intFortran"

\* Mutant of Take: the handle stays available.
TakeNoPop(t, f, tab, available) ==
  LET c == call[t]
      fId == Last(available)
  IN /\ avail' = [avail EXCEPT ![f] = available]
     /\ table' = [table EXCEPT ![f] = [tab EXCEPT ![fId + 1] = c.data]]
     /\ obj' = [obj EXCEPT ![c.data] = init(@, c.on[1], fId, Persistent(c.fn))]
     /\ Go(t, [c EXCEPT !.req[1] = IF Pointers THEN c.data ELSE fId, !.step = "return"])

\* The last available handle, for the object in hand.
Take(t, f, tab, available) ==
  LET c == call[t]
      fId == Last(available)
  IN /\ avail' = [avail EXCEPT ![f] = Front(available)]
     /\ table' = [table EXCEPT ![f] = [tab EXCEPT ![fId + 1] = c.data]]
     /\ obj' = [obj EXCEPT ![c.data] = init(@, c.on[1], fId, Persistent(c.fn))]
     /\ Go(t, [c EXCEPT !.req[1] = IF Pointers THEN c.data ELSE fId, !.step = "return"])

NewIn(fn) == IF fn = "Imrecv" THEN "rf" ELSE Factory(fn)

newHandle(t) ==
  LET c == call[t]
      f == NewIn(c.fn)
  IN /\ c.fn # "idle" /\ c.step = "new"
     /\ \/ /\ ~Tables
           /\ obj' = [obj EXCEPT ![c.data] = init(@, c.on[1], -1, Persistent(c.fn))]
           /\ Go(t, [c EXCEPT !.req[1] = c.data, !.step = "return"])
           /\ UNCHANGED <<table, avail, ah>>
        \/ /\ Tables /\ ah[f] = None /\ avail[f] # <<>>
           /\ Take(t, f, table[f], avail[f])
           /\ UNCHANGED ah
        \/ /\ Tables /\ ah[f] = None /\ avail[f] = <<>>
           /\ ah' = [ah EXCEPT ![f] = t]
           /\ Go(t, [c EXCEPT !.step = "resize"])
           /\ UNCHANGED <<obj, table, avail>>
     /\ UNCHANGED <<scene, pool, made, dt, moving, var, want, failed>>

\* newAH with AHMutex: the table is reallocated under DTMutex.
newAH(t) ==
  LET c == call[t]
      f == NewIn(c.fn)
  IN /\ c.fn # "idle" /\ c.step = "resize"
     /\ dt[f] = None
     /\ dt' = [dt EXCEPT ![f] = t]
     /\ moving' = [moving EXCEPT ![f] = TRUE]
     /\ Go(t, [c EXCEPT !.step = "resized"])
     /\ UNCHANGED <<scene, pool, made, obj, table, avail, ah, var, want, failed>>

\* Mutant of UnlockAH: the mutex stays locked.
UnlockAHNot(f) == UNCHANGED ah

UnlockAH(f) == ah' = [ah EXCEPT ![f] = None]

\* The rest of newAH and of newHandle, up to the end of AHMutex.
fillTable(t) ==
  LET c == call[t]
      f == NewIn(c.fn)
      oldSize == Len(table[f])
  IN /\ c.fn # "idle" /\ c.step = "resized"
     /\ dt' = [dt EXCEPT ![f] = None]
     /\ moving' = [moving EXCEPT ![f] = FALSE]
     /\ Take(t, f, table[f] \o [j \in 1..HandlesPerBlock |-> None],
             avail[f] \o [j \in 1..HandlesPerBlock |-> oldSize + j - 1])
     /\ UnlockAH(f)
     /\ UNCHANGED <<scene, pool, made, var, want, failed>>

(***************************************************************************)
(* What the wrappers of completion-wrappers.cpp complete, by position.     *)
(***************************************************************************)
Active(c) == {k \in DOMAIN c.on : want[c.on[k]].active}
All(c) == [k \in DOMAIN c.on |-> k]
OneActive(c) == {<<k>> : k \in Active(c)}
SomeActive(c) == {SetToSeq(S) : S \in SUBSET Active(c) \ {{}}}

MPI_Wait(c) == {All(c)}
MPI_Waitall(c) == {All(c)}
MPI_Waitany(c) == OneActive(c)
\* outcount is MPI_UNDEFINED, which is negative, if none is active.
MPI_Waitsome(c) == IF Active(c) = {} THEN {<<>>} ELSE SomeActive(c)
\* flag is set if none is active.
MPI_Test(c) == {All(c)} \cup IF Active(c) = {} THEN {} ELSE {<<>>}
MPI_Testall(c) == {All(c)} \cup IF Active(c) = {} THEN {} ELSE {<<>>}
MPI_Testany(c) == OneActive(c) \cup {<<>>}
MPI_Testsome(c) == SomeActive(c) \cup {<<>>}

Completions(c) ==
  CASE c.fn = "Wait" -> MPI_Wait(c)
    [] c.fn = "Waitall" -> MPI_Waitall(c)
    [] c.fn = "Waitany" -> MPI_Waitany(c)
    [] c.fn = "Waitsome" -> MPI_Waitsome(c)
    [] c.fn = "Test" -> MPI_Test(c)
    [] c.fn = "Testall" -> MPI_Testall(c)
    [] c.fn = "Testany" -> MPI_Testany(c)
    [] c.fn = "Testsome" -> MPI_Testsome(c)
    [] OTHER -> {<<>>}

\* PMPI_Wait, PMPI_Test and PMPI_Cancel are given a reference to the handle in
\* the object, the other functions a copy of it.
ByReference(fn) == fn \in {"Wait", "Test", "Cancel"}

\* Mutant of mpiHandle: index 0 is taken for the null handle.
mpiHandleNotZero(f, h) == IF h <= 0 THEN NullHandle ELSE obj[findData(f, h)].handle

mpiHandle(f, h) == IF h = NullHandle THEN NullHandle ELSE obj[findData(f, h)].handle

\* getHandle, or getHandleLocked in a loop under getSharedLock.
getHandle(t) ==
  LET c == call[t]
      f == Factory(c.fn)
  IN /\ c.fn # "idle" /\ c.step = "read"
     /\ ~Pointers => SharedLock(f)
     /\ failed' = failed \cup Torn(f, ~Pointers)
     /\ Go(t, [c EXCEPT !.mpi = [k \in DOMAIN c.on |-> mpiHandle(f, c.req[k])],
                        !.step = IF c.fn = "Comm_free" THEN "free" ELSE "PMPI"])
     /\ UNCHANGED <<scene, pool, made, obj, table, avail, ah, dt, moving, var, want>>

\* The call of the MPI library.  It sets the handle of a request that it has
\* completed to null unless the request is persistent.
PMPI(t) ==
  LET c == call[t]
  IN /\ c.fn # "idle" /\ c.step = "PMPI"
     /\ \E done \in Completions(c) :
          LET gone == {k \in ToSet(done) : ~want[c.on[k]].persistent}
          IN /\ obj' = IF ByReference(c.fn) /\ gone # {} /\ c.req[1] # NullHandle
                       THEN [obj EXCEPT ![findData("rf", c.req[1])].handle = NullHandle]
                       ELSE obj
             /\ Go(t, [c EXCEPT
                  !.mpi = [k \in DOMAIN c.on |-> IF k \in gone THEN NullHandle ELSE c.mpi[k]],
                  !.todo = done, !.done = done,
                  !.step = CASE c.fn = "Cancel" -> "cancel"
                             [] c.fn = "Request_free" -> "free"
                             [] c.fn = "Imrecv" -> "new"
                             [] c.fn \in Completes /\ done # <<>> -> "complete"
                             [] OTHER -> "return"])
     /\ UNCHANGED <<scene, pool, made, table, avail, ah, dt, moving, var, want, failed>>

Check(holds, what) == IF holds THEN {} ELSE {what}

\* startRequest for the next request; PMPI_Start and PMPI_Startall come last.
startRequest(t) ==
  LET c == call[t]
      k == Head(c.todo)
      d == findData("rf", c.req[k])
  IN /\ c.fn # "idle" /\ c.step = "start"
     /\ ~Pointers => SharedLock("rf")
     /\ failed' = failed \cup Torn("rf", ~Pointers)
                    \cup Check(~obj[d].freed, "start: freed")
                    \cup Check(obj[d].persistent, "persistent")
                    \cup Check(obj[d].cb = c.on[k], "start: callback")
     /\ Go(t, [c EXCEPT !.mpi[k] = obj[d].handle, !.todo = Tail(@),
                        !.step = IF Len(c.todo) = 1 THEN "PMPI" ELSE "start"])
     /\ UNCHANGED <<scene, pool, made, obj, table, avail, ah, dt, moving, var, want>>

cancelRequest(t) ==
  LET c == call[t]
      d == findData("rf", c.req[1])
  IN /\ c.fn # "idle" /\ c.step = "cancel"
     /\ ~Pointers => SharedLock("rf")
     /\ failed' = failed \cup Torn("rf", ~Pointers)
                    \cup Check(~obj[d].freed /\ ~obj[d].cancelled, "cancel: freed or cancelled")
     /\ obj' = [obj EXCEPT ![d].cancelled = TRUE]
     /\ Go(t, [c EXCEPT !.step = "return"])
     /\ UNCHANGED <<scene, pool, made, table, avail, ah, dt, moving, var, want>>

(***************************************************************************)
(* The end of a handle: under AHMutex it becomes available again, and then *)
(* the object is finished and goes to the pool.                            *)
(***************************************************************************)
Release(f, h) ==
  IF Tables
  THEN avail' = [avail EXCEPT ![f] = Append(@, IF Pointers THEN obj[h].fHandle ELSE h)]
  ELSE UNCHANGED avail

\* completeRequest up to the end of AHMutex.
completeRequest(t) ==
  LET c == call[t]
      k == Head(c.todo)
      h == c.req[k]
      d == findData("rf", h)
      next == [c EXCEPT !.todo = Tail(@), !.step = IF Len(c.todo) = 1 THEN "return" ELSE "complete"]
  IN /\ c.fn # "idle" /\ c.step = "complete"
     /\ \/ /\ h = NullHandle
           /\ Go(t, next)
           /\ UNCHANGED <<avail, failed>>
        \/ /\ h # NullHandle
           /\ ~Pointers => ah["rf"] = None
           /\ failed' = failed \cup Torn("rf", ~Pointers)
                          \cup Check(~obj[d].freed, "isPersistent: freed")
           /\ IF obj[d].persistent THEN UNCHANGED avail
              ELSE (Tables => ah["rf"] = None) /\ Release("rf", h)
           /\ Go(t, [c EXCEPT !.data = d, !.step = "finish"])
     /\ UNCHANGED <<scene, pool, made, obj, table, ah, dt, moving, var, want>>

\* freeHandle and detachHandle up to the end of AHMutex.
freeHandle(t) ==
  LET c == call[t]
      f == Factory(c.fn)
  IN /\ c.fn # "idle" /\ c.step \in {"free", "detach"}
     /\ Tables => ah[f] = None
     /\ failed' = failed \cup Torn(f, ~Pointers)
     /\ Release(f, c.req[1])
     /\ Go(t, [c EXCEPT !.data = findData(f, c.req[1]), !.req[1] = NullHandle,
                        !.mpi[1] = IF c.step = "free" THEN @ ELSE obj[findData(f, c.req[1])].handle,
                        !.step = IF c.fn = "Imrecv" THEN "PMPI" ELSE "finish"])
     /\ UNCHANGED <<scene, pool, made, obj, table, ah, dt, moving, var, want>>

\* Mutant of returnData: keeps one block only.
returnDataOneBlock(f, d) ==
  IF Len(pool[f]) < DatasPerBlock THEN pool' = [pool EXCEPT ![f] = Append(@, d)] ELSE UNCHANGED pool

returnData(f, d) == pool' = [pool EXCEPT ![f] = Append(@, d)]

\* The rest of completeRequest, of freeHandle, and of mpiRecvPB(MPI_Message *):
\* the callback, if any, fini, and returnData.
finish(t) ==
  LET c == call[t]
      d == c.data
      o == IF c.fn \in Completes /\ ~ByReference(c.fn)
           THEN [obj[d] EXCEPT !.handle = c.mpi[Head(c.todo)]] ELSE obj[d]
      last == Len(c.todo) <= 1
  IN /\ c.fn # "idle" /\ c.step = "finish"
     /\ failed' = failed \cup
          IF c.fn \in Completes
          THEN Check(~o.freed, "complete: freed")
                 \cup Check(o.cb = c.on[Head(c.todo)], "complete: callback")
          ELSE {}
     /\ IF c.fn \in Completes /\ o.persistent
        THEN /\ obj' = [obj EXCEPT ![d] = completePersPBnoHB(o)]
             /\ UNCHANGED pool
        ELSE /\ obj' = [obj EXCEPT ![d] = fini(o)]
             /\ returnData(Factory(c.fn), d)
     /\ Go(t, [c EXCEPT
          !.req = IF c.fn \in Completes /\ ~o.persistent
                  THEN [@ EXCEPT ![Head(c.todo)] = NullHandle] ELSE @,
          !.todo = IF c.fn \in Completes THEN Tail(@) ELSE <<>>,
          !.data = None,
          !.step = CASE c.fn \in Completes /\ ~last -> "complete"
                     [] c.fn \in {"Comm_free", "Mrecv"} -> "PMPI"
                     [] OTHER -> "return"])
     /\ UNCHANGED <<scene, made, table, avail, ah, dt, moving, var, want>>

(***************************************************************************)
(* What a call leaves in the program's variables, and the indices that it  *)
(* reports, which count from 0 in C.                                       *)
(***************************************************************************)
Indices(c) ==
  IF c.fn \in {"Waitany", "Waitsome", "Testany", "Testsome"}
  THEN [j \in DOMAIN c.done |-> c.done[j] - 1] ELSE <<>>

Written(c) == [requests |-> [k \in DOMAIN c.on |-> c2f(c.req[k])], indices |-> Indices(c)]

\* The functions on arrays convert the requests to temporaries and do not
\* convert them back.
Temporaries(c) == [requests |-> [k \in DOMAIN c.on |-> var[c.on[k]]],
                   indices |-> [j \in DOMAIN Indices(c) |-> Indices(c)[j] + 1]]

MPI_Start_fortran_wrapper(c) == Written(c)
MPI_Startall_fortran_wrapper(c) == Written(c)
MPI_Request_free_fortran_wrapper(c) == Written(c)
MPI_Cancel_fortran_wrapper(c) == Written(c)
MPI_Wait_fortran_wrapper(c) == Written(c)
MPI_Waitall_fortran_wrapper(c) == Temporaries(c)
MPI_Waitany_fortran_wrapper(c) == Temporaries(c)
MPI_Waitsome_fortran_wrapper(c) == Temporaries(c)
MPI_Test_fortran_wrapper(c) == Written(c)
MPI_Testall_fortran_wrapper(c) == Temporaries(c)
MPI_Testany_fortran_wrapper(c) == Temporaries(c)
MPI_Testsome_fortran_wrapper(c) == Temporaries(c)
MPI_Comm_free_fortran_wrapper(c) == Written(c)

Result(c) ==
  IF scene.lang = "C" THEN Written(c)
  ELSE CASE c.fn = "Start" -> MPI_Start_fortran_wrapper(c)
         [] c.fn = "Startall" -> MPI_Startall_fortran_wrapper(c)
         [] c.fn = "Request_free" -> MPI_Request_free_fortran_wrapper(c)
         [] c.fn = "Cancel" -> MPI_Cancel_fortran_wrapper(c)
         [] c.fn = "Wait" -> MPI_Wait_fortran_wrapper(c)
         [] c.fn = "Waitall" -> MPI_Waitall_fortran_wrapper(c)
         [] c.fn = "Waitany" -> MPI_Waitany_fortran_wrapper(c)
         [] c.fn = "Waitsome" -> MPI_Waitsome_fortran_wrapper(c)
         [] c.fn = "Test" -> MPI_Test_fortran_wrapper(c)
         [] c.fn = "Testall" -> MPI_Testall_fortran_wrapper(c)
         [] c.fn = "Testany" -> MPI_Testany_fortran_wrapper(c)
         [] c.fn = "Testsome" -> MPI_Testsome_fortran_wrapper(c)
         [] c.fn = "Comm_free" -> MPI_Comm_free_fortran_wrapper(c)
         [] OTHER -> Written(c)

\* The positions that the program takes for completed.
Told(c) ==
  LET r == Result(c)
      first == IF scene.lang = "C" THEN 0 ELSE 1
  IN IF r.indices # <<>> THEN {r.indices[j] - first + 1 : j \in DOMAIN r.indices}
     ELSE ToSet(c.done)

\* What the program knows of its variable after the call.
Learnt(c, k) ==
  LET w == want[c.on[k]]
      request == [Nothing EXCEPT !.kind = "request", !.active = TRUE]
  IN CASE c.fn \in {"Isend", "Imrecv"} -> request
       [] c.fn = "Send_init" -> [request EXCEPT !.active = FALSE, !.persistent = TRUE]
       [] c.fn = "Comm_dup" -> [Nothing EXCEPT !.kind = "comm"]
       [] c.fn = "Mprobe" -> [Nothing EXCEPT !.kind = "message"]
       [] c.fn \in Starts -> [w EXCEPT !.active = TRUE]
       [] c.fn = "Cancel" -> [w EXCEPT !.cancelled = TRUE]
       [] c.fn \in Frees \cup {"Mrecv"} -> Nothing
       [] c.fn \in Completes /\ k \in Told(c) ->
            IF w.persistent /\ Result(c).requests[k] # NullVar
            THEN [w EXCEPT !.active = FALSE, !.cancelled = FALSE] ELSE Nothing
       [] OTHER -> w

\* The assertion at the end of mpiSendInitPB, and that a persistent request
\* keeps its handle when it is completed.
StaysPersistent(c) ==
  /\ c.fn = "Send_init" => obj[c.data].persistent
  /\ c.fn \in Completes =>
       \A k \in DOMAIN c.on : want[c.on[k]].persistent => c.req[k] # NullHandle

Return(t) ==
  LET c == call[t]
      At(i) == CHOOSE k \in DOMAIN c.on : c.on[k] = i
  IN /\ c.fn # "idle" /\ c.step = "return"
     /\ var' = [i \in Vars |-> IF i \in ToSet(c.on) THEN Result(c).requests[At(i)] ELSE var[i]]
     /\ want' = [i \in Vars |-> IF i \in ToSet(c.on) THEN Learnt(c, At(i)) ELSE want[i]]
     /\ call' = [call EXCEPT ![t] = Idle]
     /\ failed' = failed \cup Check(StaysPersistent(c), "persistent")
     /\ UNCHANGED <<scene, pool, made, obj, table, avail, ah, dt, moving>>

Work(t) ==
  \/ getData(t) \/ newHandle(t) \/ newAH(t) \/ fillTable(t)
  \/ getHandle(t) \/ PMPI(t) \/ startRequest(t) \/ cancelRequest(t)
  \/ completeRequest(t) \/ freeHandle(t) \/ finish(t) \/ Return(t)

Next == \E t \in Threads : Enter(t) \/ Work(t)

\* A thread in a call goes on: the library completes every operation, and a
\* thread that waits for a mutex gets it when it is free.
Spec == Init /\ [][Next]_vars /\ \A t \in Threads : SF_vars(Work(t))

(***************************************************************************)
(* Properties.                                                             *)
(***************************************************************************)

\* The objects of the program's variables, by the handles in them.
Live == {i \in Vars \ Busy : want[i].kind # "none"}
FactoryOf(kind) == CASE kind = "comm" -> "cf" [] kind = "message" -> "mf" [] OTHER -> "rf"
ObjectOf(i) == LET f == FactoryOf(want[i].kind) IN findData(f, f2c(f, var[i]))

\* Every object is in one place: in one pool, once, or that of one live handle,
\* or in the hands of one thread that is creating or finishing it; and every
\* handle is available or in use, never both.  completeRequest and freeHandle
\* make the handle available before they are through with the object.
OnePlace ==
  LET pooled == pool["rf"] \o pool["cf"] \o pool["mf"]
      inHand == {t \in Threads : call[t].fn # "idle" /\ call[t].step # "return" /\ call[t].data # None}
      Index(i) == IF Pointers THEN obj[ObjectOf(i)].fHandle ELSE var[i]
  IN /\ Cardinality(ToSet(pooled)) = Len(pooled)
     /\ \A i \in Live : ObjectOf(i) \in Data \ ToSet(pooled)
     /\ \A i, j \in Live : i # j => ObjectOf(i) # ObjectOf(j)
     /\ \A t \in inHand :
          /\ call[t].data \notin ToSet(pooled) \cup {ObjectOf(i) : i \in Live}
          /\ \A u \in inHand \ {t} : call[u].data # call[t].data
     /\ Tables => \A f \in Factories :
          /\ Cardinality(ToSet(avail[f])) = Len(avail[f])
          /\ \A i \in Live : FactoryOf(want[i].kind) = f => Index(i) \notin ToSet(avail[f])

\* No object gets lost: when no call is under way, each is in a pool or belongs
\* to a live handle. (MPI_Mrecv puts the object of a message, which comes from the
\* pool of requests, into that of messages, where no call takes it from.)
NoLeak ==
  (\A t \in Threads : call[t] = Idle) =>
     made = Len(pool["rf"]) + Len(pool["cf"]) + Len(pool["mf"]) + Cardinality(Live)

\* The MPI library is called with its handle of the very object that the
\* program's variable stands for, however handles, table entries and objects
\* have been reused in the meantime.
HandleExact ==
  \A t \in Threads :
    (call[t].fn # "idle" /\ call[t].step = "PMPI") =>
      \A k \in DOMAIN call[t].on :
        call[t].mpi[k] = IF want[call[t].on[k]].kind = "none" THEN NullHandle ELSE call[t].on[k]

\* The assertions on freed, persistent and cancelled objects hold, a persistent
\* request keeps its handle over completions, every callback is that of the
\* operation that has started or completed, and dataTable is not read while newAH
\* reallocates it. The one exception: with int handles and FORTRAN_SUPPORT no
\* request is made persistent, so that the assertions on this fail.
AssertionsHold ==
  failed \subseteq (IF scene.build = "intFortran" THEN {"persistent"} ELSE {})

\* A completed, freed or received object leaves a null handle in the program's
\* variable, except that the Fortran functions on arrays leave the old one.
NullWhenGone ==
  [][\A i \in Vars : (want[i].kind # "none" /\ want'[i].kind = "none") =>
       \/ var'[i] = NullVar
       \/ /\ scene.lang = "Fortran"
          /\ \E t \in Threads : call[t].fn \in Arrays /\ i \in ToSet(call[t].on)]_vars

\* Every call returns: the mutexes do not block the threads for ever, and a
\* growing table does not either.
CallsReturn == \A t \in Threads : call[t] # Idle ~> call[t] = Idle
=============================================================================
