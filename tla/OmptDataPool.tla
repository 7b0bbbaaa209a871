---------------------------- MODULE OmptDataPool ----------------------------
(***************************************************************************)
(* DataPool and DataPoolEntry of ompt-critical.cpp: every thread takes its *)
(* ParallelData, TaskData, Taskgroup and DependencyData objects from pools *)
(* of its own and any thread gives them back, to the owner's pool.         *)
(*                                                                         *)
(* The owner works on DataPointer without a lock; the others return to     *)
(* RemoteDataPointer under DPMutex and count what they return in remote,   *)
(* which the owner reads without the mutex when it has run out.  One of    *)
(* the four pools is modelled.  The vectors are sets: which of its objects *)
(* a pool yields does not matter here.                                     *)
(***************************************************************************)
EXTENDS Integers, FiniteSets

CONSTANTS
  Threads, Nobody,
  Objects,   \* bound: memory
  PageSize   \* objects that fit into a page, at least 4 in the code

ASSUME OmptDataPoolAssumption ==
  /\ Nobody \notin Threads \cup Objects
  /\ IsFiniteSet(Objects) /\ PageSize \in Nat \ {0}

VARIABLES
  DataPointer, RemoteDataPointer, remote, total, DPMutex,  \* of the pool of a thread
  owner,   \* owner[o]: the thread whose pool has allocated object o
  used,    \* objects handed out
  at,      \* at[t]: where t is, see Place
  data,    \* data[t]: the object t is returning, if any
  missing  \* missing[t]: getMissing() as the destructor of the pool of t finds it

vars == <<DataPointer, RemoteDataPointer, remote, total, DPMutex, owner, used, at, data, missing>>

Place == {"out", "user", "refill", "swap", "take", "return", "pushed", "ended"}

TypeOK ==
  /\ DataPointer \in [Threads -> SUBSET Objects]
  /\ RemoteDataPointer \in [Threads -> SUBSET Objects]
  /\ remote \in [Threads -> Nat] /\ total \in [Threads -> Nat] /\ missing \in [Threads -> Int]
  /\ DPMutex \in [Threads -> Threads \cup {Nobody}]
  /\ owner \in [Objects -> Threads \cup {Nobody}]
  /\ used \in SUBSET Objects
  /\ at \in [Threads -> Place] /\ data \in [Threads -> Objects \cup {Nobody}]

Init ==
  /\ DataPointer = [t \in Threads |-> {}] /\ RemoteDataPointer = [t \in Threads |-> {}]
  /\ remote = [t \in Threads |-> 0] /\ total = [t \in Threads |-> 0]
  /\ missing = [t \in Threads |-> 0]
  /\ DPMutex = [t \in Threads |-> Nobody]
  /\ owner = [o \in Objects |-> Nobody] /\ used = {}
  /\ at = [t \in Threads |-> "out"]
  /\ data = [t \in Threads |-> Nobody]

Go(t, from, to) == at[t] = from /\ at' = [at EXCEPT ![t] = to]

-----------------------------------------------------------------------------
\* thread_begin makes the thread's pools.
ompt_tsan_thread_begin(t) ==
  /\ Go(t, "out", "user")
  /\ UNCHANGED <<DataPointer, RemoteDataPointer, remote, total, DPMutex, owner, used, data, missing>>

\* New looks for an object in the thread's own pool ...
getData(t) ==
  /\ Go(t, "user", IF DataPointer[t] = {} THEN "refill" ELSE "take")
  /\ UNCHANGED <<DataPointer, RemoteDataPointer, remote, total, DPMutex, owner, used, data, missing>>

\* ... and if there is none reads remote, without the mutex; if nothing has
\* been returned, it allocates a page ...
newDatas(t) ==
  \/ /\ remote[t] > 0 /\ Go(t, "refill", "swap")
     /\ UNCHANGED <<DataPointer, RemoteDataPointer, remote, total, DPMutex, owner, used, data, missing>>
  \/ /\ remote[t] = 0 /\ Go(t, "refill", "take")
     /\ \E page \in SUBSET {o \in Objects : owner[o] = Nobody} :
          /\ Cardinality(page) = PageSize
          /\ DataPointer' = [DataPointer EXCEPT ![t] = page]
          /\ owner' = [o \in Objects |-> IF o \in page THEN t ELSE owner[o]]
     /\ total' = [total EXCEPT ![t] = @ + PageSize]
     /\ UNCHANGED <<RemoteDataPointer, remote, DPMutex, used, data, missing>>

\* Mutant of SwapRemote: the returned objects are copied, not swapped.
SwapRemoteCopies(t) ==
  /\ DPMutex[t] = Nobody /\ Go(t, "swap", "take")
  /\ DataPointer' = [DataPointer EXCEPT ![t] = RemoteDataPointer[t]]
  /\ remote' = [remote EXCEPT ![t] = 0]
  /\ UNCHANGED <<RemoteDataPointer, total, DPMutex, owner, used, data, missing>>

\* Mutant of SwapRemote: remote is not set to zero.
SwapRemoteKeepsCount(t) ==
  /\ DPMutex[t] = Nobody /\ Go(t, "swap", "take")
  /\ DataPointer' = [DataPointer EXCEPT ![t] = RemoteDataPointer[t]]
  /\ RemoteDataPointer' = [RemoteDataPointer EXCEPT ![t] = DataPointer[t]]
  /\ UNCHANGED <<remote, total, DPMutex, owner, used, data, missing>>

\* ... else, under the mutex, the two vectors change places.
SwapRemote(t) ==
  /\ DPMutex[t] = Nobody /\ Go(t, "swap", "take")
  /\ DataPointer' = [DataPointer EXCEPT ![t] = RemoteDataPointer[t]]
  /\ RemoteDataPointer' = [RemoteDataPointer EXCEPT ![t] = DataPointer[t]]
  /\ remote' = [remote EXCEPT ![t] = 0]
  /\ UNCHANGED <<total, DPMutex, owner, used, data, missing>>

\* back() and pop_back().
Take(t) ==
  /\ Go(t, "take", "user")
  /\ \E o \in DataPointer[t] :
       /\ DataPointer' = [DataPointer EXCEPT ![t] = @ \ {o}]
       /\ used' = used \cup {o}
  /\ UNCHANGED <<RemoteDataPointer, remote, total, DPMutex, owner, data, missing>>

\* A thread gives back an object of its own pool at once (returnOwnData) ...
Delete(t, o) ==
  /\ o \in used /\ used' = used \ {o}
  /\ \/ /\ owner[o] = t /\ Go(t, "user", "user")
        /\ DataPointer' = [DataPointer EXCEPT ![t] = @ \cup {o}]
        /\ UNCHANGED data
     \/ /\ owner[o] # t /\ Go(t, "user", "return")
        /\ data' = [data EXCEPT ![t] = o]
        /\ UNCHANGED DataPointer
  /\ UNCHANGED <<RemoteDataPointer, remote, total, DPMutex, owner, missing>>

\* ... and another thread's under the mutex: push_back ...
returnData(t) ==
  LET p == owner[data[t]]
  IN /\ Go(t, "return", "pushed") /\ DPMutex[p] = Nobody
     /\ DPMutex' = [DPMutex EXCEPT ![p] = t]
     /\ RemoteDataPointer' = [RemoteDataPointer EXCEPT ![p] = @ \cup {data[t]}]
     /\ UNCHANGED <<DataPointer, remote, total, owner, used, data, missing>>

\* ... and remote++.
Returned(t) ==
  LET p == owner[data[t]]
  IN /\ Go(t, "pushed", "user")
     /\ remote' = [remote EXCEPT ![p] = @ + 1]
     /\ DPMutex' = [DPMutex EXCEPT ![p] = Nobody]
     /\ data' = [data EXCEPT ![t] = Nobody]
     /\ UNCHANGED <<DataPointer, RemoteDataPointer, total, owner, used, missing>>

\* A thread ends when all that was taken from its pool has been given back (its
\* regions and tasks are over).
AllBack(t) ==
  \A o \in Objects : owner[o] = t =>
    o \notin used /\ \A u \in Threads : at[u] \in {"return", "pushed"} => data[u] # o

\* Mutant of getMissing: the objects returned by others are not counted.
getMissingLocal(t) == total[t] - Cardinality(DataPointer[t])

getMissing(t) == total[t] - Cardinality(DataPointer[t]) - Cardinality(RemoteDataPointer[t])

\* thread_end: the destructor compares the counts and frees the memory.
ompt_tsan_thread_end(t) ==
  /\ AllBack(t) /\ Go(t, "user", "ended")
  /\ missing' = [missing EXCEPT ![t] = getMissing(t)]
  /\ UNCHANGED <<DataPointer, RemoteDataPointer, remote, total, DPMutex, owner, used, data>>

ThreadStep(t) ==
  \/ ompt_tsan_thread_begin(t) \/ getData(t) \/ newDatas(t) \/ SwapRemote(t) \/ Take(t)
  \/ returnData(t) \/ Returned(t) \/ ompt_tsan_thread_end(t)
  \/ \E o \in Objects : Delete(t, o)

Next == \E t \in Threads : ThreadStep(t)

Spec == Init /\ [][Next]_vars

-----------------------------------------------------------------------------
(***************************************************************************)
(* Properties.                                                             *)
(***************************************************************************)
Returning(o) == {t \in Threads : at[t] = "return" /\ data[t] = o}

\* Every object that was allocated is in exactly one place: in one of the two
\* vectors of its own pool, in use, or with the one thread that is returning
\* it.  No object is handed out twice and none is lost between the two
\* vectors, though the owner looks at remote without the mutex.
OnePlace ==
  /\ \A t \in Threads : DataPointer[t] \cap RemoteDataPointer[t] = {}
  /\ \A t \in Threads, o \in Objects :
       o \in DataPointer[t] \cup RemoteDataPointer[t] =>
         owner[o] = t /\ o \notin used /\ Returning(o) = {}
  /\ \A o \in Objects : owner[o] # Nobody =>
       \/ o \in DataPointer[owner[o]] \cup RemoteDataPointer[owner[o]]
       \/ o \in used /\ Returning(o) = {}
       \/ o \notin used /\ \E t \in Threads : Returning(o) = {t}

\* getData never takes from an empty vector: if remote was positive when the
\* owner looked, there is something to swap in, whatever has happened since.
NeverEmpty == \A t \in Threads : at[t] = "take" => DataPointer[t] # {}

\* The destructor of a pool misses nothing, as its comment assumes, so that
\* report_data_leak never ends a correct program.
NothingMissing == \A t \in Threads : missing[t] = 0
=============================================================================
