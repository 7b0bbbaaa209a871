------------------------- MODULE OmptDataPoolProofs -------------------------
(***************************************************************************)
(* Every object of a data pool is in one place, and getData always finds   *)
(* one, for any number of threads and any page size.                       *)
(***************************************************************************)
EXTENDS OmptDataPool, FiniteSetTheorems, TLAPS

\* The objects of a pool, and of threads that return one.  Together with
\* Alone this is OnePlace.
Placed ==
  /\ \A t \in Threads : DataPointer[t] \cap RemoteDataPointer[t] = {}
  /\ \A t \in Threads, o \in Objects : o \in DataPointer[t] \cup RemoteDataPointer[t] =>
       owner[o] = t /\ o \notin used /\ \A u \in Threads : at[u] = "return" => data[u] # o
  /\ \A o \in Objects : owner[o] # Nobody =>
       \/ o \in DataPointer[owner[o]] \cup RemoteDataPointer[owner[o]]
       \/ o \in used
       \/ \E u \in Threads : at[u] = "return" /\ data[u] = o
  /\ \A o \in used : owner[o] # Nobody

\* A thread that returns an object is the only one to do so, and has taken it
\* from the users.
Alone ==
  /\ \A t \in Threads : at[t] \in {"return", "pushed"} => data[t] \in Objects /\ owner[data[t]] \in Threads
  /\ \A t \in Threads : at[t] = "return" => data[t] \notin used
  /\ \A t, u \in Threads : at[t] = "return" /\ at[u] = "return" /\ data[t] = data[u] => t = u

\* What remote counts is there, and stays there while somebody has the mutex.
Counted ==
  /\ \A t \in Threads : remote[t] > 0 => RemoteDataPointer[t] # {}
  /\ \A t \in Threads : at[t] = "pushed" =>
       DPMutex[owner[data[t]]] = t /\ RemoteDataPointer[owner[data[t]]] # {}
  /\ \A t \in Threads : at[t] = "swap" => remote[t] > 0
  /\ \A t \in Threads : at[t] \in {"refill", "swap"} => DataPointer[t] = {}

IInv == TypeOK /\ Placed /\ Alone /\ Counted /\ NeverEmpty

-----------------------------------------------------------------------------
\* No pool has anything at the start.
LEMMA InitHolds == ASSUME Init PROVE IInv
BY OmptDataPoolAssumption
   DEF Init, IInv, TypeOK, Place, Placed, Alone, Counted, NeverEmpty

\* A thread comes up.
LEMMA BeginKeeps == ASSUME IInv, NEW t \in Threads, ompt_tsan_thread_begin(t) PROVE IInv'
<1> USE OmptDataPoolAssumption
<1> USE DEF IInv, ompt_tsan_thread_begin, Go
<1>1. TypeOK'
  BY DEF TypeOK, Place
<1>2. Placed'
  BY DEF TypeOK, Placed, Alone, Counted
<1>3. Alone'
  BY DEF TypeOK, Placed, Alone
<1>4. Counted'
  BY DEF TypeOK, Placed, Alone, Counted
<1>5. NeverEmpty'
  BY DEF TypeOK, Counted, NeverEmpty
<1> QED
  BY <1>1, <1>2, <1>3, <1>4, <1>5

\* A thread looks into its own pool.
LEMMA GetKeeps == ASSUME IInv, NEW t \in Threads, getData(t) PROVE IInv'
<1> USE OmptDataPoolAssumption
<1> USE DEF IInv, getData, Go
<1>1. TypeOK'
  BY DEF TypeOK, Place
<1>2. Placed'
  BY DEF TypeOK, Placed, Alone, Counted
<1>3. Alone'
  BY DEF TypeOK, Placed, Alone
<1>4. Counted'
  BY DEF TypeOK, Placed, Alone, Counted
<1>5. NeverEmpty'
  BY DEF TypeOK, Counted, NeverEmpty
<1> QED
  BY <1>1, <1>2, <1>3, <1>4, <1>5

\* The vectors change places.
LEMMA SwapKeeps == ASSUME IInv, NEW t \in Threads, SwapRemote(t) PROVE IInv'
<1> USE OmptDataPoolAssumption
<1> USE DEF IInv, SwapRemote, Go
<1>1. TypeOK'
  BY DEF TypeOK, Place
<1>2. Placed'
  BY DEF TypeOK, Placed, Alone, Counted
<1>3. Alone'
  BY DEF TypeOK, Placed, Alone
<1>4. Counted'
  BY DEF TypeOK, Placed, Alone, Counted
<1>5. NeverEmpty'
  BY DEF TypeOK, Counted, NeverEmpty
<1> QED
  BY <1>1, <1>2, <1>3, <1>4, <1>5

\* An object is handed out.
LEMMA TakeKeeps == ASSUME IInv, NEW t \in Threads, Take(t) PROVE IInv'
<1> USE OmptDataPoolAssumption
<1> USE DEF IInv, Take, Go
<1>1. TypeOK'
  BY DEF TypeOK, Place
<1>2. Placed'
  BY DEF TypeOK, Placed, Alone, Counted
<1>3. Alone'
  BY DEF TypeOK, Placed, Alone
<1>4. Counted'
  BY DEF TypeOK, Placed, Alone, Counted
<1>5. NeverEmpty'
  BY DEF TypeOK, Counted, NeverEmpty
<1> QED
  BY <1>1, <1>2, <1>3, <1>4, <1>5

\* An object is given back.
LEMMA DeleteKeeps == ASSUME IInv, NEW t \in Threads, NEW o \in Objects, Delete(t, o) PROVE IInv'
<1> USE OmptDataPoolAssumption
<1> USE DEF IInv, Delete, Go
<1>1. TypeOK'
  BY DEF TypeOK, Place
<1>2. Placed'
  BY SMTT(60) DEF TypeOK, Placed, Alone, Counted
<1>3. Alone'
  BY DEF TypeOK, Placed, Alone
<1>4. Counted'
  BY DEF TypeOK, Placed, Alone, Counted
<1>5. NeverEmpty'
  BY DEF TypeOK, Counted, NeverEmpty
<1> QED
  BY <1>1, <1>2, <1>3, <1>4, <1>5

\* An object is put into another pool.
LEMMA ReturnKeeps == ASSUME IInv, NEW t \in Threads, returnData(t) PROVE IInv'
<1> USE OmptDataPoolAssumption
<1> USE DEF IInv, returnData, Go
<1>1. TypeOK'
  BY DEF TypeOK, Place, Alone
<1>2. Placed'
  BY DEF TypeOK, Placed, Alone, Counted
<1>3. Alone'
  BY DEF TypeOK, Placed, Alone
<1>4. Counted'
  BY DEF TypeOK, Placed, Alone, Counted
<1>5. NeverEmpty'
  BY DEF TypeOK, Counted, NeverEmpty
<1> QED
  BY <1>1, <1>2, <1>3, <1>4, <1>5

\* The object is counted.
LEMMA ReturnedKeeps == ASSUME IInv, NEW t \in Threads, Returned(t) PROVE IInv'
<1> USE OmptDataPoolAssumption
<1> USE DEF IInv, Returned, Go
<1>1. TypeOK'
  BY DEF TypeOK, Place, Alone
<1>2. Placed'
  BY DEF TypeOK, Placed, Alone, Counted
<1>3. Alone'
  BY DEF TypeOK, Placed, Alone
<1>4. Counted'
  BY DEF TypeOK, Placed, Alone, Counted
<1>5. NeverEmpty'
  BY DEF TypeOK, Counted, NeverEmpty
<1> QED
  BY <1>1, <1>2, <1>3, <1>4, <1>5

\* A thread ends.
LEMMA EndKeeps == ASSUME IInv, NEW t \in Threads, ompt_tsan_thread_end(t) PROVE IInv'
<1> USE OmptDataPoolAssumption
<1> USE DEF IInv, ompt_tsan_thread_end, Go
<1>1. TypeOK'
  <2>1. IsFiniteSet(DataPointer[t]) /\ IsFiniteSet(RemoteDataPointer[t])
    BY FS_Subset DEF TypeOK
  <2>2. getMissing(t) \in Int
    BY <2>1, FS_CardinalityType DEF TypeOK, getMissing
  <2> QED
    BY <2>2 DEF TypeOK, Place
<1>2. Placed'
  BY DEF TypeOK, Placed, Alone, Counted
<1>3. Alone'
  BY DEF TypeOK, Placed, Alone
<1>4. Counted'
  BY DEF TypeOK, Placed, Alone, Counted
<1>5. NeverEmpty'
  BY DEF TypeOK, Counted, NeverEmpty
<1> QED
  BY <1>1, <1>2, <1>3, <1>4, <1>5

\* The owner goes on to swap, or allocates a page of new objects.
LEMMA NewKeeps == ASSUME IInv, NEW t \in Threads, newDatas(t) PROVE IInv'
<1> USE OmptDataPoolAssumption
<1> USE DEF IInv, Go
<1>a. CASE remote[t] > 0
  <2> USE <1>a DEF newDatas
  <2>1. TypeOK'
    BY DEF TypeOK, Place
  <2>2. Placed'
    BY DEF TypeOK, Placed
  <2>3. Alone' /\ Counted' /\ NeverEmpty'
    BY DEF TypeOK, Alone, Counted, NeverEmpty
  <2> QED
    BY <2>1, <2>2, <2>3
<1>b. CASE ~(remote[t] > 0)
  <2>1. PICK page \in SUBSET {o \in Objects : owner[o] = Nobody} :
          /\ Cardinality(page) = PageSize
          /\ DataPointer' = [DataPointer EXCEPT ![t] = page]
          /\ owner' = [o \in Objects |-> IF o \in page THEN t ELSE owner[o]]
    BY <1>b DEF newDatas, TypeOK
  <2>2. page # {}
    BY <2>1, FS_EmptySet
  <2>3. /\ at[t] = "refill" /\ at' = [at EXCEPT ![t] = "take"]
        /\ total' = [total EXCEPT ![t] = @ + PageSize]
        /\ UNCHANGED <<RemoteDataPointer, remote, DPMutex, used, data, missing>>
    BY <1>b DEF newDatas
  <2>4. TypeOK'
    BY <2>1, <2>3 DEF TypeOK, Place
  <2>5. Placed'
    BY <2>1, <2>3 DEF TypeOK, Placed, Alone, Counted
  <2>6. Alone'
    BY <2>1, <2>3 DEF TypeOK, Alone
  <2>7. Counted' /\ NeverEmpty'
    BY <2>1, <2>2, <2>3 DEF TypeOK, Alone, Counted, NeverEmpty
  <2> QED
    BY <2>4, <2>5, <2>6, <2>7
<1> QED
  BY <1>a, <1>b

\* Every step keeps the invariant.
LEMMA NextKeeps == ASSUME IInv, [Next]_vars PROVE IInv'
<1>1. CASE UNCHANGED vars
  BY <1>1 DEF vars, IInv, TypeOK, Placed, Alone, Counted, NeverEmpty
<1>2. ASSUME NEW t \in Threads, ThreadStep(t) PROVE IInv'
  BY <1>2, BeginKeeps, GetKeeps, NewKeeps, SwapKeeps, TakeKeeps, DeleteKeeps, ReturnKeeps,
     ReturnedKeeps, EndKeeps DEF ThreadStep
<1> QED
  BY <1>1, <1>2 DEF Next

\* The invariant gives the properties.
LEMMA InvImplies == ASSUME IInv PROVE OnePlace /\ NeverEmpty
<1>1. \A o \in Objects, t \in Threads : at[t] = "return" /\ data[t] = o => Returning(o) = {t}
  BY DEF IInv, Alone, Returning
<1>2. \A o \in Objects : (\A u \in Threads : at[u] = "return" => data[u] # o) => Returning(o) = {}
  BY DEF Returning
<1>3. \A o \in used : Returning(o) = {}
  BY <1>2 DEF IInv, TypeOK, Alone
<1>4. \A o \in Objects, u \in Threads : at[u] = "return" /\ data[u] = o => o \notin used
  BY DEF IInv, Alone
<1> QED
  BY <1>1, <1>2, <1>3, <1>4 DEF IInv, TypeOK, Placed, OnePlace

\* Every object of a pool is in one place, for any number of threads.
THEOREM ObjectsInOnePlace == Spec => []OnePlace
<1>1. Init => IInv
  BY InitHolds
<1>2. IInv /\ [Next]_vars => IInv'
  BY NextKeeps
<1>3. IInv => OnePlace
  BY InvImplies
<1> QED
  BY <1>1, <1>2, <1>3, PTL DEF Spec

\* A thread that takes an object from its pool finds one.
THEOREM PoolNeverEmpty == Spec => []NeverEmpty
<1>1. Init => IInv
  BY InitHolds
<1>2. IInv /\ [Next]_vars => IInv'
  BY NextKeeps
<1>3. IInv => NeverEmpty
  BY InvImplies
<1> QED
  BY <1>1, <1>2, <1>3, PTL DEF Spec
=============================================================================
