--------------------------- MODULE OmpLocksProofs ---------------------------
(***************************************************************************)
(* LockExact holds for any number of threads and locks, and even if a      *)
(* rehash leaves dangling references.                                      *)
(***************************************************************************)
EXTENDS OmpLocks, TLAPS

Entering(t) == at[t] \in {"granted", "acquired"}
Leaving(t) == at[t] \in {"released", "found", "drawn", "lost"}

\* The runtime gives a lock to one thread at a time, and its own books agree.
Owned ==
  /\ \A t \in Threads, i \in Ids : i \in held[t] <=> owner[i] = t
  /\ \A t \in Threads : Entering(t) \/ at[t] = "entered" => id[t] \in held[t]
  /\ \A t \in Threads : Leaving(t) => id[t] \notin held[t]

\* A thread has the tool's mutex of a lock from Entered to Unlocked.
Guarded ==
  /\ \A t \in Threads : Leaving(t) => mutex[id[t]] = t
  /\ \A t \in Threads : \A i \in held[t] : mutex[i] = t \/ (Entering(t) /\ id[t] = i)
  /\ \A t \in Threads, i \in Ids : mutex[i] = t =>
       \/ i \in held[t] /\ ~(Entering(t) /\ id[t] = i)
       \/ Leaving(t) /\ id[t] = i

\* A release that the sync clock of lock i does not cover yet.
Undrawn(i) == \E u \in Threads : /\ mutex[i] = u /\ id[u] = i
                                 /\ at[u] \in {"released", "found", "lost"}

\* The sync clock holds what the lock was released with, but for such a
\* release; the holder of the mutex has seen it.
Covered ==
  /\ \A i \in Ids : clock[i] = last[i] \/ Undrawn(i)
  /\ \A t \in Threads, i \in Ids : mutex[i] = t => clock[i] \subseteq past[t]
  /\ \A t \in Threads : at[t] \in {"released", "found"} => last[id[t]] = past[t]
  /\ \A t \in Threads : Entering(t) => past[t] = mine[t]

\* A thread on its way into a section has counted it.
Counted == \A t \in Threads : at[t] = "acquire" \/ Entering(t) \/ at[t] = "entered" => done[t] # 0

IInv == TypeOK /\ Owned /\ Guarded /\ Covered /\ Counted /\ LockExact

-----------------------------------------------------------------------------
\* LookUp only adds to the map.
LEMMA LookUpType ==
  ASSUME NEW i \in Ids, known \in SUBSET Ids, capacity \in Nat, LookUp(i)
  PROVE  known' \in SUBSET Ids /\ capacity' \in Nat
BY OmpLocksAssumption DEF LookUp

\* Nothing holds a lock at the start.
LEMMA InitHolds == ASSUME Init PROVE IInv
BY OmpLocksAssumption
   DEF Init, IInv, TypeOK, Owned, Guarded, Covered, Counted, LockExact, Entering, Leaving, Undrawn, Place

\* A thread asks for a lock.
LEMMA AcquireKeeps ==
  ASSUME IInv, NEW t \in Threads, NEW i \in Ids, ompt_tsan_mutex_acquire(t, i) PROVE IInv'
<1> USE OmpLocksAssumption
<1> USE DEF IInv, ompt_tsan_mutex_acquire, Go
<1>1. TypeOK'
  BY DEF TypeOK, Place
<1>2. Owned' /\ Counted'
  BY DEF TypeOK, Owned, Counted, Entering, Leaving
<1>3. Guarded'
  BY DEF TypeOK, Guarded, Entering, Leaving
<1>4. Covered'
  BY DEF TypeOK, Covered, Entering, Undrawn
<1>5. LockExact'
  BY DEF TypeOK, LockExact
<1> QED
  BY <1>1, <1>2, <1>3, <1>4, <1>5

\* The runtime gives out a free lock.
LEMMA GrantKeeps == ASSUME IInv, NEW t \in Threads, Grant(t) PROVE IInv'
<1> USE OmpLocksAssumption
<1> USE DEF IInv, Grant, Go
<1>1. TypeOK'
  BY DEF TypeOK, Place
<1>2. Owned' /\ Counted'
  BY DEF TypeOK, Owned, Counted, Entering, Leaving
<1>3. Guarded'
  BY DEF TypeOK, Owned, Guarded, Entering, Leaving
<1>4. Covered'
  BY DEF TypeOK, Covered, Entering, Undrawn
<1>5. LockExact'
  BY DEF TypeOK, LockExact
<1> QED
  BY <1>1, <1>2, <1>3, <1>4, <1>5

\* Work in a section is new to its thread's clocks.
LEMMA WorkKeeps == ASSUME IInv, NEW t \in Threads, Work(t) PROVE IInv'
<1> USE OmpLocksAssumption
<1> USE DEF IInv, Work, Go
<1>0. <<t, done[t]>> \in Section
  BY DEF TypeOK, Counted, Section
<1>1. TypeOK'
  BY <1>0 DEF TypeOK, Place
<1>2. Owned' /\ Counted'
  BY DEF TypeOK, Owned, Counted, Entering, Leaving
<1>3. Guarded'
  BY DEF TypeOK, Guarded, Entering, Leaving
<1>4. Covered'
  BY DEF TypeOK, Covered, Entering, Undrawn
<1>5. LockExact'
  BY DEF TypeOK, LockExact
<1> QED
  BY <1>1, <1>2, <1>3, <1>4, <1>5

\* A release has the holder of the mutex leave with what the lock is released with.
LEMMA ReleaseKeeps ==
  ASSUME IInv, NEW t \in Threads, NEW i \in Ids, Release(t, i) PROVE IInv'
<1> USE OmpLocksAssumption
<1> USE DEF IInv, Release, Go
<1>1. TypeOK'
  BY DEF TypeOK, Place
<1>2. Owned' /\ Counted'
  BY DEF TypeOK, Owned, Counted, Entering, Leaving
<1>3. Guarded'
  BY DEF TypeOK, Guarded, Entering, Leaving
<1>4. Covered'
  BY DEF TypeOK, Guarded, Covered, Entering, Leaving, Undrawn
<1>5. LockExact'
  BY DEF TypeOK, Owned, Guarded, Entering, Leaving, LockExact
<1> QED
  BY <1>1, <1>2, <1>3, <1>4, <1>5

\* The look-up of mutex_acquired.
LEMMA AcquiredKeeps == ASSUME IInv, NEW t \in Threads, ompt_tsan_mutex_acquired(t) PROVE IInv'
<1> USE OmpLocksAssumption
<1> USE DEF IInv, ompt_tsan_mutex_acquired, Go
<1>1. TypeOK'
  BY LookUpType DEF TypeOK, Place
<1>2. Owned' /\ Counted'
  BY DEF TypeOK, Owned, Counted, Entering, Leaving
<1>3. Guarded'
  BY DEF TypeOK, Guarded, Entering, Leaving
<1>4. Covered'
  BY DEF TypeOK, Covered, Entering, Undrawn
<1>5. LockExact'
  BY DEF TypeOK, LockExact
<1> QED
  BY <1>1, <1>2, <1>3, <1>4, <1>5

\* The mutex is free, so the sync clock holds what the lock was released with.
LEMMA EnteredKeeps == ASSUME IInv, NEW t \in Threads, Entered(t) PROVE IInv'
<1> USE OmpLocksAssumption
<1> USE DEF IInv, Entered, Go
<1>1. TypeOK'
  BY DEF TypeOK, Place
<1>2. Owned' /\ Counted'
  BY DEF TypeOK, Owned, Counted, Entering, Leaving
<1>3. Guarded'
  BY DEF TypeOK, Owned, Guarded, Entering, Leaving
<1>4. Covered'
  BY DEF TypeOK, Covered, Entering, Undrawn
<1>5. LockExact'
  <2>1. clock[id[t]] = last[id[t]] /\ past[t] = mine[t]
    BY DEF TypeOK, Covered, Undrawn, Entering
  <2> QED
    BY <2>1 DEF TypeOK, LockExact
<1> QED
  BY <1>1, <1>2, <1>3, <1>4, <1>5

\* The look-up of mutex_released.
LEMMA ReleasedKeeps == ASSUME IInv, NEW t \in Threads, ompt_tsan_mutex_released(t) PROVE IInv'
<1> USE OmpLocksAssumption
<1> USE DEF IInv, ompt_tsan_mutex_released, Go
<1>1. TypeOK'
  BY LookUpType DEF TypeOK, Place
<1>2. Owned' /\ Counted'
  BY DEF TypeOK, Owned, Counted, Entering, Leaving
<1>3. Guarded'
  BY DEF TypeOK, Guarded, Entering, Leaving
<1>4. Covered'
  BY DEF TypeOK, Covered, Entering, Undrawn
<1>5. LockExact'
  BY DEF TypeOK, LockExact
<1> QED
  BY <1>1, <1>2, <1>3, <1>4, <1>5

\* The arc of mutex_released brings the sync clock up to date.
LEMMA DrawnKeeps == ASSUME IInv, NEW t \in Threads, Drawn(t) PROVE IInv'
<1> USE OmpLocksAssumption
<1> USE DEF IInv, Drawn, Go
<1>1. TypeOK'
  BY DEF TypeOK, Place
<1>2. Owned' /\ Counted'
  BY DEF TypeOK, Owned, Counted, Entering, Leaving
<1>3. Guarded'
  BY DEF TypeOK, Guarded, Entering, Leaving
<1>4. Covered'
  BY DEF TypeOK, Guarded, Covered, Entering, Leaving, Undrawn
<1>5. LockExact'
  BY DEF TypeOK, LockExact
<1> QED
  BY <1>1, <1>2, <1>3, <1>4, <1>5

\* The mutex is given back.
LEMMA UnlockedKeeps == ASSUME IInv, NEW t \in Threads, Unlocked(t) PROVE IInv'
<1> USE OmpLocksAssumption
<1> USE DEF IInv, Unlocked, Go
<1>1. TypeOK'
  BY DEF TypeOK, Place
<1>2. Owned' /\ Counted'
  BY DEF TypeOK, Owned, Counted, Entering, Leaving
<1>3. Guarded'
  BY DEF TypeOK, Owned, Guarded, Entering, Leaving
<1>4. Covered'
  BY DEF TypeOK, Guarded, Covered, Entering, Leaving, Undrawn
<1>5. LockExact'
  BY DEF TypeOK, LockExact
<1> QED
  BY <1>1, <1>2, <1>3, <1>4, <1>5

\* A thread is lost behind a dangling reference, with the mutex.
LEMMA LostKeeps == ASSUME IInv, NEW t \in Threads, Lost(t) PROVE IInv'
<1> USE OmpLocksAssumption
<1> USE DEF IInv, Lost, Go
<1>1. TypeOK'
  BY DEF TypeOK, Place
<1>2. Owned' /\ Counted'
  BY DEF TypeOK, Owned, Counted, Entering, Leaving
<1>3. Guarded'
  BY DEF TypeOK, Guarded, Entering, Leaving
<1>4. Covered'
  BY DEF TypeOK, Guarded, Covered, Entering, Leaving, Undrawn
<1>5. LockExact'
  BY DEF TypeOK, LockExact
<1> QED
  BY <1>1, <1>2, <1>3, <1>4, <1>5

\* Every step keeps the invariant.
LEMMA NextKeeps == ASSUME IInv, [Next]_vars PROVE IInv'
<1>1. CASE UNCHANGED vars
  BY <1>1 DEF vars, IInv, TypeOK, Owned, Guarded, Covered, Counted, LockExact, Entering, Leaving, Undrawn
<1>2. CASE Finished
  BY <1>1, <1>2 DEF Finished
<1>3. ASSUME NEW t \in Threads,
             \/ Grant(t) \/ Work(t) \/ Callback(t) \/ Lost(t)
             \/ \E i \in Ids : ompt_tsan_mutex_acquire(t, i) \/ Release(t, i)
      PROVE  IInv'
  BY <1>3, AcquireKeeps, GrantKeeps, WorkKeeps, ReleaseKeeps, AcquiredKeeps, EnteredKeeps,
     ReleasedKeeps, DrawnKeeps, UnlockedKeeps, LostKeeps DEF Callback
<1> QED
  BY <1>1, <1>2, <1>3 DEF Next

\* A critical section comes after the one before it under the same lock, for
\* any number of threads and locks, in every order of the callbacks.
THEOREM LockArcsExact == Spec => []LockExact
<1>1. Init => IInv
  BY InitHolds
<1>2. IInv /\ [Next]_vars => IInv'
  BY NextKeeps
<1>3. IInv => LockExact
  BY DEF IInv
<1> QED
  BY <1>1, <1>2, <1>3, PTL DEF Spec
=============================================================================
