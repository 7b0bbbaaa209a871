------------------------------ MODULE OmpLocks ------------------------------
(***************************************************************************)
(* The arcs between critical sections: the callbacks mutex_acquire,        *)
(* mutex_acquired and mutex_released of ompt-critical.cpp over the map     *)
(* Locks, which holds a mutex and a sync clock for every wait_id.          *)
(*                                                                         *)
(* The runtime invokes mutex_acquired after it has given the lock to the   *)
(* thread and mutex_released after it has taken it back, so that the next  *)
(* owner's callback may come first; the tool's own mutex puts them in      *)
(* order.                                                                  *)
(*                                                                         *)
(* A clock is modelled by the work it covers: past[t] is the set of        *)
(* critical sections that lie on a path to where t is.  The time a clock   *)
(* shows is the length of the longest of these paths; it is too short, or  *)
(* too long, for some durations exactly if the set lacks an element or has *)
(* one too many.  The maximum of two clocks is then the union.             *)
(***************************************************************************)
EXTENDS Naturals, FiniteSets

CONSTANTS
  Threads,
  Ids,          \* wait_ids of the program's locks, numbered
  Sections,     \* bound: critical sections of a thread
  FirstCapacity,\* slots of the first buffer of Locks (16 in the code)
  Nobody

ASSUME OmpLocksAssumption ==
  /\ Ids \subseteq Nat /\ IsFiniteSet(Ids)
  /\ Nobody \notin Threads
  /\ Sections \in Nat /\ FirstCapacity \in Nat \ {0}

VARIABLES
  at,       \* at[t]: where t is, see Place
  id,       \* id[t]: the lock the callback of t is about
  held,     \* held[t]: the locks t owns
  owner,    \* owner[i]: the thread the runtime has given lock i to
  known,    \* the keys of Locks
  capacity, \* the slots of its buffer; a rehash replaces the buffer
  ref,      \* ref[t]: the capacity of the buffer that the reference of t is into
  mutex,    \* mutex[i]: the holder of the mutex of lock i, Locks[i]->first
  clock,    \* clock[i]: its sync clock, Locks[i]->second
  past,     \* past[t]: the clocks of t
  done,     \* done[t]: critical sections entered
  last,     \* history: last[i], the clocks with which lock i was last released
  mine      \* history: mine[t], the clocks with which t was given the lock

vars == <<at, id, held, owner, known, capacity, ref, mutex, clock, past, done, last, mine>>

Section == Threads \X (1..Sections)

Place == {"user", "acquire", "granted", "acquired", "entered", "released", "found", "drawn",
          "lost"}

TypeOK ==
  /\ at \in [Threads -> Place] /\ id \in [Threads -> Ids]
  /\ held \in [Threads -> SUBSET Ids]
  /\ owner \in [Ids -> Threads \cup {Nobody}]
  /\ known \in SUBSET Ids /\ capacity \in Nat /\ ref \in [Threads -> Nat]
  /\ mutex \in [Ids -> Threads \cup {Nobody}]
  /\ clock \in [Ids -> SUBSET Section] /\ past \in [Threads -> SUBSET Section]
  /\ done \in [Threads -> 0..Sections]
  /\ last \in [Ids -> SUBSET Section] /\ mine \in [Threads -> SUBSET Section]

Init ==
  /\ at = [t \in Threads |-> "user"] /\ id \in [Threads -> Ids]
  /\ \A t, u \in Threads : id[t] = id[u]
  /\ held = [t \in Threads |-> {}] /\ owner = [i \in Ids |-> Nobody]
  /\ known = {} /\ capacity = 0 /\ ref = [t \in Threads |-> 0]
  /\ mutex = [i \in Ids |-> Nobody] /\ clock = [i \in Ids |-> {}]
  /\ past = [t \in Threads |-> {}] /\ done = [t \in Threads |-> 0]
  /\ last = [i \in Ids |-> {}] /\ mine = [t \in Threads |-> {}]

Go(t, from, to) == at[t] = from /\ at' = [at EXCEPT ![t] = to]

-----------------------------------------------------------------------------
(***************************************************************************)
(* The runtime and the program.  The program takes its locks in the order  *)
(* of their numbers, so it cannot deadlock by itself.                      *)
(***************************************************************************)
\* The callback mutex_acquire: enterState(STATE_OMP), before the runtime waits.
ompt_tsan_mutex_acquire(t, i) ==
  /\ done[t] < Sections /\ \A h \in held[t] : h < i
  /\ Go(t, "user", "acquire")
  /\ id' = [id EXCEPT ![t] = i]
  /\ done' = [done EXCEPT ![t] = @ + 1]
  /\ UNCHANGED <<held, owner, known, capacity, ref, mutex, clock, past, last, mine>>

Grant(t) ==
  /\ owner[id[t]] = Nobody
  /\ Go(t, "acquire", "granted")
  /\ owner' = [owner EXCEPT ![id[t]] = t] /\ held' = [held EXCEPT ![t] = @ \cup {id[t]}]
  /\ mine' = [mine EXCEPT ![t] = past[t]]
  /\ UNCHANGED <<id, known, capacity, ref, mutex, clock, past, done, last>>

\* The first work in a section.
Work(t) ==
  /\ Go(t, "entered", "user")
  /\ past' = [past EXCEPT ![t] = @ \cup {<<t, done[t]>>}]
  /\ UNCHANGED <<id, held, owner, known, capacity, ref, mutex, clock, done, last, mine>>

Release(t, i) ==
  /\ i \in held[t] /\ Go(t, "user", "released")
  /\ id' = [id EXCEPT ![t] = i]
  /\ owner' = [owner EXCEPT ![i] = Nobody] /\ held' = [held EXCEPT ![t] = @ \ {i}]
  /\ last' = [last EXCEPT ![i] = past[t]]
  /\ UNCHANGED <<known, capacity, ref, mutex, clock, past, done, mine>>

-----------------------------------------------------------------------------
(***************************************************************************)
(* The callbacks.                                                          *)
(***************************************************************************)
\* Under LocksMutex: the slot of a lock is looked up, and added if it is new;
\* a full buffer is replaced by one of twice the size.
LookUp(i) ==
  /\ known' = known \cup {i}
  /\ capacity' = CASE i \in known \/ Cardinality(known) < capacity -> capacity
                   [] OTHER -> IF capacity = 0 THEN FirstCapacity ELSE 2 * capacity

\* mutex_acquired reads the pointer to the lock's pair while it has LocksMutex ...
ompt_tsan_mutex_acquired(t) ==
  /\ Go(t, "granted", "acquired")
  /\ LookUp(id[t])
  /\ UNCHANGED <<id, held, owner, ref, mutex, clock, past, done, last, mine>>

\* Mutant of Entered: the callback does not take the lock's own mutex.
EnteredNoMutex(t) ==
  /\ Go(t, "acquired", "entered")
  /\ past' = [past EXCEPT ![t] = @ \cup clock[id[t]]]
  /\ UNCHANGED <<id, held, owner, known, capacity, ref, mutex, clock, done, last, mine>>

\* ... waits for the lock's own mutex, draws the arc and leaves the OMP state.
Entered(t) ==
  /\ mutex[id[t]] = Nobody
  /\ Go(t, "acquired", "entered")
  /\ mutex' = [mutex EXCEPT ![id[t]] = t]
  /\ past' = [past EXCEPT ![t] = @ \cup clock[id[t]]]
  /\ UNCHANGED <<id, held, owner, known, capacity, ref, clock, done, last, mine>>

\* mutex_released takes a reference to the slot and gives up LocksMutex ...
ompt_tsan_mutex_released(t) ==
  /\ Go(t, "released", "found")
  /\ LookUp(id[t])
  /\ ref' = [ref EXCEPT ![t] = capacity']
  /\ UNCHANGED <<id, held, owner, mutex, clock, past, done, last, mine>>

\* ... draws the arc through the reference ...
Drawn(t) ==
  /\ Go(t, "found", "drawn")
  /\ clock' = [clock EXCEPT ![id[t]] = @ \cup past[t]]
  /\ UNCHANGED <<id, held, owner, known, capacity, ref, mutex, past, done, last, mine>>

\* Mutant of Unlocked: the lock's own mutex is not given back.
UnlockedNot(t) ==
  /\ Go(t, "drawn", "user")
  /\ UNCHANGED <<id, held, owner, known, capacity, ref, mutex, clock, past, done, last, mine>>

\* ... and unlocks the lock's own mutex through it.
Unlocked(t) ==
  /\ Go(t, "drawn", "user")
  /\ mutex' = [mutex EXCEPT ![id[t]] = Nobody]
  /\ UNCHANGED <<id, held, owner, known, capacity, ref, clock, past, done, last, mine>>

\* A reference into a buffer that has been freed still yields the pointer if
\* the memory has not been used again (the steps above), or it does not.
Lost(t) ==
  /\ ref[t] # capacity
  /\ (Go(t, "found", "lost") \/ Go(t, "drawn", "lost"))
  /\ UNCHANGED <<id, held, owner, known, capacity, ref, mutex, clock, past, done, last, mine>>

\* All threads have used up their sections.
Finished ==
  /\ \A t \in Threads : at[t] = "user" /\ held[t] = {} /\ done[t] = Sections
  /\ UNCHANGED vars

Callback(t) ==
  ompt_tsan_mutex_acquired(t) \/ Entered(t) \/ ompt_tsan_mutex_released(t) \/ Drawn(t) \/ Unlocked(t)

Next ==
  \/ Finished
  \/ \E t \in Threads :
       \/ Grant(t) \/ Work(t) \/ Callback(t) \/ Lost(t)
       \/ \E i \in Ids : ompt_tsan_mutex_acquire(t, i) \/ Release(t, i)

\* A thread inside a callback goes on, unless it waits for a mutex; nothing is
\* asked of the program or of the runtime's locks.
Fairness == \A t \in Threads : WF_vars(Callback(t))

Spec == Init /\ [][Next]_vars /\ Fairness

-----------------------------------------------------------------------------
(***************************************************************************)
(* Properties.                                                             *)
(***************************************************************************)
\* A critical section comes after the one before it under the same lock: a
\* thread leaves mutex_acquired with its own path and the paths with which the
\* lock was last released, although the callback of that release may come
\* after the lock has changed hands.
LockExact ==
  \A t \in Threads : at[t] = "entered" => past[t] = mine[t] \cup last[id[t]]

\* mutex_acquired waits for a mutex while the thread owns the program's lock,
\* but never for good: the thread it waits for needs no other lock. (A thread
\* that has lost its reference may do anything.)
AcquiredReturns ==
  \A t \in Threads : at[t] = "acquired" ~> at[t] = "entered" \/ \E u \in Threads : at[u] = "lost"

\* No thread uses a reference into the map after a rehash has freed the buffer
\* it points into, as a comment in mutex_acquired says can happen there.
ReferenceValid == \A t \in Threads : at[t] \in {"found", "drawn"} => ref[t] = capacity
=============================================================================
