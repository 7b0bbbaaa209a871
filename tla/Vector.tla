------------------------------- MODULE Vector -------------------------------
(***************************************************************************)
(* Vector<T> of containers/Vector.h.  A vector is its buffer, one slot per *)
(* element of the capacity, and its size.  A slot is raw memory, or holds  *)
(* an object, which a move leaves in the state Moved.  The code constructs *)
(* objects in raw memory, assigns to existing ones and destroys them by    *)
(* hand; bad collects what it must not do: construct over an object,       *)
(* assign to, read or destroy raw memory, use a moved value.               *)
(*                                                                         *)
(* Positions count from 1; an iterator before position i is i.             *)
(***************************************************************************)
EXTENDS Integers, Sequences, SequencesExt, FiniteSetsExt

CONSTANTS
  Raw, Moved,   \* states of a slot
  Zero,         \* T()
  MinCapacity   \* 16

empty == [buf |-> <<>>, size |-> 0, bad |-> {}]

Blame(v, holds, what) == IF holds THEN v ELSE [v EXCEPT !.bad = @ \cup {what}]

(***************************************************************************)
(* The uses of a slot.                                                     *)
(***************************************************************************)
Construct(v, i, x) ==
  LET w == Blame(v, i \in DOMAIN v.buf /\ v.buf[i] = Raw /\ x \notin {Raw, Moved}, "construct")
  IN IF i \in DOMAIN v.buf THEN [w EXCEPT !.buf[i] = x] ELSE w

Assign(v, i, x) ==
  LET w == Blame(v, i \in DOMAIN v.buf /\ v.buf[i] # Raw /\ x \notin {Raw, Moved}, "assign")
  IN IF i \in DOMAIN v.buf THEN [w EXCEPT !.buf[i] = x] ELSE w

Destroy(v, i) == [Blame(v, v.buf[i] # Raw, "destroy") EXCEPT !.buf[i] = Raw]

\* T(std::move(*p)) in a new place, and *q = std::move(*p).
MoveConstruct(v, p, q) == [Construct(v, q, v.buf[p]) EXCEPT !.buf[p] = Moved]
MoveAssign(v, p, q) == [Assign(v, q, v.buf[p]) EXCEPT !.buf[p] = Moved]

Upward(a, b) == [k \in 1..(b - a + 1) |-> a + k - 1]
Downward(a, b) == Reverse(Upward(b, a))
DestroyFrom(v, a, b) == FoldLeft(Destroy, v, Upward(a, b))

(***************************************************************************)
(* The operations.                                                         *)
(***************************************************************************)
clear(v) == [DestroyFrom(v, 1, v.size) EXCEPT !.size = 0]

\* Freeing a buffer with objects in it would leak what they own.
reset(v) ==
  LET w == clear(v)
  IN [Blame(w, \A i \in DOMAIN w.buf : w.buf[i] = Raw, "free") EXCEPT !.buf = <<>>]

capacity(v) == Len(v.buf)

ensure_size(v, required) ==
  LET cap == Max({(capacity(v) * 5) \div 4, MinCapacity, required})
      fresh == SubSeq(v.buf, 1, v.size) \o [i \in 1..(cap - v.size) |-> Raw]
  IN IF required <= capacity(v) THEN v
     ELSE [Blame(v, \A i \in 1..v.size : v.buf[i] \notin {Raw, Moved}, "move")
             EXCEPT !.buf = fresh]

reserve(v, cap) == ensure_size(v, cap)

push_back(v, x) ==
  LET w == IF v.size = capacity(v) THEN ensure_size(v, v.size + 1) ELSE v
  IN [Construct(w, v.size + 1, x) EXCEPT !.size = @ + 1]

pop_back(v) == [Destroy(v, v.size) EXCEPT !.size = @ - 1]

insert(v, pos, x) ==
  LET w == IF v.size = capacity(v) THEN ensure_size(v, v.size + 1) ELSE v
      up(u, p) == MoveAssign(u, p, p + 1)
      moved == FoldLeft(up, MoveConstruct(w, w.size, w.size + 1), Downward(w.size - 1, pos))
  IN IF pos = v.size + 1 THEN push_back(v, x)
     ELSE [Assign(moved, pos, x) EXCEPT !.size = @ + 1]

\* The objects at the insertion point that have been moved away.
shiftOverlap(v, pos, n) == Min({v.size - pos + 1, n})

insertRange(v, pos, items) ==
  LET n == Len(items)
      w == ensure_size(v, v.size + n)
      shift(u, p) == IF p + n > w.size THEN MoveConstruct(u, p, p + n) ELSE MoveAssign(u, p, p + n)
      shifted == FoldLeft(shift, w, Downward(w.size, pos))
      opened == DestroyFrom(shifted, pos, pos + shiftOverlap(w, pos, n) - 1)
      put(u, i) == Construct(u, pos + i - 1, items[i])
  IN IF items = <<>> THEN v
     ELSE [FoldLeft(put, opened, Upward(1, n)) EXCEPT !.size = @ + n]

\* Mutant of erase: the objects left at the tail are not destroyed.
eraseNoDestroy(v, first, last) ==
  LET n == last - first
      left(u, p) == MoveAssign(u, p, p - n)
      moved == FoldLeft(left, v, Upward(last, v.size))
  IN IF first = last THEN v ELSE [moved EXCEPT !.size = @ - n]

\* Mutant of erase: moves the objects in the wrong order.
eraseDownward(v, first, last) ==
  LET n == last - first
      left(u, p) == MoveAssign(u, p, p - n)
      moved == FoldLeft(left, v, Downward(v.size, last))
  IN IF first = last THEN v
     ELSE [DestroyFrom(moved, v.size - n + 1, v.size) EXCEPT !.size = @ - n]

\* erase(first, last) removes the positions first..last - 1.
erase(v, first, last) ==
  LET n == last - first
      left(u, p) == MoveAssign(u, p, p - n)
      moved == FoldLeft(left, v, Upward(last, v.size))
  IN IF first = last THEN v
     ELSE [DestroyFrom(moved, v.size - n + 1, v.size) EXCEPT !.size = @ - n]

assign(v, items) ==
  LET put(u, i) == Construct(u, i, items[i])
  IN [FoldLeft(put, reserve(clear(v), Len(items)), Upward(1, Len(items))) EXCEPT !.size = Len(items)]

\* Vector(std::initializer_list<T>), with CHECK_EQ(size(), init.size()).
initializer(items) ==
  LET v == FoldLeft(push_back, reserve(empty, Len(items)), items)
  IN Blame(v, v.size = Len(items), "initializer")

resize(v, n) ==
  LET put(u, i) == Construct(u, i, Zero)
  IN IF n < v.size THEN [DestroyFrom(v, n + 1, v.size) EXCEPT !.size = n]
     ELSE [FoldLeft(put, reserve(v, n), Upward(v.size + 1, n)) EXCEPT !.size = n]

\* The elements, as operator[] and the iterators give them.
elements(v) == SubSeq(v.buf, 1, v.size)

\* operator=(const Vector &), also the copy constructor: then v is empty.
copy(v, other) == assign(v, elements(other))

\* operator=(Vector &&), also the move constructor: v takes the buffer of
\* other, which is empty afterwards.
move(v, other) == <<[other EXCEPT !.bad = @ \cup reset(v).bad], empty>>

\* operator==
equal(v, other) ==
  /\ v.size = other.size
  /\ \A i \in 1..v.size : v.buf[i] = other.buf[i]
=============================================================================
