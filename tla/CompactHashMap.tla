--------------------------- MODULE CompactHashMap ---------------------------
(***************************************************************************)
(* CompactHashMap<K, V> of containers/CompactHashMap.h with the hash of    *)
(* containers/Hash.h.  The items are an array in the order of insertion;   *)
(* behind its capacity come the heads of the chains, two per item.  Next   *)
(* and a head are the number of an item, or 0 for the null pointer.        *)
(***************************************************************************)
EXTENDS Integers, Sequences, SequencesExt

CONSTANTS
  Zero,         \* V()
  MinCapacity   \* 16; a power of two

empty == [items |-> <<>>, cap |-> 0, heads |-> <<>>, mask |-> 0]

reset(m) == empty

Hash(key) == key + (key \div 32)

\* h & mask_ for a mask that is a power of two minus 1.
Bucket(m, key) == (Hash(key) % (m.mask + 1)) + 1

\* The items on a chain from an item on, in order.
Chain(m, first) ==
  LET from[n \in 0..Len(m.items), i \in 0..Len(m.items)] ==
        IF n = 0 \/ i = 0 THEN <<>> ELSE <<i>> \o from[n - 1, m.items[i].next]
  IN from[Len(m.items), first]

\* The search in operator[], find and insert; 0 if the key is not there.
find(m, key) ==
  LET chain == IF m.mask = 0 THEN <<>> ELSE Chain(m, m.heads[Bucket(m, key)])
      hits == SelectSeq(chain, LAMBDA i : m.items[i].key = key)
  IN IF hits = <<>> THEN 0 ELSE Head(hits)

\* Link an item in front of its chain.
Link(m, i) ==
  LET b == Bucket(m, m.items[i].key)
  IN [m EXCEPT !.items[i].next = m.heads[b], !.heads[b] = i]

\* The capacity that ReHash takes: doubled, from 16 on.
NextCapacity(cap) == IF cap = 0 THEN MinCapacity ELSE cap * 2

\* Mutant of ReHash: the chains keep their heads in the larger table.
ReHashNoLinks(m) ==
  LET cap == NextCapacity(m.cap)
  IN IF Len(m.items) < m.cap THEN m
     ELSE [m EXCEPT !.cap = cap, !.mask = cap * 2 - 1,
                    !.heads = [b \in 1..(cap * 2) |-> IF b \in DOMAIN m.heads THEN m.heads[b] ELSE 0]]

\* ReHash for one more item, if there is no room: all items are moved to a new
\* array and linked anew.
ReHash(m) ==
  LET cap == NextCapacity(m.cap)
      bare == [m EXCEPT !.cap = cap, !.mask = cap * 2 - 1, !.heads = [b \in 1..(cap * 2) |-> 0]]
  IN IF Len(m.items) < m.cap THEN m
     ELSE FoldLeft(Link, bare, [i \in DOMAIN m.items |-> i])

\* A new item at the end, in front of its chain.
Added(m, key, val) ==
  LET room == ReHash(m)
      item == [key |-> key, val |-> val, next |-> 0]
  IN Link([room EXCEPT !.items = Append(@, item)], Len(m.items) + 1)

\* operator[], which returns a reference to the value.
index(m, key) == IF find(m, key) # 0 THEN m ELSE Added(m, key, Zero)

\* An assignment through that reference.
store(m, key, val) ==
  LET n == index(m, key) IN [n EXCEPT !.items[find(n, key)].val = val]

\* insert does not overwrite.
insert(m, key, val) == IF find(m, key) # 0 THEN m ELSE Added(m, key, val)
=============================================================================
