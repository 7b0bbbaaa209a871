------------------------------ MODULE MCParts -------------------------------
(***************************************************************************)
(* The sequential parts of the tool for TLC, each against a reference that *)
(* says what it should do: kind is the part, obj the part as the code has  *)
(* it and ref the reference.  The pool of data objects, which threads      *)
(* share, is one more kind, on its own variables.                         *)
(***************************************************************************)
EXTENDS OmptDataPool, SequencesExt, TLC

CONSTANTS Raw, Moved, NUL, NotSet

VARIABLES kind, obj, ref

Flags == <<[name |-> <<"a">>, type |-> "int"], [name |-> <<"1">>, type |-> "string"],
           [name |-> <<"r">>, type |-> "double"]>>
FlagDefaults ==
  [n \in {<<"a">>, <<"1">>, <<"r">>} |->
     CASE n = <<"a">> -> 7 [] n = <<"1">> -> <<>> [] n = <<"r">> -> [digits |-> -1, places |-> 0]]

V == INSTANCE Vector WITH Zero <- 1, MinCapacity <- 2
S == INSTANCE String WITH MinCapacity <- 2
H == INSTANCE CompactHashMap WITH Zero <- 0, MinCapacity <- 2
F == INSTANCE FlagParser WITH
       Registered <- Flags, Defaults <- FlagDefaults, MaxUnknown <- 1, IntBound <- 8
M == INSTANCE Metrics
T == INSTANCE TimerOffsets WITH NTIMES <- 3

Become(o, r) == obj' = o /\ ref' = r

-----------------------------------------------------------------------------
(***************************************************************************)
(* Vectors: two of them, of at most MaxSize elements; the operations work  *)
(* on the first, swap exchanges them.                                      *)
(***************************************************************************)
MaxSize == 5
Values == {1, 2}

VectorIs(v, s) == Len(s) <= MaxSize /\ Become(<<v, obj[2]>>, <<s, ref[2]>>)

VectorGrows ==
  LET v == obj[1]
      s == ref[1]
  IN \/ \E x \in Values : VectorIs(V!push_back(v, x), Append(s, x))
     \/ \E i \in 1..(Len(s) + 1), x \in Values : VectorIs(V!insert(v, i, x), InsertAt(s, i, x))
     \/ \E i \in 1..(Len(s) + 1) :
          VectorIs(V!insertRange(v, i, V!elements(obj[2])),
                   SubSeq(s, 1, i - 1) \o ref[2] \o SubSeq(s, i, Len(s)))
     \/ \E n \in 0..MaxSize :
          VectorIs(V!resize(v, n), [i \in 1..n |-> IF i <= Len(s) THEN s[i] ELSE 1])
     \/ \E n \in 1..MaxSize : VectorIs(V!reserve(v, n), s)

VectorShrinks ==
  LET v == obj[1]
      s == ref[1]
  IN \/ s # <<>> /\ VectorIs(V!pop_back(v), Front(s))
     \/ \E i \in 1..(Len(s) + 1) : \E j \in i..(Len(s) + 1) :
          VectorIs(V!erase(v, i, j), SubSeq(s, 1, i - 1) \o SubSeq(s, j, Len(s)))
     \/ VectorIs(V!clear(v), <<>>)
     \/ VectorIs(V!reset(v), <<>>)

VectorPairs ==
  \/ VectorIs(V!copy(obj[1], obj[2]), ref[2])
  \/ \E n \in 0..2 : VectorIs(V!initializer([i \in 1..n |-> i]), [i \in 1..n |-> i])
  \/ Become(V!move(obj[1], obj[2]), <<ref[2], <<>> >>)
  \/ Become(<<obj[2], obj[1]>>, <<ref[2], ref[1]>>)

-----------------------------------------------------------------------------
(***************************************************************************)
(* Strings: ref is NUL for a String without a terminator, else the text.   *)
(***************************************************************************)
Chars == {"x", "y"}
MaxLength == 3
Texts == UNION {[1..n -> Chars] : n \in 0..2}

Terminated(r) == r # NUL
Text(r) == IF Terminated(r) THEN r ELSE <<>>

StringIs(s, r) ==
  Len(Text(r)) <= MaxLength /\ Become(<<s, obj[2]>>, <<r, ref[2]>>)

\* append and insert need the terminator that end() stands before; a push_back
\* must not follow it, so it is not for String(""). insert is for positions in
\* the text, although its assertion lets any through if there is none.
StringStep ==
  LET s == obj[1]
      r == ref[1]
  IN \/ \E t \in Texts : StringIs(S!assign_cstr(t), t)
     \/ /\ Terminated(r)
        /\ \/ Terminated(ref[2]) /\ StringIs(S!append(s, obj[2]), r \o ref[2])
           \/ \E c \in Chars : StringIs(S!appendChar(s, c), Append(r, c))
           \/ \E t \in Texts : StringIs(S!appendChars(s, t), r \o t)
           \/ \E pos \in 0..MaxLength :
                /\ Terminated(ref[2]) /\ S!MayInsert(s, pos) /\ pos <= Len(r)
                /\ StringIs(S!insert(s, pos, obj[2]),
                            SubSeq(r, 1, pos) \o ref[2] \o SubSeq(r, pos + 1, Len(r)))
     \/ \E pos, count \in 0..MaxLength :
          /\ Terminated(ref[2]) /\ S!MaySubstr(obj[2], pos)
          /\ StringIs(S!substr(obj[2], pos, count), SubSeq(ref[2], pos + 1, Min({pos + count, Len(ref[2])})))
     \/ \E t \in Texts \ {<<>>} : StringIs(S!assign(s, t), t)
     \/ \E c \in Chars : r # <<>> /\ StringIs(S!push_back(s, c), Append(Text(r), c))
     \/ StringIs(S!clear(s), NUL)
     \/ \E n \in 0..MaxLength : StringIs(S!reserve(s, n), r)
     \/ Become(<<s, V!copy(obj[2], s)>>, <<r, r>>)

-----------------------------------------------------------------------------
(***************************************************************************)
(* A map: ref is the sequence of its items, in the order of insertion.     *)
(* The keys collide in some of the sizes the table takes.                  *)
(***************************************************************************)
Keys == {0, 4, 8, 31, 32}

Holds(key) == \E i \in DOMAIN ref : ref[i].key = key
With(key, val) == IF Holds(key) THEN ref ELSE Append(ref, [key |-> key, val |-> val])

MapStep ==
  \/ \E key \in Keys : Become(H!index(obj, key), With(key, 0))
  \/ \E key \in Keys :
       Become(H!store(obj, key, 1),
              [i \in DOMAIN With(key, 1) |->
                 IF With(key, 1)[i].key = key THEN [key |-> key, val |-> 1] ELSE ref[i]])
  \/ \E key \in Keys, val \in 0..1 : Become(H!insert(obj, key, val), With(key, val))
  \/ Become(H!reset(obj), <<>>)

-----------------------------------------------------------------------------
(***************************************************************************)
(* The flag parser: all short strings in CPT_OPTIONS, and combinations of  *)
(* the three sources.                                                      *)
(***************************************************************************)
Alphabet == {" ", "=", "'", "a", "1"}
Short == UNION {[1..n -> Alphabet] : n \in 0..5}
Some == {<<>>, <<"a", "=", "1">>, <<"1", "=", "'", " ", "\"", "'", "a", "=", "'", "1", "'">>,
         <<"a", "=", "a">>, <<" ", "x", "=", "1", " ">>,
         <<"r", "=", "-", "1", ".", "1">>, <<"r", "=", "1", ".", ".">>}

FlagInputs ==
  [options : {<<>>}, env : Short, legacy : {NotSet}]
  \cup [options : Some, env : Some \cup {NotSet}, legacy : Some \cup {NotSet}]

FlagStep ==
  /\ ~F!Finished(obj)
  /\ obj' = IF F!AtEnd(obj) THEN F!ParseString(obj) ELSE F!parse_flags(obj)
  /\ UNCHANGED ref

-----------------------------------------------------------------------------
(***************************************************************************)
(* The metrics of two processes, and the clock offsets of two ranks.       *)
(***************************************************************************)
ThreadTimes == {[useful |-> 0, oomp |-> 1], [useful |-> 1, oomp |-> 1],
                [useful |-> 1, oomp |-> 3], [useful |-> 2, oomp |-> 2]}

\* The final clocks of a process: no path is shorter than a thread's own time.
ProcessOf(threads, more) ==
  LET useful == Max({threads[i].useful : i \in DOMAIN threads}) + more[1]
      oomp == Max({threads[i].oomp : i \in DOMAIN threads} \cup {useful}) + more[2]
  IN [threads |-> threads, proc |-> [useful |-> useful, ompi |-> 0, oomp |-> oomp]]

Processes == {ProcessOf(t, more) : t \in UNION {[1..n -> ThreadTimes] : n \in 1..2},
                                   more \in {<<0, 0>>, <<1, 0>>, <<0, 1>>}}

\* After the last exchange of clocks every process is on the longest path.
Ended(p, q, more) ==
  LET useful == Max({p.proc.useful, q.proc.useful}) + more[1]
      oomp == Max({p.proc.oomp, q.proc.oomp, useful}) + more[2]
      done(r) == [threads |-> r.threads, proc |-> r.proc, runtime |-> oomp + more[3],
                  crit |-> [useful |-> useful, ompi |-> 0, oomp |-> oomp]]
  IN <<done(p), done(q)>>

MetricInputs ==
  {ps \in {Ended(p, q, more) : p, q \in Processes, more \in {<<0, 0, 0>>, <<1, 0, 1>>, <<0, 1, 0>>}} :
     \E r \in 1..2 : \E i \in DOMAIN ps[r].threads : ps[r].threads[i].useful > 0}

MetricStep ==
  /\ obj = <<>>
  /\ Become(M!finishMeasurement(ref, 0), ref)

Trips == [out : {1, 2, 4}, back : {1, 2, 4}]

TimerInputs ==
  {[skew |-> skew, trips |-> <<a, [i \in 0..2 |-> b]>>] :
     skew \in {<<3, -2>>, <<-2, 0>>}, a \in [0..2 -> Trips],
     b \in {[out |-> 1, back |-> 1], [out |-> 4, back |-> 1]}}

TimerStep ==
  /\ obj = <<>>
  /\ Become(T!init_timer_offsets(3, ref.skew, ref.trips), ref)

-----------------------------------------------------------------------------
MCInit ==
  /\ Init
  /\ \/ kind = "pool" /\ obj = <<>> /\ ref = <<>>
     \/ kind = "vector" /\ obj = <<V!empty, V!empty>> /\ ref = << <<>>, <<>> >>
     \/ kind = "string" /\ obj = <<S!default, S!default>> /\ ref = <<NUL, NUL>>
     \/ kind = "map" /\ obj = H!empty /\ ref = <<>>
     \/ /\ kind = "flags" /\ ref \in FlagInputs
        /\ \E goOn \in BOOLEAN :
             obj = F!InitializeCptFlags(ref.options, ref.env, ref.legacy, goOn)
     \/ kind = "metrics" /\ obj = <<>> /\ ref \in MetricInputs
     \/ kind = "timer" /\ obj = <<>> /\ ref \in TimerInputs

Sequential ==
  \/ kind = "vector" /\ (VectorGrows \/ VectorShrinks \/ VectorPairs)
  \/ kind = "string" /\ StringStep
  \/ kind = "map" /\ MapStep
  \/ kind = "flags" /\ FlagStep
  \/ kind = "metrics" /\ MetricStep
  \/ kind = "timer" /\ TimerStep

\* Pieces of memory are interchangeable: those that malloc has not returned
\* yet are taken in order.
InOrder == \A o, p \in Objects : o < p /\ owner'[p] # Nobody => owner'[o] # Nobody

MCNext ==
  /\ UNCHANGED kind
  /\ \/ kind = "pool" /\ Next /\ InOrder /\ UNCHANGED <<obj, ref>>
     \/ Sequential /\ UNCHANGED vars

MCSpec == MCInit /\ [][MCNext]_<<vars, kind, obj, ref>>

-----------------------------------------------------------------------------
(***************************************************************************)
(* Properties.                                                             *)
(***************************************************************************)
\* Whatever sequence of operations of Vector, with growth, overlapping shifts
\* and buffers that change hands: it holds the elements the operations say,
\* in their order, and operator== tells two vectors apart.
VectorExact ==
  kind = "vector" =>
    /\ \A k \in 1..2 : V!elements(obj[k]) = ref[k]
    /\ V!equal(obj[1], obj[2]) <=> ref[1] = ref[2]

\* The objects in a Vector are constructed once, in raw memory, and destroyed
\* once, before their memory is freed; none is used after it was moved away.
\* insert and erase, which shift objects partly into raw memory and partly
\* onto others, and ensure_size keep to this, and no raw memory lies below
\* the size and no object behind it.
VectorLifetimes ==
  kind = "vector" =>
    \A k \in 1..2 :
      /\ obj[k].bad = {}
      /\ \A i \in DOMAIN obj[k].buf : (obj[k].buf[i] = Raw) <=> (i > obj[k].size)

\* A String that is appended to only if it has its terminator, or by push_back,
\* has its text and exactly one NUL, behind it; find, which searches from the
\* beginning whatever its pos, returns the first place of the needle.
StringExact ==
  kind = "string" =>
    /\ \A k \in 1..2 :
         /\ V!elements(obj[k]) = IF Terminated(ref[k]) THEN Append(ref[k], NUL) ELSE <<>>
         /\ obj[k].bad = {} /\ S!c_str(obj[k]) = Text(ref[k])
         /\ S!equalChars(obj[k], Text(ref[k]))
    /\ LET place == S!find(obj[1], obj[2], 0)
           hit(i) == i \in 0..Len(Text(ref[1])) /\ IsPrefix(Text(ref[2]), SubSeq(Text(ref[1]), i + 1, Len(Text(ref[1]))))
       IN IF place = S!npos THEN \A i \in 0..MaxLength : ~hit(i)
          ELSE hit(place) /\ \A i \in 0..(place - 1) : ~hit(i)

\* A lookup in a CompactHashMap finds exactly what was inserted last under its
\* key, in every order of insertions, with colliding keys and through every
\* ReHash; the items stay in the order of insertion and each is on one chain.
MapExact ==
  kind = "map" =>
    /\ [i \in DOMAIN obj.items |-> [key |-> obj.items[i].key, val |-> obj.items[i].val]] = ref
    /\ \A key \in Keys :
         LET i == H!find(obj, key)
         IN IF Holds(key) THEN i # 0 /\ obj.items[i].key = key ELSE i = 0
    /\ Len(FlattenSeq([b \in DOMAIN obj.heads |-> H!Chain(obj, obj.heads[b])])) = Len(ref)

\* The value a flag has after the assignments to it in a sequence of items.
LastOf(items, name, type, default) ==
  LET own == SelectSeq(items, LAMBDA item : item.name = name)
  IN IF own = <<>> THEN default ELSE F!Parse(type, Last(own).value)

TooManyUnknown ==
  Len(SelectSeq(FlattenSeq(obj.log), LAMBDA item : F!Known(item.name) = {})) > 1

Meant == IF ref.env = NotSet THEN ref.legacy ELSE ref.env

\* Parsing ends with the flags the strings say, the last assignment counting
\* and CPT_OPTIONS hiding the legacy variable, or with Die.  It dies only if a
\* string is not a sequence of name=value items with valid values.  With more
\* unknown flags than there is room for it dies, too, or, if continue_on_error
\* is set, which is the default, writes behind the array; never with fewer.
FlagsExact ==
  kind = "flags" /\ F!Finished(obj) =>
    IF obj.overrun THEN obj.goOn /\ TooManyUnknown
    ELSE IF obj.died THEN ~F!Acceptable(obj.buf) \/ (~obj.goOn /\ TooManyUnknown)
    ELSE LET sources == <<ref.options>> \o (IF Meant = NotSet THEN <<>> ELSE <<Meant>>)
             all == FlattenSeq(obj.log)
         IN /\ ~TooManyUnknown /\ Len(obj.log) = Len(sources)
            /\ \A i \in DOMAIN sources : F!Renders(sources[i], obj.log[i])
            /\ \A i \in DOMAIN Flags :
                 obj.flags[Flags[i].name]
                   = LastOf(all, Flags[i].name, Flags[i].type, FlagDefaults[Flags[i].name])

\* For clocks as the arcs leave them, with no path shorter than a thread's own
\* time or longer than the run, every efficiency of the report is between 0
\* and 1, and the products by which the report breaks them down hold.
MetricsSound ==
  kind = "metrics" /\ obj # <<>> =>
    /\ \A name \in DOMAIN obj : M!AtMostOne(obj[name])
    /\ M!Same(obj.PE, M!Times(obj.mpiPE, obj.ompPE))
    /\ M!Same(obj.LB, M!Times(obj.mpiLB, obj.ompLB))
    /\ M!Same(obj.CommE, M!Times(obj.mpiCommE, obj.ompCommE))
    /\ M!Same(obj.CommE, M!Times(obj.SerE, obj.TE))

Abs(n) == IF n < 0 THEN -n ELSE n

\* The offset of a rank is off by no more than half the difference between
\* the two ways of a trip, if most of its trips are that good: one that was
\* held up, however long, does not spoil it.
OffsetRobust ==
  kind = "timer" /\ obj # <<>> =>
    /\ obj[0] = 0
    /\ \A j \in 1..2, e \in 0..3 :
         LET good == {i \in 0..2 : Abs(ref.trips[j][i].out - ref.trips[j][i].back) <= e}
         IN Cardinality(good) > 1 => Abs(obj[j] - 2 * ref.skew[j]) <= e

\* Threads are interchangeable.
Symmetry == Permutations(Threads)
=============================================================================
