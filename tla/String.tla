------------------------------- MODULE String -------------------------------
(***************************************************************************)
(* String of containers/String.h: a Vector<char> that holds the characters *)
(* and a terminating NUL, or nothing.  end() is the position of the NUL,   *)
(* so the operations that insert there need one.                           *)
(***************************************************************************)
EXTENDS Integers, Sequences, FiniteSetsExt

CONSTANTS Raw, Moved, MinCapacity, NUL

V == INSTANCE Vector WITH Zero <- NUL

npos == -1

\* String(), and String(const char *) of a C string with these characters.
default == V!empty
assign_cstr(chars) == V!assign(default, Append(chars, NUL))

length(s) == IF s.size = 0 THEN 0 ELSE s.size - 1
end(s) == s.size    \* the position of the terminating NUL
chars(s) == SubSeq(s.buf, 1, end(s) - 1)

\* What c_str() shows: the characters up to the first NUL.
c_str(s) ==
  LET stop == Min({i \in 1..(s.size + 1) : i > s.size \/ s.buf[i] = NUL})
  IN SubSeq(s.buf, 1, stop - 1)

\* Mutant of append: end() taken for the end of the vector.
appendBehind(s, str) == V!insertRange(s, end(s) + 1, chars(str))

append(s, str) == V!insertRange(s, end(s), chars(str))
appendChar(s, c) == V!insert(s, end(s), c)
appendChars(s, cs) == V!insertRange(s, end(s), cs)

\* Positions of the program count from 0.  DCHECK_LT(pos, size() - 1) is on
\* unsigned numbers: every position passes if the string is empty.
MayInsert(s, pos) == length(s) = 0 \/ pos < length(s) - 1
insert(s, pos, str) == V!insertRange(s, pos + 1, chars(str))

MaySubstr(s, pos) == pos < length(s)
substr(s, pos, count) ==
  LET realCount == Min({count, length(s) - pos})
  IN V!push_back(V!assign(default, SubSeq(s.buf, pos + 1, pos + realCount)), NUL)

\* strstr: the first place in a C string where another one begins.
strstr(hay, needle) ==
  LET at == {i \in 0..(Len(hay) - Len(needle)) : SubSeq(hay, i + 1, i + Len(needle)) = needle}
  IN IF at = {} THEN npos ELSE Min(at)

find(s, needle, pos) ==
  IF length(needle) = 0 THEN (IF pos <= length(s) THEN pos ELSE npos)
  ELSE IF pos >= length(s) THEN npos
  ELSE strstr(c_str(s), c_str(needle))

assign(s, items) ==
  LET t == V!assign(s, items)
  IN IF t.buf[t.size] # NUL THEN V!push_back(t, NUL) ELSE t

push_back(s, c) ==
  IF length(s) = 0 THEN V!push_back(V!push_back(s, c), NUL) ELSE appendChar(s, c)

clear(s) == V!clear(s)

\* reserve(size), with DCHECK_GE(capacity(), size).
capacity(s) == IF V!capacity(s) = 0 THEN 0 ELSE V!capacity(s) - 1
reserve(s, n) ==
  LET t == IF n > capacity(s) THEN V!reserve(s, n + 1) ELSE s
  IN V!Blame(t, capacity(t) >= n, "reserve")

\* operator==, for a String and for a C string.
equal(s, str) == V!equal(s, str)
equalChars(s, cs) == length(s) = Len(cs) /\ SubSeq(s.buf, 1, length(s)) = cs
=============================================================================
