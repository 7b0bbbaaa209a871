----------------------------- MODULE FlagParser -----------------------------
(***************************************************************************)
(* The flag parser (parse_flags.cpp): CPT_OPTIONS and the defaults are     *)
(* strings of name=value, quoted or not, with separators.  A string is a   *)
(* sequence of characters.  A parser is                                    *)
(*   buf, pos  the string and the position in it,                          *)
(*   todo      the strings that come after it,                             *)
(*   flags     the values of the registered flags,                         *)
(*   log       what has been parsed, one sequence per string,              *)
(*   unknown   the number of unrecognized flags (UnknownFlags),            *)
(*   goOn      the flag continue_on_error: a failed CHECK does not Die,    *)
(*   overrun   whether Add has written behind the end of unknown_flags_,   *)
(*   died      whether Die has been called.                                *)
(***************************************************************************)
EXTENDS Integers, Sequences, SequencesExt, FiniteSetsExt

CONSTANTS
  Registered,   \* the flags that RegisterCptFlags registers: <<[name, type]>>
  Defaults,     \* SetDefaults: a value for every registered flag
  MaxUnknown,   \* kMaxUnknownFlags: 20
  IntBound,     \* an int holds -IntBound..(IntBound - 1); 2^31
  NotSet        \* an environment variable that is not set

Spaces == {" ", ",", ":"}  \* and the line breaks and tabs
Quotes == {"'", "\""}
Digits == <<"0", "1", "2", "3", "4", "5", "6", "7", "8", "9">>
TrueWords == {<<"1">>, <<"y", "e", "s">>, <<"t", "r", "u", "e">>}
FalseWords == {<<"0">>, <<"n", "o">>, <<"f", "a", "l", "s", "e">>}

is_space(c) == c \in Spaces

\* The character at a position; behind the end is the terminating 0.
At(p, i) == IF i \in DOMAIN p.buf THEN p.buf[i] ELSE ""

\* The first position from i on whose character is in stops, or the end.
Scan(p, i, stops) ==
  Min({j \in i..(Len(p.buf) + 1) : At(p, j) \in stops \cup {""}})

Die(p) == [p EXCEPT !.died = TRUE]

(***************************************************************************)
(* The handlers: whether a value is valid, and the flag it makes.          *)
(***************************************************************************)
\* What strtoll reads: blanks, a sign and digits.  The empty string passes for
\* a number, because value_end is at its end.
Trimmed(value) == SubSeq(value, Min({i \in 1..(Len(value) + 1) : i > Len(value) \/ value[i] # " "}), Len(value))
Signed(value) == value # <<>> /\ value[1] \in {"-", "+"}
Unsigned(value) == IF Signed(value) THEN Tail(value) ELSE value

IsNumber(value) ==
  LET digits == Unsigned(Trimmed(value))
  IN value = <<>> \/ (digits # <<>> /\ ToSet(digits) \subseteq ToSet(Digits))

Number(value) ==
  LET digit(d) == CHOOSE i \in 0..9 : Digits[i + 1] = d
      n == FoldLeft(LAMBDA sum, d : sum * 10 + digit(d), 0, Unsigned(Trimmed(value)))
  IN IF Signed(Trimmed(value)) /\ Trimmed(value)[1] = "-" THEN -n ELSE n

\* strtoll's result is assigned to an int.
Narrow(n) == ((n + IntBound) % (2 * IntBound)) - IntBound

\* What strtod reads, of the decimal forms: a number with a point in its digits.
WithoutPoint(value) == SelectSeq(value, LAMBDA c : c # ".")
Point(value) == {i \in DOMAIN value : value[i] = "."}
IsDecimal(value) ==
  value = <<>>
  \/ (IsNumber(WithoutPoint(value)) /\ WithoutPoint(value) # <<>> /\ Cardinality(Point(value)) <= 1
      /\ \A i \in Point(value) : ToSet(SubSeq(value, i + 1, Len(value))) \subseteq ToSet(Digits))
Decimal(value) ==
  [digits |-> Number(WithoutPoint(value)),
   places |-> IF Point(value) = {} THEN 0 ELSE Len(value) - Min(Point(value))]

Valid(type, value) ==
  CASE type = "bool" -> value \in TrueWords \cup FalseWords
    [] type = "int" -> IsNumber(value)
    [] type = "double" -> IsDecimal(value)
    [] type = "string" -> TRUE

Parse(type, value) ==
  CASE type = "bool" -> value \in TrueWords
    [] type = "int" -> Narrow(Number(value))
    [] type = "double" -> Decimal(value)
    [] type = "string" -> value

Known(name) == {i \in DOMAIN Registered : Registered[i].name = name}

\* UnknownFlags::Add.  If the CHECK_LT fails and the program goes on, what it
\* does after the write behind the array is undefined; the model ends there.
Add(p) ==
  IF p.unknown < MaxUnknown THEN [p EXCEPT !.unknown = @ + 1]
  ELSE IF p.goOn THEN [p EXCEPT !.overrun = TRUE] ELSE Die(p)

run_handler(p, name, value) ==
  LET flag == Registered[Min(Known(name))]
  IN IF Known(name) = {}
     THEN Add(p)
     ELSE IF Valid(flag.type, value) THEN [p EXCEPT !.flags[name] = Parse(flag.type, value)] ELSE Die(p)

(***************************************************************************)
(* The parser.                                                             *)
(***************************************************************************)
skip_whitespace(p) ==
  [p EXCEPT !.pos = Min({j \in @..(Len(p.buf) + 1) : ~is_space(At(p, j))})]

\* Mutant of EndOfValue: either quote closes a value.
EndOfValueAnyQuote(p, v) ==
  IF At(p, v) \in Quotes THEN Scan(p, v + 1, Quotes) ELSE Scan(p, v, Spaces)

\* The end of a value that starts at v: the closing quote, or what follows it.
EndOfValue(p, v) ==
  IF At(p, v) \in Quotes THEN Scan(p, v + 1, {At(p, v)}) ELSE Scan(p, v, Spaces)

parse_flag(p) ==
  LET eq == Scan(p, p.pos, Spaces \cup {"="})
      name == SubSeq(p.buf, p.pos, eq - 1)
      v == eq + 1
      quoted == At(p, v) \in Quotes
      end == EndOfValue(p, v)
      value == SubSeq(p.buf, IF quoted THEN v + 1 ELSE v, end - 1)
      next == [p EXCEPT !.pos = IF quoted THEN end + 1 ELSE end,
                        !.log[Len(p.log)] = Append(@, [name |-> name, value |-> value])]
  IN IF At(p, eq) # "=" THEN Die(p)
     ELSE IF quoted /\ At(p, end) = "" THEN Die(p)
     ELSE run_handler(next, name, value)

\* The strings that InitializeCptFlags parses: CPT_OPTIONS hides the legacy
\* variable even if it is empty.
Sources(options, env, legacy) ==
  SelectSeq(<<options, IF env # NotSet THEN env ELSE legacy>>, LAMBDA s : s # NotSet)

InitializeCptFlags(options, env, legacy, goOn) ==
  [buf |-> <<>>, pos |-> 1, todo |-> Sources(options, env, legacy), flags |-> Defaults,
   log |-> <<>>, unknown |-> 0, goOn |-> goOn, overrun |-> FALSE, died |-> FALSE]

\* ParseString begins with the next string; the parser's position in the one
\* before is not needed again, because there are no nested calls.
ParseString(p) ==
  [p EXCEPT !.buf = Head(p.todo), !.pos = 1, !.todo = Tail(p.todo), !.log = Append(@, <<>>)]

\* One round of parse_flags.
parse_flags(p) == LET q == skip_whitespace(p) IN IF At(q, q.pos) = "" THEN q ELSE parse_flag(q)

\* Between the rounds: at the end of a string, of all strings.
AtEnd(p) == At(p, p.pos) = ""
Finished(p) == p.died \/ p.overrun \/ (AtEnd(p) /\ p.todo = <<>>)

(***************************************************************************)
(* What a string means, without positions and scans: items name=value, the *)
(* value quoted or plain, with separators between them.                    *)
(***************************************************************************)
Has(s, C) == \E i \in DOMAIN s : s[i] \in C

\* The item is written at the positions a..b of s.
WrittenAt(s, a, b, item) ==
  LET head == item.name \o <<"=">>
      text == SubSeq(s, a, b)
      plain == /\ text = head \o item.value
               /\ ~Has(item.value, Spaces) /\ (item.value # <<>> => item.value[1] \notin Quotes)
               /\ b = Len(s) \/ is_space(s[b + 1])
      quoted == \E q \in Quotes : text = head \o <<q>> \o item.value \o <<q>> /\ ~Has(item.value, {q})
  IN ~Has(item.name, Spaces \cup {"="}) /\ (plain \/ quoted)

\* Only separators at the positions a..b.
Separated(s, a, b) == \A j \in a..b : is_space(s[j])

\* s consists of these items, in this order.
Renders(s, items) ==
  LET n == Len(s)
      from[k \in 1..(Len(items) + 1), i \in 1..(n + 1)] ==
        IF k > Len(items) THEN Separated(s, i, n)
        ELSE \E a \in i..n : \E b \in a..n :
               /\ Separated(s, i, a - 1) /\ WrittenAt(s, a, b, items[k])
               /\ from[k + 1, b + 1]
  IN from[1, 1]

\* s consists of items whose values their flags accept.
Acceptable(s) ==
  LET n == Len(s)
      Item(a, b) ==
        \E e \in a..b, q \in 0..1 :
          LET item == [name |-> SubSeq(s, a, e - 1), value |-> SubSeq(s, e + 1 + q, b - q)]
          IN /\ s[e] = "=" /\ WrittenAt(s, a, b, item)
             /\ \A i \in Known(item.name) : Valid(Registered[i].type, item.value)
      from[i \in 1..(n + 1)] ==
        \/ Separated(s, i, n)
        \/ \E a \in i..n : \E b \in a..n : Separated(s, i, a - 1) /\ Item(a, b) /\ from[b + 1]
  IN from[1]
=============================================================================
