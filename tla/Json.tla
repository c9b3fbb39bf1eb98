-------------------------------- MODULE Json --------------------------------
(***************************************************************************)
(* The JSON adapter (io/adapters/json.h): the document object model, its   *)
(* writers, and its readers, the generic one and those for a C++ type.     *)
(*                                                                         *)
(* A symbol of a text is a character, the part of a word after its first   *)
(* character, or the four hexadecimal digits of a code unit.  "LF" stands  *)
(* for white space that a string has to escape, "VT" for the vertical tab. *)
(***************************************************************************)
EXTENDS Reading

CONSTANT MaxNesting   \* json_read_options::max_nesting
ASSUME NestingAssumption == MaxNesting \in Nat

Null == [t |-> "null", v |-> 0]
Of(t, v) == [t |-> t, v |-> v]

Numbers == {"int64", "uint64", "floating"}

\* The integers a double may convert to: none out of the bounds.  As doubles the
\* upper bounds are one more than they are as integers; what that one converts to is
\* undefined (machines give one bound or the other).
Converted(halves, min, max) ==
  LET n == Quotient(halves, 2)
  IN  CASE n \in min..max -> {n}
        [] n = max + 1 -> {min, max}
        [] OTHER -> {}

ToInt64(halves) == Converted(halves, MinInt, MaxInt)
ToUint64(halves) == Converted(halves, 0, MaxUint)
Whole(halves) == halves % 2 = 0

\* What the constructor from a double may make: it prefers integers.
FromDouble(halves) ==
  CASE Whole(halves) /\ ToInt64(halves) # {} -> {Of("int64", n) : n \in ToInt64(halves)}
    [] Whole(halves) /\ ToInt64(halves) = {} /\ ToUint64(halves) # {} ->
         {Of("uint64", n) : n \in ToUint64(halves)}
    [] OTHER -> {Of("floating", halves)}

\* Numbers are equal across their types; a double's integer is what it converts to,
\* whatever that is.
EqualNumbers(a, b) ==
  CASE a.t # "floating" /\ b.t = "floating" ->
         Whole(b.v) /\ (IF a.t = "int64" THEN ToInt64(b.v) ELSE ToUint64(b.v)) = {a.v}
    [] a.t = "floating" /\ b.t # "floating" ->
         Whole(a.v) /\ (IF b.t = "int64" THEN ToInt64(a.v) ELSE ToUint64(a.v)) = {b.v}
    [] OTHER -> a.v = b.v

RECURSIVE Equal(_, _)
Equal(a, b) ==
  CASE {a.t, b.t} \subseteq Numbers -> EqualNumbers(a, b)
    [] a.t # b.t /\ ~({a.t, b.t} \subseteq Numbers) -> FALSE
    [] a.t = b.t /\ a.t = "array" -> /\ Len(a.v) = Len(b.v)
                                     /\ \A i \in DOMAIN a.v : Equal(a.v[i], b.v[i])
    [] a.t = b.t /\ a.t = "object" -> /\ DOMAIN a.v = DOMAIN b.v
                                      /\ \A k \in DOMAIN a.v : Equal(a.v[k], b.v[k])
    [] OTHER -> a.v = b.v

\* Mutant: a negative integer is converted as it is stored.
GetUint64Wraps(j, default) ==
  LET found == IF j.t = "floating" THEN ToUint64(j.v) ELSE {j.v % (MaxUint + 1)}
  IN  IF found = {} THEN {default} ELSE found

\* What the getters may answer: the number as an integer, truncated.
GetInt64(j, default) ==
  LET found == IF j.t = "floating" THEN ToInt64(j.v) ELSE {j.v} \cap MinInt..MaxInt
  IN  IF found = {} THEN {default} ELSE found

GetUint64(j, default) ==
  LET found == IF j.t = "floating" THEN ToUint64(j.v) ELSE {j.v} \cap 0..MaxUint
  IN  IF found = {} THEN {default} ELSE found

-----------------------------------------------------------------------------
(* Changing a document.  A reference to an element makes the value what it *)
(* is used as.                                                             *)

ArrayRef(j) == IF j.t = "array" THEN j ELSE Of("array", <<>>)
ObjectRef(j) == IF j.t = "object" THEN j ELSE Of("object", <<>>)

PushBack(j, x) == Of("array", Append(ArrayRef(j).v, x))

\* j[i] = x, which makes as many null elements as it takes.
SetAt(j, i, x) ==
  LET a == ArrayRef(j).v
      n == Max({i + 1, Len(a)})
  IN  Of("array", [k \in 1..n |-> IF k = i + 1 THEN x ELSE IF k <= Len(a) THEN a[k] ELSE Null])

SetKey(j, key, x) == Of("object", key :> x @@ ObjectRef(j).v)

\* insert() keeps what is there.
Insert(object, key, x) == object @@ key :> x

EraseKey(j, key) ==
  LET o == ObjectRef(j).v IN Of("object", [k \in DOMAIN o \ {key} |-> o[k]])

\* erase(index, count) erases from index up to position min(size - index, count);
\* the behavior of an end before the beginning is undefined.
CanErase(j, i, count) == i <= Len(ArrayRef(j).v) /\ i <= Min({Len(ArrayRef(j).v) - i, count})
Erase(j, i, count) ==
  LET a == ArrayRef(j).v
  IN  Of("array", SubSeq(a, 1, i) \o SubSeq(a, Min({Len(a) - i, count}) + 1, Len(a)))

\* at(i): null if there is no such element.
At(j, i) == IF j.t = "array" /\ i < Len(j.v) THEN j.v[i + 1] ELSE Null

-----------------------------------------------------------------------------
(* Writing.                                                                *)

Escapes == "BS" :> "b" @@ "TAB" :> "t" @@ "LF" :> "n" @@ "VT" :> "v" @@ "FF" :> "f"
           @@ "CR" :> "r" @@ "\\" :> "\\" @@ "\"" :> "\""

\* The UTF-16 code units of a character that is not printable ASCII.
Units == "SOH" :> <<"0001">> @@ "e'" :> <<"00E9">> @@ "grin" :> <<"D83D", "DE00">>

\* A character that could not be decoded.
Invalid == "BAD"

JsonEscape(c) ==
  CASE c \in DOMAIN Escapes -> <<"\\", Escapes[c]>>
    [] c \in DOMAIN Units -> FlattenSeq([u \in DOMAIN Units[c] |-> <<"\\", "u", Units[c][u]>>])
    [] OTHER -> <<c>>

Written(ok, text) == [ok |-> ok, text |-> text]

\* The items up to the first one that fails: what is written before an error.
UpToFailure(failed, n) == Min({i \in 1..n : failed[i]} \cup {n})

WriteString(chars) ==
  LET n == Min({i \in DOMAIN chars : chars[i] = Invalid} \cup {Len(chars) + 1})
      text == <<"\"">> \o FlattenSeq([i \in 1..(n - 1) |-> JsonEscape(chars[i])])
  IN  IF n > Len(chars) THEN Written(TRUE, Append(text, "\"")) ELSE Written(FALSE, text)

WriteIndent(indent, current) ==
  (IF indent > 0 THEN <<"LF">> ELSE <<>>) \o [k \in 1..current |-> " "]

\* A list in its brackets, written up to the first element that fails.
WriteList(open, items, close, indent, current) ==
  LET ok == \A i \in DOMAIN items : items[i].ok
      last == UpToFailure([i \in DOMAIN items |-> ~items[i].ok], Len(items))
  IN  Written(ok, <<open>>
                  \o FlattenSeq([i \in 1..last |->
                                   (IF i > 1 THEN <<",">> ELSE <<>>)
                                   \o WriteIndent(indent, current + indent) \o items[i].text])
                  \o IF ok THEN WriteIndent(indent, current) \o <<close>> ELSE <<>>)

\* An element of a map.
WriteMember(key, value, indent) ==
  LET k == WriteString(key)
      colon == <<":">> \o (IF indent > 0 THEN <<" ">> ELSE <<>>)
  IN  IF k.ok THEN Written(value.ok, k.text \o colon \o value.text) ELSE k

RECURSIVE WriteJson(_, _, _)
WriteJson(j, indent, current) ==
  CASE j.t = "null" -> Written(TRUE, <<"n", "ull">>)
    [] j.t = "boolean" -> Written(TRUE, IF j.v THEN <<"t", "rue">> ELSE <<"f", "alse">>)
    [] j.t \in {"int64", "uint64"} -> Written(TRUE, IntEncode(j.v))
    [] j.t = "floating" /\ j.v \in {-Infinity, Infinity} -> Written(FALSE, <<>>)
    [] j.t = "floating" /\ j.v \notin {-Infinity, Infinity} -> Written(TRUE, FpEncode(j.v))
    [] j.t = "string" -> WriteString(j.v)
    [] j.t = "array" ->
         WriteList("[", [i \in DOMAIN j.v |-> WriteJson(j.v[i], indent, current + indent)],
                   "]", indent, current)
    [] j.t = "object" ->
         LET keys == SetToSeq(DOMAIN j.v)
         IN  WriteList("{", [i \in DOMAIN keys |->
                               WriteMember(keys[i], WriteJson(j.v[keys[i]], indent, current + indent),
                                           indent)],
                       "}", indent, current)

\* to_json() gives nothing if it failed.
ToJson(j, indent) == LET w == WriteJson(j, indent, 0) IN IF w.ok THEN w ELSE Written(FALSE, <<>>)

-----------------------------------------------------------------------------
(* Reading.                                                                *)

Unescaped == "b" :> "BS" @@ "t" :> "TAB" @@ "n" :> "LF" @@ "f" :> "FF" @@ "r" :> "CR"
             @@ "\\" :> "\\" @@ "\"" :> "\"" @@ "/" :> "/"

UnitSymbols == {"0001", "00E9", "D83D", "DE00"}

CharOf(units) == CHOOSE c \in DOMAIN Units : Units[c] = units

\* Mutant: the second half of a surrogate pair is taken for a character.
ReadEscapeHalf(s, i) ==
  CASE AtEnd(s, i) -> Failed(i)
    [] ~AtEnd(s, i) /\ s[i] \in DOMAIN Unescaped -> Read(i + 1, Unescaped[s[i]])
    [] ~AtEnd(s, i) /\ s[i] = "u" -> IF ~AtEnd(s, i + 1) /\ s[i + 1] = "DE00" THEN Read(i + 2, Invalid)
                                     ELSE Failed(i + 1)
    [] OTHER -> Failed(i)

\* One character after a backslash, from its position.
ReadEscape(s, i) ==
  CASE AtEnd(s, i) -> Failed(i)
    [] ~AtEnd(s, i) /\ s[i] \in DOMAIN Unescaped -> Read(i + 1, Unescaped[s[i]])
    [] ~AtEnd(s, i) /\ s[i] = "u" ->
         LET unit == IF AtEnd(s, i + 1) THEN Invalid ELSE s[i + 1]
             pair == StartsWithWord(s, i + 2, <<"\\", "u">>)
             complete == pair.ok /\ ~AtEnd(s, pair.at) /\ s[pair.at] = "DE00"
         IN  (CASE unit \notin UnitSymbols -> Failed(i + 1)
                [] unit \in {"0001", "00E9"} -> Read(i + 2, CharOf(<<unit>>))
                [] unit = "DE00" -> Failed(i + 2)   \* no character: it cannot be encoded
                [] unit = "D83D" /\ complete -> Read(pair.at + 1, CharOf(<<"D83D", "DE00">>))
                [] unit = "D83D" /\ ~complete -> Failed(pair.at))
    [] OTHER -> Failed(i)

RECURSIVE ReadChars(_, _, _)
ReadChars(s, i, chars) ==
  LET c == IF AtEnd(s, i) THEN Invalid ELSE s[i]
      Added(e) == IF e.ok THEN ReadChars(s, e.at, Append(chars, e.value)) ELSE e
  IN  CASE c = Invalid -> Failed(i)
        [] c = "\"" -> Read(i + 1, Of("string", chars))
        [] c = "\\" -> Added(ReadEscape(s, i + 1))
        [] OTHER -> ReadChars(s, i + 1, Append(chars, c))

ReadString(s, i) ==
  LET Content(open) == IF open.ok THEN ReadChars(s, open.at, <<>>) ELSE open
  IN  Content(StartsWith(s, SkipWhitespace(s, i), "\""))

\* What the reader for numbers collects before it decodes anything.
NumberEnd(s, i) == SpanEnd(s, i + 1, DOMAIN Digits \cup {"-", "+", ".", "e"})

WholeNumber(result, text, type) ==
  IF result.ok /\ AtEnd(text, result.at) THEN Read(result.at, Of(type, result.value))
  ELSE Failed(result.at)

\* Integers that do not fit are floating point numbers.
ReadNumber(s, i) ==
  LET Integer(text) == IF s[i] = "-" THEN WholeNumber(IntDecode(text, 1, MinInt, MaxInt), text, "int64")
                       ELSE WholeNumber(IntDecode(text, 1, 0, MaxUint), text, "uint64")
      OrFloating(text, integer) ==
        IF {".", "e"} \cap Range(text) = {} /\ integer.ok THEN integer
        ELSE WholeNumber(FpDecode(text, 1), text, "floating")
      Number(text) == [OrFloating(text, Integer(text)) EXCEPT !.at = i + Len(text)]
  IN  Number(SubSeq(s, i, NumberEnd(s, i) - 1))

As(result, type, value) == IF result.ok THEN Read(result.at, Of(type, value)) ELSE result
AsRead(result, type) == As(result, type, result.value)

ReadNull(s, i) == As(StartsWithWord(s, SkipWhitespace(s, i), <<"n", "ull">>), Null.t, Null.v)

ReadBool(s, i) ==
  LET j == SkipWhitespace(s, i)
      true == ~AtEnd(s, j) /\ s[j] = "t"
  IN  As(IF true THEN StartsWithWord(s, j + 1, <<"rue">>) ELSE StartsWithWord(s, j, <<"f", "alse">>),
         "boolean", true)

\* What is read into: any value, or a C++ type.
AnyValue == [k |-> "value"]
Nested(kind) == [k |-> "array", of |-> kind]
MapOf(kind) == [k |-> "map", of |-> kind]
TupleFor(kinds) == [k |-> "tuple", of |-> kinds]

RECURSIVE ReadJson(_, _, _, _)
RECURSIVE Elements(_, _, _, _, _)
RECURSIVE Members(_, _, _, _, _, _)
RECURSIVE Fields(_, _, _, _, _)

\* The elements of an array from position i on, after those read.
Elements(s, i, kind, nesting, read) ==
  LET j == SkipWhitespace(s, i)
  IN  CASE AtEnd(s, j) -> Failed(j)
        [] ~AtEnd(s, j) /\ s[j] = "]" -> Read(j + 1, Of("array", read))
        [] ~AtEnd(s, j) /\ s[j] # "]" /\ read # <<>> /\ s[j] # "," -> Failed(j)
        [] OTHER ->
             LET Added(e) == IF e.ok THEN Elements(s, e.at, kind, nesting, Append(read, e.value)) ELSE e
             IN  Added(ReadJson(s, IF read = <<>> THEN j ELSE j + 1, kind, nesting))

Members(s, i, kind, nesting, first, object) ==
  LET j == SkipWhitespace(s, i)
  IN  CASE AtEnd(s, j) -> Failed(j)
        [] ~AtEnd(s, j) /\ s[j] = "}" -> Read(j + 1, Of("object", object))
        [] ~AtEnd(s, j) /\ s[j] # "}" /\ ~first /\ s[j] # "," -> Failed(j)
        [] OTHER ->
             LET Added(key, e) == IF e.ok THEN Members(s, e.at, kind, nesting, FALSE,
                                                       Insert(object, key.value.v, e.value)) ELSE e
                 Valued(key, colon) == IF colon.ok THEN Added(key, ReadJson(s, colon.at, kind, nesting))
                                       ELSE colon
                 Keyed(key) == IF key.ok THEN Valued(key, StartsWith(s, SkipWhitespace(s, key.at), ":"))
                               ELSE key
             IN  Keyed(ReadString(s, IF first THEN j ELSE j + 1))

\* A tuple has as many elements as its type says.
Fields(s, i, kinds, nesting, read) ==
  LET Added(e) == IF e.ok THEN Fields(s, e.at, kinds, nesting, Append(read, e.value)) ELSE e
      AfterComma(comma) == IF comma.ok THEN Added(ReadJson(s, comma.at, kinds[Len(read) + 1], nesting))
                           ELSE comma
  IN  CASE Len(read) = Len(kinds) -> As(StartsWith(s, SkipWhitespace(s, i), "]"), "array", read)
        [] Len(read) < Len(kinds) /\ read = <<>> -> AfterComma(Read(i, 0))
        [] OTHER -> AfterComma(StartsWith(s, SkipWhitespace(s, i), ","))

\* An array, tuple or map begins, if the limit allows one more level.
Inside(s, i, bracket, nesting) ==
  IF nesting = 0 THEN Failed(i) ELSE StartsWith(s, SkipWhitespace(s, i), bracket)

ReadAny(s, i, nesting) ==
  LET j == SkipWhitespace(s, i)
  IN  CASE AtEnd(s, j) -> Failed(j)
        [] ~AtEnd(s, j) /\ s[j] = "\"" -> ReadString(s, j)
        [] ~AtEnd(s, j) /\ s[j] = "[" -> ReadJson(s, j, Nested(AnyValue), nesting)
        [] ~AtEnd(s, j) /\ s[j] = "{" -> ReadJson(s, j, MapOf(AnyValue), nesting)
        [] ~AtEnd(s, j) /\ s[j] \in {"t", "f"} -> ReadBool(s, j)
        [] ~AtEnd(s, j) /\ s[j] = "n" -> ReadNull(s, j)
        [] ~AtEnd(s, j) /\ (IsDigit(s[j]) \/ s[j] = "-") -> ReadNumber(s, j)
        [] OTHER -> Failed(j)

\* read_json(), with so many levels left.
ReadJson(s, i, kind, nesting) ==
  LET j == SkipWhitespace(s, i)
      Content(open) ==
        CASE ~open.ok -> open
          [] open.ok /\ kind.k = "array" -> Elements(s, open.at, kind.of, nesting - 1, <<>>)
          [] open.ok /\ kind.k = "map" -> Members(s, open.at, kind.of, nesting - 1, TRUE, <<>>)
          [] open.ok /\ kind.k = "tuple" -> Fields(s, open.at, kind.of, nesting - 1, <<>>)
  IN  CASE kind.k = "value" -> ReadAny(s, i, nesting)
        [] kind.k = "null" -> ReadNull(s, i)
        [] kind.k = "boolean" -> ReadBool(s, i)
        [] kind.k = "int64" -> AsRead(IntDecode(s, j, MinInt, MaxInt), "int64")
        [] kind.k = "uint64" -> AsRead(IntDecode(s, j, 0, MaxUint), "uint64")
        [] kind.k = "floating" -> AsRead(FpDecode(s, j), "floating")
        [] kind.k = "string" -> ReadString(s, i)
        [] OTHER -> Content(Inside(s, i, IF kind.k = "map" THEN "{" ELSE "[", nesting))

FromJson(s, i) == ReadJson(s, i, AnyValue, MaxNesting)

RECURSIVE Depth(_)
Depth(j) == CASE j.t = "array" -> 1 + Max({0} \cup {Depth(j.v[i]) : i \in DOMAIN j.v})
              [] j.t = "object" -> 1 + Max({0} \cup {Depth(j.v[k]) : k \in DOMAIN j.v})
              [] OTHER -> 0

\* The text of a document of these types says itself where it ends.
SelfDelimiting(j) == j.t \in {"string", "array", "object"}

=============================================================================
