--------------------------- MODULE JsonDocuments ---------------------------
(***************************************************************************)
(* A stream of JSON documents (io/adapters/json.h): an application changes *)
(* a document and writes it again and again, the text may lose its end, and*)
(* a reader takes one document after the other.  A second kind of stream   *)
(* holds a text somebody typed.                                            *)
(***************************************************************************)
EXTENDS Json

CONSTANTS MaxEdits, MaxDocuments, MaxTyped,
          Origins,    \* what the stream holds: subset of {"written", "typed"}
          Keyboard,   \* the symbols that are typed
          Beginnings  \* what a typed text begins with

ASSUME JsonDocumentsAssumption == /\ {MaxEdits, MaxDocuments, MaxTyped} \subseteq Nat
                                  /\ Origins \subseteq {"written", "typed"}

VARIABLES
  origin,
  doc,        \* the application's document
  edits,      \* how often it, or the typed text, was changed
  written,    \* the documents that were written to the stream, in order
  stream,     \* the text
  whole,      \* no write failed and the text was not cut
  at,         \* where the reader is in the text
  received,   \* the documents it has read: where they began and their values
  refused     \* it met an error

documentVars == <<origin, doc, edits, written, stream, whole, at, received, refused>>

\* The values an application puts into a document.
Scalars == {Null, Of("boolean", FALSE), Of("int64", MinInt), Of("uint64", MaxUint),
            Of("string", <<"grin", "\"">>), Of("string", <<"VT">>), Of("string", <<"a", Invalid>>)}
           \cup FromDouble(1) \cup FromDouble(2 * (MaxInt + 1)) \cup FromDouble(Infinity)

Keys == {<<"a">>, <<"\\">>}

DocumentsInit ==
  /\ origin \in Origins /\ doc = Null /\ edits = 0
  /\ stream \in IF origin = "typed" THEN Beginnings ELSE {<<>>}
  /\ written = <<>> /\ whole = TRUE
  /\ at = 1 /\ received = <<>> /\ refused = FALSE

ReaderStarted == at > 1 \/ refused

Edit(new) ==
  /\ origin = "written" /\ ~ReaderStarted /\ whole /\ edits < MaxEdits
  /\ doc' = new /\ edits' = edits + 1
  /\ UNCHANGED <<origin, written, stream, whole, at, received, refused>>

Assign == \E x \in Scalars : Edit(x)
Push == \E x \in Scalars : Edit(PushBack(doc, x))
SetElement == \E i \in 0..2 : Edit(SetAt(doc, i, Of("boolean", FALSE)))
SetMember ==
  \E key \in Keys, x \in {Of("int64", MinInt), Of("string", <<"VT">>)} \cup FromDouble(1) :
    Edit(SetKey(doc, key, x))
EraseMember == \E key \in Keys : Edit(EraseKey(doc, key))
EraseElements == \E i, count \in 0..2 : CanErase(doc, i, count) /\ Edit(Erase(doc, i, count))
Nest == Edit(PushBack(Null, doc)) \/ Edit(SetKey(Null, <<"a">>, doc))

\* operator<<.  After a value that does not say itself where it ends, the
\* application writes a line feed.
Write(indent) ==
  /\ origin = "written" /\ ~ReaderStarted /\ whole /\ Len(written) < MaxDocuments
  /\ \E w \in {WriteJson(doc, indent, 0)} :
       /\ stream' = stream \o w.text \o (IF SelfDelimiting(doc) THEN <<>> ELSE <<"LF">>)
       /\ whole' = w.ok
  /\ written' = Append(written, doc)
  /\ UNCHANGED <<origin, doc, edits, at, received, refused>>

Cut ==
  /\ origin = "written" /\ ~ReaderStarted /\ whole
  /\ \E n \in 1..(Len(stream) - 1) : stream' = SubSeq(stream, 1, n)
  /\ whole' = FALSE
  /\ UNCHANGED <<origin, doc, edits, written, at, received, refused>>

\* A text that is refused before its end is refused whatever follows.  An exponent
\* has one digit (a bound).
Type(symbol) ==
  /\ origin = "typed" /\ ~ReaderStarted /\ edits < MaxTyped
  /\ \E now \in {FromJson(stream, 1)} : now.ok \/ AtEnd(stream, now.at)
  /\ IsDigit(symbol) =>
       ~\E k \in {Len(stream) - 2, Len(stream) - 1} \cap DOMAIN stream :
           stream[k] = "e" /\ IsDigit(stream[Len(stream)])
  /\ stream' = Append(stream, symbol)
  /\ edits' = edits + 1
  /\ UNCHANGED <<origin, doc, written, whole, at, received, refused>>

\* operator>>, as long as there is anything but white space.
ReadNext ==
  /\ ~refused /\ ~AtEnd(stream, SkipWhitespace(stream, at))
  /\ \E r \in {FromJson(stream, at)} :
       /\ at' = r.at
       /\ refused' = ~r.ok
       /\ received' = IF r.ok THEN Append(received, [from |-> at, value |-> r.value]) ELSE received
  /\ UNCHANGED <<origin, doc, edits, written, stream, whole>>

DocumentsNext == \/ Assign \/ Push \/ SetElement \/ SetMember \/ EraseMember \/ EraseElements \/ Nest
                 \/ Write(0) \/ Write(1) \/ Cut
                 \/ \E symbol \in Keyboard : Type(symbol)
                 \/ ReadNext

DocumentsSpec == DocumentsInit /\ [][DocumentsNext]_documentVars

-----------------------------------------------------------------------------
(* Properties.                                                             *)

RECURSIVE InBounds(_)
InBounds(j) == CASE j.t = "int64" -> j.v \in MinInt..MaxInt
                 [] j.t = "uint64" -> j.v \in 0..MaxUint
                 [] j.t = "array" -> \A i \in DOMAIN j.v : InBounds(j.v[i])
                 [] j.t = "object" -> \A k \in DOMAIN j.v : InBounds(j.v[k])
                 [] OTHER -> TRUE

(* The reader stays in its text, and every integer of a document, however it got     *)
(* there, has a value of its type: nothing wraps around (int_decode, json_value).     *)
TypeOK ==
  /\ at \in 1..(Len(stream) + 1)
  /\ InBounds(doc)
  /\ \A i \in DOMAIN received : InBounds(received[i].value)

RECURSIVE HasVerticalTab(_)
HasVerticalTab(j) ==
  CASE j.t = "string" -> "VT" \in Range(j.v)
    [] j.t = "array" -> \E i \in DOMAIN j.v : HasVerticalTab(j.v[i])
    [] j.t = "object" -> \E k \in DOMAIN j.v : HasVerticalTab(j.v[k])
    [] OTHER -> FALSE

\* What the reader cannot take back: \v, which it does not know, and deep nesting.
Readable(j) == ~HasVerticalTab(j) /\ Depth(j) <= MaxNesting

(* What the reader accepts is what was written, document by document, also when the  *)
(* end of the text is missing: a string, array or object is only accepted whole.      *)
(* (A number that lost its last digits cannot be told from one that did not, and a    *)
(* word that lost all but its first letter is taken for the word: 't' is true.)       *)
AcceptedIsWritten ==
  origin = "written" =>
    \A i \in DOMAIN received :
      /\ i \in DOMAIN written
      /\ \/ Equal(received[i].value, written[i])
         \/ (~whole /\ i = Len(received) /\ written[i].t \in Numbers)

(* What the writer wrote the reader accepts: every escape, indentation and number,   *)
(* with the exceptions Readable names.                                                *)
WrittenIsAccepted ==
  refused /\ whole /\ origin = "written" => \E i \in DOMAIN written : ~Readable(written[i])

(* An accepted document is nested no deeper than max_nesting allows, whatever the    *)
(* text was (recursion in the reader is bounded).                                     *)
NestingIsBounded == \A i \in DOMAIN received : Depth(received[i].value) <= MaxNesting

RECURSIVE HasInfinity(_)
HasInfinity(j) ==
  CASE j.t = "floating" -> j.v \in {-Infinity, Infinity}
    [] j.t = "array" -> \E i \in DOMAIN j.v : HasInfinity(j.v[i])
    [] j.t = "object" -> \E k \in DOMAIN j.v : HasInfinity(j.v[k])
    [] OTHER -> FALSE

(* Whatever the reader accepts, from whatever text, can be written, and read again   *)
(* into the same value, with one exception: a number too large for a double, such as  *)
(* 1e999, is accepted as infinity, which the writer refuses.                          *)
AcceptedTextIsStable ==
  \A i \in DOMAIN received, indent \in {0, 1} :
    \E w \in {ToJson(received[i].value, indent)} :
      /\ w.ok <=> ~HasInfinity(received[i].value)
      /\ \/ HasVerticalTab(received[i].value) \/ HasInfinity(received[i].value)
         \/ \E again \in {FromJson(w.text, 1)} : again.ok /\ Equal(again.value, received[i].value)

\* The C++ type a value would be read into: a vector or map if its elements have
\* one type, otherwise a tuple.
RECURSIVE KindOf(_)
KindOf(j) ==
  LET kinds == [i \in DOMAIN j.v |-> KindOf(j.v[i])]
      uniform == \A i, k \in DOMAIN j.v : /\ j.v[i].t = j.v[k].t /\ kinds[i] = kinds[k]
                                           /\ j.v[i].t \notin {"array", "object"}
  IN  CASE j.t = "array" -> IF uniform /\ j.v # <<>> THEN Nested(kinds[1]) ELSE TupleFor(kinds)
        [] j.t = "object" -> MapOf(IF uniform /\ DOMAIN j.v # {}
                                   THEN kinds[CHOOSE k \in DOMAIN j.v : TRUE] ELSE AnyValue)
        [] j.t = "uint64" /\ j.v <= MaxInt /\ "." \notin Range(stream) -> [k |-> "int64"]
        [] OTHER -> [k |-> j.t]

(* The readers for C++ types (bool, integers, vectors, tuples, maps) agree with the   *)
(* generic one: a value of the type is read as what the generic reader makes of it.   *)
(* (Not so for exponents: the generic reader takes "3e" for 3, because it cuts the    *)
(* number out of the text first, the reader of a double only at the text's end.)      *)
TypedReadersAgree ==
  "e" \notin Range(stream) => \A i \in DOMAIN received :
    \E typed \in {ReadJson(stream, received[i].from, KindOf(received[i].value), MaxNesting)} :
      typed.ok /\ Equal(typed.value, received[i].value)

\* What the getters are asked to answer if the number does not fit.
Default == -1000

Abs(n) == IF n < 0 THEN -n ELSE n

\* The answers of a getter with these bounds, to a number whose digits say x.num / x.den.
\* Exact if it is an integer, and written as one or small enough for a double.
\* Otherwise off by less than one, and what a double is off.  The default only
\* instead of a number out of bounds.
AnswersWell(answers, x, double, plain, min, max) ==
  /\ x.num % x.den = 0 /\ (\/ plain /\ x.num \div x.den \in MinInt..MaxUint
                          \/ Abs(x.num) <= x.den * 2 ^ SignificandBits) =>
       answers = {IF x.num \div x.den \in min..max THEN x.num \div x.den ELSE Default}
  /\ Quotient(double, 2) # max + 1 =>
       /\ \A n \in answers \ {Default} :
            Abs(n * x.den - x.num) * 2 ^ SignificandBits < x.den * 2 ^ SignificandBits + Abs(x.num)
       /\ Default \in answers => x.num < min * x.den \/ x.num > max * x.den

(* The getters answer with the integer a received number was written as, whether it   *)
(* was stored as an integer or a double: exactly, if it was written without point and *)
(* exponent and fits, or if it is small; otherwise with the loss of precision that    *)
(* the comment allows; the default only if it is out of range.  The one after the     *)
(* largest integer, to which the largest ones are rounded (9223372036854775807.0), is *)
(* not answered with the default: its conversion is undefined.                        *)
IntegersAreExact ==
  \A i \in DOMAIN received : received[i].value.t \in Numbers =>
    LET from == SkipWhitespace(stream, received[i].from)
        text == SubSeq(stream, from, NumberEnd(stream, from) - 1)
        plain == {".", "e"} \cap Range(text) = {}
    IN  \E said \in {FpDecode(text, 1)} :
          /\ AnswersWell(GetInt64(received[i].value, Default), said.ratio, said.value, plain,
                         MinInt, MaxInt)
          /\ AnswersWell(GetUint64(received[i].value, Default), said.ratio, said.value, plain,
                         0, MaxUint)

(* Reader and writer agree, about texts of the writer and of others, and so do the   *)
(* generic and the typed readers.                                                     *)
JsonReadsBack ==
  TypeOK /\ AcceptedIsWritten /\ WrittenIsAccepted /\ AcceptedTextIsStable /\ TypedReadersAgree

(* The limits of nesting and of integers are exact.                                   *)
LimitsAreExact == NestingIsBounded /\ IntegersAreExact

=============================================================================
