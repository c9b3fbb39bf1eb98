-------------------------------- MODULE Csv --------------------------------
(***************************************************************************)
(* The CSV writer (io/adapters/csv.h).  A text is a sequence of characters,*)
(* a scalar a value of one of the types of module Json.  The reader is     *)
(* disabled in the source.                                                 *)
(***************************************************************************)
EXTENDS Json

\* csv_options.
CsvOptions(separator, quote, crlf) == [separator |-> separator, quote |-> quote, crlf |-> crlf]
Defaults == CsvOptions(",", "\"", FALSE)

LineEnding(options) == IF options.crlf THEN <<"CR", "LF">> ELSE <<"LF">>

CsvEscape(c, options) == IF c = options.quote THEN <<c, c>> ELSE <<c>>

\* Mutant: a field that spans lines is not put into quotes.
RequiresEscapingInLine(chars, options) ==
  chars # <<>> /\ (chars[1] \in {" ", "TAB"} \/ \E i \in DOMAIN chars :
                     chars[i] \in {options.separator, options.quote})

RequiresEscaping(chars, options) ==
  chars # <<>> /\ (chars[1] \in {" ", "TAB"} \/ \E i \in DOMAIN chars :
                     chars[i] \in {"CR", "LF", options.separator, options.quote})

\* write_csv() of a string: whether to quote it is asked without the options, and
\* the quotes are double quotes; what is doubled inside is the options' quote.
WriteCsvString(chars, options) ==
  IF RequiresEscaping(chars, Defaults)
  THEN <<"\"">> \o FlattenSeq([i \in DOMAIN chars |-> CsvEscape(chars[i], options)]) \o <<"\"">>
  ELSE chars

\* The text of a scalar, as a field that is read back holds it (booleans are numeric).
Plain(scalar) == CASE scalar.t = "null" -> <<>>
                   [] scalar.t = "boolean" -> IF scalar.v THEN <<"1">> ELSE <<"0">>
                   [] scalar.t = "int64" -> IntEncode(scalar.v)
                   [] scalar.t = "string" -> scalar.v

WriteScalar(scalar, options) ==
  IF scalar.t = "string" THEN WriteCsvString(scalar.v, options) ELSE Plain(scalar)

\* A row without its line ending.
Joined(scalars, options) ==
  FlattenSeq([i \in DOMAIN scalars |->
                (IF i > 1 THEN <<options.separator>> ELSE <<>>) \o WriteScalar(scalars[i], options)])

WriteRow(scalars, options) == Joined(scalars, options) \o LineEnding(options)

WriteRows(rows, options) == FlattenSeq([i \in DOMAIN rows |-> WriteRow(rows[i], options)])

\* Maps are functions from strings; their order is one of TLC's choice.
KeysOf(map) == SetToSeq(DOMAIN map)
AsStrings(keys) == [i \in DOMAIN keys |-> Of("string", keys[i])]

WriteMap(map, options) ==
  WriteRows(<<AsStrings(KeysOf(map)), [i \in DOMAIN KeysOf(map) |-> map[KeysOf(map)[i]]]>>, options)

\* A list of maps: first the headers are gathered; a missing value is the default one.
Headers(maps) == SetToSeq(UNION {DOMAIN maps[i] : i \in DOMAIN maps})
Value(map, key, default) == IF key \in DOMAIN map THEN map[key] ELSE default

WriteMaps(maps, default, options) ==
  WriteRows(<<AsStrings(Headers(maps))>>
            \o [i \in DOMAIN maps |->
                  [k \in DOMAIN Headers(maps) |-> Value(maps[i], Headers(maps)[k], default)]],
            options)

\* Some column has more: the loop over the rows of a map of columns goes on.
HasRow(map, n) == \E key \in DOMAIN map : n <= Len(map[key])

\* A map of columns: a line ending comes before every row, and one at the end.
RECURSIVE WriteColumnsFrom(_, _, _, _)
WriteColumnsFrom(map, n, default, options) ==
  LET row == [k \in DOMAIN KeysOf(map) |->
                LET column == map[KeysOf(map)[k]] IN IF n <= Len(column) THEN column[n] ELSE default]
  IN  LineEnding(options)
      \o IF HasRow(map, n)
         THEN Joined(row, options) \o WriteColumnsFrom(map, n + 1, default, options) ELSE <<>>

WriteColumns(map, default, options) ==
  Joined(AsStrings(KeysOf(map)), options) \o WriteColumnsFrom(map, 1, default, options)

=============================================================================
