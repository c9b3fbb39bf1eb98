------------------------------ MODULE Formats ------------------------------
(***************************************************************************)
(* What an application converts with the CSV and XML writers, with Base64  *)
(* and between the Unicode encodings: the things to be written grow step by*)
(* step, and every conversion is compared with a definition of its format. *)
(***************************************************************************)
EXTENDS Csv, Xml, Base64, Utf

CONSTANTS Kinds,            \* what is converted, a subset of AllKinds
          MaxSteps,         \* how often it changes (Kinds -> Nat)
          CodeUnits         \* the code units of a text, by the width of a unit

AllKinds == {"rows", "maps", "columns", "xml", "base64", "utf8", "utf16", "utf32"}

ASSUME FormatsAssumption == Kinds \subseteq AllKinds /\ MaxSteps \in [Kinds -> Nat]

VARIABLES
  kind,
  subject,   \* what is converted
  bytes,     \* base64: the bytes of every message that was encoded
  steps

formatVars == <<kind, subject, bytes, steps>>

Width == CASE kind = "utf8" -> 8 [] kind = "utf16" -> 16 [] kind = "utf32" -> 32

FieldValues == << Null, Of("int64", -3), Of("string", <<>>), Of("string", <<"a">>),
             Of("string", <<",", "\"">>), Of("string", <<" ", "LF">>), Of("string", <<"a", "CR">>) >>
Columns == {<<"a">>, <<"b", ",">>}

Values == {<<"a">>, <<"1">>, <<"a", "-">>, <<"-", "-">>, <<"]", "]", ">">>, <<"<", "&", "\"">>,
           <<"?", ">">>, <<"LF", "e'">>, <<"a", "FFFE">>, <<"\\">>, <<>>, <<"NUL">>, <<"a", "SOH">>}
LeafTypes == {"processing_instruction", "text", "comment", "cdata"}

ByteValues == {0, 65, 128, 255}

FormatsInit ==
  /\ kind \in Kinds /\ bytes = <<>> /\ steps = 0
  /\ subject = CASE kind = "xml" -> ClearNode
                 [] kind = "base64" -> [state |-> <<>>, text |-> <<>>]
                 [] OTHER -> <<>>

Becomes(new) == subject' = new /\ steps < MaxSteps[kind] /\ steps' = steps + 1 /\ kind' = kind

\* Tables, as lists of rows, lists of maps and maps of columns.
AddRow == kind = "rows" /\ Becomes(Append(subject, <<>>)) /\ UNCHANGED bytes
AddField == /\ kind = "rows" /\ subject # <<>> /\ UNCHANGED bytes
            /\ \E k \in DOMAIN FieldValues : Becomes([subject EXCEPT ![Len(subject)] = Append(@, FieldValues[k])])
AddMap == kind = "maps" /\ Becomes(Append(subject, <<>>)) /\ UNCHANGED bytes
PutValue == /\ kind = "maps" /\ subject # <<>> /\ UNCHANGED bytes
            /\ \E key \in Columns, k \in {1, 4, 6} :
                 Becomes([subject EXCEPT ![Len(subject)] = key :> FieldValues[k] @@ @])
AddColumn == /\ kind = "columns" /\ UNCHANGED bytes
             /\ \E key \in Columns \ DOMAIN subject : Becomes(key :> <<>> @@ subject)
Extend == /\ kind = "columns" /\ UNCHANGED bytes
          /\ \E key \in DOMAIN subject, k \in {1, 4, 6} :
               Becomes([subject EXCEPT ![key] = Append(@, FieldValues[k])])

\* XML nodes.
MakeLeaf == /\ kind = "xml" /\ UNCHANGED bytes
            /\ \E type \in LeafTypes, value \in Values : Becomes(Leaf(type, value))
MakeElement == kind = "xml" /\ Becomes(Element(<<"a", "1">>, <<>>)) /\ UNCHANGED bytes
PutAttribute == /\ kind = "xml" /\ UNCHANGED bytes
                /\ \E key \in {<<"a">>, <<"-">>}, value \in Values :
                     Becomes(AddAttribute(subject, key, value)) \/ Becomes(SetAttribute(subject, key, value))
PutChild == /\ kind = "xml" /\ UNCHANGED bytes
            /\ \/ Becomes(AddChild(subject, Leaf("text", <<"a", "<">>)))
               \/ Becomes(AddChild(subject, Element(<<"a">>, <<>>)))
               \/ Becomes(AddChild(Element(<<"a">>, <<>>), subject))
ClearSome == /\ kind = "xml" /\ UNCHANGED bytes
             /\ (Becomes(ClearChildren(subject)) \/ Becomes(ClearAttributes(subject)))

\* Bytes that are encoded one after the other.
Put(byte) ==
  /\ kind = "base64" /\ Becomes(PutByte(subject, byte))
  /\ bytes' = IF bytes = <<>> THEN <<<<byte>>>> ELSE [bytes EXCEPT ![Len(bytes)] = Append(@, byte)]

FinishMessage ==
  /\ kind = "base64" /\ bytes # <<>> /\ Last(bytes) # <<>>
  /\ Becomes(Finish(subject)) /\ bytes' = Append(bytes, <<>>)

\* A text of code units grows as long as it is not refused before its end.
AddUnit ==
  /\ kind \in {"utf8", "utf16", "utf32"} /\ UNCHANGED bytes
  /\ Decode(Width, subject).ok \/ Decode(Width, subject).at > Len(subject)
  /\ \E unit \in CodeUnits[Width] : Becomes(Append(subject, unit))

FormatsNext == \/ AddRow \/ AddField \/ AddMap \/ PutValue \/ AddColumn \/ Extend
               \/ MakeLeaf \/ MakeElement \/ PutAttribute \/ PutChild \/ ClearSome
               \/ (\E byte \in ByteValues : Put(byte)) \/ FinishMessage \/ AddUnit

FormatsSpec == FormatsInit /\ [][FormatsNext]_formatVars

-----------------------------------------------------------------------------
(* CSV.                                                                    *)

\* A reader as RFC 4180 describes it: one character after the other.
ReadCharacter(r, c, separator) ==
  LET start == r.field = <<>> /\ r.mode = "start"
      EndField == [r EXCEPT !.row = Append(@, r.field), !.field = <<>>, !.mode = "start"]
  IN  CASE r.mode = "quoted" /\ c # "\"" -> [r EXCEPT !.field = Append(@, c)]
        [] r.mode = "quoted" /\ c = "\"" -> [r EXCEPT !.mode = "quote"]
        [] r.mode = "quote" /\ c = "\"" -> [r EXCEPT !.field = Append(@, c), !.mode = "quoted"]
        [] r.mode # "quoted" /\ c = separator -> EndField
        [] r.mode # "quoted" /\ c = "LF" ->
             [EndField EXCEPT !.rows = Append(@, EndField.row), !.row = <<>>]
        [] r.mode # "quoted" /\ c = "CR" -> r
        [] start /\ c = "\"" -> [r EXCEPT !.mode = "quoted"]
        [] OTHER -> [r EXCEPT !.field = Append(@, c), !.mode = "plain"]

ReadTable(text, separator) ==
  FoldLeft(LAMBDA r, c : ReadCharacter(r, c, separator),
           [rows |-> <<>>, row |-> <<>>, field |-> <<>>, mode |-> "start"], text).rows

\* A row without fields is a row with an empty one to every reader.
AsRow(row) == IF row = <<>> THEN <<<<>>>> ELSE [k \in DOMAIN row |-> Plain(row[k])]

ExpectedRows ==
  LET keys == CASE kind = "maps" -> Headers(subject) [] kind = "columns" -> KeysOf(subject)
      heights == {Len(subject[key]) : key \in DOMAIN subject}
  IN  CASE kind = "rows" -> [i \in DOMAIN subject |-> AsRow(subject[i])]
        [] kind = "maps" ->
             <<AsRow(AsStrings(keys))>>
             \o [i \in DOMAIN subject |->
                   AsRow([k \in DOMAIN keys |-> Value(subject[i], keys[k], Null)])]
        [] kind = "columns" ->
             <<AsRow(AsStrings(keys))>>
             \o [i \in 1..Max(heights \cup {0}) |->
                   AsRow([k \in DOMAIN keys |-> IF i <= Len(subject[keys[k]])
                                                THEN subject[keys[k]][i] ELSE Null])]

Table(options) == CASE kind = "rows" -> WriteRows(subject, options)
                    [] kind = "maps" -> WriteMaps(subject, Null, options)
                    [] kind = "columns" -> WriteColumns(subject, Null, options)

(* What is written as CSV is read back as the same table: fields with separators,    *)
(* quotes and line breaks, missing values, columns of different heights, whatever the*)
(* line ending (csv_requires_escaping, csv_escape, the overloads of write_csv).       *)
TablesReadBack ==
  kind \in {"rows", "maps", "columns"} =>
    \A crlf \in BOOLEAN :
      LET options == CsvOptions(",", "\"", crlf)
          TwoRows(map) == [i \in 1..2 |-> [k \in DOMAIN KeysOf(map) |->
                             IF i = 1 THEN KeysOf(map)[k] ELSE Plain(map[KeysOf(map)[k]])]]
      IN  /\ ReadTable(Table(options), ",") = ExpectedRows
          /\ kind = "maps" => \A i \in DOMAIN subject :
               subject[i] # <<>> => ReadTable(WriteMap(subject[i], options), ",") = TwoRows(subject[i])

-----------------------------------------------------------------------------
(* XML.                                                                    *)

\* What a node looks like when it is read.
RECURSIVE Standard(_)
Standard(node) ==
  IF IsElement(node)
  THEN Node("element", node.tag, node.attributes,
            [i \in DOMAIN node.children |-> Standard(node.children[i])])
  ELSE Leaf(node.type, node.tag)

\* Texts side by side are one text; no reader sees an empty one.
RECURSIVE Merged(_)
Merged(nodes) ==
  LET rest == Merged(Tail(nodes))
      first == IF IsElement(Head(nodes)) THEN [Head(nodes) EXCEPT !.children = Merged(@)] ELSE Head(nodes)
  IN  CASE nodes = <<>> -> <<>>
        [] nodes # <<>> /\ first.type = "text" /\ first.tag = <<>> -> rest
        [] nodes # <<>> /\ first.type = "text" /\ first.tag # <<>> /\ rest # <<>> ->
             IF Head(rest).type = "text" THEN <<Leaf("text", first.tag \o Head(rest).tag)>> \o Tail(rest)
             ELSE <<first>> \o rest
        [] OTHER -> <<first>> \o rest

\* What the writer gets wrong: a string in a leaf that cannot be written is not
\* reported, a backslash is written as an apostrophe, an element may have no name
\* or two attributes of one name.
RECURSIVE Faithful(_)
Faithful(node) ==
  LET NoBackslash(chars) == \A i \in DOMAIN chars : chars[i] # "\\"
      keys == [i \in DOMAIN node.attributes |-> node.attributes[i].key]
  IN  IF IsElement(node)
      THEN /\ node.tag # <<>> /\ IsInjective(keys)
           /\ \A i \in DOMAIN node.attributes : NoBackslash(node.attributes[i].value)
           /\ \A i \in DOMAIN node.children : Faithful(node.children[i])
      ELSE WriteXmlString(node.tag, node.type).ok /\ NoBackslash(node.tag)

\* The characters of a node's texts and attributes.
RECURSIVE Characters(_)
Characters(node) ==
  UNION ({Range(node.tag)} \cup {Range(node.attributes[i].value) : i \in DOMAIN node.attributes}
         \cup {Characters(node.children[i]) : i \in DOMAIN node.children})

(* When the writer succeeds, a reader finds in the text the elements, attributes and  *)
(* texts that were written, with and without indentation: nothing in a value can be   *)
(* taken for markup (xml_escape, write_xml).  That is not to say that the text is     *)
(* well-formed: it is so unless the application wrote an instruction that does not    *)
(* begin with a target, or a control character, both of which the writer lets through *)
(* (a control character of a text is written as a reference, which XML forbids, too). *)
XmlReadsBack ==
  kind = "xml" /\ Faithful(subject) =>
    \A indent \in {0, 1} :
      LET w == WriteXml(subject, indent, 0)
          p == ParseXml(w.text)
      IN  w.ok => /\ p.ok /\ Merged(p.nodes) = Merged(<<Standard(subject)>>)
                  /\ (WellFormedXml(w.text) <=>
                        HasTargets(subject) /\ Characters(Standard(subject)) \cap ControlChar = {})

-----------------------------------------------------------------------------
(* Base64.                                                                 *)

\* How many zeros padding leaves behind a message.
ZerosAfter(message) == (3 - (Len(message) % 3)) % 3

(* Messages encoded one after the other with one iterator are decoded one after the   *)
(* other: every message is found whole, and behind it only the zeros that padding     *)
(* leaves (base64_encode_iterator, base64_decode).  A message that fills its last     *)
(* group has no padding, so that the next one follows it in the same result.          *)
MessagesDecode ==
  kind = "base64" /\ subject.state = <<>> =>
    LET Zeros(n) == [k \in 1..n |-> 0]
        whole == FlattenSeq([i \in DOMAIN bytes |-> bytes[i] \o Zeros(ZerosAfter(bytes[i]))])
        all[at \in 1..(Len(subject.text) + 1)] ==
          LET d == Base64Decode(subject.text, at)
          IN  IF at > Len(subject.text) THEN <<>>
              ELSE IF d.ok /\ d.at > at THEN d.bytes \o all[d.at] ELSE <<-1>>
    IN  all[1] = whole

-----------------------------------------------------------------------------
(* Unicode.                                                                *)

\* The well-formed UTF-8 sequences of two bytes and more, by their first two bytes
\* (the Unicode Standard, table 3-7).
SecondBytes(first) == CASE first \in 194..223 -> 128..191
                        [] first = 224 -> 160..191
                        [] first \in 225..236 \cup 238..239 -> 128..191
                        [] first = 237 -> 128..159
                        [] first = 240 -> 144..191
                        [] first \in 241..243 -> 128..191
                        [] first = 244 -> 128..143
                        [] OTHER -> {}

WellFormedAt(s, i, n) ==
  CASE Width = 8 -> IF n = 1 THEN s[i] < 128
                    ELSE /\ n = (CASE s[i] < 224 -> 2 [] s[i] \in 224..239 -> 3 [] s[i] > 239 -> 4)
                         /\ s[i + 1] \in SecondBytes(s[i])
                         /\ \A k \in 2..(n - 1) : s[i + k] \in 128..191
    [] Width = 16 -> IF n = 1 THEN ~IsSurrogate(s[i])
                     ELSE n = 2 /\ s[i] \in HiSurrogates /\ s[i + 1] \in LoSurrogates
    [] Width = 32 -> n = 1 /\ s[i] <= Max32 /\ ~IsSurrogate(s[i])

WellFormed(s) ==
  LET from[i \in 1..(Len(s) + 1)] ==
        i > Len(s) \/ \E n \in 1..(Len(s) + 1 - i) : n <= 4 /\ WellFormedAt(s, i, n) /\ from[i + n]
  IN  from[1]

\* The last code point, which unicode(codepoint) refuses.
HasLast(s) == CASE Width = 8 -> \E i \in 1..(Len(s) - 3) : SubSeq(s, i, i + 3) = <<244, 143, 191, 191>>
                [] Width = 16 -> FALSE
                [] Width = 32 -> \E i \in DOMAIN s : s[i] = Max32

(* The decoders accept exactly the well-formed texts: no surrogate, no overlong code, *)
(* no code that is cut off, nothing beyond the last code point (which itself they     *)
(* refuse, except as a pair of surrogates).                                           *)
WellFormedIsAccepted ==
  kind \in {"utf8", "utf16", "utf32"} =>
    (Decode(Width, subject).ok <=> WellFormed(subject) /\ ~HasLast(subject))

(* A text that is accepted survives the way through another encoding and back         *)
(* unchanged (utf_transcode, the encoders, the surrogate arithmetic); the last code   *)
(* point does not come back.                                                          *)
TranscodingReturns ==
  kind \in {"utf8", "utf16", "utf32"} /\ Decode(Width, subject).ok =>
    \A to \in {8, 16, 32} :
      LET there == Transcode(Width, to, subject)
          back == Transcode(to, Width, there.text)
      IN  there.ok /\ ((back.text = subject /\ back.ok) \/ Max32 \in Range(Decode(Width, subject).characters))

(* What the adapters write they read again, and texts keep their characters.          *)
FormatsReadBack ==
  TablesReadBack /\ XmlReadsBack /\ MessagesDecode /\ WellFormedIsAccepted /\ TranscodingReturns

=============================================================================
