---------------------------- MODULE MCDocuments ----------------------------
(***************************************************************************)
(* The text formats, one at a time: a stream of JSON documents; tables, XML*)
(* nodes, Base64 and texts; a URL.                                         *)
(***************************************************************************)
EXTENDS JsonDocuments, Formats, Url

VARIABLE used

vars == <<used, documentVars, formatVars, urlVars>>

Init == /\ used \in {"documents", "formats", "url"}
        /\ DocumentsInit /\ FormatsInit /\ UrlInit
        /\ used # "documents" => origin = "written"
        /\ used # "formats" => kind = "rows"
        /\ used # "url" => typed = <<>>

UseDocuments == used = "documents" /\ DocumentsNext /\ UNCHANGED <<used, formatVars, urlVars>>
UseFormats == used = "formats" /\ FormatsNext /\ UNCHANGED <<used, documentVars, urlVars>>
UseUrl == used = "url" /\ UrlNext /\ UNCHANGED <<used, documentVars, formatVars>>

Next == UseDocuments \/ UseFormats \/ UseUrl

Spec == Init /\ [][Next]_vars

mcMinInt == -32

\* Symbols that make words, numbers, strings, arrays and objects, right and wrong.
mcKeyboard == {"[", "]", "{", "}", ",", ":", "\"", "a", "3", "2", "-", ".", "e",
               "t", "rue", "n", "\\", "u", "VT", "LF"}

\* The beginnings of a list of lists, of an object, and of an escaped character.
mcBeginnings == {<<>>, <<"[", "[">>, <<"{", "\"", "a", "\"", ":">>,
                 <<"\"", "\\", "u", "D83D", "\\">>, <<"\"", "\\", "u", "DE00">>}

mcMaxSteps == [k \in AllKinds |-> CASE k = "xml" -> 3 [] k = "base64" -> 6 [] k = "utf16" -> 3
                                    [] k = "utf32" -> 2 [] OTHER -> 4]

\* Around every boundary of the encodings.
mcCodeUnits == 8 :> {65, 127, 128, 143, 144, 159, 160, 191, 192, 193, 194, 223, 224, 237, 239,
                     240, 244, 245, 248, 255}
            @@ 16 :> {65, 127, 128, 2047, 2048, 55295, 55296, 56319, 56320, 57343, 57344, 65535}
            @@ 32 :> {65, 127, 128, 2047, 2048, 55295, 55296, 57343, 57344, 65535, 65536,
                      1114110, 1114111, 1114112}

=============================================================================
