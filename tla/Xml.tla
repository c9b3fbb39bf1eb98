-------------------------------- MODULE Xml --------------------------------
(***************************************************************************)
(* The XML nodes and their writer (io/adapters/xml.h).  A text is a        *)
(* sequence of characters; an entity or character reference is one symbol, *)
(* and so is what opens a CDATA section after its exclamation mark.        *)
(***************************************************************************)
EXTENDS Reading, TLC

\* basic_xml_node.
Node(type, tag, attributes, children) ==
  [type |-> type, tag |-> tag, attributes |-> attributes, children |-> children]
Leaf(type, value) == Node(type, value, <<>>, <<>>)
Element(tag, attributes) == Node("empty_element", tag, attributes, <<>>)

IsElement(node) == node.type \in {"element", "empty_element"}

Attribute(key, value) == [key |-> key, value |-> value]

\* add_attribute() and add_child() make an element of whatever the node was.
AddAttribute(node, key, value) ==
  [node EXCEPT !.type = IF IsElement(node) THEN @ ELSE "empty_element",
               !.attributes = Append(@, Attribute(key, value))]

AddChild(node, child) == [node EXCEPT !.type = "element", !.children = Append(@, child)]

\* operator[] finds the first attribute of this name or adds one; the type stays.
SetAttribute(node, key, value) ==
  LET found == {i \in DOMAIN node.attributes : node.attributes[i].key = key}
  IN  [node EXCEPT !.attributes = IF found = {} THEN Append(@, Attribute(key, value))
                                  ELSE [@ EXCEPT ![Min(found)].value = value]]

ClearChildren(node) == [node EXCEPT !.children = <<>>]
ClearAttributes(node) == [node EXCEPT !.attributes = <<>>]
ClearNode == Leaf("text", <<>>)

-----------------------------------------------------------------------------
(* Writing.                                                                *)

NameStart == {"a"}
NameChar == NameStart \cup {"-", "1"}
NoChar == {"FFFE", "BAD"}        \* what xml_is_char() refuses, and no character at all
ControlChar == {"NUL", "SOH"}    \* U+0000 and U+0001, which it lets through

\* Apostrophes are left as they are; it is the backslash that becomes one.
Entities == "<" :> "&lt;" @@ ">" :> "&gt;" @@ "&" :> "&amp;" @@ "\\" :> "&apos;" @@ "\"" :> "&quot;"
            @@ "LF" :> "&#10;" @@ "e'" :> "&#233;" @@ "NUL" :> "&#0;" @@ "SOH" :> "&#1;"

\* The character cannot stand after the two before it in a string of this type.
Forbidden(back2, back, c, type) ==
  CASE type = "cdata" -> back2 = "]" /\ back = "]" /\ c = ">"
    [] type = "comment" -> back = "-" /\ c = "-"
    [] type = "processing_instruction" -> back = "?" /\ c = ">"
    [] type = "name" -> c \notin IF back = "" THEN NameStart ELSE NameChar
    [] OTHER -> FALSE

XmlEscape(c, type) == IF type = "text" /\ c \in DOMAIN Entities THEN <<Entities[c]>> ELSE <<c>>

XmlWritten(ok, text) == [ok |-> ok, text |-> text]

\* write_xml() of a string, up to the first character that fails.
WriteXmlString(chars, type) ==
  LET Back(i, n) == IF i > n THEN chars[i - n] ELSE ""
      bad == {i \in DOMAIN chars : \/ chars[i] \in NoChar
                                   \/ Forbidden(Back(i, 2), Back(i, 1), chars[i], type)}
      last == Min(bad \cup {Len(chars) + 1}) - 1
  IN  XmlWritten(bad = {}, FlattenSeq([i \in 1..last |-> XmlEscape(chars[i], type)]))

XmlIndent(indent, current) ==
  (IF indent > 0 THEN <<"LF">> ELSE <<>>) \o [k \in 1..current |-> " "]

\* One text after the other, as far as all succeed.
InSequence(parts) ==
  LET failed == {i \in DOMAIN parts : ~parts[i].ok}
      last == Min(failed \cup {Len(parts)})
  IN  XmlWritten(failed = {}, FlattenSeq([i \in 1..last |-> parts[i].text]))

Literally(text) == XmlWritten(TRUE, text)

WriteAttribute(attribute) ==
  InSequence(<<Literally(<<" ">>), WriteXmlString(attribute.key, "name"), Literally(<<"=", "\"">>),
               WriteXmlString(attribute.value, "text"), Literally(<<"\"">>)>>)

Opening == "processing_instruction" :> <<"<", "?">> @@ "text" :> <<>>
           @@ "comment" :> <<"<", "!", "-", "-", " ">> @@ "cdata" :> <<"<", "!", "[CDATA[">>
Ending == "processing_instruction" :> <<"?", ">">> @@ "text" :> <<>>
          @@ "comment" :> <<" ", "-", "-", ">">> @@ "cdata" :> <<"]", "]", ">">>

\* That the string failed is forgotten, it only costs the ending.
WriteLeaf(node) ==
  LET value == WriteXmlString(node.tag, node.type)
  IN  XmlWritten(TRUE, Opening[node.type] \o value.text
                       \o IF value.ok THEN Ending[node.type] ELSE <<>>)

RECURSIVE WriteXml(_, _, _)
WriteXml(node, indent, current) ==
  LET name == WriteXmlString(node.tag, "name")
      attributes == InSequence([i \in DOMAIN node.attributes |-> WriteAttribute(node.attributes[i])])
      children == InSequence([i \in DOMAIN node.children |->
                    InSequence(<<Literally(XmlIndent(indent, current + indent)),
                                 WriteXml(node.children[i], indent, current + indent)>>)])
  IN  CASE node.type = "empty_element" ->
             InSequence(<<Literally(<<"<">>), name, attributes, Literally(<<"/", ">">>)>>)
        [] node.type = "element" ->
             InSequence(<<Literally(<<"<">>), name, attributes, Literally(<<">">>), children,
                          Literally(XmlIndent(indent, current) \o <<"<", "/">>), name,
                          Literally(<<">">>)>>)
        [] node.type = "doctype_instruction" -> XmlWritten(FALSE, <<>>)
        [] OTHER -> WriteLeaf(node)

-----------------------------------------------------------------------------
(* What a reader of XML makes of a text: a definition to compare with.  It *)
(* takes any text for an instruction and any character that is referred to;*)
(* WellFormedXml is what XML asks for beyond that.                         *)

StandsAt(s, i, word) == i + Len(word) - 1 <= Len(s) /\ SubSeq(s, i, i + Len(word) - 1) = word

\* The first place from i on where the word is, or 0.
Find(s, i, word) == LET found == {k \in i..Len(s) : StandsAt(s, k, word)}
                    IN  IF found = {} THEN 0 ELSE Min(found)

Unescape(chars) ==
  [i \in DOMAIN chars |-> IF chars[i] = "&apos;" THEN "'"
                          ELSE IF \E c \in DOMAIN Entities : Entities[c] = chars[i]
                               THEN CHOOSE c \in DOMAIN Entities : Entities[c] = chars[i] ELSE chars[i]]

\* Raw white space of a text is indentation.
Words(chars) == SelectSeq(chars, LAMBDA c : c \notin {"LF", " "})

Parsed(at, nodes) == [ok |-> TRUE, at |-> at, nodes |-> nodes]
IllFormed == [ok |-> FALSE, at |-> 0, nodes |-> <<>>]

\* A comment ends at its first two hyphens, a section at its first end mark.
ParseLeaf(s, i, type) ==
  LET begin == i + Len(Opening[type])
      mark == IF type = "comment" THEN <<"-", "-">> ELSE Ending[type]
      end == Find(s, IF type = "comment" THEN begin - 1 ELSE begin, mark)
      value == SubSeq(s, begin, IF type = "comment" THEN end - 2 ELSE end - 1)
  IN  CASE end = 0 -> IllFormed
        [] end > 0 /\ type = "comment" /\ ~StandsAt(s, end, <<"-", "-", ">">>) -> IllFormed
        [] OTHER -> Parsed(end + (IF type = "comment" THEN 3 ELSE Len(mark)), <<Leaf(type, value)>>)

NameEnd(s, i) == SpanEnd(s, i, NameChar)

\* Attributes from i on: key, equals sign, value in quotes.
RECURSIVE ParseAttributes(_, _, _)
ParseAttributes(s, i, attributes) ==
  LET end == NameEnd(s, i + 1)
      close == IF StandsAt(s, end, <<"=", "\"">>) THEN Find(s, end + 2, <<"\"">>) ELSE 0
      key == SubSeq(s, i + 1, end - 1)
  IN  CASE ~StandsAt(s, i, <<" ">>) -> [ok |-> TRUE, at |-> i, attributes |-> attributes]
        [] StandsAt(s, i, <<" ">>) /\ (end = i + 1 \/ s[Min({i + 1, Len(s)})] \notin NameStart \/ close = 0
                                 \/ \E k \in DOMAIN attributes : attributes[k].key = key) ->
             [ok |-> FALSE, at |-> i, attributes |-> <<>>]
        [] OTHER -> ParseAttributes(s, close + 1, Append(attributes,
                      Attribute(key, Unescape(SubSeq(s, end + 2, close - 1)))))

RECURSIVE ParseContent(_, _, _)
RECURSIVE ParseElement(_, _)
ParseContent(s, i, nodes) ==
  LET More(p) == IF p.ok THEN ParseContent(s, p.at, nodes \o p.nodes) ELSE IllFormed
      end == SpanEnd(s, i, {s[k] : k \in DOMAIN s} \ {"<"})
      text == Words(SubSeq(s, i, end - 1))
  IN  CASE i > Len(s) \/ StandsAt(s, i, <<"<", "/">>) -> Parsed(i, nodes)
        [] StandsAt(s, i, Opening["comment"]) -> More(ParseLeaf(s, i, "comment"))
        [] StandsAt(s, i, Opening["cdata"]) -> More(ParseLeaf(s, i, "cdata"))
        [] StandsAt(s, i, Opening["processing_instruction"]) -> More(ParseLeaf(s, i, "processing_instruction"))
        [] ~StandsAt(s, i, <<"<">>) /\ i <= Len(s) ->
             IF {"&", "]"} \cap {text[k] : k \in DOMAIN text} # {} /\ Find(text, 1, <<"]", "]", ">">>) > 0
             THEN IllFormed
             ELSE More(Parsed(end, IF text = <<>> THEN <<>> ELSE <<Leaf("text", Unescape(text))>>))
        [] OTHER -> More(ParseElement(s, i))

ParseElement(s, i) ==
  LET end == NameEnd(s, i + 1)
      tag == SubSeq(s, i + 1, end - 1)
      a == ParseAttributes(s, end, <<>>)
      content == ParseContent(s, a.at + 1, <<>>)
      endTag == <<"<", "/">> \o tag \o <<">">>
      begun == tag # <<>> /\ tag[1] \in NameStart /\ a.ok
  IN  CASE begun /\ StandsAt(s, a.at, <<"/", ">">>) ->
             Parsed(a.at + 2, <<Node("element", tag, a.attributes, <<>>)>>)
        [] begun /\ StandsAt(s, a.at, <<">">>) /\ content.ok /\ StandsAt(s, content.at, endTag) ->
             Parsed(content.at + Len(endTag), <<Node("element", tag, a.attributes, content.nodes)>>)
        [] OTHER -> IllFormed

\* The nodes a text consists of, if it is one piece.
ParseXml(s) == LET p == ParseContent(s, 1, <<>>)
               IN  IF p.ok /\ p.at = Len(s) + 1 THEN p ELSE IllFormed

\* Every instruction begins with the name of its target.
RECURSIVE HasTargets(_)
HasTargets(node) ==
  /\ node.type = "processing_instruction" => node.tag # <<>> /\ node.tag[1] \in NameStart
  /\ \A i \in DOMAIN node.children : HasTargets(node.children[i])

\* Well-formed: instructions have targets, and no control character is there or referred to.
WellFormedXml(s) ==
  LET p == ParseXml(s)
  IN  /\ p.ok /\ \A i \in DOMAIN p.nodes : HasTargets(p.nodes[i])
      /\ Range(s) \cap (ControlChar \cup {Entities[c] : c \in ControlChar}) = {}

=============================================================================
