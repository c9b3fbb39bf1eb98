-------------------------------- MODULE Url --------------------------------
(***************************************************************************)
(* skate::url (socket/address.h): the parts of a URL, set one by one or    *)
(* taken from a text, and the text that is written from them.              *)
(*                                                                         *)
(* A text is a sequence of characters.  Upper-case letters occur only as   *)
(* hexadecimal digits, so that nothing has to become lower case; a port is *)
(* the sequence of its digits, <<>> for none; hosts are names, never       *)
(* addresses.                                                              *)
(***************************************************************************)
EXTENDS Sequences, SequencesExt, Functions, FiniteSets, Naturals

CONSTANTS MaxUrlEdits,      \* bound: how often an application changes a URL
          MaxTypedUrl       \* bound: how many characters somebody types

ASSUME UrlAssumption == {MaxUrlEdits, MaxTypedUrl} \subseteq Nat

VARIABLES
  url,
  typed,       \* the text that is typed
  queries,     \* what the application set in the query, by key
  urlEdits

urlVars == <<url, typed, queries, urlEdits>>

-----------------------------------------------------------------------------
(* Characters.                                                             *)

\* What has to be written with a percent sign at some place: the escapes that occur
\* in the texts here are these.
Code == [c \in {":", "/", "?", "#", "@", "%", "&", "=", "\""} |->
           CASE c = "\"" -> <<"2", "2">> [] c = "#" -> <<"2", "3">> [] c = "%" -> <<"2", "5">> [] c = "&" -> <<"2", "6">>
             [] c = "/" -> <<"2", "F">> [] c = ":" -> <<"3", "A">> [] c = "=" -> <<"3", "D">>
             [] c = "?" -> <<"3", "F">> [] c = "@" -> <<"4", "0">>]

Decimals == {"0", "2", "3", "4", "5", "6"}

subdelims == {"&", "="}
pathdelims == subdelims \cup {":", "@"}
queryfragmentdelims == pathdelims \cup {"/", "?"}
querymapdelims == queryfragmentdelims \ {"=", "&"}

ToPercentEncoded(s, noescape) ==
  FlattenSeq([i \in DOMAIN s |-> IF s[i] \in DOMAIN Code \ noescape THEN <<"%">> \o Code[s[i]] ELSE <<s[i]>>])

\* A nibble that is 15 is taken for a character that is not a digit.
PercentDecoded(s, fmt, nibbles) ==
  LET IsEscape(i) == /\ s[i] = "%" /\ i + 2 <= Len(s)
                     /\ {s[i + 1], s[i + 2]} \subseteq nibbles
                     /\ <<s[i + 1], s[i + 2]>> \in Range(Code)
      from[i \in 1..(Len(s) + 3)] ==
        IF i > Len(s) THEN <<>>
        ELSE IF IsEscape(i) THEN <<CHOOSE c \in DOMAIN Code : Code[c] = <<s[i + 1], s[i + 2]>> >> \o from[i + 3]
        ELSE <<s[i]>> \o from[i + 1]
  IN  IF fmt = "raw" THEN s ELSE from[1]

FromStringHelper(s, fmt) == PercentDecoded(s, fmt, Decimals \cup {"A", "D"})

\* Where one of the characters is found first, or the place behind the text.
FindAny(s, chars) ==
  LET places == {i \in DOMAIN s : s[i] \in chars}
  IN  IF places = {} THEN Len(s) + 1 ELSE CHOOSE i \in places : \A k \in places : i <= k

Before(s, i) == SubSeq(s, 1, i - 1)
From(s, i) == SubSeq(s, i, Len(s))

Split(s, sep) ==
  LET parts[from \in 1..(Len(s) + 1)] ==
        LET next == FindAny(From(s, from), {sep})
        IN  IF from - 1 + next > Len(s) THEN <<From(s, from)>>
            ELSE <<SubSeq(s, from, from + next - 2)>> \o parts[from + next]
  IN  parts[1]

Join(parts, sep) == FlattenSeq([i \in DOMAIN parts |-> (IF i = 1 THEN <<>> ELSE <<sep>>) \o parts[i]])

-----------------------------------------------------------------------------
(* The parts of a URL.                                                     *)

NoQueries == [key \in {} |-> <<>>]

NoUrl == [scheme |-> <<>>, host |-> <<>>, port |-> <<>>, username |-> <<>>, hasUsername |-> FALSE,
          password |-> <<>>, hasPassword |-> FALSE, path |-> <<>>,
          query |-> <<>>, map |-> NoQueries, hasQuery |-> FALSE, fragment |-> <<>>, hasFragment |-> FALSE]

\* network_address(const char *): a number behind the last colon is the port.
NetworkAddress(name) ==
  LET colons == {i \in DOMAIN name : name[i] = ":"}
      last == CHOOSE i \in colons : \A k \in colons : k <= i
      digits == From(name, last + 1)
  IN  IF colons # {} /\ digits # <<>> /\ Range(digits) \subseteq Decimals
      THEN [host |-> Before(name, last), port |-> IF Range(digits) = {"0"} THEN <<>> ELSE digits]
      ELSE [host |-> name, port |-> <<>>]

SetHostname(u, name) == LET a == NetworkAddress(name) IN [u EXCEPT !.host = a.host, !.port = a.port]
SetHost(u, name) == [u EXCEPT !.host = NetworkAddress(name).host]
SetPort(u, digits) == [u EXCEPT !.port = digits]
SetScheme(u, scheme) == [u EXCEPT !.scheme = scheme]
SetUsername(u, name, fmt) == [u EXCEPT !.username = FromStringHelper(name, fmt), !.hasUsername = TRUE]
ClearUsername(u) == [u EXCEPT !.username = <<>>, !.hasUsername = FALSE]
SetPassword(u, word, fmt) == [u EXCEPT !.password = FromStringHelper(word, fmt), !.hasPassword = TRUE]
ClearPassword(u) == [u EXCEPT !.password = <<>>, !.hasPassword = FALSE]
SetFragment(u, text, fmt) == [u EXCEPT !.fragment = FromStringHelper(text, fmt), !.hasFragment = TRUE]
ClearFragment(u) == [u EXCEPT !.fragment = <<>>, !.hasFragment = FALSE]

\* The colon is looked for in the whole authority: behind the user's name, or else
\* in front of the port.
SetAuthority(u, authority, fmt) ==
  LET end == FindAny(authority, {"@"})
      middle == FindAny(authority, {":"})
      word == IF middle < end THEN SubSeq(authority, middle + 1, end - 1) ELSE From(authority, middle + 1)
      named == SetUsername(u, Before(authority, IF middle > Len(authority) THEN end ELSE middle), fmt)
  IN  IF end > Len(authority) THEN SetHostname(u, authority)
      ELSE SetHostname(IF middle > Len(authority) THEN named ELSE SetPassword(named, word, fmt),
                       From(authority, end + 1))

SetPath(u, elements, fmt) ==
  LET decoded == [i \in DOMAIN elements |-> FromStringHelper(elements[i], fmt)]
      Add(list, i) == CASE decoded[i] = <<".", ".">> -> IF list = <<>> THEN list ELSE Front(list)
                        [] decoded[i] = <<".">> -> IF i = Len(decoded) THEN Append(list, <<>>) ELSE list
                        [] OTHER -> Append(list, decoded[i])
  IN  [u EXCEPT !.path = FoldLeft(Add, <<>>, [i \in DOMAIN decoded |-> i])]

SetQueryText(u, text, fmt) ==
  [u EXCEPT !.query = FromStringHelper(text, fmt), !.map = NoQueries, !.hasQuery = TRUE]
SetQueries(u, map) == [u EXCEPT !.query = <<>>, !.map = map, !.hasQuery = TRUE]
ClearQueries(u) == [SetQueryText(u, <<>>, "raw") EXCEPT !.hasQuery = FALSE]

With(map, key, value) == [k \in DOMAIN map \cup {key} |-> IF k = key THEN value ELSE map[k]]

\* A query that is a text is taken apart, every time, and stays.
SetQueryKey(u, key, value, fmt) ==
  LET Pairs == Split(u.query, "&")
      IsPair(pair) == FindAny(pair, {"="}) <= Len(pair)
      AddPair(map, pair) == With(map, FromStringHelper(Before(pair, FindAny(pair, {"="})), fmt),
                                      FromStringHelper(From(pair, FindAny(pair, {"="}) + 1), fmt))
      map == CASE u.query = <<>> -> u.map
               [] u.query # <<>> /\ \E i \in DOMAIN Pairs : ~IsPair(Pairs[i]) -> NoQueries
               [] OTHER -> FoldLeft(AddPair, u.map, Pairs)
  IN  [u EXCEPT !.map = With(map, FromStringHelper(key, fmt), FromStringHelper(value, fmt)), !.hasQuery = TRUE]

-----------------------------------------------------------------------------
(* The text.                                                               *)

Escaped(s, fmt, noescape) == IF fmt = "percent" THEN ToPercentEncoded(s, noescape) ELSE s

HasAuthority(u) == u.hasUsername \/ u.hasPassword \/ u.host # <<>> \/ u.port # <<>>

PathText(u, fmt) == Join([i \in DOMAIN u.path |-> Escaped(u.path[i], fmt, pathdelims)], "/")

\* The pairs of a map come in some order of their keys.
QueryText(u, fmt) ==
  LET keys == SetToSeq(DOMAIN u.map)
      Pair(key) == Escaped(key, fmt, querymapdelims) \o <<"=">> \o Escaped(u.map[key], fmt, querymapdelims)
  IN  IF keys # <<>> THEN Join([i \in DOMAIN keys |-> Pair(keys[i])], "&")
      ELSE Escaped(u.query, fmt, queryfragmentdelims)

Authority(u, fmt) ==
  (IF u.username = <<>> /\ u.password = <<>> THEN <<>>
   ELSE Escaped(u.username, fmt, subdelims) \o <<":">> \o Escaped(u.password, fmt, subdelims) \o <<"@">>)
  \o u.host \o (IF u.port = <<>> THEN <<>> ELSE <<":">> \o u.port)

Userinfo(u, fmt) ==
  IF ~(u.hasUsername \/ u.hasPassword) THEN <<>>
  ELSE Escaped(u.username, fmt, subdelims)
       \o (IF u.hasPassword THEN <<":">> \o Escaped(u.password, fmt, subdelims) ELSE <<>>)

PathQueryFragment(u, fmt) ==
  PathText(u, fmt)
  \o (IF u.hasQuery THEN <<"?">> \o QueryText(u, fmt) ELSE <<>>)
  \o (IF u.hasFragment THEN <<"#">> \o Escaped(u.fragment, fmt, queryfragmentdelims) ELSE <<>>)

UrlText(u, fmt) ==
  (IF u.scheme = <<>> THEN <<>> ELSE u.scheme \o <<":">>)
  \o (IF HasAuthority(u) THEN <<"/", "/">> \o Authority(u, fmt) ELSE <<>>)
  \o (IF u.path # <<>> /\ u.path[1] # <<>> THEN <<"/">> ELSE <<>>)
  \o PathQueryFragment(u, fmt)

FromString(s, fmt) ==
  LET colon == FindAny(s, {":"})
      scheme == SetScheme(NoUrl, Before(s, colon))
      rest == From(s, colon + 1)
      marked == Len(rest) > 2 /\ IsPrefix(<<"/", "/">>, rest)
      body == From(rest, 3)
      end == FindAny(body, {"/", "?", "#"})
      host == IF marked THEN SetAuthority(scheme, Before(body, end), fmt) ELSE scheme
      behind == IF marked THEN From(body, end) ELSE rest
      path == FindAny(behind, {"?", "#"})
      pathed == SetPath(host, Split(Before(behind, path), "/"), fmt)
      tail == From(behind, path)
      hash == FindAny(tail, {"#"})
      asked == IF tail # <<>> /\ tail[1] = "?" THEN SetQueryText(pathed, SubSeq(tail, 2, hash - 1), fmt) ELSE pathed
  IN  CASE colon > Len(s) -> NoUrl
        [] colon <= Len(s) /\ marked /\ end > Len(body) -> host
        [] OTHER -> IF hash <= Len(tail) THEN SetFragment(asked, From(tail, hash + 1), fmt) ELSE asked

Valid(u) ==
  /\ u.scheme # <<>> /\ Head(u.scheme) = "x" /\ Range(u.scheme) \subseteq Decimals \cup {"x", "."}
  /\ u.host # <<>>
  /\ ~IsPrefix(<<"/", "/">>, PathText(u, "raw"))

-----------------------------------------------------------------------------
(* What an application does with a URL.                                    *)

Texts == {<<>>, <<"x", ":", "@">>, <<"&", "=">>, <<"/", "?">>, <<"#">>, <<"%", "2", "5">>}
Names == {<<>>, <<"x">>, <<"x", ":", "2">>}
Paths == {<<>>, <<"x">>, <<"/", ".", "/", ":">>, <<"/", "x", "/", ".", ".">>, <<"/", "%", "2", "F">>, <<"/", "/", "x">>}
UrlKeys == {<<"x">>, <<"&", "=">>, <<"%", "2", "6">>}
Authorities == {<<"x", "@", "x">>, <<"x", ":", "%", "4", "0", "@", "x", ":", "2">>, <<"x", "@", "x", ":", "2">>}

UrlBeginnings == {<<"x", ":", "/", "/">>, <<"x", ":", "/", "/", "x", "/">>,
                  <<"x", ":", "/", "/", "x", ":", "2", "@", "x">>}

UrlInit ==
  /\ url = NoUrl /\ typed \in {<<>>} \cup UrlBeginnings
  /\ queries = NoQueries /\ urlEdits = 0

SetTo(new) == url' = new /\ typed = <<>> /\ urlEdits < MaxUrlEdits /\ urlEdits' = urlEdits + 1 /\ typed' = typed

SetAddress ==
  /\ UNCHANGED queries
  /\ \/ \E name \in Names : SetTo(SetHostname(url, name)) \/ SetTo(SetHost(url, name))
     \/ \E port \in {<<>>, <<"2">>} : SetTo(SetPort(url, port))
     \/ \E authority \in Authorities, fmt \in {"raw", "percent"} : SetTo(SetAuthority(url, authority, fmt))
     \/ SetTo([SetHostname(url, <<"x">>) EXCEPT !.scheme = <<"x">>])

SetUserinfo ==
  /\ UNCHANGED queries
  /\ \/ \E text \in Texts : SetTo(SetUsername(url, text, "raw")) \/ SetTo(SetPassword(url, text, "percent"))
     \/ SetTo(ClearUsername(url)) \/ SetTo(ClearPassword(url))

SetPathOrFragment ==
  /\ UNCHANGED queries
  /\ \/ \E path \in Paths, fmt \in {"raw", "percent"} : SetTo(SetPath(url, Split(path, "/"), fmt))
     \/ \E text \in Texts : SetTo(SetPath(url, <<<<"x">>, text>>, "raw")) \/ SetTo(SetFragment(url, text, "raw"))
     \/ SetTo(ClearFragment(url))

ReplaceQuery ==
  \/ \E text \in Texts, fmt \in {"raw", "percent"} :
       SetTo(SetQueryText(url, text, fmt)) /\ queries' = NoQueries
  \/ \E value \in Texts : LET map == With(NoQueries, <<"x">>, value)
                          IN  SetTo(SetQueries(url, map)) /\ queries' = map
  \/ SetTo(ClearQueries(url)) /\ queries' = NoQueries

\* The application does not set keys in a query that it set as a text: the text would
\* stay, and every later call would overwrite the keys with what it says.
SetKeyOfQuery ==
  \E key \in UrlKeys, value \in Texts, fmt \in {"raw", "percent"} :
    /\ url.query = <<>>
    /\ SetTo(SetQueryKey(url, key, value, fmt))
    /\ queries' = With(queries, FromStringHelper(key, fmt), FromStringHelper(value, fmt))

TypeCharacter ==
  \E c \in {"x", ":", "/", "?", "#", "@", "%", "2", ".", "=", "&"} :
    /\ typed # <<>> /\ urlEdits < MaxTypedUrl /\ urlEdits' = urlEdits + 1
    /\ typed' = Append(typed, c)
    /\ url' = FromString(typed', "percent")
    /\ UNCHANGED queries

UrlNext == SetAddress \/ SetUserinfo \/ SetPathOrFragment \/ ReplaceQuery \/ SetKeyOfQuery \/ TypeCharacter

UrlSpec == UrlInit /\ [][UrlNext]_urlVars

-----------------------------------------------------------------------------
(* Properties.                                                             *)

\* What the reader gets wrong: it leaves "%2F" and "%3F" as they are, and decodes "%26"
\* and "%3D" although they are not delimiters of the query.
ChangesWhenRead(u) ==
  \/ {"/", "?"} \cap (Range(u.username) \cup Range(u.password)) # {}
  \/ \E i \in DOMAIN u.path : {"/", "?"} \cap Range(u.path[i]) # {}
  \/ \E key \in DOMAIN u.map : {"&", "="} \cap (Range(key) \cup Range(u.map[key])) # {}

\* What the application sees of a URL: has_username(), get_userinfo() and the others.
Seen(u) ==
  <<u.scheme, u.host, u.port, u.hasUsername, u.username, u.hasPassword, u.password, Userinfo(u, "percent"),
    u.path, QueryText(u, "percent"), u.hasQuery, u.fragment, u.hasFragment>>

\* What the writer does not keep: it writes both parts of the userinfo, with the colon, as
\* soon as one of them is not empty, and none if both are, whichever were set; a path that
\* does not begin with a slash gets one; and no path is the same as one empty element,
\* whose count comes back as one in front of a query or a fragment, or else as zero.
AsWritten(u) ==
  LET named == u.username # <<>> \/ u.password # <<>>
      empty == IF u.hasQuery \/ u.hasFragment THEN <<<<>>>> ELSE <<>>
  IN  [u EXCEPT !.hasUsername = named, !.hasPassword = named,
                !.path = CASE @ \in {<<>>, <<<<>>>>} -> empty
                           [] @ # <<>> /\ @[1] # <<>> -> <<<<>>>> \o @
                           [] OTHER -> @]

\* Pairs in a text that is taken apart before it is decoded, as a form is.
FormPairs(text) ==
  LET nibbles == Decimals \cup {"A", "D", "F"}
      Pair(s) == <<PercentDecoded(Before(s, FindAny(s, {"="})), "percent", nibbles),
                   PercentDecoded(From(s, FindAny(s, {"="}) + 1), "percent", nibbles)>>
  IN  {Pair(s) : s \in Range(Split(text, "&"))}

\* A host that is a name: Valid also accepts "@", or "x:".
HasName(u) == Range(u.host) \subseteq Decimals \cup {"x", "."}

(* A valid URL, whatever calls or text it came from, is written as a text from which *)
(* a URL is read that shows the application the same in every part: nothing in a     *)
(* name, a password, a path, a query or a fragment is taken for a delimiter          *)
(* (to_string, from_string, the delimiters each part may hold).  Two things are not  *)
(* kept (AsWritten): which parts of the userinfo were set, so that a name alone comes*)
(* back with an empty password, and an empty name not at all, although has_username()*)
(* and get_userinfo() tell them apart; and that a path had no slash or no element.   *)
(* Where ChangesWhenRead, the parts themselves are different.                        *)
UrlsReadBack ==
  Valid(url) /\ HasName(url) /\ ~ChangesWhenRead(url) =>
    Seen(FromString(UrlText(url, "percent"), "percent")) = Seen(AsWritten(url))

(* What the application set in the query, key by key, is what a server finds there:  *)
(* each key once, with the value that was set last, whatever characters they hold    *)
(* (set_queries, set_query, append_query).                                           *)
QueriesReadBack ==
  DOMAIN queries # {} =>
    FormPairs(QueryText(url, "percent")) = {<<key, queries[key]>> : key \in DOMAIN queries}

(* A URL's text says what its parts say.                                             *)
UrlTextsAgree == UrlsReadBack /\ QueriesReadBack

=============================================================================
