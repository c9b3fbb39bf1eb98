------------------------------- MODULE Base64 -------------------------------
(***************************************************************************)
(* Base64 (io/adapters/base64.h).  A byte is a number, a symbol of a text a*)
(* number below 64 that stands for the character of the alphabet with this *)
(* index; 64 is the padding character, 127 a character of no alphabet.     *)
(* Which characters an alphabet has is left out.                           *)
(***************************************************************************)
EXTENDS Integers, SequencesExt, FiniteSetsExt

Padding == 64
NoSymbol == 127

\* base64_encode_iterator: the bytes that do not make a group yet.
Group(bytes) == LET state == bytes[1] * 65536 + bytes[2] * 256 + bytes[3]
                IN  <<state \div 262144, (state \div 4096) % 64, (state \div 64) % 64, state % 64>>

\* operator=: the encoder's bytes and its text after one more byte.
PutByte(e, byte) ==
  IF Len(e.state) = 2 THEN [state |-> <<>>, text |-> e.text \o Group(Append(e.state, byte))]
  ELSE [e EXCEPT !.state = Append(@, byte)]

Finish(e) ==
  LET n == Len(e.state)
      group == Group(e.state \o [i \in 1..(3 - n) |-> 0])
  IN  IF n = 0 THEN e
      ELSE [state |-> <<>>,
            text |-> e.text \o SubSeq(group, 1, n + 1) \o [i \in 1..(3 - n) |-> Padding]]

Bytes(symbols) ==
  LET s == [i \in 1..4 |-> IF i <= Len(symbols) THEN symbols[i] % 64 ELSE 0]
      state == s[1] * 262144 + s[2] * 4096 + s[3] * 64 + s[4]
  IN  <<state \div 65536, (state \div 256) % 256, state % 256>>

Decoded(ok, at, bytes) == [ok |-> ok, at |-> at, bytes |-> bytes]

\* base64_decode() from position i on, with a group of symbols not complete yet.
\* Padding counts as zeros; the zeros are part of what is decoded.
RECURSIVE Base64DecodeFrom(_, _, _, _, _)
Base64DecodeFrom(s, i, group, padded, bytes) ==
  CASE i > Len(s) -> Decoded(TRUE, i, IF group = <<>> THEN bytes ELSE bytes \o Bytes(group))
    [] i <= Len(s) /\ s[Min({i, Len(s)})] = NoSymbol -> Decoded(FALSE, i, bytes)
    [] i <= Len(s) /\ padded /\ s[Min({i, Len(s)})] < Padding -> Decoded(group = <<>>, i, bytes)
    [] OTHER ->
         LET more == Append(group, s[i])
             reached == padded \/ s[i] = Padding
         IN  IF Len(more) = 4 THEN Base64DecodeFrom(s, i + 1, <<>>, reached, bytes \o Bytes(more))
             ELSE Base64DecodeFrom(s, i + 1, more, reached, bytes)

Base64Decode(s, i) == Base64DecodeFrom(s, i, <<>>, FALSE, <<>>)

=============================================================================
