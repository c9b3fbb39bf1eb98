-------------------------------- MODULE Utf --------------------------------
(***************************************************************************)
(* Code points and their encodings (containers/utf.h).  A text is a        *)
(* sequence of code units, numbers below 2^8, 2^16 or 2^32; a decoder that *)
(* reads from a position returns the position it stopped at and the code   *)
(* point, or Error.                                                        *)
(***************************************************************************)
EXTENDS Integers, SequencesExt, FiniteSetsExt

Max32 == 1114111          \* utf_max, U+10FFFF
Error == -1               \* utf_error, which is no code point

HiSurrogates == 55296..56319
LoSurrogates == 56320..57343
IsSurrogate(n) == n \in HiSurrogates \/ n \in LoSurrogates

\* unicode(codepoint): the last code point counts as too large.
Unicode(n) == IF 0 <= n /\ n < Max32 /\ ~IsSurrogate(n) THEN n ELSE Error

\* unicode(hi, lo).
FromSurrogates(hi, lo) ==
  IF hi \in HiSurrogates /\ lo \in LoSurrogates THEN (hi % 1024) * 1024 + (lo % 1024) + 65536
  ELSE Error

IsValid(c) == c # Error

Utf8Size(c) == CASE c = Error -> 0
                 [] c \in 0..127 -> 1
                 [] c \in 128..2047 -> 2
                 [] c \in 2048..65535 -> 3
                 [] OTHER -> 4

\* The continuation byte with the six bits from a position on.
Continuation(c, shift) == 128 + ((c \div shift) % 64)

Utf8Encode(c) ==
  CASE Utf8Size(c) = 0 -> <<>>
    [] Utf8Size(c) = 1 -> <<c>>
    [] Utf8Size(c) = 2 -> <<192 + c \div 64, Continuation(c, 1)>>
    [] Utf8Size(c) = 3 -> <<224 + c \div 4096, Continuation(c, 64), Continuation(c, 1)>>
    [] Utf8Size(c) = 4 -> <<240 + c \div 262144, Continuation(c, 4096), Continuation(c, 64),
                            Continuation(c, 1)>>

\* utf16_surrogates() and utf16_encode(): two equal units are one.
Utf16Encode(c) ==
  CASE c = Error -> <<>>
    [] c > 65535 -> <<55296 + (c - 65536) \div 1024, 56320 + ((c - 65536) % 1024)>>
    [] OTHER -> <<c>>

Utf32Encode(c) == IF c = Error THEN <<>> ELSE <<c>>

Encode(width, c) == CASE width = 8 -> Utf8Encode(c)
                      [] width = 16 -> Utf16Encode(c)
                      [] width = 32 -> Utf32Encode(c)

-----------------------------------------------------------------------------
(* Decoding.                                                               *)

Next1(at, c) == [at |-> at, c |-> c]

\* How many bytes a code has that starts with this one; 0 if none does.
ByteCount(b) == CASE b \in 0..127 -> 1
                  [] b \in 192..223 -> 2
                  [] b \in 224..239 -> 3
                  [] b \in 240..247 -> 4
                  [] OTHER -> 0

\* The code point, if it takes as many bytes as were read.
OfSize(c, n) == IF Utf8Size(Unicode(c)) = n THEN Unicode(c) ELSE Error

\* A byte that starts nothing is not consumed; a code that is cut off or broken is
\* consumed as far as it goes.
Utf8Next(s, i) ==
  LET n == ByteCount(s[i])
      broken == {k \in 1..(n - 1) : i + k > Len(s) \/ s[Min({i + k, Len(s)})] \div 64 # 2}
      mask == CASE n = 2 -> 32 [] n = 3 -> 16 [] OTHER -> 8
      c == FoldLeft(LAMBDA acc, b : acc * 64 + (b % 64), s[i] % mask, SubSeq(s, i + 1, i + n - 1))
  IN  CASE n = 0 -> Next1(i, Error)
        [] n = 1 -> Next1(i + 1, s[i])
        [] n > 1 /\ broken # {} -> Next1(i + Min(broken), Error)
        [] OTHER -> Next1(i + n, OfSize(c, n))

\* What follows a high surrogate is only consumed if it is a low one.
Utf16Next(s, i) ==
  CASE s[i] \notin HiSurrogates -> Next1(i + 1, Unicode(s[i]))
    [] s[i] \in HiSurrogates /\ i = Len(s) -> Next1(i + 1, Error)
    [] OTHER -> LET c == FromSurrogates(s[i], s[i + 1])
                IN  IF IsValid(c) THEN Next1(i + 2, c) ELSE Next1(i + 1, Error)

Utf32Next(s, i) == Next1(i + 1, Unicode(s[i]))

NextCharacter(width, s, i) == CASE width = 8 -> Utf8Next(s, i)
                                [] width = 16 -> Utf16Next(s, i)
                                [] width = 32 -> Utf32Next(s, i)

\* utf_decode_range(): up to the first character that is not valid.
RECURSIVE DecodeFrom(_, _, _, _)
DecodeFrom(width, s, i, characters) ==
  IF i > Len(s) THEN [ok |-> TRUE, at |-> i, characters |-> characters]
  ELSE LET next == NextCharacter(width, s, i)
       IN  IF IsValid(next.c) THEN DecodeFrom(width, s, next.at, Append(characters, next.c))
           ELSE [ok |-> FALSE, at |-> next.at, characters |-> characters]

Decode(width, s) == DecodeFrom(width, s, 1, <<>>)

\* utf_transcode() writes what it could decode.
Transcode(from, to, s) ==
  LET d == Decode(from, s)
  IN  [ok |-> d.ok, at |-> d.at,
       text |-> FlattenSeq([k \in DOMAIN d.characters |-> Encode(to, d.characters[k])])]

=============================================================================
