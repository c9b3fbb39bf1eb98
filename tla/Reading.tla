------------------------------ MODULE Reading ------------------------------
(***************************************************************************)
(* The single-pass readers the format adapters are built from              *)
(* (io/adapters/core.h).  A text is a sequence of symbols; a reader takes  *)
(* the text and the position it starts at and returns whether it succeeded,*)
(* the position it stopped at and what it read.  Nothing is ever put back. *)
(***************************************************************************)
EXTENDS Integers, SequencesExt, FiniteSetsExt, TLC

CONSTANTS MinInt, MaxInt, MaxUint,   \* bounds of int64_t and uint64_t, scaled down
          SignificandBits, MaxShift  \* of double, scaled down with them

ASSUME IntAssumption == /\ MinInt \in Int /\ MaxInt \in Nat /\ MaxUint \in Nat
                        /\ MinInt < 0 /\ MaxInt <= MaxUint
                        /\ SignificandBits \in Nat \ {0} /\ MaxShift \in Nat

Read(at, value) == [ok |-> TRUE, at |-> at, value |-> value]
Failed(at) == [ok |-> FALSE, at |-> at, value |-> 0]

AtEnd(s, i) == i > Len(s)

\* The first position from i on that has none of these symbols.
SpanEnd(s, i, symbols) == Min({j \in i..Len(s) : s[j] \notin symbols} \cup {Max({i, Len(s) + 1})})

SkipWhitespace(s, i) == SpanEnd(s, i, {" ", "LF"})

StartsWith(s, i, c) == IF ~AtEnd(s, i) /\ s[i] = c THEN Read(i + 1, c) ELSE Failed(i)

\* A word matches when the text ends before it does.
StartsWithWord(s, i, word) ==
  LET n == Min({Len(word), Len(s) - i + 1})
      wrong == {k \in 1..n : s[i + k - 1] # word[k]}
  IN  IF wrong = {} THEN Read(i + n, word) ELSE Failed(i + Min(wrong) - 1)

-----------------------------------------------------------------------------
(* Numbers.                                                                *)

Digits == [d \in {"0", "1", "2", "3", "4", "5", "6", "7", "8", "9"} |->
             CHOOSE n \in 0..9 : ToString(n) = d]

IsDigit(c) == c \in DOMAIN Digits

\* Division as C does it.
Quotient(a, b) == IF a < 0 THEN -((-a) \div b) ELSE a \div b

RangeError == [value |-> 0, range |-> TRUE]

\* One more digit; both steps are checked before they are made.
AddDigit(t, d, max) ==
  IF t.range \/ t.value > Quotient(max, 10) \/ t.value * 10 > max - d THEN RangeError
  ELSE [value |-> t.value * 10 + d, range |-> FALSE]

SubtractDigit(t, d, min) ==
  IF t.range \/ t.value < Quotient(min, 10) \/ t.value * 10 < min + d THEN RangeError
  ELSE [value |-> t.value * 10 - d, range |-> FALSE]

\* int_decode(), in base 10: negative numbers grow towards the lower bound.  A
\* number out of range is read to its end all the same.
IntDecode(s, i, min, max) ==
  LET negative == min < 0 /\ ~AtEnd(s, i) /\ s[i] = "-"
      first == IF negative THEN i + 1 ELSE i
      last == SpanEnd(s, first, DOMAIN Digits)
      zero == [value |-> 0, range |-> FALSE]
      t == FoldLeft(LAMBDA acc, c : IF negative THEN SubtractDigit(acc, Digits[c], min)
                                    ELSE AddDigit(acc, Digits[c], max),
                    zero, SubSeq(s, first, last - 1))
  IN  IF last = first \/ t.range THEN Failed(last) ELSE Read(last, t.value)

\* A double is counted in halves, the smallest one there is: SignificandBits binary
\* digits, shifted by up to MaxShift.  The first number that is too large stands for
\* infinity.
Infinity == 2 ^ (SignificandBits + MaxShift)

\* a / b rounded to an integer, to the even one of two that are as near.
Rounded(a, b) ==
  LET q == a \div b
      r == a % b
  IN  IF 2 * r > b \/ (2 * r = b /\ q % 2 = 1) THEN q + 1 ELSE q

\* strtod(): the double nearest to num / den, in halves; num is no less than 0.
Nearest(num, den) ==
  LET shift == Min({k \in 0..MaxShift : 2 * num < den * 2 ^ (SignificandBits + k)} \cup {MaxShift})
  IN  Min({Infinity, 2 ^ shift * Rounded(2 * num, den * 2 ^ shift)})

NumberOf(digits) == FoldLeft(LAMBDA n, c : 10 * n + Digits[c], 0, digits)

\* What the digits of a number say, as a fraction.
Ratio(whole, fraction, down, exponent) ==
  LET n == NumberOf(whole \o fraction)
      power == 10 ^ NumberOf(exponent)
  IN  IF down THEN [num |-> n, den |-> 10 ^ Len(fraction) * power]
      ELSE [num |-> n * power, den |-> 10 ^ Len(fraction)]

\* fp_decode().  A point or an exponent's letter at the very end is dropped.  The
\* ratio is what the text says, the value what it is rounded to.
FpDecode(s, i) ==
  LET negative == ~AtEnd(s, i) /\ s[i] = "-"
      start == IF negative THEN i + 1 ELSE i
      whole == SpanEnd(s, start, DOMAIN Digits)
      pointed == ~AtEnd(s, whole) /\ s[whole] = "."
      fraction == IF pointed THEN SpanEnd(s, whole + 1, DOMAIN Digits) ELSE whole
      lettered == ~AtEnd(s, fraction) /\ s[fraction] = "e"
      signed == lettered /\ ~AtEnd(s, fraction + 1) /\ s[fraction + 1] \in {"+", "-"}
      power == IF signed THEN fraction + 2 ELSE fraction + 1
      last == IF lettered THEN SpanEnd(s, power, DOMAIN Digits) ELSE fraction
      cutOff == lettered /\ AtEnd(s, fraction + 1)
      ratio == Ratio(SubSeq(s, start, whole - 1), SubSeq(s, whole + 1, fraction - 1),
                     signed /\ s[fraction + 1] = "-",
                     IF lettered THEN SubSeq(s, power, last - 1) ELSE <<>>)
      sign == IF negative THEN -1 ELSE 1
      \* what strtod() is given has no digits
      empty == whole = start /\ (pointed => fraction = whole + 1)
  IN  IF AtEnd(s, start) \/ (~IsDigit(s[start]) /\ s[start] # ".") THEN Failed(start)
      ELSE IF lettered /\ last = power /\ ~cutOff THEN Failed(power)
      ELSE IF empty /\ (negative \/ lettered \/ ~AtEnd(s, whole + 1)) THEN Failed(last)
      ELSE Read(last, sign * Nearest(ratio.num, ratio.den))
             @@ [ratio |-> [ratio EXCEPT !.num = sign * @]]

IntEncode(n) == LET text[k \in Nat] == IF k < 10 THEN <<ToString(k)>>
                                       ELSE Append(text[k \div 10], ToString(k % 10))
                IN  IF n < 0 THEN <<"-">> \o text[-n] ELSE text[n]

\* fp_encode() of a finite number: no point when there is no fraction.
FpEncode(halves) ==
  LET size == IF halves < 0 THEN -halves ELSE halves
  IN  (IF halves < 0 THEN <<"-">> ELSE <<>>) \o IntEncode(size \div 2)
      \o (IF size % 2 = 1 THEN <<".", "5">> ELSE <<>>)

=============================================================================
