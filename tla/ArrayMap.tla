------------------------------ MODULE ArrayMap ------------------------------
(***************************************************************************)
(* What a sparse array is: a partial function from keys to values.  Storing*)
(* nothing under a key shifts nothing; erasing closes the gap.  A key that *)
(* is touched holds Value() only behind a key that is stored: elsewhere it *)
(* gets the element a new vector begins with, which is 1 for numbers.      *)
(***************************************************************************)
EXTENDS Integers, FiniteSets

CONSTANTS MinKey, MaxKey, Values, Default, NewChunkValue

VARIABLE elements

Keys == MinKey..MaxKey

Empty == [k \in {} |-> Default]

\* One past the greatest key, zero for an empty array.
SpanEnd == IF DOMAIN elements = {} THEN 0
           ELSE (CHOOSE k \in DOMAIN elements : \A other \in DOMAIN elements : other <= k) + 1

Put(k, v) == [i \in DOMAIN elements \cup {k} |-> IF i = k THEN v ELSE elements[i]]
Forget(range) == [i \in DOMAIN elements \ range |-> elements[i]]

Init == elements = Empty

Store(k, v) == elements' = Put(k, v)

Made(k) == IF k - 1 \in DOMAIN elements THEN Default ELSE NewChunkValue
Touch(k) == elements' = IF k \in DOMAIN elements THEN elements ELSE Put(k, Made(k))

Push(v) == SpanEnd \in Keys /\ elements' = Put(SpanEnd, v)
Unstore(first, last) == elements' = Forget(first..(last - 1))

\* The keys from last on move down to first.
Erase(first, last) ==
  LET Old(k) == IF k < first THEN k ELSE k + (last - first)
      left == DOMAIN elements \ (first..(last - 1))
  IN  elements' = [k \in {i \in MinKey..MaxKey : Old(i) \in left} |-> elements[Old(k)]]

Clear == elements' = Empty

Next == \/ \E k \in Keys, v \in Values : Store(k, v)
        \/ \E k \in Keys : Touch(k)
        \/ \E v \in Values : Push(v)
        \/ \E first, last \in MinKey..(MaxKey + 1) :
             first < last /\ (Unstore(first, last) \/ Erase(first, last))
        \/ Clear

Spec == Init /\ [][Next]_elements

=============================================================================
