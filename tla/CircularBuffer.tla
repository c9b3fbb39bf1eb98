--------------------------- MODULE CircularBuffer ---------------------------
(***************************************************************************)
(* The operations of io_buffer<T> (io/buffer.h), as operators on a record  *)
(*                                                                         *)
(*   data    the std::vector<T>, slot k of the code being data[k + 1]      *)
(*   first   buffer_first_element, the (0-based) slot of the oldest element*)
(*   size    buffer_size, the number of live elements                      *)
(*   limit   buffer_limit, 0 for "unlimited"                               *)
(*   closed  the close-signalling flag                                     *)
(*                                                                         *)
(* An operator whose outcome depends on how much storage the vector has    *)
(* allocated returns the SET of the buffers the operation may leave behind.*)
(***************************************************************************)
EXTENDS Integers, Sequences

CONSTANTS Moved,      \* what a slot holds once its element was moved out
          VectorMax,  \* data.max_size(), the bound of an unlimited buffer
          ShrinkAbove \* storage an empty unlimited buffer may keep (1000000)

ASSUME BufferAssumption == /\ VectorMax \in Nat \ {0}
                           /\ ShrinkAbove \in Nat

-----------------------------------------------------------------------------
(* The accessors.                                                          *)

Capacity(b) == Len(b.data)

MaxSize(b) == IF b.limit # 0 THEN b.limit ELSE VectorMax

\* The maximum may have been lowered below the current size.
FreeSpace(b) == IF MaxSize(b) < b.size THEN 0 ELSE MaxSize(b) - b.size

\* The slot of the i-th live element, counting from 0.
Slot(b, i) == (b.first + i) % Capacity(b)

\* The live elements, oldest first.
Contents(b) == [i \in 1..b.size |-> b.data[Slot(b, i - 1) + 1]]

EmptyBuffer(lim) ==
  [data |-> <<>>, first |-> 0, size |-> 0, limit |-> lim, closed |-> FALSE]

-----------------------------------------------------------------------------
(* Writing.                                                                *)

\* Mutant: an aligned vector keeps the moved-from elements behind the live ones.
AlignedWithTail(s, f, n) ==
  LET contiguous == Len(s) - f
  IN  IF f = 0 THEN s
      ELSE IF contiguous >= n THEN SubSeq(s, f + 1, f + n)
      ELSE SubSeq(s, 1, n - contiguous) \o SubSeq(s, f + 1, Len(s))

\* Mutant: the part that wrapped around is forgotten.
AlignedWithoutWrapped(s, f, n) ==
  SubSeq(s, f + 1, IF f + n < Len(s) THEN f + n ELSE Len(s))

\* The vector align() builds from s, where n live elements start in slot f.
\* The elements that wrapped around are inserted at copy.begin(), in front of
\* the others.
Aligned(s, f, n) ==
  LET contiguous == Len(s) - f
  IN  IF f = 0 THEN SubSeq(s, 1, n)
      ELSE IF contiguous >= n THEN SubSeq(s, f + 1, f + n)
      ELSE SubSeq(s, 1, n - contiguous) \o SubSeq(s, f + 1, Len(s))

Align(b) == [b EXCEPT !.first = 0, !.data = Aligned(@, b.first, b.size)]

\* Mutant: the closed flag is not looked at.
AcceptsClosed(b, s) == s = <<>> \/ Len(s) <= FreeSpace(b)

\* write(v) and the two batch writes refuse unless everything fits.
Accepts(b, s) == s = <<>> \/ (Len(s) <= FreeSpace(b) /\ ~b.closed)

\* Use the spare slots behind the live elements.
Fill(b, s) ==
  LET distance(k) == (k - 1 - b.first + Capacity(b)) % Capacity(b)
  IN  [b EXCEPT !.size = @ + Len(s),
                !.data = [k \in 1..Capacity(b) |->
                            IF distance(k) \in b.size..(b.size + Len(s) - 1)
                            THEN s[distance(k) - b.size + 1]
                            ELSE b.data[k]]]

\* Mutant: the new elements are inserted at the beginning.
GrowInFront(b, s) ==
  LET a == Align(b)
  IN  [a EXCEPT !.data = s \o @, !.size = @ + Len(s)]

\* Align, then append behind the last slot.
Grow(b, s) ==
  LET a == Align(b)
  IN  [a EXCEPT !.data = @ \o s, !.size = @ + Len(s)]

\* The buffer after writing s, which it accepts.
Written(b, s) ==
  IF s = <<>> THEN b
  ELSE IF Capacity(b) - b.size < Len(s) THEN Grow(b, s)
  ELSE Fill(b, s)

-----------------------------------------------------------------------------
(* Reading.                                                                *)

\* do_empty_shrink(): the vector is dropped when it has allocated more than
\* the limit.  The allocation is at least Capacity(b), and may be more.
Shrunk(b) ==
  LET most == IF b.limit # 0 THEN b.limit ELSE ShrinkAbove
  IN  {[b EXCEPT !.first = 0, !.data = <<>>]}
      \cup (IF Capacity(b) <= most THEN {[b EXCEPT !.first = 0]} ELSE {})

\* Move n elements out of the front of the buffer.
MovedOut(b, n) ==
  LET distance(k) == (k - 1 - b.first + Capacity(b)) % Capacity(b)
  IN  [b EXCEPT !.data = [k \in 1..Capacity(b) |->
                            IF distance(k) < n THEN Moved ELSE b.data[k]]]

\* read(max, p) with n the number of elements asked for (n <= size) and c the
\* number the predicate consumed: the size shrinks by n, not by c.
Consumed(b, n, c) ==
  LET r == [MovedOut(b, c) EXCEPT !.first = (@ + c) % Capacity(b),
                                  !.size = @ - n]
  IN  IF n = 0 THEN {b}
      ELSE IF r.size = 0 THEN Shrunk(r)
      ELSE {r}

\* read() and read(element) of a single element, if there is one.
TakenOne(b) == IF b.size = 0 THEN {b} ELSE Consumed(b, 1, 1)

\* read_all_swap(): hand the whole vector over, when it is already aligned.
Swapped(b) == IF b.first = 0
              THEN {[b EXCEPT !.data = <<>>, !.size = 0]}
              ELSE Consumed(b, b.size, b.size)

Cleared(b) == Shrunk([b EXCEPT !.size = 0])

-----------------------------------------------------------------------------
\* The buffers of values V with a limit among L.
Buffers(V, L) == [data : Seq(V), first : Nat, size : Nat, limit : L,
                  closed : BOOLEAN]

\* What every index computation relies on: the live elements fit the vector
\* and start inside it, and an empty buffer starts over at slot 0.
Geometry(b) == /\ b.size <= Capacity(b)
               /\ b.size > 0 => b.first < Capacity(b)
               /\ b.size = 0 => b.first = 0

=============================================================================
