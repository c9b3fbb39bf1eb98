------------------------ MODULE CircularBufferProofs ------------------------
(***************************************************************************)
(* What the operations on the circular buffer preserve and bound, for      *)
(* every buffer, and induction over numbers: the lemmas that the theorems  *)
(* about its users and about the other containers rest on.                 *)
(***************************************************************************)
EXTENDS CircularBuffer, SequenceTheorems, WellFoundedInduction, TLAPS

\* Two sequences behind each other.
LEMMA ConcatParts ==
  ASSUME NEW S, NEW u \in Seq(S), NEW v \in Seq(S)
  PROVE  /\ u \o v \in Seq(S) /\ Len(u \o v) = Len(u) + Len(v)
         /\ \A k \in 1..(Len(u) + Len(v)) :
              (u \o v)[k] = IF k <= Len(u) THEN u[k] ELSE v[k - Len(u)]
  OBVIOUS

\* The slot align() takes its k-th element from: the elements that wrapped
\* around come first.
AlignedFrom(c, f, n, k) ==
  IF f = 0 THEN k
  ELSE IF c - f >= n THEN f + k
  ELSE IF k <= n - (c - f) THEN k ELSE f + (k - (n - (c - f)))

LEMMA AlignedSlots ==
  ASSUME NEW V, NEW s \in Seq(V), NEW f \in Nat, NEW n \in Nat,
         n <= Len(s), f < Len(s) \/ f = 0
  PROVE  /\ Aligned(s, f, n) \in Seq(V) /\ Len(Aligned(s, f, n)) = n
         /\ \A k \in 1..n : Aligned(s, f, n)[k] = s[AlignedFrom(Len(s), f, n, k)]
<1> DEFINE c == Len(s)
           a == Aligned(s, f, n)
<1>1. c \in Nat /\ n <= c /\ (f < c \/ f = 0)
  OBVIOUS
<1>2. CASE f = 0
  <2>1. a = SubSeq(s, 1, n)
    BY <1>2 DEF Aligned
  <2> QED BY <1>2, <2>1 DEF AlignedFrom
<1>3. CASE f # 0 /\ c - f >= n
  <2>1. a = SubSeq(s, f + 1, f + n)
    BY <1>3 DEF Aligned
  <2>2. f + n <= Len(s)
    BY <1>3
  <2>3. /\ SubSeq(s, f + 1, f + n) \in Seq(V)
        /\ Len(SubSeq(s, f + 1, f + n)) = n
        /\ \A k \in 1..n : SubSeq(s, f + 1, f + n)[k] = s[f + k]
    BY <2>2
  <2> HIDE DEF a
  <2>4. \A k \in 1..n : AlignedFrom(c, f, n, k) = f + k
    BY <1>3 DEF AlignedFrom
  <2> QED BY <2>1, <2>3, <2>4 DEF a
<1>4. CASE f # 0 /\ c - f < n
  <2> DEFINE m == n - (c - f)
             wrapped == SubSeq(s, 1, m)
             rest == SubSeq(s, f + 1, c)
  <2>1. ~(Len(s) - f >= n)
    BY <1>1, <1>4
  <2>2. a = wrapped \o rest
    BY <1>4, <2>1 DEF Aligned
  <2>3. m \in Nat /\ m <= c /\ m + (c - f) = n
    BY <1>1, <1>4
  <2>4. \A k : AlignedFrom(c, f, n, k) = IF k <= m THEN k ELSE f + (k - m)
    BY <1>4, <2>1 DEF AlignedFrom
  <2> HIDE DEF m
  <2>5. wrapped \in Seq(V) /\ Len(wrapped) = m /\ \A k \in 1..m : wrapped[k] = s[k]
    BY <2>3
  <2>6. /\ rest \in Seq(V) /\ Len(rest) = c - f
        /\ \A k \in 1..(c - f) : rest[k] = s[f + k]
    BY <1>4
  <2> HIDE DEF a, wrapped, rest
  <2>7. /\ a \in Seq(V) /\ Len(a) = Len(wrapped) + Len(rest)
        /\ \A k \in 1..(Len(wrapped) + Len(rest)) :
             a[k] = IF k <= Len(wrapped) THEN wrapped[k] ELSE rest[k - Len(wrapped)]
    BY <2>2, <2>5, <2>6, ConcatParts
  <2> HIDE DEF c
  <2>8. ASSUME NEW k \in 1..n
        PROVE  a[k] = s[AlignedFrom(c, f, n, k)]
    <3>1. CASE k <= m
      <4>1. k \in 1..m
        BY <2>3, <3>1
      <4> QED BY <2>3, <2>4, <2>5, <2>6, <2>7, <3>1, <4>1
    <3>2. CASE ~(k <= m)
      <4>1. k - m \in 1..(c - f)
        BY <1>1, <2>3, <3>2
      <4> QED BY <2>3, <2>4, <2>5, <2>6, <2>7, <3>2, <4>1
    <3> QED BY <3>1, <3>2
  <2> QED BY <2>3, <2>5, <2>6, <2>7, <2>8 DEF a, c
<1> QED BY <1>1, <1>2, <1>3, <1>4

\* The n elements of a come from the slots of s from f on, and none of these
\* slots is left out.
ComesFrom(a, s, f, n) ==
  /\ Len(a) = n
  /\ \A k \in 1..n : \E i \in 0..(n - 1) : a[k] = s[((f + i) % Len(s)) + 1]
  /\ \A i \in 0..(n - 1) : \E k \in 1..n : a[k] = s[((f + i) % Len(s)) + 1]

\* Where the slot of the i-th live element goes, and back.
LEMMA AlignedBothWays ==
  ASSUME NEW c \in Nat, NEW f \in Nat, NEW n \in Nat, n <= c, f < c \/ f = 0
  PROVE  /\ \A k \in 1..n : \E i \in 0..(n - 1) :
              AlignedFrom(c, f, n, k) = ((f + i) % c) + 1
         /\ \A i \in 0..(n - 1) : \E k \in 1..n :
              AlignedFrom(c, f, n, k) = ((f + i) % c) + 1
<1> DEFINE m == n - (c - f)
           Pair(k, i) == /\ k \in 1..n /\ i \in 0..(n - 1)
                         /\ AlignedFrom(c, f, n, k) = ((f + i) % c) + 1
<1>1. CASE f = 0 \/ c - f >= n
  <2>1. ASSUME NEW k \in 1..n
        PROVE  Pair(k, k - 1)
    <3>1. (f + (k - 1)) % c = f + (k - 1)
      BY <1>1
    <3>2. AlignedFrom(c, f, n, k) = f + k
      BY <1>1 DEF AlignedFrom
    <3> QED BY <3>1, <3>2
  <2>2. \A i \in 0..(n - 1) : i + 1 \in 1..n /\ (i + 1) - 1 = i
    OBVIOUS
  <2> HIDE DEF Pair
  <2>3. \A i \in 0..(n - 1) : Pair(i + 1, i)
    BY <2>1, <2>2
  <2> QED BY <2>1, <2>3 DEF Pair
<1>2. CASE ~(f = 0 \/ c - f >= n)
  <2>1. m \in Nat /\ m <= c /\ m + (c - f) = n /\ f < c /\ m < f + 1
    BY <1>2
  <2>2. \A k : AlignedFrom(c, f, n, k) = IF k <= m THEN k ELSE f + (k - m)
    BY <1>2 DEF AlignedFrom
  <2> HIDE DEF m
  <2>3. ASSUME NEW k \in 1..n, k <= m
        PROVE  Pair(k, (c - f) + k - 1)
    <3>1. (f + ((c - f) + k - 1)) % c = k - 1
      BY <2>1, <2>3
    <3> QED BY <2>1, <2>2, <2>3, <3>1
  <2>4. ASSUME NEW k \in 1..n, ~(k <= m)
        PROVE  Pair(k, (k - m) - 1)
    <3>1. (f + ((k - m) - 1)) % c = f + ((k - m) - 1)
      BY <2>1, <2>4
    <3> QED BY <2>1, <2>2, <2>4, <3>1
  <2>5. ASSUME NEW i \in 0..(n - 1), f + i < c
        PROVE  Pair(m + i + 1, i)
    <3> DEFINE k == m + i + 1
    <3>1. k \in 1..n /\ ~(k <= m) /\ (k - m) - 1 = i
      BY <2>1, <2>5
    <3> HIDE DEF k, Pair
    <3>2. Pair(k, i)
      BY <2>4, <3>1
    <3> QED BY <3>2 DEF k
  <2>6. ASSUME NEW i \in 0..(n - 1), ~(f + i < c)
        PROVE  Pair(f + i - c + 1, i)
    <3> DEFINE k == f + i - c + 1
    <3>1. k \in 1..n /\ k <= m /\ (c - f) + k - 1 = i
      BY <2>1, <2>6
    <3> HIDE DEF k, Pair
    <3>2. Pair(k, i)
      BY <2>3, <3>1
    <3> QED BY <3>2 DEF k
  <2> HIDE DEF Pair
  <2>7. \A k \in 1..n : \E i : Pair(k, i)
    BY <2>3, <2>4
  <2>8. \A i \in 0..(n - 1) : \E k : Pair(k, i)
    BY <2>5, <2>6
  <2> QED BY <2>7, <2>8 DEF Pair
<1> QED BY <1>1, <1>2

\* What align() does to a vector: n elements are left, those of the slots that
\* were live.
LEMMA AlignedData ==
  ASSUME NEW V, NEW s \in Seq(V), NEW f \in Nat, NEW n \in Nat,
         n <= Len(s), f < Len(s) \/ f = 0
  PROVE  Aligned(s, f, n) \in Seq(V) /\ ComesFrom(Aligned(s, f, n), s, f, n)
<1> DEFINE a == Aligned(s, f, n)
<1>1. /\ a \in Seq(V) /\ Len(a) = n
      /\ \A k \in 1..n : a[k] = s[AlignedFrom(Len(s), f, n, k)]
  BY AlignedSlots
<1>2. Len(s) \in Nat
  OBVIOUS
<1>3. /\ \A k \in 1..n : \E i \in 0..(n - 1) :
           AlignedFrom(Len(s), f, n, k) = ((f + i) % Len(s)) + 1
      /\ \A i \in 0..(n - 1) : \E k \in 1..n :
           AlignedFrom(Len(s), f, n, k) = ((f + i) % Len(s)) + 1
  <2> DEFINE c == Len(s)
  <2> HIDE DEF c
  <2>1. c \in Nat /\ n <= c /\ (f < c \/ f = 0)
    BY <1>2 DEF c
  <2>2. /\ \A k \in 1..n : \E i \in 0..(n - 1) :
             AlignedFrom(c, f, n, k) = ((f + i) % c) + 1
        /\ \A i \in 0..(n - 1) : \E k \in 1..n :
             AlignedFrom(c, f, n, k) = ((f + i) % c) + 1
    BY <2>1, AlignedBothWays
  <2> QED BY <2>2 DEF c
<1> HIDE DEF a
<1> QED BY <1>1, <1>3 DEF ComesFrom, a

\* The i-th live element, counting from 0.
LiveAt(b, i) == b.data[Slot(b, i) + 1]

\* The elements of the live slots all belong to E.
Live(b, E) == \A i \in 0..(b.size - 1) : LiveAt(b, i) \in E

\* What Buffers and Geometry say of the numbers of a buffer.
LEMMA BufferNumbers ==
  ASSUME NEW V, NEW L, NEW b \in Buffers(V, L), Geometry(b)
  PROVE  /\ b.data \in Seq(V) /\ b.first \in Nat /\ b.size \in Nat
         /\ b.limit \in L /\ b.closed \in BOOLEAN
         /\ Len(b.data) \in Nat /\ b.size <= Len(b.data)
         /\ b.first < Len(b.data) \/ b.first = 0
         /\ b.size > 0 => b.first < Len(b.data)
  BY DEF Buffers, Geometry, Capacity

\* align() leaves the live elements and nothing else, from slot 0 on.
LEMMA AlignGeometry ==
  ASSUME NEW V, NEW L, NEW b \in Buffers(V, L), Geometry(b)
  PROVE  /\ Align(b) \in Buffers(V, L)
         /\ Align(b).first = 0 /\ Align(b).size = b.size
         /\ Align(b).limit = b.limit /\ Align(b).closed = b.closed
         /\ Len(Align(b).data) = b.size
         /\ \A E : Live(b, E) => \A k \in 1..b.size : Align(b).data[k] \in E
         /\ \A i \in 0..(b.size - 1) :
              \E k \in 1..b.size : Align(b).data[k] = LiveAt(b, i)
<1> DEFINE d == Aligned(b.data, b.first, b.size)
<1>1. d \in Seq(V) /\ ComesFrom(d, b.data, b.first, b.size)
  <2>1. /\ b.data \in Seq(V) /\ b.first \in Nat /\ b.size \in Nat
        /\ b.size <= Len(b.data) /\ (b.first < Len(b.data) \/ b.first = 0)
    BY BufferNumbers
  <2> QED BY <2>1, AlignedData
<1>2. Align(b) = [b EXCEPT !.first = 0, !.size = b.size, !.data = d]
  BY DEF Align, Buffers
<1> HIDE DEF d
<1>3. /\ Align(b) \in Buffers(V, L)
      /\ Align(b).first = 0 /\ Align(b).size = b.size /\ Align(b).data = d
      /\ Align(b).limit = b.limit /\ Align(b).closed = b.closed
  <2>1. 0 \in Nat /\ b.size \in Nat
    BY BufferNumbers
  <2> QED BY <1>1, <1>2, <2>1 DEF Buffers
<1>4. \A E : Live(b, E) => \A k \in 1..b.size : d[k] \in E
  BY <1>1 DEF ComesFrom, Live, LiveAt, Slot, Capacity
<1>5. /\ Len(d) = b.size
      /\ \A i \in 0..(b.size - 1) : \E k \in 1..b.size : d[k] = LiveAt(b, i)
  BY <1>1 DEF ComesFrom, LiveAt, Slot, Capacity
<1> QED BY <1>3, <1>4, <1>5

\* Using spare slots appends the new elements to the live ones.
LEMMA FillGeometry ==
  ASSUME NEW V, NEW L, NEW b \in Buffers(V, L), Geometry(b),
         NEW s \in Seq(V), s # <<>>, b.size + Len(s) <= Len(b.data)
  PROVE  /\ Fill(b, s) \in Buffers(V, L) /\ Geometry(Fill(b, s))
         /\ Fill(b, s).first = b.first /\ Fill(b, s).size = b.size + Len(s)
         /\ Fill(b, s).limit = b.limit /\ Fill(b, s).closed = b.closed
         /\ Len(Fill(b, s).data) = Len(b.data)
         /\ \A i \in 0..(b.size + Len(s) - 1) :
              LiveAt(Fill(b, s), i) = IF i < b.size THEN LiveAt(b, i)
                                      ELSE s[i - b.size + 1]
<1> DEFINE c == Len(b.data)
           f == b.first
           n == b.size
           m == Len(s)
           distance(k) == (k - 1 - f + c) % c
           d == [k \in 1..c |-> IF distance(k) \in n..(n + m - 1)
                               THEN s[distance(k) - n + 1] ELSE b.data[k]]
           r == Fill(b, s)
<1>1. /\ c \in Nat /\ f \in Nat /\ n \in Nat /\ m \in Nat /\ m > 0
      /\ n + m <= c /\ f < c
  <2>1. m \in Nat /\ m > 0
    BY EmptySeq
  <2> QED BY <2>1, BufferNumbers
<1>2. r = [b EXCEPT !.first = f, !.size = n + m, !.data = d]
  BY DEF Fill, Capacity, Buffers
<1>3. d \in Seq(V) /\ Len(d) = c
  <2>1. ASSUME NEW k \in 1..c
        PROVE  d[k] \in V
    <3>1. CASE distance(k) \in n..(n + m - 1)
      <4>1. d[k] = s[distance(k) - n + 1]
        BY <3>1
      <4>2. distance(k) - n + 1 \in 1..m
        <5> HIDE DEF distance
        <5> QED BY <1>1, <3>1
      <4> HIDE DEF distance, d
      <4> QED BY <4>1, <4>2
    <3>2. CASE distance(k) \notin n..(n + m - 1)
      <4>1. d[k] = b.data[k]
        BY <3>2
      <4>2. b.data[k] \in V
        BY BufferNumbers
      <4> HIDE DEF d
      <4> QED BY <4>1, <4>2
    <3> QED BY <3>1, <3>2
  <2>2. DOMAIN d = 1..c /\ d = [k \in 1..c |-> d[k]]
    OBVIOUS
  <2> HIDE DEF d, c
  <2>3. d \in [1..c -> V]
    BY <2>1, <2>2
  <2> QED BY <1>1, <2>3
<1> HIDE DEF r
<1>4. /\ r \in Buffers(V, L)
      /\ r.first = f /\ r.size = n + m /\ r.data = d
      /\ r.limit = b.limit /\ r.closed = b.closed
  <2> HIDE DEF d
  <2>1. n + m \in Nat
    BY <1>1
  <2> HIDE DEF f, n, m
  <2> QED BY <1>1, <1>2, <1>3, <2>1 DEF Buffers
<1>5. Geometry(r)
  BY <1>1, <1>3, <1>4 DEF Geometry, Capacity
<1>6. ASSUME NEW i \in 0..(n + m - 1)
      PROVE  LiveAt(r, i) = IF i < n THEN LiveAt(b, i) ELSE s[i - n + 1]
  <2> DEFINE k == ((f + i) % c) + 1
  <2>1. k \in 1..c /\ distance(k) = i
    <3> HIDE DEF c, f, n, m
    <3>1. i \in Nat /\ i < c
      BY <1>1
    <3>2. (f + i) % c = IF f + i < c THEN f + i ELSE f + i - c
      BY <1>1, <3>1
    <3> QED BY <1>1, <3>1, <3>2
  <2>2. LiveAt(r, i) = d[k] /\ LiveAt(b, i) = b.data[k]
    BY <1>3, <1>4 DEF LiveAt, Slot, Capacity
  <2> HIDE DEF k, distance
  <2>3. d[k] = IF i \in n..(n + m - 1) THEN s[i - n + 1] ELSE b.data[k]
    BY <2>1
  <2> HIDE DEF d, c, f, n, m
  <2> QED BY <1>1, <2>2, <2>3
<1> QED BY <1>3, <1>4, <1>5, <1>6 DEF r

\* align() keeps the order of live elements that did not wrap around.
LEMMA AlignInOrder ==
  ASSUME NEW V, NEW L, NEW b \in Buffers(V, L), Geometry(b),
         b.first + b.size <= Len(b.data)
  PROVE  \A i \in 0..(b.size - 1) : Align(b).data[i + 1] = LiveAt(b, i)
<1> DEFINE d == Aligned(b.data, b.first, b.size)
           f == b.first
           n == b.size
           c == Len(b.data)
<1>1. /\ b.data \in Seq(V) /\ f \in Nat /\ n \in Nat /\ c \in Nat
      /\ f < c \/ f = 0
  BY BufferNumbers
<1>2. \A k \in 1..n : d[k] = b.data[f + k]
  <2>1. CASE f = 0
    BY <1>1, <2>1 DEF Aligned
  <2>2. CASE f # 0
    <3>1. c - f >= n
      BY <1>1
    <3>2. d = SubSeq(b.data, f + 1, f + n)
      BY <2>2, <3>1 DEF Aligned
    <3> QED BY <1>1, <3>2
  <2> QED BY <2>1, <2>2
<1>3. Align(b).data = d
  BY DEF Align, Buffers
<1>4. ASSUME NEW i \in 0..(n - 1)
      PROVE  Align(b).data[i + 1] = LiveAt(b, i)
  <2>1. LiveAt(b, i) = b.data[((f + i) % c) + 1]
    BY DEF LiveAt, Slot, Capacity
  <2> HIDE DEF d, f, n, c
  <2>2. f + i < c /\ i + 1 \in 1..n
    BY <1>1 DEF f, n, c
  <2>3. (f + i) % c = f + i
    BY <1>1, <2>2
  <2>4. d[i + 1] = b.data[f + (i + 1)]
    BY <1>2, <2>2
  <2>5. f + (i + 1) = (f + i) + 1
    BY <1>1
  <2> QED BY <1>3, <2>1, <2>3, <2>4, <2>5
<1> QED BY <1>4

\* Growing behind the aligned elements: nothing but the live elements and the
\* new ones is left, in order unless the live ones wrapped around.
LEMMA GrowGeometry ==
  ASSUME NEW V, NEW L, NEW b \in Buffers(V, L), Geometry(b),
         NEW s \in Seq(V), s # <<>>
  PROVE  /\ Grow(b, s) \in Buffers(V, L) /\ Geometry(Grow(b, s))
         /\ Grow(b, s).first = 0 /\ Grow(b, s).size = b.size + Len(s)
         /\ Grow(b, s).limit = b.limit /\ Grow(b, s).closed = b.closed
         /\ Len(Grow(b, s).data) = b.size + Len(s)
         /\ \A E : (Live(b, E) /\ s \in Seq(E)) => Live(Grow(b, s), E)
         /\ \A i \in 0..(b.size - 1) :
              \E j \in 0..(b.size - 1) : LiveAt(Grow(b, s), j) = LiveAt(b, i)
         /\ \A k \in 1..Len(s) : LiveAt(Grow(b, s), b.size + k - 1) = s[k]
         /\ b.first + b.size <= Len(b.data) =>
              \A i \in 0..(b.size + Len(s) - 1) :
                LiveAt(Grow(b, s), i) = IF i < b.size THEN LiveAt(b, i)
                                        ELSE s[i - b.size + 1]
<1> DEFINE a == Align(b)
           r == Grow(b, s)
           n == b.size
           m == Len(s)
<1>1. n \in Nat /\ m \in Nat /\ m > 0
  BY BufferNumbers, EmptySeq
<1>2. /\ a \in Buffers(V, L) /\ a.first = 0 /\ a.size = n
      /\ a.limit = b.limit /\ a.closed = b.closed
      /\ a.data \in Seq(V) /\ Len(a.data) = n
  <2>1. /\ a \in Buffers(V, L) /\ a.first = 0 /\ a.size = n
        /\ a.limit = b.limit /\ a.closed = b.closed /\ Len(a.data) = n
    BY AlignGeometry
  <2> QED BY <2>1 DEF Buffers
<1>3. r = [a EXCEPT !.data = a.data \o s, !.size = n + m]
  BY <1>2 DEF Grow, Buffers
<1>4. /\ a.data \o s \in Seq(V) /\ Len(a.data \o s) = n + m
      /\ \A k \in 1..(n + m) :
           (a.data \o s)[k] = IF k <= n THEN a.data[k] ELSE s[k - n]
  <2> HIDE DEF a
  <2>1. /\ a.data \o s \in Seq(V) /\ Len(a.data \o s) = Len(a.data) + Len(s)
        /\ \A k \in 1..(Len(a.data) + Len(s)) :
             (a.data \o s)[k] = IF k <= Len(a.data) THEN a.data[k]
                                ELSE s[k - Len(a.data)]
    BY <1>2, SMTT(30)
  <2> QED BY <1>2, <2>1
<1>5. /\ r \in Buffers(V, L) /\ r.first = 0 /\ r.size = n + m
      /\ r.data = a.data \o s /\ r.limit = b.limit /\ r.closed = b.closed
  <2>1. n + m \in Nat
    BY <1>1
  <2> HIDE DEF a, n, m, r
  <2> QED BY <1>2, <1>3, <1>4, <2>1 DEF Buffers
<1>6. Geometry(r)
  BY <1>1, <1>4, <1>5 DEF Geometry, Capacity
<1>7. \A i \in 0..(n + m - 1) :
        LiveAt(r, i) = IF i < n THEN a.data[i + 1] ELSE s[i - n + 1]
  <2> TAKE i \in 0..(n + m - 1)
  <2>1. LiveAt(r, i) = (a.data \o s)[((0 + i) % (n + m)) + 1]
    BY <1>4, <1>5 DEF LiveAt, Slot, Capacity
  <2> HIDE DEF a, n, m, r
  <2>2. (0 + i) % (n + m) = i
    BY <1>1
  <2>3. i + 1 \in 1..(n + m) /\ (i + 1) - n = i - n + 1 /\ (i < n <=> i + 1 <= n)
    BY <1>1
  <2> QED BY <1>4, <2>1, <2>2, <2>3
<1>8. ASSUME NEW E, Live(b, E), s \in Seq(E)
      PROVE  Live(r, E)
  <2>1. \A k \in 1..n : a.data[k] \in E
    BY <1>8, AlignGeometry
  <2>2. \A k \in 1..m : s[k] \in E
    BY <1>8
  <2>3. r.size = n + m
    BY <1>5
  <2> HIDE DEF a, n, m, r
  <2>4. ASSUME NEW i \in 0..(n + m - 1)
        PROVE  LiveAt(r, i) \in E
    <3>1. CASE i < n
      BY <1>1, <1>7, <2>1, <3>1
    <3>2. CASE ~(i < n)
      BY <1>1, <1>7, <2>2, <3>2
    <3> QED BY <3>1, <3>2
  <2>5. \A i \in 0..(r.size - 1) : LiveAt(r, i) \in E
    BY <1>1, <2>3, <2>4
  <2> QED BY <2>5 DEF Live
<1>9. ASSUME b.first + b.size <= Len(b.data), NEW i \in 0..(n + m - 1)
      PROVE  LiveAt(r, i) = IF i < n THEN LiveAt(b, i) ELSE s[i - n + 1]
  <2>1. \A j \in 0..(n - 1) : a.data[j + 1] = LiveAt(b, j)
    BY <1>9, AlignInOrder
  <2> HIDE DEF a, n, m, r
  <2>2. i < n => i \in 0..(n - 1)
    BY <1>1
  <2> QED BY <1>7, <2>1, <2>2
<1>10. ASSUME NEW i \in 0..(n - 1)
       PROVE  \E j \in 0..(n - 1) : LiveAt(r, j) = LiveAt(b, i)
  <2>1. PICK k \in 1..n : a.data[k] = LiveAt(b, i)
    BY AlignGeometry
  <2> HIDE DEF a, n, m, r
  <2>2. k - 1 \in 0..(n - 1) /\ k - 1 \in 0..(n + m - 1) /\ (k - 1) + 1 = k
        /\ k - 1 < n
    BY <1>1
  <2> QED BY <1>7, <2>1, <2>2
<1>11. ASSUME NEW k \in 1..m
       PROVE  LiveAt(r, n + k - 1) = s[k]
  <2> HIDE DEF a, n, m, r
  <2>1. n + k - 1 \in 0..(n + m - 1) /\ ~(n + k - 1 < n) /\ (n + k - 1) - n + 1 = k
    BY <1>1
  <2> QED BY <1>7, <2>1
<1> HIDE DEF a
<1> QED BY <1>4, <1>5, <1>6, <1>8, <1>9, <1>10, <1>11

\* A write that fits leaves r of b: what is live afterwards, and how far the
\* vector grows.
GrownBy(r, b, s) ==
  /\ Geometry(r)
  /\ r.size = b.size + Len(s)
  /\ r.limit = b.limit /\ r.closed = b.closed
  /\ \A E : (Live(b, E) /\ s \in Seq(E)) => Live(r, E)
  /\ \A i \in 0..(b.size - 1) : \E j \in 0..(r.size - 1) : LiveAt(r, j) = LiveAt(b, i)
  /\ \A k \in 1..Len(s) : LiveAt(r, b.size + k - 1) = s[k]
  /\ b.first = 0 => /\ r.first = 0
                   /\ \A i \in 0..(b.size + Len(s) - 1) :
                        LiveAt(r, i) = IF i < b.size THEN LiveAt(b, i)
                                       ELSE s[i - b.size + 1]
  /\ Len(r.data) <= Len(b.data) \/ Len(r.data) <= MaxSize(b)

LEMMA WrittenGeometry ==
  ASSUME NEW V, NEW L, NEW b \in Buffers(V, L), Geometry(b),
         NEW s \in Seq(V), Accepts(b, s), b.limit \in Nat
  PROVE  Written(b, s) \in Buffers(V, L) /\ GrownBy(Written(b, s), b, s)
<1> DEFINE r == Written(b, s)
           n == b.size
           m == Len(s)
           c == Len(b.data)
<1>1. /\ n \in Nat /\ m \in Nat /\ c \in Nat /\ n <= c /\ b.first \in Nat
      /\ s # <<>> => m > 0
  BY BufferNumbers, EmptySeq
<1>2. CASE s = <<>>
  <2>1. r = b /\ m = 0
    BY <1>2 DEF Written
  <2>2. n + m = n
    BY <1>1, <2>1
  <2>3. \A k \in 1..m : FALSE
    BY <2>1
  <2> QED BY <1>1, <2>1, <2>2, <2>3 DEF GrownBy
<1>3. CASE s # <<>> /\ c - n < m
  <2>1. r = Grow(b, s)
    BY <1>3 DEF Written, Capacity
  <2>2. n + m <= MaxSize(b)
    <3>1. MaxSize(b) \in Nat
      BY BufferAssumption DEF MaxSize
    <3>2. m <= FreeSpace(b)
      BY <1>3 DEF Accepts
    <3>3. FreeSpace(b) = IF MaxSize(b) < n THEN 0 ELSE MaxSize(b) - n
      BY DEF FreeSpace
    <3> HIDE DEF n, m
    <3> QED BY <1>1, <1>3, <3>1, <3>2, <3>3
  <2>3. b.first = 0 => b.first + b.size <= Len(b.data)
    BY <1>1
  <2>4. /\ Grow(b, s) \in Buffers(V, L) /\ Geometry(Grow(b, s))
        /\ Grow(b, s).first = 0 /\ Grow(b, s).size = b.size + Len(s)
        /\ Grow(b, s).limit = b.limit /\ Grow(b, s).closed = b.closed
        /\ Len(Grow(b, s).data) = b.size + Len(s)
        /\ \A E : (Live(b, E) /\ s \in Seq(E)) => Live(Grow(b, s), E)
        /\ \A i \in 0..(b.size - 1) :
             \E j \in 0..(b.size - 1) : LiveAt(Grow(b, s), j) = LiveAt(b, i)
        /\ \A k \in 1..Len(s) : LiveAt(Grow(b, s), b.size + k - 1) = s[k]
        /\ b.first + b.size <= Len(b.data) =>
             \A i \in 0..(b.size + Len(s) - 1) :
               LiveAt(Grow(b, s), i) = IF i < b.size THEN LiveAt(b, i)
                                       ELSE s[i - b.size + 1]
    BY <1>3, GrowGeometry
  <2>5. \A i \in 0..(n - 1) : \E j \in 0..(r.size - 1) : LiveAt(r, j) = LiveAt(b, i)
    <3>1. \A j \in 0..(n - 1) : j \in 0..(n + m - 1)
      BY <1>1
    <3>2. r.size = n + m
      BY <2>1, <2>4
    <3>3. \A i \in 0..(n - 1) : \E j \in 0..(n - 1) : LiveAt(r, j) = LiveAt(b, i)
      BY <2>1, <2>4
    <3> HIDE DEF r, n, m
    <3> TAKE i \in 0..(n - 1)
    <3>4. PICK j \in 0..(n - 1) : LiveAt(r, j) = LiveAt(b, i)
      BY <3>3
    <3>5. j \in 0..(r.size - 1)
      BY <1>1, <3>1, <3>2
    <3> QED BY <3>4, <3>5
  <2> QED BY <2>1, <2>2, <2>3, <2>4, <2>5 DEF GrownBy
<1>4. CASE s # <<>> /\ ~(c - n < m)
  <2>1. r = Fill(b, s)
    BY <1>4 DEF Written, Capacity
  <2>2. n + m <= c
    BY <1>1, <1>4
  <2>3. /\ r \in Buffers(V, L) /\ Geometry(r)
        /\ r.first = b.first /\ r.size = n + m
        /\ r.limit = b.limit /\ r.closed = b.closed
        /\ Len(r.data) = Len(b.data)
        /\ \A i \in 0..(n + m - 1) :
             LiveAt(r, i) = IF i < n THEN LiveAt(b, i) ELSE s[i - n + 1]
    BY <1>4, <2>1, <2>2, FillGeometry
  <2>4. ASSUME NEW E, Live(b, E), s \in Seq(E)
        PROVE  Live(r, E)
    <3>1. \A k \in 1..m : s[k] \in E
      BY <2>4
    <3>2. \A i \in 0..(n - 1) : LiveAt(b, i) \in E
      BY <2>4 DEF Live
    <3> HIDE DEF r, n, m, c
    <3>3. \A i \in 0..(n + m - 1) : LiveAt(r, i) \in E
      BY <1>1, <2>3, <3>1, <3>2
    <3>4. \A i \in 0..(r.size - 1) : LiveAt(r, i) \in E
      BY <1>1, <2>3, <3>3
    <3> QED BY <3>4 DEF Live
  <2>5. \A E : (Live(b, E) /\ s \in Seq(E)) => Live(r, E)
    BY <2>4
  <2>6. Len(r.data) <= Len(b.data)
    BY <1>1, <2>3
  <2>7. /\ \A i \in 0..(n - 1) : \E j \in 0..(r.size - 1) : LiveAt(r, j) = LiveAt(b, i)
        /\ \A k \in 1..m : LiveAt(r, n + k - 1) = s[k]
    <3>1. r.size = n + m
      BY <2>3
    <3> HIDE DEF r, n, m
    <3>2. \A i \in 0..(n - 1) : i \in 0..(n + m - 1) /\ i < n
      BY <1>1
    <3>3. \A k \in 1..m : /\ n + k - 1 \in 0..(n + m - 1) /\ ~(n + k - 1 < n)
                          /\ (n + k - 1) - n + 1 = k
      BY <1>1
    <3>4. \A i \in 0..(n - 1) : LiveAt(r, i) = LiveAt(b, i) /\ i \in 0..(r.size - 1)
      <4> TAKE i \in 0..(n - 1)
      <4>1. i \in 0..(n + m - 1) /\ i < n
        BY <3>2
      <4>2. LiveAt(r, i) = LiveAt(b, i)
        BY <2>3, <4>1
      <4>3. i \in 0..(r.size - 1)
        BY <1>1, <3>1, <4>1
      <4> QED BY <4>2, <4>3
    <3>5. \A k \in 1..m : LiveAt(r, n + k - 1) = s[k]
      BY <2>3, <3>3
    <3> QED BY <3>4, <3>5
  <2> QED BY <2>3, <2>5, <2>6, <2>7 DEF GrownBy
<1> QED BY <1>2, <1>3, <1>4

\* r is what is left of b once everything was taken from it.
EmptiedFrom(r, b) == /\ Geometry(r) /\ r.first = 0 /\ r.size = 0
                     /\ r.limit = b.limit /\ r.closed = b.closed
                     /\ Len(r.data) <= Len(b.data)

\* do_empty_shrink() of an empty buffer.
LEMMA ShrunkGeometry ==
  ASSUME NEW V, NEW L, NEW b \in Buffers(V, L), b.size = 0, NEW r \in Shrunk(b)
  PROVE  r \in Buffers(V, L) /\ EmptiedFrom(r, b)
<1>1. r \in {[b EXCEPT !.first = 0, !.data = <<>>], [b EXCEPT !.first = 0]}
  BY DEF Shrunk
<1>2. <<>> \in Seq(V) /\ Len(<<>>) = 0 /\ Len(b.data) \in Nat
  BY EmptySeq DEF Buffers
<1>3. /\ r \in Buffers(V, L) /\ r.first = 0 /\ r.size = 0
      /\ r.limit = b.limit /\ r.closed = b.closed
      /\ r.data = <<>> \/ r.data = b.data
  BY <1>1, <1>2 DEF Buffers
<1>4. Len(r.data) <= Len(b.data) /\ Len(r.data) \in Nat
  BY <1>2, <1>3
<1> QED BY <1>3, <1>4 DEF Geometry, Capacity, EmptiedFrom

\* Clearing a buffer.
LEMMA ClearedGeometry ==
  ASSUME NEW V, NEW L, NEW b \in Buffers(V, L), NEW r \in Cleared(b)
  PROVE  r \in Buffers(V, L) /\ EmptiedFrom(r, b)
<1> DEFINE e == [b EXCEPT !.size = 0]
<1>1. /\ e \in Buffers(V, L) /\ e.size = 0
      /\ e.limit = b.limit /\ e.closed = b.closed /\ e.data = b.data
  BY DEF Buffers
<1>2. r \in Shrunk(e)
  BY DEF Cleared
<1> HIDE DEF e
<1>3. r \in Buffers(V, L) /\ EmptiedFrom(r, e)
  BY <1>1, <1>2, ShrunkGeometry
<1> QED BY <1>1, <1>3 DEF EmptiedFrom

\* Reading n elements, c of which are handed out, leaves r of b: the elements
\* behind these c are live afterwards, but for the last n - c of them.
LeftBy(r, b, n, c) ==
  /\ Geometry(r)
  /\ r.size = b.size - n
  /\ r.limit = b.limit /\ r.closed = b.closed
  /\ Len(r.data) <= Len(b.data)
  /\ \A i \in 0..(r.size - 1) : LiveAt(r, i) = LiveAt(b, i + c)

LEMMA ConsumedGeometry ==
  ASSUME NEW V, NEW L, NEW b \in Buffers(V, L), Geometry(b),
         NEW n \in Nat, n <= b.size, NEW c \in Nat, c <= n,
         NEW r \in Consumed(b, n, c), Moved \in V
  PROVE  r \in Buffers(V, L) /\ LeftBy(r, b, n, c)
<1> DEFINE q == Len(b.data)
           f == b.first
           distance(k) == (k - 1 - f + q) % q
           d == [k \in 1..q |-> IF distance(k) < c THEN Moved ELSE b.data[k]]
           e == [MovedOut(b, c) EXCEPT !.first = (@ + c) % Capacity(b),
                                       !.size = @ - n]
<1>1. /\ q \in Nat /\ f \in Nat /\ b.size \in Nat /\ b.size <= q
      /\ b.size > 0 => f < q
  BY BufferNumbers
<1>2. CASE n = 0
  <2>1. r = b /\ c = 0
    BY <1>2 DEF Consumed
  <2>2. \A i \in 0..(b.size - 1) : i + c = i
    BY <2>1
  <2> QED BY <1>1, <1>2, <2>1, <2>2 DEF LeftBy
<1>3. CASE n # 0
  <2>1. /\ f < q /\ (f + c) % q \in 0..(q - 1) /\ b.size - n \in Nat
    BY <1>1, <1>3
  <2>2. d \in Seq(V) /\ Len(d) = q
    <3>1. \A k \in 1..q : b.data[k] \in V
      BY BufferNumbers
    <3>2. d \in [1..q -> V]
      <4> HIDE DEF distance, q
      <4> QED BY <3>1
    <3> HIDE DEF d, q
    <3> QED BY <1>1, <3>2
  <2>3. e = [b EXCEPT !.first = (f + c) % q, !.size = b.size - n, !.data = d]
    BY DEF MovedOut, Capacity, Buffers
  <2>4. /\ e \in Buffers(V, L)
        /\ e.first = (f + c) % q /\ e.size = b.size - n /\ e.data = d
        /\ e.limit = b.limit /\ e.closed = b.closed
    <3> DEFINE g == (f + c) % q
    <3>1. g \in Nat
      BY <2>1
    <3>2. e = [b EXCEPT !.first = g, !.size = b.size - n, !.data = d]
      BY <2>3
    <3> HIDE DEF d, e, g
    <3>3. /\ e \in Buffers(V, L)
          /\ e.first = g /\ e.size = b.size - n /\ e.data = d
          /\ e.limit = b.limit /\ e.closed = b.closed
      BY <2>1, <2>2, <3>1, <3>2 DEF Buffers
    <3> QED BY <3>3 DEF g
  <2>5. r \in IF e.size = 0 THEN Shrunk(e) ELSE {e}
    BY <1>3 DEF Consumed
  <2>6. CASE e.size = 0
    <3> HIDE DEF e, d, q
    <3>1. /\ r \in Buffers(V, L) /\ Geometry(r) /\ r.size = 0
          /\ r.limit = b.limit /\ r.closed = b.closed
          /\ Len(r.data) <= Len(d)
      <4>1. r \in Buffers(V, L) /\ EmptiedFrom(r, e)
        BY <2>4, <2>5, <2>6, ShrunkGeometry
      <4> QED BY <2>4, <4>1 DEF EmptiedFrom
    <3>2. Len(d) = Len(b.data) /\ b.size - n = 0
      BY <2>2, <2>4, <2>6 DEF q
    <3> QED BY <2>4, <3>1, <3>2 DEF LeftBy
  <2>7. CASE e.size # 0
    <3>1. r = e
      BY <2>5, <2>7
    <3> HIDE DEF e
    <3>2. Geometry(r)
      <4> HIDE DEF d, q
      <4>1. r.size <= q /\ r.first < q /\ r.size # 0 /\ Len(r.data) = q
        BY <1>1, <2>1, <2>2, <2>4, <2>7, <3>1
      <4> QED BY <4>1 DEF Geometry, Capacity
    <3>3. ASSUME NEW i \in 0..(r.size - 1)
          PROVE  LiveAt(r, i) = LiveAt(b, i + c)
      <4> DEFINE k == ((f + (i + c)) % q) + 1
      <4>1. LiveAt(b, i + c) = b.data[k]
        BY DEF LiveAt, Slot, Capacity
      <4>2. LiveAt(r, i) = d[((((f + c) % q) + i) % q) + 1]
        BY <2>2, <2>4, <3>1 DEF LiveAt, Slot, Capacity
      <4>3. i \in Nat /\ i + c < q
        <5> HIDE DEF q
        <5> QED BY <1>1, <2>4, <3>1
      <4>4. /\ (((f + c) % q) + i) % q = (f + (i + c)) % q
            /\ k \in 1..q /\ distance(k) = i + c
        <5> HIDE DEF q, f
        <5> DEFINE g == (f + c) % q
        <5>1. /\ g = IF f + c < q THEN f + c ELSE f + c - q
              /\ (f + (i + c)) % q = IF f + (i + c) < q THEN f + (i + c)
                                     ELSE f + (i + c) - q
          BY <1>1, <2>1, <4>3
        <5>2. (g + i) % q = (f + (i + c)) % q
          <6> HIDE DEF g
          <6>1. CASE f + c < q
            <7>1. g + i = f + (i + c)
              BY <1>1, <4>3, <5>1, <6>1
            <7> QED BY <7>1
          <6>2. CASE ~(f + c < q)
            <7>1. g + i \in 0..(q - 1) /\ g + i = f + (i + c) - q
              BY <1>1, <2>1, <4>3, <5>1, <6>2
            <7>2. (g + i) % q = g + i
              BY <1>1, <7>1
            <7>3. f + (i + c) - q = (f + (i + c)) % q
              BY <1>1, <4>3, <5>1, <6>2
            <7> QED BY <7>1, <7>2, <7>3
          <6> QED BY <6>1, <6>2
        <5>3. k \in 1..q /\ distance(k) = i + c
          BY <1>1, <2>1, <4>3, <5>1
        <5> QED BY <5>2, <5>3
      <4>5. d[k] = b.data[k]
        <5> HIDE DEF k, distance, q
        <5>1. ~(distance(k) < c)
          BY <4>3, <4>4
        <5> QED BY <4>4, <5>1
      <4> QED BY <4>1, <4>2, <4>4, <4>5
    <3>4. Len(r.data) <= Len(b.data)
      BY <1>1, <2>2, <2>4, <3>1
    <3> HIDE DEF d, q
    <3> QED BY <2>4, <3>1, <3>2, <3>3, <3>4 DEF LeftBy
  <2> QED BY <2>6, <2>7
<1> QED BY <1>2, <1>3

\* Reading keeps the live elements among those that were live.
LEMMA LeftLive ==
  ASSUME NEW r, NEW b, b.size \in Nat, NEW n \in Nat, n <= b.size,
         NEW c \in Nat, c <= n, LeftBy(r, b, n, c), NEW E, Live(b, E)
  PROVE  Live(r, E)
<1>1. /\ r.size = b.size - n
      /\ \A i \in 0..(r.size - 1) : LiveAt(r, i) = LiveAt(b, i + c)
  BY DEF LeftBy
<1>2. \A i \in 0..(r.size - 1) : i + c \in 0..(b.size - 1)
  BY <1>1
<1> QED BY <1>1, <1>2 DEF Live

\* read_all_swap() leaves an empty buffer.
LEMMA SwappedGeometry ==
  ASSUME NEW V, NEW L, NEW b \in Buffers(V, L), Geometry(b),
         NEW r \in Swapped(b), Moved \in V
  PROVE  r \in Buffers(V, L) /\ EmptiedFrom(r, b)
<1>1. CASE b.first = 0
  <2>1. r = [b EXCEPT !.data = <<>>, !.size = 0]
    BY <1>1 DEF Swapped
  <2>2. <<>> \in Seq(V) /\ Len(<<>>) = 0 /\ Len(b.data) \in Nat
    BY EmptySeq, BufferNumbers
  <2>3. /\ r \in Buffers(V, L) /\ r.first = 0 /\ r.size = 0 /\ r.data = <<>>
        /\ r.limit = b.limit /\ r.closed = b.closed
    BY <1>1, <2>1, <2>2 DEF Buffers
  <2> QED BY <2>2, <2>3 DEF Geometry, Capacity, EmptiedFrom
<1>2. CASE b.first # 0
  <2>1. PICK n \in Nat : n = b.size
    BY BufferNumbers
  <2>2. r \in Consumed(b, n, n) /\ n <= b.size /\ n <= n
    BY <1>2, <2>1 DEF Swapped
  <2>3. r \in Buffers(V, L) /\ LeftBy(r, b, n, n)
    BY <2>2, ConsumedGeometry
  <2> QED BY <2>1, <2>3 DEF LeftBy, Geometry, EmptiedFrom
<1> QED BY <1>1, <1>2

\* The live elements as a sequence.
LEMMA ContentsOfLive ==
  ASSUME NEW b, b.size \in Nat
  PROVE  /\ \A i \in 1..b.size : Contents(b)[i] = LiveAt(b, i - 1)
         /\ \A E : Live(b, E) => Contents(b) \in Seq(E)
         /\ Len(Contents(b)) = b.size
<1>1. Contents(b) = [i \in 1..b.size |-> LiveAt(b, i - 1)]
  BY DEF Contents, LiveAt
<1>2. ASSUME NEW E, Live(b, E)
      PROVE  Contents(b) \in Seq(E)
  <2>1. \A i \in 1..b.size : i - 1 \in 0..(b.size - 1)
    OBVIOUS
  <2>2. \A i \in 1..b.size : LiveAt(b, i - 1) \in E
    BY <1>2, <2>1 DEF Live
  <2> QED BY <1>1, <2>2
<1> QED BY <1>1, <1>2

\* In a vector that starts at slot 0 the contents are its first slots.
LEMMA ContentsInPlace ==
  ASSUME NEW V, NEW L, NEW b \in Buffers(V, L), Geometry(b), b.first = 0
  PROVE  Contents(b) = SubSeq(b.data, 1, b.size)
<1> DEFINE c == Len(b.data)
           n == b.size
<1>1. b.data \in Seq(V) /\ c \in Nat /\ n \in Nat /\ n <= c
  BY BufferNumbers
<1>2. ASSUME NEW i \in 1..n
      PROVE  Contents(b)[i] = b.data[i]
  <2>1. Contents(b)[i] = b.data[((0 + (i - 1)) % c) + 1]
    BY <1>1 DEF Contents, Slot, Capacity
  <2> HIDE DEF c, n
  <2>2. ((0 + (i - 1)) % c) + 1 = i
    BY <1>1
  <2> QED BY <2>1, <2>2
<1>3. Contents(b) = [i \in 1..n |-> b.data[i]]
  BY <1>2 DEF Contents
<1>4. SubSeq(b.data, 1, n) = [i \in 1..n |-> b.data[i]]
  BY <1>1
<1> QED BY <1>3, <1>4

\* A write to such a buffer appends to the contents.
LEMMA GrownAppends ==
  ASSUME NEW E, NEW b, Live(b, E), b.size \in Nat, b.first = 0, NEW s \in Seq(E),
         NEW r, GrownBy(r, b, s)
  PROVE  r.first = 0 /\ Contents(r) = Contents(b) \o s
<1>1. /\ r.first = 0 /\ r.size = b.size + Len(s) /\ Live(r, E)
      /\ \A i \in 0..(b.size + Len(s) - 1) :
           LiveAt(r, i) = IF i < b.size THEN LiveAt(b, i) ELSE s[i - b.size + 1]
  BY DEF GrownBy
<1>2. b.size + Len(s) \in Nat
  OBVIOUS
<1>3. /\ Contents(r) \in Seq(E) /\ Len(Contents(r)) = b.size + Len(s)
      /\ Contents(b) \in Seq(E) /\ Len(Contents(b)) = b.size
      /\ \A i \in 1..(b.size + Len(s)) : Contents(r)[i] = LiveAt(r, i - 1)
      /\ \A i \in 1..b.size : Contents(b)[i] = LiveAt(b, i - 1)
  BY <1>1, <1>2, ContentsOfLive
<1> DEFINE w == Contents(r)
           o == Contents(b)
           n == b.size
           m == Len(s)
<1>4. ASSUME NEW i \in 1..(n + m)
      PROVE  w[i] = IF i <= n THEN o[i] ELSE s[i - n]
  <2>1. n \in Nat /\ m \in Nat /\ w[i] = LiveAt(r, i - 1)
    BY <1>3
  <2>2. i <= n => o[i] = LiveAt(b, i - 1)
    BY <1>3
  <2> HIDE DEF w, o, n, m
  <2>3. /\ i - 1 \in 0..(n + m - 1) /\ (i - 1 < n <=> i <= n)
        /\ (i - 1) - n + 1 = i - n
    BY <2>1
  <2>4. LiveAt(r, i - 1) = IF i - 1 < n THEN LiveAt(b, i - 1)
                           ELSE s[(i - 1) - n + 1]
    BY <1>1, <2>3 DEF n, m
  <2> QED BY <2>1, <2>2, <2>3, <2>4
<1>5. w = o \o s
  <2>1. w \in Seq(E) /\ o \in Seq(E) /\ Len(w) = Len(o) + Len(s)
    BY <1>3
  <2>2. \A i \in 1..(Len(o) + Len(s)) :
          w[i] = IF i <= Len(o) THEN o[i] ELSE s[i - Len(o)]
    BY <1>3, <1>4
  <2> HIDE DEF w, o
  <2> QED BY <2>1, <2>2
<1> QED BY <1>1, <1>5

\* The elements that wait in a buffer, and those of a sequence.
Waiting(b) == {Contents(b)[i] : i \in 1..b.size}
Offers(s) == {s[k] : k \in 1..Len(s)}

\* Everything that was waiting and everything written waits afterwards, and
\* nothing else does.
LEMMA GrownRange ==
  ASSUME NEW E, NEW b, Live(b, E), b.size \in Nat, NEW s \in Seq(E),
         NEW r, GrownBy(r, b, s)
  PROVE  Waiting(r) = Waiting(b) \cup Offers(s)
<1> DEFINE Had == {Contents(b)[i] : i \in 1..b.size}
           Got == {s[k] : k \in 1..Len(s)}
           Has == {Contents(r)[i] : i \in 1..r.size}
<1>1. Len(s) \in Nat /\ r.size = b.size + Len(s) /\ r.size \in Nat
  BY DEF GrownBy
<1>2. /\ \A i \in 1..b.size : Contents(b)[i] = LiveAt(b, i - 1)
      /\ \A i \in 1..r.size : Contents(r)[i] = LiveAt(r, i - 1)
  BY <1>1, ContentsOfLive
<1>3. ASSUME NEW j \in 0..(r.size - 1)
      PROVE  LiveAt(r, j) \in Has
  <2>1. j + 1 \in 1..r.size /\ (j + 1) - 1 = j
    BY <1>1
  <2> QED BY <1>2, <2>1
<1>4. Has \subseteq Had \cup Got
  <2>1. Live(b, Had \cup Got)
    <3>1. ASSUME NEW i \in 0..(b.size - 1)
          PROVE  LiveAt(b, i) \in Had
      <4>1. i + 1 \in 1..b.size /\ (i + 1) - 1 = i
        OBVIOUS
      <4> QED BY <1>2, <4>1
    <3> HIDE DEF Had, Got
    <3> QED BY <3>1 DEF Live
  <2>2. s \in Seq(Had \cup Got)
    <3>1. \A k \in 1..Len(s) : s[k] \in Had \cup Got
      OBVIOUS
    <3>2. s = [k \in 1..Len(s) |-> s[k]]
      OBVIOUS
    <3> HIDE DEF Had, Got
    <3> QED BY <1>1, <3>1, <3>2
  <2>3. Live(r, Had \cup Got)
    <3> HIDE DEF Had, Got
    <3> QED BY <2>1, <2>2 DEF GrownBy
  <2>4. ASSUME NEW i \in 1..r.size
        PROVE  Contents(r)[i] \in Had \cup Got
    <3>1. i - 1 \in 0..(r.size - 1)
      BY <1>1
    <3> HIDE DEF Had, Got
    <3> QED BY <1>2, <2>3, <3>1 DEF Live
  <2> HIDE DEF Had, Got
  <2> QED BY <2>4
<1>5. Had \subseteq Has
  <2>1. ASSUME NEW i \in 1..b.size
        PROVE  Contents(b)[i] \in Has
    <3>1. i - 1 \in 0..(b.size - 1)
      OBVIOUS
    <3>2. PICK j \in 0..(r.size - 1) : LiveAt(r, j) = LiveAt(b, i - 1)
      BY <3>1 DEF GrownBy
    <3> HIDE DEF Has
    <3> QED BY <1>2, <1>3, <3>2
  <2> HIDE DEF Has
  <2> QED BY <2>1
<1>6. Got \subseteq Has
  <2>1. ASSUME NEW k \in 1..Len(s)
        PROVE  s[k] \in Has
    <3>1. b.size + k - 1 \in 0..(r.size - 1)
      BY <1>1
    <3>2. LiveAt(r, b.size + k - 1) = s[k]
      BY DEF GrownBy
    <3> HIDE DEF Has
    <3> QED BY <1>3, <3>1, <3>2
  <2> HIDE DEF Has
  <2> QED BY <2>1
<1> QED BY <1>4, <1>5, <1>6 DEF Waiting, Offers

\* Reading n elements and handing them all out splits what was waiting.
LEMMA LeftRange ==
  ASSUME NEW b, b.size \in Nat, NEW n \in Nat, n <= b.size, NEW r, LeftBy(r, b, n, n)
  PROVE  \A i \in 1..r.size : Contents(r)[i] = Contents(b)[n + i]
<1>1. r.size = b.size - n /\ \A i \in 0..(r.size - 1) : LiveAt(r, i) = LiveAt(b, i + n)
  BY DEF LeftBy
<1>2. /\ \A i \in 1..b.size : Contents(b)[i] = LiveAt(b, i - 1)
      /\ \A i \in 1..r.size : Contents(r)[i] = LiveAt(r, i - 1)
  BY <1>1, ContentsOfLive, SMTT(30)
<1> SUFFICES ASSUME NEW i \in 1..r.size
             PROVE  Contents(r)[i] = Contents(b)[n + i]
  OBVIOUS
<1>3. i - 1 \in 0..(r.size - 1) /\ (i - 1) + n = (n + i) - 1 /\ n + i \in 1..b.size
  BY <1>1
<1> QED BY <1>1, <1>2, <1>3

-----------------------------------------------------------------------------
(* Numbers: induction from the least one of a set.                        *)

\* A set of numbers has a least one.
LEMMA LeastNumber ==
  ASSUME NEW T \in SUBSET Nat, T # {}
  PROVE  \E n \in T : \A m \in T : n <= m
<1> DEFINE R == OpToRel(<, Nat)
<1>1. IsWellFoundedOn(R, Nat)
  BY NatLessThanWellFounded
<1>2. \A m, n \in Nat : m < n => <<m, n>> \in R
  BY DEF OpToRel
<1> HIDE DEF R
<1>3. PICK n \in T : \A m \in T : ~(<<m, n>> \in R)
  BY <1>1, WFMin
<1>4. ASSUME NEW m \in T PROVE n <= m
  <2>1. m \in Nat /\ n \in Nat /\ ~(m < n)
    BY <1>2, <1>3
  <2> QED BY <2>1
<1> QED BY <1>4

\* A set with 0 that has n + 1 with n has every number.
LEMMA Induction ==
  ASSUME NEW T, 0 \in T, \A n \in Nat : n \in T => n + 1 \in T
  PROVE  Nat \subseteq T
<1> SUFFICES ASSUME Nat \ T # {} PROVE FALSE
  OBVIOUS
<1>1. PICK n \in Nat \ T : \A m \in Nat \ T : n <= m
  BY LeastNumber
<1>2. n # 0 /\ n - 1 \in Nat /\ n - 1 \notin Nat \ T
  BY <1>1
<1> QED BY <1>1, <1>2

\* A set of integers with an upper bound has a greatest one.
LEMMA GreatestNumber ==
  ASSUME NEW T \in SUBSET Int, T # {}, NEW b \in Int, \A x \in T : x <= b
  PROVE  \E m \in T : \A x \in T : x <= m
<1> DEFINE U == {b - x : x \in T}
<1>1. U \in SUBSET Nat /\ U # {}
  <2>1. \A x \in T : b - x \in Nat
    OBVIOUS
  <2> QED BY <2>1
<1> HIDE DEF U
<1>2. PICK n \in U : \A m \in U : n <= m
  BY <1>1, LeastNumber
<1>3. PICK x \in T : n = b - x
  BY DEF U
<1>4. ASSUME NEW y \in T PROVE y <= x
  <2>1. b - y \in U
    BY DEF U
  <2>2. b - x <= b - y
    BY <1>2, <1>3, <2>1
  <2> QED BY <2>2
<1> QED BY <1>4

\* And one with a lower bound a least one.
LEMMA LowestNumber ==
  ASSUME NEW T \in SUBSET Int, T # {}, NEW b \in Int, \A x \in T : b <= x
  PROVE  \E m \in T : \A x \in T : m <= x
<1> DEFINE U == {b - x : x \in T}
<1>1. U \in SUBSET Int /\ U # {} /\ \A y \in U : y <= 0
  <2>1. \A x \in T : b - x \in Int /\ b - x <= 0
    OBVIOUS
  <2> QED BY <2>1
<1> HIDE DEF U
<1>2. PICK y \in U : \A z \in U : z <= y
  BY <1>1, GreatestNumber
<1>3. PICK x \in T : y = b - x
  BY DEF U
<1>4. ASSUME NEW z \in T PROVE x <= z
  <2>1. b - z \in U
    BY DEF U
  <2>2. b - z <= b - x
    BY <1>2, <1>3, <2>1
  <2> QED BY <2>2
<1> QED BY <1>4

=============================================================================
