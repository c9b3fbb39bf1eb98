-------------------------- MODULE ContainersProofs --------------------------
(***************************************************************************)
(* The invariants of io_buffer for every element type, limit and batch     *)
(* size: its geometry, that no live slot holds a moved-from element, and   *)
(* that the vector stays within the largest limit.  And those of the       *)
(* sparse array for every range of keys, with the map it implements.       *)
(***************************************************************************)
EXTENDS IoBuffer, SparseArray, CircularBufferProofs, FiniteSetTheorems

-----------------------------------------------------------------------------
(* The circular buffer.                                                    *)

AllLimits == Limits \cup NewLimits
Stored == Elem \cup {Moved}

\* A batch is a sequence of elements, and may be stored.
LEMMA BatchIsSequence ==
  ASSUME NEW s \in Items
  PROVE  s \in Seq(Elem) /\ s \in Seq(Stored)
<1>1. PICK n \in 0..MaxBatch : s \in [1..n -> Elem]
  BY DEF Items
<1>2. n \in Nat /\ s \in [1..n -> Stored]
  BY <1>1, IoBufferAssumption DEF Stored
<1> QED BY <1>1, <1>2

\* Every capacity below one that is within a limit is within it as well.
Within(c) == \E l \in AllLimits : c <= (IF l # 0 THEN l ELSE VectorMax)

\* The part of the invariant about the buffer alone.
BufferInv(b) == /\ b \in Buffers(Stored, AllLimits)
                /\ Geometry(b)
                /\ Live(b, Elem)
                /\ Within(Len(b.data))

\* A smaller vector with live elements only is fine.
LEMMA SmallerIsFine ==
  ASSUME NEW b, BufferInv(b), NEW r \in Buffers(Stored, AllLimits),
         Geometry(r), Live(r, Elem), Len(r.data) <= Len(b.data)
  PROVE  BufferInv(r)
<1>1. Len(r.data) \in Nat /\ Len(b.data) \in Nat
  BY DEF Buffers, BufferInv
<1>2. \A l \in AllLimits : (IF l # 0 THEN l ELSE VectorMax) \in Nat
  BY IoBufferAssumption, BufferAssumption DEF AllLimits
<1> QED BY <1>1, <1>2 DEF BufferInv, Within

\* An accepted write keeps the buffer's invariant.
LEMMA WriteKeeps ==
  ASSUME NEW b, BufferInv(b), NEW s \in Items, Accepts(b, s)
  PROVE  BufferInv(Written(b, s))
<1> DEFINE r == Written(b, s)
<1>1. s \in Seq(Elem) /\ s \in Seq(Stored) /\ AllLimits \subseteq Nat
  BY BatchIsSequence, IoBufferAssumption DEF AllLimits
<1>2. b \in Buffers(Stored, AllLimits) /\ Geometry(b) /\ Live(b, Elem)
  BY DEF BufferInv
<1>3. r \in Buffers(Stored, AllLimits) /\ GrownBy(r, b, s)
  <2>1. b.limit \in Nat
    BY <1>1, <1>2 DEF Buffers
  <2> QED BY <1>1, <1>2, <2>1, WrittenGeometry
<1> SUFFICES BufferInv(r)
  OBVIOUS
<1> HIDE DEF r
<1>4. Geometry(r) /\ Live(r, Elem)
  BY <1>1, <1>2, <1>3 DEF GrownBy
<1>5. CASE Len(r.data) <= Len(b.data)
  BY <1>3, <1>4, <1>5, SmallerIsFine
<1>6. CASE Len(r.data) <= MaxSize(b)
  <2>1. b.limit \in AllLimits
    BY <1>2 DEF Buffers
  <2>2. Within(Len(r.data))
    BY <1>6, <2>1 DEF Within, MaxSize
  <2> QED BY <1>3, <1>4, <2>2 DEF BufferInv
<1> QED BY <1>3, <1>5, <1>6 DEF GrownBy

\* A read of n elements of which c are handed out keeps it.
LEMMA ReadKeeps ==
  ASSUME NEW b, BufferInv(b), NEW n \in Nat, n <= b.size, NEW c \in Nat, c <= n,
         NEW r \in Consumed(b, n, c)
  PROVE  BufferInv(r)
<1>1. b \in Buffers(Stored, AllLimits) /\ Geometry(b) /\ Live(b, Elem)
  BY DEF BufferInv
<1>2. b.size \in Nat /\ Moved \in Stored
  BY <1>1, BufferNumbers DEF Stored
<1>3. r \in Buffers(Stored, AllLimits) /\ LeftBy(r, b, n, c)
  BY <1>1, <1>2, ConsumedGeometry
<1>4. Live(r, Elem)
  BY <1>1, <1>2, <1>3, LeftLive
<1> QED BY <1>3, <1>4, SmallerIsFine DEF LeftBy

\* An empty buffer that is no larger keeps it.
LEMMA EmptyKeeps ==
  ASSUME NEW b, BufferInv(b), NEW r \in Buffers(Stored, AllLimits),
         EmptiedFrom(r, b)
  PROVE  BufferInv(r)
<1>1. Live(r, Elem) /\ Geometry(r) /\ Len(r.data) <= Len(b.data)
  BY DEF Live, EmptiedFrom
<1> QED BY <1>1, SmallerIsFine

\* read_all_swap() and clear() keep it.
LEMMA SwapKeeps ==
  ASSUME NEW b, BufferInv(b), NEW r \in Swapped(b)
  PROVE  BufferInv(r)
<1>1. b \in Buffers(Stored, AllLimits) /\ Geometry(b) /\ Moved \in Stored
  BY DEF BufferInv, Stored
<1>2. r \in Buffers(Stored, AllLimits) /\ EmptiedFrom(r, b)
  BY <1>1, SwappedGeometry
<1> QED BY <1>2, EmptyKeeps

LEMMA ClearKeeps ==
  ASSUME NEW b, BufferInv(b), NEW r \in Cleared(b)
  PROVE  BufferInv(r)
<1>1. b \in Buffers(Stored, AllLimits) /\ Geometry(b)
  BY DEF BufferInv
<1>2. r \in Buffers(Stored, AllLimits) /\ EmptiedFrom(r, b)
  BY <1>1, ClearedGeometry
<1> QED BY <1>2, EmptyKeeps

\* The inductive invariant.
Replies == [op : {"none", "write", "read", "partial", "clear", "resize", "close"},
            ok : BOOLEAN, put : Seq(Elem), got : Seq(Elem)]

IInv == BufferInv(buf) /\ reply \in Replies

\* What a reader is handed are elements that were written.
LEMMA HandedOut ==
  ASSUME NEW b, BufferInv(b), NEW n \in Nat, n <= b.size
  PROVE  /\ SubSeq(Contents(b), 1, n) \in Seq(Elem)
         /\ Contents(b) \in Seq(Elem)
         /\ b.size > 0 => Contents(b)[1] \in Elem
         /\ b.first = 0 => SubSeq(b.data, 1, b.size) \in Seq(Elem)
<1>1. /\ b \in Buffers(Stored, AllLimits) /\ Geometry(b) /\ Live(b, Elem)
      /\ b.size \in Nat /\ Len(b.data) \in Nat /\ b.size <= Len(b.data)
      /\ b.data \in Seq(Stored)
  BY BufferNumbers DEF BufferInv
<1>2. Contents(b) \in Seq(Elem) /\ Len(Contents(b)) = b.size
  BY <1>1, ContentsOfLive
<1>3. ASSUME b.first = 0
      PROVE  SubSeq(b.data, 1, b.size) \in Seq(Elem)
  <2>1. ASSUME NEW k \in 1..b.size
        PROVE  b.data[k] \in Elem
    <3> DEFINE c == Len(b.data)
    <3>1. k - 1 \in 0..(b.size - 1) /\ LiveAt(b, k - 1) = b.data[((0 + (k - 1)) % c) + 1]
      BY <1>1, <1>3 DEF LiveAt, Slot, Capacity
    <3>2. LiveAt(b, k - 1) \in Elem
      BY <1>1, <3>1 DEF Live
    <3>3. c \in Nat /\ k - 1 \in 0..(c - 1)
      BY <1>1
    <3> HIDE DEF c
    <3>4. ((0 + (k - 1)) % c) + 1 = k
      BY <3>3
    <3> QED BY <3>1, <3>2, <3>4
  <2> QED BY <1>1, <2>1, SubSeqProperties
<1> HIDE DEF BufferInv
<1>4. SubSeq(Contents(b), 1, n) \in Seq(Elem)
  BY <1>2
<1>5. b.size > 0 => Contents(b)[1] \in Elem
  BY <1>1, <1>2
<1> QED BY <1>2, <1>3, <1>4, <1>5

\* A new buffer satisfies it.
LEMMA InitEstablishes == BufferInit => IInv
<1> SUFFICES ASSUME NEW l \in Limits, buf = EmptyBuffer(l),
                    reply = Reply("none", TRUE, <<>>, <<>>)
             PROVE  IInv
  BY DEF BufferInit
<1>1. /\ <<>> \in Seq(Stored) /\ <<>> \in Seq(Elem) /\ Len(<<>>) = 0
  BY EmptySeq
<1>2. /\ buf \in Buffers(Stored, AllLimits) /\ buf.data = <<>>
      /\ buf.size = 0 /\ buf.first = 0
  BY <1>1 DEF EmptyBuffer, Buffers, AllLimits
<1>3. Geometry(buf) /\ Live(buf, Elem)
  BY <1>1, <1>2 DEF Geometry, Live, Capacity
<1>4. Within(Len(buf.data))
  BY <1>1, <1>2, IoBufferAssumption, BufferAssumption DEF Within, AllLimits
<1>5. reply \in Replies
  BY <1>1 DEF Replies, Reply
<1> QED BY <1>2, <1>3, <1>4, <1>5 DEF IInv, BufferInv

\* Every operation preserves it.
LEMMA StepPreserves == IInv /\ [BufferNext]_bufferVars => IInv'
<1> SUFFICES ASSUME IInv, [BufferNext]_bufferVars
             PROVE  IInv'
  OBVIOUS
<1>0. /\ BufferInv(buf) /\ reply \in Replies
      /\ <<>> \in Seq(Elem) /\ buf.size \in Nat
  BY EmptySeq, BufferNumbers DEF IInv, BufferInv
<1>1. ASSUME NEW s \in Items, Write(s)
      PROVE  IInv'
  <2>1. s \in Seq(Elem)
    BY BatchIsSequence
  <2>2. BufferInv(buf)'
    <3>1. CASE Accepts(buf, s) /\ buf' = Written(buf, s)
      <4>1. BufferInv(Written(buf, s))
        BY <1>0, <3>1, WriteKeeps
      <4> QED BY <3>1, <4>1
    <3>2. CASE buf' = buf
      BY <1>0, <3>2
    <3> QED BY <1>1, <3>1, <3>2 DEF Write
  <2>3. reply' \in Replies
    <3>1. CASE reply' = Reply("write", TRUE, s, <<>>)
      BY <1>0, <2>1, <3>1 DEF Reply, Replies
    <3>2. CASE reply' = Reply("write", FALSE, <<>>, <<>>)
      BY <1>0, <3>2 DEF Reply, Replies
    <3> QED BY <1>1, <3>1, <3>2 DEF Write
  <2> QED BY <2>2, <2>3 DEF IInv
<1>2. CASE ReadOne
  <2>1. BufferInv(buf)'
    <3>1. CASE buf.size = 0
      BY <1>0, <1>2, <3>1 DEF ReadOne, TakenOne
    <3>2. CASE buf.size # 0
      <4>1. buf' \in Consumed(buf, 1, 1) /\ 1 \in Nat /\ 1 <= 1 /\ 1 <= buf.size
        BY <1>0, <1>2, <3>2 DEF ReadOne, TakenOne
      <4> QED BY <1>0, <4>1, ReadKeeps
    <3> QED BY <3>1, <3>2
  <2>2. reply' \in Replies
    <3>1. buf.size > 0 => <<Contents(buf)[1]>> \in Seq(Elem)
      BY <1>0, HandedOut
    <3> QED BY <1>0, <1>2, <3>1 DEF ReadOne, Reply, Replies
  <2> QED BY <2>1, <2>2 DEF IInv
<1>3. ASSUME NEW max \in 0..Capacity(buf), ReadUpTo(max)
      PROVE  IInv'
  <2> DEFINE n == IF max < buf.size THEN max ELSE buf.size
  <2>1. n \in Nat /\ n <= buf.size /\ n <= n
    BY <1>0
  <2>2. /\ buf' \in Consumed(buf, n, n)
        /\ reply' = Reply("read", n > 0, <<>>, SubSeq(Contents(buf), 1, n))
    BY <1>3 DEF ReadUpTo
  <2> HIDE DEF n
  <2>3. BufferInv(buf)'
    BY <1>0, <2>1, <2>2, ReadKeeps
  <2>4. reply' \in Replies
    <3>1. SubSeq(Contents(buf), 1, n) \in Seq(Elem)
      BY <1>0, <2>1, HandedOut
    <3> QED BY <1>0, <2>2, <3>1 DEF Reply, Replies
  <2> QED BY <2>3, <2>4 DEF IInv
<1>4. ASSUME NEW max \in 0..Capacity(buf), NEW c \in 0..Capacity(buf),
             ReadPartly(max, c)
      PROVE  IInv'
  <2> DEFINE n == IF max < buf.size THEN max ELSE buf.size
  <2>1. /\ n \in Nat /\ n <= buf.size /\ c \in Nat /\ c <= n /\ c <= buf.size
    BY <1>0, <1>4 DEF ReadPartly
  <2>2. /\ buf' \in Consumed(buf, n, c)
        /\ reply' = Reply("partial", c > 0, <<>>, SubSeq(Contents(buf), 1, c))
    BY <1>4 DEF ReadPartly
  <2> HIDE DEF n
  <2>3. BufferInv(buf)'
    BY <1>0, <2>1, <2>2, ReadKeeps
  <2>4. reply' \in Replies
    <3>1. SubSeq(Contents(buf), 1, c) \in Seq(Elem)
      BY <1>0, <2>1, HandedOut
    <3> QED BY <1>0, <2>2, <3>1 DEF Reply, Replies
  <2> QED BY <2>3, <2>4 DEF IInv
<1>5. CASE ReadAll
  <2>1. PICK n \in Nat : n = buf.size
    BY <1>0
  <2>2. buf' \in Consumed(buf, n, n) /\ n <= buf.size /\ n <= n
    BY <1>5, <2>1 DEF ReadAll
  <2>3. BufferInv(buf)'
    BY <1>0, <2>2, ReadKeeps
  <2>4. Contents(buf) \in Seq(Elem)
    BY <1>0, <2>2, HandedOut
  <2>5. reply' \in Replies
    BY <1>0, <1>5, <2>4 DEF ReadAll, Reply, Replies
  <2> QED BY <2>3, <2>5 DEF IInv
<1>6. CASE ReadAllSwap
  <2>1. BufferInv(buf)'
    BY <1>0, <1>6, SwapKeeps DEF ReadAllSwap
  <2>2. /\ Contents(buf) \in Seq(Elem)
        /\ buf.first = 0 => SubSeq(buf.data, 1, buf.size) \in Seq(Elem)
    <3>1. 0 \in Nat /\ 0 <= buf.size
      BY <1>0
    <3> QED BY <1>0, <3>1, HandedOut
  <2>3. reply' \in Replies
    BY <1>0, <1>6, <2>2 DEF ReadAllSwap, Reply, Replies
  <2> QED BY <2>1, <2>3 DEF IInv
<1>7. CASE Clear
  <2>1. BufferInv(buf)'
    BY <1>0, <1>7, ClearKeeps DEF Clear
  <2>2. reply' \in Replies
    BY <1>0, <1>7 DEF Clear, Reply, Replies
  <2> QED BY <2>1, <2>2 DEF IInv
<1>8. ASSUME NEW l \in NewLimits, SetMaxSize(l)
      PROVE  IInv'
  <2>1. /\ buf' \in Buffers(Stored, AllLimits)
        /\ buf'.data = buf.data /\ buf'.first = buf.first /\ buf'.size = buf.size
    BY <1>0, <1>8 DEF SetMaxSize, BufferInv, Buffers, AllLimits
  <2>2. BufferInv(buf')
    BY <1>0, <2>1 DEF BufferInv, Geometry, Live, LiveAt, Slot, Capacity
  <2>3. reply' \in Replies
    BY <1>0, <1>8 DEF SetMaxSize, Reply, Replies
  <2> QED BY <2>2, <2>3 DEF IInv
<1>9. CASE Close
  <2>1. /\ buf' \in Buffers(Stored, AllLimits)
        /\ buf'.data = buf.data /\ buf'.first = buf.first /\ buf'.size = buf.size
    BY <1>0, <1>9 DEF Close, BufferInv, Buffers
  <2>2. BufferInv(buf')
    BY <1>0, <2>1 DEF BufferInv, Geometry, Live, LiveAt, Slot, Capacity
  <2>3. reply' \in Replies
    BY <1>0, <1>9 DEF Close, Reply, Replies
  <2> QED BY <2>2, <2>3 DEF IInv
<1>10. CASE UNCHANGED bufferVars
  BY <1>0, <1>10 DEF bufferVars, IInv
<1> QED BY <1>1, <1>2, <1>3, <1>4, <1>5, <1>6, <1>7, <1>8, <1>9, <1>10 DEF BufferNext

\* The invariant the run Containers checks, for all constants.
LEMMA Invariance == BufferSpec => []IInv
  BY InitEstablishes, StepPreserves, PTL DEF BufferSpec

\* A client never changes its kind.
LEMMA ClientKind == BufferSpec => [](uses \in Clients)
<1>1. BufferInit => uses \in Clients
  BY DEF BufferInit
<1>2. uses \in Clients /\ [BufferNext]_bufferVars => (uses \in Clients)'
  BY DEF BufferNext, bufferVars
<1> QED BY <1>1, <1>2, PTL DEF BufferSpec

\* Type correctness: the buffer's geometry is never broken and every reply is
\* made of elements that were written.
THEOREM TypeCorrect == BufferSpec => []BufferTypeOK
<1>1. IInv /\ uses \in Clients => BufferTypeOK
  BY DEF IInv, BufferInv, BufferTypeOK, Replies, Stored, AllLimits
<1> QED BY <1>1, Invariance, ClientKind, PTL

\* No live slot ever holds a moved-from element.
THEOREM LiveSlotsAreWritten == BufferSpec => []LiveSlotsWritten
<1>1. IInv => LiveSlotsWritten
  <2> SUFFICES ASSUME IInv
               PROVE  LiveSlotsWritten
    OBVIOUS
  <2>1. buf.size \in Nat /\ Live(buf, Elem)
    BY BufferNumbers DEF IInv, BufferInv
  <2>2. \A i \in 1..buf.size : /\ i - 1 \in 0..(buf.size - 1)
                             /\ Contents(buf)[i] = LiveAt(buf, i - 1)
    BY <2>1, ContentsOfLive
  <2> QED BY <2>1, <2>2 DEF LiveSlotsWritten, Live
<1> QED BY <1>1, Invariance, PTL

\* The vector never outgrows the largest limit.
THEOREM CapacityStaysWithinLimit == BufferSpec => []CapacityWithinLimit
<1>1. IInv => CapacityWithinLimit
  BY DEF IInv, BufferInv, Within, AllLimits, CapacityWithinLimit, Capacity
<1> QED BY <1>1, Invariance, PTL

\* Indices, slots and capacity fit together after any sequence of calls.
THEOREM BufferIsConsistent == BufferSpec => []BufferConsistent
BY TypeCorrect, LiveSlotsAreWritten, CapacityStaysWithinLimit, PTL DEF BufferConsistent

-----------------------------------------------------------------------------
(* The buffer implements the queue, for who takes everything.              *)

StartsOver == Draining => buf.first = 0

\* What is needed of the buffer in a step of a draining client.
LEMMA DrainingParts ==
  ASSUME IInv, StartsOver, Draining
  PROVE  /\ buf \in Buffers(Stored, AllLimits) /\ Geometry(buf) /\ Live(buf, Elem)
         /\ buf.first = 0 /\ buf.size \in Nat /\ buf.limit \in Nat
         /\ buf.closed \in BOOLEAN /\ Moved \in Stored
         /\ Contents(buf) \in Seq(Elem) /\ Len(Contents(buf)) = buf.size
         /\ SubSeq(buf.data, 1, buf.size) = Contents(buf)
<1>1. buf \in Buffers(Stored, AllLimits) /\ Geometry(buf) /\ Live(buf, Elem)
  BY DEF IInv, BufferInv
<1>2. buf.size \in Nat /\ buf.limit \in AllLimits /\ buf.closed \in BOOLEAN
  BY <1>1, BufferNumbers
<1>3. Contents(buf) \in Seq(Elem) /\ Len(Contents(buf)) = buf.size
  BY <1>1, <1>2, ContentsOfLive
<1>4. buf.limit \in Nat
  BY <1>2, IoBufferAssumption DEF AllLimits
<1>5. buf.first = 0
  BY DEF StartsOver
<1>6. SubSeq(buf.data, 1, buf.size) = Contents(buf)
  BY <1>1, <1>5, ContentsInPlace
<1> QED BY <1>1, <1>2, <1>3, <1>4, <1>5, <1>6 DEF Stored

\* A buffer that was emptied holds the empty queue.
LEMMA EmptyContents ==
  ASSUME NEW b, b.size = 0
  PROVE  Contents(b) = <<>>
<1>1. b.size \in Nat /\ Live(b, {})
  BY DEF Live
<1>2. Contents(b) \in Seq({}) /\ Len(Contents(b)) = 0
  BY <1>1, ContentsOfLive
<1> QED BY <1>2, EmptySeq

\* The buffer and the queue refuse the same writes.
LEMMA SameRefusals ==
  ASSUME IInv, StartsOver, Draining, NEW s \in Items
  PROVE  Accepts(buf, s) <=> Fifo!Fits(s)
<1>1. /\ buf.size \in Nat /\ buf.limit \in Nat /\ Len(Contents(buf)) = buf.size
      /\ s \in Seq(Elem)
  BY DrainingParts, BatchIsSequence
<1>2. MaxSize(buf) \in Nat /\ Fifo!Room = MaxSize(buf) - buf.size
  BY <1>1, BufferAssumption DEF MaxSize, Fifo!Room
<1>3. s # <<>> => Len(s) \in Nat /\ Len(s) > 0
  BY <1>1, EmptySeq
<1>4. s # <<>> => (Len(s) <= FreeSpace(buf) <=> Len(s) <= Fifo!Room)
  BY <1>1, <1>2, <1>3 DEF FreeSpace
<1> QED BY <1>4 DEF Accepts, Fifo!Fits

\* What a step of the queue looks like, in the terms of the buffer.
LEMMA WriteIsPut ==
  ASSUME IInv, StartsOver, Draining, NEW s \in Items, Write(s)
  PROVE  buf'.first = 0 /\ (Fifo!Put(s) \/ Fifo!Refuse(s))
<1>1. /\ buf \in Buffers(Stored, AllLimits) /\ Geometry(buf) /\ Live(buf, Elem)
      /\ buf.first = 0 /\ buf.size \in Nat /\ buf.limit \in Nat
      /\ s \in Seq(Elem) /\ s \in Seq(Stored)
  BY DrainingParts, BatchIsSequence
<1>2. CASE Accepts(buf, s) /\ buf' = Written(buf, s)
           /\ reply' = Reply("write", TRUE, s, <<>>)
  <2>1. GrownBy(Written(buf, s), buf, s)
    BY <1>1, <1>2, WrittenGeometry
  <2>2. Written(buf, s).first = 0 /\ Contents(Written(buf, s)) = Contents(buf) \o s
    BY <1>1, <2>1, GrownAppends
  <2>3. buf'.first = 0 /\ Contents(buf') = Contents(buf) \o s
        /\ buf'.limit = buf.limit /\ buf'.closed = buf.closed
    BY <1>2, <2>1, <2>2 DEF GrownBy
  <2>4. Contents(buf)' = Contents(buf')
    BY DEF Contents, Slot, Capacity
  <2>5. Fifo!Put(s)
    BY <1>2, <2>3, <2>4, SameRefusals DEF Fifo!Put, Fifo!Answer, Reply
  <2> QED BY <2>3, <2>5
<1>3. CASE ~Accepts(buf, s) /\ buf' = buf
           /\ reply' = Reply("write", FALSE, <<>>, <<>>)
  <2>1. Contents(buf)' = Contents(buf)
    BY <1>3 DEF Contents, Slot, Capacity
  <2>2. Fifo!Refuse(s)
    BY <1>3, <2>1, SameRefusals DEF Fifo!Refuse, Fifo!Answer, Reply
  <2> QED BY <1>1, <1>3, <2>2
<1> QED BY <1>2, <1>3 DEF Write

\* Reads of everything hand out the whole queue.
LEMMA ReadIsGet ==
  ASSUME IInv, StartsOver, Draining, NEW r, r \in Buffers(Stored, AllLimits),
         r.size = 0, r.first = 0, r.limit = buf.limit, r.closed = buf.closed,
         buf' = r, reply' = Reply("read", buf.size > 0, <<>>, Contents(buf))
  PROVE  buf'.first = 0 /\ \E n \in 0..Len(Contents(buf)) : Fifo!Get(n)
<1>1. /\ Contents(buf) \in Seq(Elem) /\ Len(Contents(buf)) = buf.size
      /\ buf.size \in Nat
  BY DrainingParts
<1>2. Contents(buf)' = <<>>
  <2>1. Contents(r) = <<>>
    BY EmptyContents
  <2> QED BY <2>1 DEF Contents, Slot, Capacity
<1> DEFINE q == Contents(buf)
           n == Len(q)
<1>3. n \in 0..Len(q) /\ SubSeq(q, n + 1, Len(q)) = <<>> /\ SubSeq(q, 1, n) = q
  <2>1. q \in Seq(Elem) /\ n \in Nat
    BY <1>1
  <2> HIDE DEF q
  <2> QED BY <2>1, EmptySeq
<1>4. Fifo!Get(n)
  <2>1. q' = SubSeq(q, n + 1, Len(q))
    BY <1>2, <1>3
  <2>2. reply' = Reply("read", n > 0, <<>>, SubSeq(q, 1, n))
    BY <1>1, <1>3
  <2>3. UNCHANGED <<buf.limit, buf.closed>>
    OBVIOUS
  <2>4. n <= Len(q)
    BY <1>1
  <2> QED BY <2>1, <2>2, <2>3, <2>4 DEF Fifo!Get, Fifo!Answer, Reply
<1> QED BY <1>3, <1>4

\* Every step of a draining client is one of the queue.
LEMMA StepIsFifoStep ==
  ASSUME IInv, StartsOver, Draining, BufferNext
  PROVE  StartsOver' /\ Fifo!Next
<1> SUFFICES buf'.first = 0 /\ Fifo!Next
  BY DEF StartsOver
<1>1. /\ buf \in Buffers(Stored, AllLimits) /\ Geometry(buf) /\ Live(buf, Elem)
      /\ buf.first = 0 /\ buf.size \in Nat /\ Moved \in Stored
      /\ SubSeq(buf.data, 1, buf.size) = Contents(buf)
      /\ Len(Contents(buf)) = buf.size
      /\ "one" \notin uses /\ "upto" \notin uses /\ "partial" \notin uses
  BY DrainingParts DEF Draining
<1>2. ASSUME NEW r \in Buffers(Stored, AllLimits), r.size = 0, r.first = 0,
             r.limit = buf.limit, r.closed = buf.closed, buf' = r,
             reply' = Reply("read", buf.size > 0, <<>>, Contents(buf))
      PROVE  buf'.first = 0 /\ Fifo!Next
  BY <1>1, <1>2, ReadIsGet DEF Fifo!Next
<1>3. ASSUME NEW s \in Items, Write(s)
      PROVE  buf'.first = 0 /\ Fifo!Next
  BY <1>3, WriteIsPut DEF Fifo!Next
<1>4. ASSUME NEW r \in Consumed(buf, buf.size, buf.size)
      PROVE  /\ r \in Buffers(Stored, AllLimits) /\ r.size = 0 /\ r.first = 0
             /\ r.limit = buf.limit /\ r.closed = buf.closed
  <2>1. PICK n \in Nat : n = buf.size
    BY <1>1
  <2>2. r \in Consumed(buf, n, n) /\ n <= buf.size /\ n <= n
    BY <1>4, <2>1
  <2>3. r \in Buffers(Stored, AllLimits) /\ LeftBy(r, buf, n, n)
    BY <1>1, <2>2, ConsumedGeometry
  <2> QED BY <2>1, <2>3 DEF LeftBy, Geometry
<1>5. CASE ReadAll
  BY <1>2, <1>4, <1>5 DEF ReadAll
<1>6. CASE ReadAllSwap
  <2>1. /\ buf' \in Swapped(buf)
        /\ reply' = Reply("read", buf.size > 0, <<>>, Contents(buf))
    BY <1>1, <1>6 DEF ReadAllSwap
  <2>2. \A r \in Swapped(buf) : r \in Buffers(Stored, AllLimits) /\ EmptiedFrom(r, buf)
    BY <1>1, SwappedGeometry
  <2> QED BY <1>2, <2>1, <2>2 DEF EmptiedFrom
<1>7. CASE Clear
  <2>1. \A r \in Cleared(buf) : r \in Buffers(Stored, AllLimits) /\ EmptiedFrom(r, buf)
    BY <1>1, ClearedGeometry
  <2>2. /\ buf'.size = 0 /\ buf'.first = 0
        /\ buf'.limit = buf.limit /\ buf'.closed = buf.closed
    BY <1>7, <2>1 DEF Clear, EmptiedFrom
  <2>3. Contents(buf') = <<>>
    BY <2>2, EmptyContents
  <2>4. Contents(buf)' = <<>>
    BY <2>3 DEF Contents, Slot, Capacity
  <2>5. Fifo!Discard
    BY <1>7, <2>2, <2>4 DEF Clear, Fifo!Discard, Fifo!Answer, Reply
  <2> QED BY <2>2, <2>5 DEF Fifo!Next
<1>8. ASSUME NEW l \in NewLimits, SetMaxSize(l)
      PROVE  buf'.first = 0 /\ Fifo!Next
  <2>1. /\ buf'.data = buf.data /\ buf'.first = buf.first /\ buf'.size = buf.size
        /\ buf'.limit = l /\ buf'.closed = buf.closed
    BY <1>1, <1>8 DEF SetMaxSize, Buffers
  <2>2. Contents(buf)' = Contents(buf)
    BY <2>1 DEF Contents, Slot, Capacity
  <2>3. Fifo!Resize(l) /\ l \in Limits \cup NewLimits
    BY <1>8, <2>1, <2>2 DEF SetMaxSize, Fifo!Resize, Fifo!Answer, Reply
  <2> QED BY <1>1, <2>1, <2>3 DEF Fifo!Next
<1>9. CASE Close
  <2>1. /\ buf'.data = buf.data /\ buf'.first = buf.first /\ buf'.size = buf.size
        /\ buf'.limit = buf.limit /\ buf'.closed = TRUE
    BY <1>1, <1>9 DEF Close, Buffers
  <2>2. Contents(buf)' = Contents(buf)
    BY <2>1 DEF Contents, Slot, Capacity
  <2>3. Fifo!Shut
    BY <1>9, <2>1, <2>2 DEF Close, Fifo!Shut, Fifo!Answer, Reply
  <2> QED BY <1>1, <2>1, <2>3 DEF Fifo!Next
<1> QED BY <1>1, <1>3, <1>5, <1>6, <1>7, <1>8, <1>9
        DEF BufferNext, ReadOne, ReadUpTo, ReadPartly

\* For a client that takes everything the circular buffer is a queue: its
\* indices, its moved-from slots, its growing and shrinking cannot be seen.
THEOREM DrainedBufferIsAFifo == BufferSpec => ImplementsFifo
<1>1. BufferInit => StartsOver /\ (Draining => Fifo!Init)
  <2> SUFFICES ASSUME NEW l \in Limits, buf = EmptyBuffer(l),
                      reply = Reply("none", TRUE, <<>>, <<>>)
               PROVE  StartsOver /\ (Draining => Fifo!Init)
    BY DEF BufferInit
  <2>1. /\ buf.size = 0 /\ buf.first = 0 /\ buf.limit = l /\ buf.closed = FALSE
    BY DEF EmptyBuffer
  <2>2. Contents(buf) = <<>>
    BY <2>1, EmptyContents
  <2> QED BY <2>1, <2>2 DEF StartsOver, Fifo!Init, Fifo!Answer, Reply
<1>2. IInv /\ StartsOver /\ [BufferNext]_bufferVars =>
        StartsOver' /\ [Draining => [Fifo!Next]_(Fifo!vars)]_bufferVars
  <2> SUFFICES ASSUME IInv, StartsOver, [BufferNext]_bufferVars
               PROVE  StartsOver' /\ (Draining => [Fifo!Next]_(Fifo!vars))
    OBVIOUS
  <2>1. Draining' = Draining
    BY DEF Draining, BufferNext, bufferVars
  <2>2. CASE BufferNext /\ Draining
    BY <2>2, StepIsFifoStep
  <2>3. CASE ~Draining
    BY <2>1, <2>3 DEF StartsOver
  <2>4. CASE UNCHANGED bufferVars
    BY <2>4 DEF bufferVars, StartsOver, Draining, Fifo!vars, Contents, Slot, Capacity
  <2> QED BY <2>2, <2>3, <2>4
<1> QED BY <1>1, <1>2, Invariance, PTL DEF BufferSpec, ImplementsFifo

-----------------------------------------------------------------------------
(* The chunks of a sparse array.                                           *)

\* What a chunk may hold.
Cell == Values \cup {NewChunkValue}

\* A function is its values.
Mapping(c) == c = [k \in DOMAIN c |-> c[k]]

\* Runs of keys, in their order, of which two may touch.
Laid(c) ==
  /\ DOMAIN c \subseteq Keys /\ Mapping(c)
  /\ \A k \in DOMAIN c : c[k] \in Seq(Cell) /\ Len(c[k]) > 0 /\ LastIndex(c, k) <= MaxKey + 1
  /\ \A k, other \in DOMAIN c : k < other => LastIndex(c, k) <= other

\* Of which none do, but for the one at first and the next.
RunsBut(c, first) ==
  Laid(c) /\ \A k, other \in DOMAIN c : k < other /\ k # first => LastIndex(c, k) < other
Runs(c) == Laid(c) /\ \A k, other \in DOMAIN c : k < other => LastIndex(c, k) < other

Covers(c, k, i) == k \in DOMAIN c /\ k <= i /\ i < LastIndex(c, k)

\* The keys are a range of integers.
LEMMA KeysAre ==
  /\ MinKey \in Int /\ MaxKey \in Int /\ MinKey <= 0 /\ 0 <= MaxKey /\ Default \in Cell
  /\ Keys = {i \in Int : MinKey <= i /\ i <= MaxKey}
BY SparseArrayAssumption DEF Keys, Cell

\* A chunk begins and ends among the keys.
LEMMA ChunkParts ==
  ASSUME NEW c, Laid(c), NEW k \in DOMAIN c
  PROVE  /\ k \in Int /\ MinKey <= k /\ k < LastIndex(c, k) /\ LastIndex(c, k) <= MaxKey + 1
         /\ LastIndex(c, k) \in Int /\ LastIndex(c, k) = k + Len(c[k]) /\ Len(c[k]) \in Nat
         /\ Len(c[k]) > 0 /\ c[k] \in Seq(Cell)
BY KeysAre DEF Laid, LastIndex

\* The chunk that upper_bound() finds.
LEMMA ChunkIs ==
  ASSUME NEW c, Laid(c), NEW i \in Int, UpTo(c, i) # {}
  PROVE  /\ Chunk(c, i) \in DOMAIN c /\ Chunk(c, i) <= i
         /\ \A other \in DOMAIN c : other <= i => other <= Chunk(c, i)
<1>1. UpTo(c, i) \in SUBSET Int /\ \A k \in UpTo(c, i) : k <= i
  BY KeysAre DEF UpTo, Laid
<1>2. \E m \in UpTo(c, i) : \A x \in UpTo(c, i) : x <= m
  BY <1>1, GreatestNumber
<1>3. Chunk(c, i) \in UpTo(c, i) /\ \A other \in UpTo(c, i) : other <= Chunk(c, i)
  BY <1>2 DEF Chunk, Greatest
<1> QED BY <1>3 DEF UpTo

\* A key is found in the chunk that covers it.
LEMMA CoverIs ==
  ASSUME NEW c, Laid(c), NEW i \in Int, NEW k, Covers(c, k, i)
  PROVE  /\ Chunk(c, i) = k /\ IsStored(c, i) /\ At(c, i) = c[k][i - k + 1]
         /\ i \in Keys /\ i - k + 1 \in 1..Len(c[k]) /\ At(c, i) \in Cell
<1>1. k \in DOMAIN c /\ k <= i /\ i < LastIndex(c, k) /\ UpTo(c, i) # {}
  BY DEF Covers, UpTo
<1>2. /\ k \in Int /\ MinKey <= k /\ LastIndex(c, k) <= MaxKey + 1
      /\ LastIndex(c, k) = k + Len(c[k]) /\ Len(c[k]) \in Nat /\ c[k] \in Seq(Cell)
  BY <1>1, ChunkParts
<1>3. Chunk(c, i) = k
  <2> DEFINE m == Chunk(c, i)
  <2>1. m \in DOMAIN c /\ m <= i /\ k <= m
    BY <1>1, ChunkIs
  <2>2. m \in Int
    BY <2>1, ChunkParts
  <2>3. k < m => LastIndex(c, k) <= m
    BY <1>1, <2>1 DEF Laid
  <2> HIDE DEF m
  <2>4. m = k
    BY <1>1, <1>2, <2>1, <2>2, <2>3
  <2> QED BY <2>4 DEF m
<1>4. IsStored(c, i) /\ At(c, i) = c[k][i - k + 1]
  BY <1>1, <1>3 DEF IsStored, InChunk, At
<1>5. i \in Keys /\ i - k + 1 \in 1..Len(c[k])
  BY <1>1, <1>2, KeysAre
<1> QED BY <1>2, <1>3, <1>4, <1>5

\* A key that is found is covered.
LEMMA StoredIs ==
  ASSUME NEW c, Laid(c), NEW i \in Int
  PROVE  /\ IsStored(c, i) <=> \E k \in DOMAIN c : Covers(c, k, i)
         /\ IsStored(c, i) => Covers(c, Chunk(c, i), i) /\ i \in Keys
         /\ ~IsStored(c, i) => At(c, i) = Default
<1>1. IsStored(c, i) => Covers(c, Chunk(c, i), i)
  BY ChunkIs DEF IsStored, InChunk, Covers
<1>2. ASSUME NEW k, Covers(c, k, i) PROVE IsStored(c, i) /\ i \in Keys
  BY <1>2, CoverIs
<1>3. \A k : Covers(c, k, i) => k \in DOMAIN c
  BY DEF Covers
<1> QED BY <1>1, <1>2, <1>3 DEF At

\* Two arrays with the same elements.
SameElements(c, r) == \A i \in Int : (IsStored(r, i) <=> IsStored(c, i)) /\ At(r, i) = At(c, i)

\* One chunk more or other, and some less.
Putting(c, k, s, r) ==
  /\ DOMAIN r = DOMAIN c \cup {k} /\ Mapping(r) /\ r[k] = s /\ LastIndex(r, k) = k + Len(s)
  /\ \A i \in DOMAIN c : i # k => r[i] = c[i] /\ LastIndex(r, i) = LastIndex(c, i)
Dropping(c, K, r) ==
  /\ DOMAIN r = DOMAIN c \ K /\ Mapping(r)
  /\ \A i \in DOMAIN r : r[i] = c[i] /\ LastIndex(r, i) = LastIndex(c, i)

LEMMA PutIs == ASSUME NEW c, NEW k, NEW s PROVE Putting(c, k, s, PutChunk(c, k, s))
BY DEF PutChunk, LastIndex, Mapping, Putting

LEMMA DropIs == ASSUME NEW c, NEW K PROVE Dropping(c, K, DropChunks(c, K))
BY DEF DropChunks, LastIndex, Mapping, Dropping

\* What an array has where two chunks cover keys with the same value.
LEMMA SameAt ==
  ASSUME NEW c, Laid(c), NEW r, Laid(r), NEW i \in Int, NEW j \in Int,
         NEW k, NEW m, Covers(c, k, i), Covers(r, m, j), r[m][j - m + 1] = c[k][i - k + 1]
  PROVE  IsStored(c, i) /\ IsStored(r, j) /\ At(r, j) = At(c, i)
BY CoverIs

\* What a chunk that is put does to the elements.
PutInto(c, k, s, r) ==
  /\ Laid(r)
  /\ \A i \in Int : k <= i /\ i < k + Len(s) => IsStored(r, i) /\ At(r, i) = s[i - k + 1]
  /\ \A i \in Int : ~(k <= i /\ i < k + Len(s)) =>
       /\ IsStored(r, i) <=> IsStored(c, i) /\ ~Covers(c, k, i)
       /\ IsStored(r, i) => At(r, i) = At(c, i)

\* What dropping chunks does to them.
DroppedFrom(c, K, r) ==
  /\ Laid(r) /\ (Runs(c) => Runs(r))
  /\ \A i \in Int : /\ IsStored(r, i) <=> IsStored(c, i) /\ Chunk(c, i) \notin K
                    /\ IsStored(r, i) => At(r, i) = At(c, i)

\* A chunk that is put between the others, or in place of one.
LEMMA PutElements ==
  ASSUME NEW c, Laid(c), NEW k \in Int, MinKey <= k, NEW s \in Seq(Cell), Len(s) > 0,
         k + Len(s) <= MaxKey + 1,
         \A other \in DOMAIN c : /\ other < k => LastIndex(c, other) <= k
                                 /\ k < other => k + Len(s) <= other
  PROVE  PutInto(c, k, s, PutChunk(c, k, s))
<1> DEFINE r == PutChunk(c, k, s)
<1>0. Putting(c, k, s, r)
  BY PutIs
<1> HIDE DEF r
<1>1. /\ DOMAIN r = DOMAIN c \cup {k} /\ Mapping(r) /\ r[k] = s
      /\ \A i \in DOMAIN c : i # k => r[i] = c[i] /\ LastIndex(r, i) = LastIndex(c, i)
      /\ LastIndex(r, k) = k + Len(s)
  BY <1>0 DEF Putting
<1>2. Len(s) \in Nat /\ k < k + Len(s)
  OBVIOUS
<1>3. Laid(r)
  <2>1. DOMAIN r \subseteq Keys
    BY <1>1, <1>2, KeysAre DEF Laid
  <2>2. \A m \in DOMAIN r : r[m] \in Seq(Cell) /\ Len(r[m]) > 0 /\ LastIndex(r, m) <= MaxKey + 1
    BY <1>1 DEF Laid
  <2>3. ASSUME NEW m \in DOMAIN r, NEW other \in DOMAIN r, m < other
        PROVE  LastIndex(r, m) <= other
    <3>1. CASE m = k
      BY <1>1, <2>3, <3>1
    <3>2. CASE other = k
      BY <1>1, <2>3, <3>2
    <3>3. CASE m # k /\ other # k
      BY <1>1, <2>3, <3>3 DEF Laid
    <3> QED BY <3>1, <3>2, <3>3
  <2> QED BY <1>1, <2>1, <2>2, <2>3 DEF Laid
<1>4. ASSUME NEW i \in Int, k <= i, i < k + Len(s) PROVE IsStored(r, i) /\ At(r, i) = s[i - k + 1]
  <2>1. Covers(r, k, i)
    BY <1>1, <1>4 DEF Covers
  <2> QED BY <1>1, <1>3, <2>1, CoverIs
<1>5. ASSUME NEW i \in Int, ~(k <= i /\ i < k + Len(s)), IsStored(c, i), ~Covers(c, k, i)
      PROVE  IsStored(r, i) /\ At(r, i) = At(c, i)
  <2>1. PICK m \in DOMAIN c : Covers(c, m, i)
    BY <1>5, StoredIs
  <2>2. m # k /\ m \in DOMAIN r /\ r[m] = c[m] /\ LastIndex(r, m) = LastIndex(c, m)
    BY <1>1, <1>5, <2>1
  <2>3. Covers(r, m, i)
    BY <2>1, <2>2 DEF Covers
  <2> QED BY <1>3, <2>1, <2>2, <2>3, SameAt
<1>6. ASSUME NEW i \in Int, ~(k <= i /\ i < k + Len(s)), IsStored(r, i)
      PROVE  IsStored(c, i) /\ ~Covers(c, k, i)
  <2>1. PICK m \in DOMAIN r : Covers(r, m, i)
    BY <1>3, <1>6, StoredIs
  <2>2. m # k
    BY <1>1, <1>6, <2>1 DEF Covers
  <2>3. Covers(c, m, i)
    BY <1>1, <2>1, <2>2 DEF Covers
  <2>4. IsStored(c, i) /\ Chunk(c, i) = m
    BY <2>3, CoverIs
  <2> QED BY <2>2, <2>4, CoverIs
<1>7. PutInto(c, k, s, r)
  BY <1>3, <1>4, <1>5, <1>6 DEF PutInto
<1> QED BY <1>7 DEF r

\* A chunk put apart from the others, or touching the next.
LEMMA PutRuns ==
  ASSUME NEW c, Runs(c), NEW k \in Int, NEW s, NEW r, r = PutChunk(c, k, s), Laid(r),
         \A other \in DOMAIN c : other < k => LastIndex(c, other) < k
  PROVE  /\ RunsBut(r, k)
         /\ (\A other \in DOMAIN c : k < other => k + Len(s) < other) => Runs(r)
<1>0. Putting(c, k, s, r)
  BY PutIs
<1>1. /\ DOMAIN r = DOMAIN c \cup {k}
      /\ \A i \in DOMAIN c : i # k => LastIndex(r, i) = LastIndex(c, i)
      /\ LastIndex(r, k) = k + Len(s)
  BY <1>0 DEF Putting
<1>2. ASSUME NEW m \in DOMAIN r, NEW other \in DOMAIN r, m < other, m # k
      PROVE  LastIndex(r, m) < other
  <2>1. m \in DOMAIN c /\ LastIndex(r, m) = LastIndex(c, m)
    BY <1>1, <1>2
  <2>2. CASE other = k
    BY <1>2, <2>1, <2>2
  <2>3. CASE other # k
    BY <1>1, <1>2, <2>1, <2>3 DEF Runs
  <2> QED BY <2>2, <2>3
<1>3. ASSUME \A other \in DOMAIN c : k < other => k + Len(s) < other,
             NEW m \in DOMAIN r, NEW other \in DOMAIN r, m < other
      PROVE  LastIndex(r, m) < other
  <2>1. CASE m = k
    BY <1>1, <1>3, <2>1
  <2> QED BY <1>2, <1>3, <2>1
<1> QED BY <1>2, <1>3 DEF RunsBut, Runs

\* Some chunks are dropped.
LEMMA DropElements ==
  ASSUME NEW c, Laid(c), NEW K
  PROVE  DroppedFrom(c, K, DropChunks(c, K))
<1> DEFINE r == DropChunks(c, K)
<1>0. Dropping(c, K, r)
  BY DropIs
<1> HIDE DEF r
<1>1. /\ DOMAIN r = DOMAIN c \ K /\ Mapping(r)
      /\ \A i \in DOMAIN r : r[i] = c[i] /\ LastIndex(r, i) = LastIndex(c, i)
  BY <1>0 DEF Dropping
<1>2. Laid(r) /\ (Runs(c) => Runs(r))
  BY <1>1 DEF Laid, Runs
<1>3. ASSUME NEW i \in Int, IsStored(r, i)
      PROVE  IsStored(c, i) /\ Chunk(c, i) \notin K /\ At(r, i) = At(c, i)
  <2>1. PICK m \in DOMAIN r : Covers(r, m, i)
    BY <1>2, <1>3, StoredIs
  <2>2. Covers(c, m, i) /\ r[m] = c[m] /\ m \notin K
    BY <1>1, <2>1 DEF Covers
  <2>3. Chunk(c, i) = m
    BY <2>2, CoverIs
  <2> QED BY <1>2, <2>1, <2>2, <2>3, SameAt
<1>4. ASSUME NEW i \in Int, IsStored(c, i), Chunk(c, i) \notin K PROVE IsStored(r, i)
  <2>1. Covers(c, Chunk(c, i), i)
    BY <1>4, StoredIs
  <2>2. Covers(r, Chunk(c, i), i)
    BY <1>1, <1>4, <2>1 DEF Covers
  <2> QED BY <1>2, <2>2, CoverIs
<1>5. DroppedFrom(c, K, r)
  BY <1>2, <1>3, <1>4 DEF DroppedFrom
<1> QED BY <1>5 DEF r

\* Joining two chunks that touch changes no element.
LEMMA CompactIs ==
  ASSUME NEW c, NEW first \in DOMAIN c, RunsBut(c, first), NEW r, r = Compact(c, first)
  PROVE  Runs(r) /\ SameElements(c, r)
<1> DEFINE above == Above(c, first)
           second == Least(above)
<1>1. Laid(c) /\ first \in Int
  BY ChunkParts DEF RunsBut
<1>2. ASSUME above # {} PROVE second \in above /\ \A k \in above : second <= k
  <2>1. above \in SUBSET Int /\ \A k \in above : first <= k
    BY <1>1, KeysAre DEF Above, Laid
  <2>2. \E m \in above : \A other \in above : m <= other
    BY <1>1, <1>2, <2>1, LowestNumber
  <2> HIDE DEF above
  <2> QED BY <2>2 DEF Least
<1>3. CASE ~(above # {} /\ LastIndex(c, first) = second)
  <2>1. r = c
    BY <1>3 DEF Compact
  <2>2. ASSUME NEW k \in DOMAIN c, NEW other \in DOMAIN c, k < other PROVE LastIndex(c, k) < other
    <3>1. CASE k # first
      BY <2>2, <3>1 DEF RunsBut
    <3>2. CASE k = first
      <4>1. other \in above
        BY <2>2, <3>2 DEF Above
      <4>2. second \in above /\ second <= other /\ LastIndex(c, first) # second
        BY <1>2, <1>3, <4>1
      <4>3. second \in DOMAIN c /\ first < second
        BY <4>2 DEF Above
      <4>4. LastIndex(c, first) <= second
        BY <1>1, <4>3 DEF Laid
      <4>5. second \in Int /\ other \in Int /\ LastIndex(c, first) \in Int
        BY <1>1, <4>3, ChunkParts
      <4> QED BY <3>2, <4>2, <4>4, <4>5
    <3> QED BY <3>1, <3>2
  <2> QED BY <1>1, <2>1, <2>2 DEF Runs, SameElements
<1>4. CASE above # {} /\ LastIndex(c, first) = second
  <2> DEFINE s == c[first] \o c[second]
             u == PutChunk(c, first, s)
  <2>1. second \in DOMAIN c /\ first < second /\ second # first
        /\ \A k \in DOMAIN c : first < k => second <= k
    BY <1>1, <1>2, <1>4 DEF Above
  <2>2. r = DropChunks(u, {second})
    BY <1>4 DEF Compact
  <2> HIDE DEF above, second
  <2>3. /\ c[first] \in Seq(Cell) /\ c[second] \in Seq(Cell) /\ second \in Int
        /\ second = first + Len(c[first]) /\ Len(c[first]) \in Nat /\ Len(c[second]) \in Nat
        /\ LastIndex(c, second) = second + Len(c[second]) /\ Len(c[first]) > 0
        /\ LastIndex(c, second) <= MaxKey + 1
    BY <1>1, <1>4, <2>1, ChunkParts
  <2>4. /\ s \in Seq(Cell) /\ Len(s) = Len(c[first]) + Len(c[second])
        /\ \A i \in 1..Len(c[first]) : s[i] = c[first][i]
        /\ \A i \in 1..Len(c[second]) : s[Len(c[first]) + i] = c[second][i]
    BY <2>3
  <2> HIDE DEF s
  <2>15. Putting(c, first, s, u)
    BY PutIs
  <2>16. Dropping(u, {second}, r)
    BY <2>2, DropIs
  <2>5. /\ DOMAIN u = DOMAIN c \cup {first} /\ u[first] = s
        /\ \A i \in DOMAIN c : i # first => u[i] = c[i] /\ LastIndex(u, i) = LastIndex(c, i)
        /\ LastIndex(u, first) = first + Len(s)
    BY <2>15 DEF Putting
  <2> HIDE DEF u
  <2>6. /\ DOMAIN r = DOMAIN u \ {second} /\ Mapping(r)
        /\ \A i \in DOMAIN r : r[i] = u[i] /\ LastIndex(r, i) = LastIndex(u, i)
    BY <2>16 DEF Dropping
  <2>7. /\ DOMAIN r = DOMAIN c \ {second} /\ first \in DOMAIN r /\ r[first] = s
        /\ LastIndex(r, first) = LastIndex(c, second)
        /\ \A i \in DOMAIN r : i # first => r[i] = c[i] /\ LastIndex(r, i) = LastIndex(c, i)
    BY <1>1, <2>1, <2>3, <2>4, <2>5, <2>6
  <2>8. ASSUME NEW k \in DOMAIN r, NEW other \in DOMAIN r, k < other PROVE LastIndex(r, k) < other
    <3>1. k \in DOMAIN c /\ other \in DOMAIN c /\ k # second /\ other # second
      BY <2>7
    <3>2. CASE k # first
      BY <2>7, <2>8, <3>1, <3>2 DEF RunsBut
    <3>3. CASE k = first
      <4>1. second < other
        BY <1>1, <2>1, <2>3, <2>8, <3>1, <3>3, ChunkParts
      <4>2. LastIndex(c, second) < other
        BY <2>1, <3>1, <4>1 DEF RunsBut
      <4> QED BY <2>7, <3>3, <4>2
    <3> QED BY <3>2, <3>3
  <2>9. \A k \in DOMAIN r : r[k] \in Seq(Cell) /\ Len(r[k]) > 0 /\ LastIndex(r, k) <= MaxKey + 1
    <3> SUFFICES ASSUME NEW k \in DOMAIN r
                 PROVE  r[k] \in Seq(Cell) /\ Len(r[k]) > 0 /\ LastIndex(r, k) <= MaxKey + 1
      OBVIOUS
    <3>1. CASE k = first
      BY <2>3, <2>4, <2>7, <3>1
    <3>2. CASE k # first
      BY <1>1, <2>7, <3>2, ChunkParts
    <3> QED BY <3>1, <3>2
  <2>10. Runs(r)
    <3>1. DOMAIN r \subseteq Keys
      BY <1>1, <2>7 DEF Laid
    <3>2. \A k, other \in DOMAIN r : k < other => LastIndex(r, k) <= other
      <4> SUFFICES ASSUME NEW k \in DOMAIN r, NEW other \in DOMAIN r, k < other
                   PROVE  LastIndex(r, k) <= other
        OBVIOUS
      <4>1. LastIndex(r, k) < other
        BY <2>8
      <4>2. other \in Int /\ LastIndex(r, k) \in Int
        BY <1>1, <2>1, <2>7, ChunkParts
      <4> QED BY <4>1, <4>2
    <3> QED BY <2>6, <2>8, <2>9, <3>1, <3>2 DEF Runs, Laid
  <2>11. Laid(r)
    BY <2>10 DEF Runs
  <2>12. ASSUME NEW i \in Int, IsStored(c, i) PROVE IsStored(r, i) /\ At(r, i) = At(c, i)
    <3>1. PICK k \in DOMAIN c : Covers(c, k, i)
      BY <1>1, <2>12, StoredIs
    <3>2. i - k + 1 \in 1..Len(c[k])
      BY <1>1, <3>1, CoverIs
    <3>3. CASE k # first /\ k # second
      <4>1. Covers(r, k, i) /\ r[k] = c[k]
        BY <2>7, <3>1, <3>3 DEF Covers
      <4> QED BY <1>1, <2>11, <3>1, <4>1, SameAt
    <3>4. CASE k = first
      <4>1. Covers(r, first, i)
        <5>1. first <= i /\ i < LastIndex(c, first)
          BY <3>1, <3>4 DEF Covers
        <5>2. i < LastIndex(c, second)
          BY <1>1, <1>4, <2>1, <2>3, <5>1
        <5> QED BY <2>7, <5>1, <5>2 DEF Covers
      <4>2. r[first][i - first + 1] = c[first][i - first + 1]
        BY <2>4, <2>7, <3>2, <3>4
      <4> QED BY <1>1, <2>11, <3>1, <3>4, <4>1, <4>2, SameAt
    <3>5. CASE k = second
      <4>1. second <= i /\ i < LastIndex(c, second)
        BY <3>1, <3>5 DEF Covers
      <4>2. first <= i
        BY <1>1, <2>1, <2>3, <4>1
      <4>3. Covers(r, first, i)
        BY <2>7, <4>1, <4>2 DEF Covers
      <4>4. i - first + 1 = Len(c[first]) + (i - second + 1)
        BY <1>1, <2>3
      <4>5. r[first][i - first + 1] = c[second][i - second + 1]
        BY <2>4, <2>7, <3>2, <3>5, <4>4
      <4> QED BY <1>1, <2>11, <3>1, <3>5, <4>3, <4>5, SameAt
    <3> QED BY <3>3, <3>4, <3>5
  <2>13. ASSUME NEW i \in Int, IsStored(r, i) PROVE IsStored(c, i)
    <3>1. PICK k \in DOMAIN r : Covers(r, k, i)
      BY <2>11, <2>13, StoredIs
    <3>2. CASE k # first
      <4>1. Covers(c, k, i)
        BY <2>7, <3>1, <3>2 DEF Covers
      <4> QED BY <1>1, <4>1, CoverIs
    <3>3. CASE k = first
      <4>1. first <= i /\ i < LastIndex(c, second)
        BY <2>7, <3>1, <3>3 DEF Covers
      <4>2. Covers(c, first, i) \/ Covers(c, second, i)
        BY <1>1, <1>4, <2>1, <2>3, <4>1 DEF Covers
      <4> QED BY <1>1, <4>2, CoverIs
    <3> QED BY <3>2, <3>3
  <2>14. \A i \in Int : ~IsStored(c, i) => At(c, i) = Default /\ At(r, i) = Default
    BY <2>13 DEF At
  <2> QED BY <2>10, <2>12, <2>13, <2>14 DEF SameElements
<1> QED BY <1>3, <1>4

-----------------------------------------------------------------------------
(* One element.                                                            *)

\* ref() stores an element under idx, unless there is one, and changes no other.
LEMMA RefIs ==
  ASSUME NEW c, Runs(c), NEW idx \in Keys, NEW r, r = Ref(c, idx)
  PROVE  /\ Runs(r) /\ IsStored(r, idx) /\ (IsStored(c, idx) => r = c)
         /\ ~IsStored(c, idx) => At(r, idx) = IF IsStored(c, idx - 1) THEN Default ELSE NewChunkValue
         /\ \A i \in Int : i # idx => (IsStored(r, i) <=> IsStored(c, i)) /\ At(r, i) = At(c, i)
<1> DEFINE k == Chunk(c, idx)
           appends == UpTo(c, idx) # {} /\ idx = LastIndex(c, k)
<1>1. Laid(c) /\ idx \in Int /\ MinKey <= idx /\ idx <= MaxKey /\ MaxKey \in Int /\ MinKey \in Int
  BY KeysAre DEF Runs
<1>2. CASE IsStored(c, idx)
  BY <1>2 DEF Ref
<1>3. CASE ~IsStored(c, idx) /\ appends
  <2> DEFINE s == Append(c[k], Default)
             u == PutChunk(c, k, s)
  <2>1. r = Compact(u, k)
    BY <1>3 DEF Ref
  <2>2. k \in DOMAIN c /\ idx = LastIndex(c, k)
    BY <1>1, <1>3, ChunkIs
  <2> HIDE DEF k
  <2>3. /\ k \in Int /\ MinKey <= k /\ idx = k + Len(c[k]) /\ Len(c[k]) \in Nat /\ Len(c[k]) > 0
        /\ c[k] \in Seq(Cell)
    BY <1>1, <2>2, ChunkParts
  <2>4. /\ s \in Seq(Cell) /\ Len(s) = Len(c[k]) + 1 /\ k + Len(s) = idx + 1
        /\ s[Len(c[k]) + 1] = Default /\ \A j \in 1..Len(c[k]) : s[j] = c[k][j]
    BY <1>1, <2>3, KeysAre
  <2>5. \A other \in DOMAIN c : /\ other < k => LastIndex(c, other) < k
                                /\ k < other => k + Len(s) <= other
    <3> SUFFICES ASSUME NEW other \in DOMAIN c
                 PROVE  /\ other < k => LastIndex(c, other) < k
                        /\ k < other => k + Len(s) <= other
      OBVIOUS
    <3>1. k < other => idx < other
      BY <2>2 DEF Runs
    <3>2. other \in Int
      BY <1>1, ChunkParts
    <3>3. k < other => idx + 1 <= other
      BY <1>1, <3>1, <3>2
    <3>4. other < k => LastIndex(c, other) < k
      BY <2>2 DEF Runs
    <3> QED BY <2>4, <3>3, <3>4
  <2> HIDE DEF s
  <2>6. \A other \in DOMAIN c : /\ other < k => LastIndex(c, other) <= k
                                /\ k < other => k + Len(s) <= other
    BY <1>1, <2>3, <2>5, ChunkParts
  <2>7. Len(s) > 0 /\ k + Len(s) <= MaxKey + 1
    BY <1>1, <2>3, <2>4
  <2>8. /\ Laid(u)
        /\ \A i \in Int : k <= i /\ i < k + Len(s) => IsStored(u, i) /\ At(u, i) = s[i - k + 1]
        /\ \A i \in Int : ~(k <= i /\ i < k + Len(s)) =>
             /\ IsStored(u, i) <=> IsStored(c, i) /\ ~Covers(c, k, i)
             /\ IsStored(u, i) => At(u, i) = At(c, i)
    <3>1. PutInto(c, k, s, u)
      BY <1>1, <2>3, <2>4, <2>6, <2>7, PutElements
    <3> HIDE DEF u
    <3> QED BY <3>1 DEF PutInto
  <2>9. k \in DOMAIN u /\ RunsBut(u, k)
    <3>1. Putting(c, k, s, u)
      BY PutIs
    <3>2. k \in DOMAIN u
      BY <3>1 DEF Putting
    <3> HIDE DEF u
    <3>3. RunsBut(u, k)
      BY <2>3, <2>5, <2>8, PutRuns DEF u
    <3> QED BY <3>2, <3>3
  <2> HIDE DEF u
  <2>10. Runs(r) /\ SameElements(u, r)
    BY <2>1, <2>9, CompactIs
  <2>11. IsStored(u, idx) /\ At(u, idx) = Default
    <3>1. k <= idx /\ idx < k + Len(s) /\ idx - k + 1 = Len(c[k]) + 1
      BY <1>1, <2>3, <2>4
    <3> QED BY <1>1, <2>4, <2>8, <3>1
  <2>12. ASSUME NEW i \in Int, i # idx
         PROVE  (IsStored(u, i) <=> IsStored(c, i)) /\ At(u, i) = At(c, i)
    <3>1. CASE k <= i /\ i < k + Len(s)
      <4>1. Covers(c, k, i)
        BY <1>1, <2>2, <2>3, <2>4, <2>12, <3>1 DEF Covers
      <4>2. IsStored(c, i) /\ At(c, i) = c[k][i - k + 1] /\ i - k + 1 \in 1..Len(c[k])
        BY <1>1, <4>1, CoverIs
      <4> QED BY <2>4, <2>8, <3>1, <4>2
    <3>2. CASE ~(k <= i /\ i < k + Len(s))
      <4>1. ~Covers(c, k, i)
        BY <1>1, <2>2, <2>3, <2>4, <3>2 DEF Covers
      <4>2. IsStored(u, i) <=> IsStored(c, i)
        BY <2>8, <3>2, <4>1
      <4> QED BY <2>8, <3>2, <4>2 DEF At
    <3> QED BY <3>1, <3>2
  <2>13. IsStored(c, idx - 1)
    <3>1. Covers(c, k, idx - 1) /\ idx - 1 \in Int
      BY <1>1, <2>2, <2>3 DEF Covers
    <3> QED BY <1>1, <3>1, CoverIs
  <2> QED BY <1>1, <1>3, <2>10, <2>11, <2>12, <2>13 DEF SameElements
<1>4. CASE ~IsStored(c, idx) /\ ~appends
  <2> DEFINE s == <<NewChunkValue>>
             u == PutChunk(c, idx, s)
  <2>1. r = Compact(u, idx)
    BY <1>4 DEF Ref
  <2>2. s \in Seq(Cell) /\ Len(s) = 1 /\ s[1] = NewChunkValue
    BY DEF Cell
  <2>3. \A m \in DOMAIN c : ~Covers(c, m, idx)
    BY <1>1, <1>4, StoredIs
  <2>4. ASSUME NEW other \in DOMAIN c, other < idx PROVE LastIndex(c, other) < idx
    <3>1. UpTo(c, idx) # {}
      BY <1>1, <2>4, ChunkParts DEF UpTo
    <3>2. k \in DOMAIN c /\ k <= idx /\ other <= k
      BY <1>1, <2>4, <3>1, ChunkIs, ChunkParts
    <3>3. LastIndex(c, k) # idx /\ ~Covers(c, k, idx)
      BY <1>4, <2>3, <3>1, <3>2
    <3> HIDE DEF k
    <3>4. k \in Int /\ other \in Int /\ LastIndex(c, k) \in Int /\ LastIndex(c, other) \in Int
      BY <1>1, <3>2, ChunkParts
    <3>5. LastIndex(c, k) < idx
      BY <1>1, <3>2, <3>3, <3>4 DEF Covers
    <3>6. other < k => LastIndex(c, other) < k
      BY <3>2 DEF Runs
    <3> QED BY <1>1, <3>2, <3>4, <3>5, <3>6
  <2>5. \A other \in DOMAIN c : /\ other < idx => LastIndex(c, other) <= idx
                                /\ idx < other => idx + Len(s) <= other
    <3> SUFFICES ASSUME NEW other \in DOMAIN c
                 PROVE  /\ other < idx => LastIndex(c, other) <= idx
                        /\ idx < other => idx + Len(s) <= other
      OBVIOUS
    <3>1. other \in Int /\ LastIndex(c, other) \in Int
      BY <1>1, ChunkParts
    <3> QED BY <1>1, <2>2, <2>4, <3>1
  <2> HIDE DEF s
  <2>6. Len(s) > 0 /\ idx + Len(s) <= MaxKey + 1
    BY <1>1, <2>2
  <2>7. /\ Laid(u)
        /\ \A i \in Int : idx <= i /\ i < idx + Len(s) => IsStored(u, i) /\ At(u, i) = s[i - idx + 1]
        /\ \A i \in Int : ~(idx <= i /\ i < idx + Len(s)) =>
             /\ IsStored(u, i) <=> IsStored(c, i) /\ ~Covers(c, idx, i)
             /\ IsStored(u, i) => At(u, i) = At(c, i)
    <3>1. PutInto(c, idx, s, u)
      BY <1>1, <2>2, <2>5, <2>6, PutElements
    <3> HIDE DEF u
    <3> QED BY <3>1 DEF PutInto
  <2>8. idx \in DOMAIN u /\ RunsBut(u, idx)
    <3>1. Putting(c, idx, s, u)
      BY PutIs
    <3>2. idx \in DOMAIN u
      BY <3>1 DEF Putting
    <3> HIDE DEF u
    <3>3. RunsBut(u, idx)
      BY <1>1, <2>4, <2>7, PutRuns DEF u
    <3> QED BY <3>2, <3>3
  <2> HIDE DEF u
  <2>9. Runs(r) /\ SameElements(u, r)
    BY <2>1, <2>8, CompactIs
  <2>10. idx \notin DOMAIN c
    <3>1. idx \in DOMAIN c => Covers(c, idx, idx)
      BY <1>1, ChunkParts DEF Covers
    <3> QED BY <2>3, <3>1
  <2>11. IsStored(u, idx) /\ At(u, idx) = NewChunkValue
    <3>1. idx <= idx /\ idx < idx + Len(s) /\ idx - idx + 1 = 1
      BY <1>1, <2>2
    <3> QED BY <1>1, <2>2, <2>7, <3>1
  <2>12. ASSUME NEW i \in Int, i # idx
         PROVE  (IsStored(u, i) <=> IsStored(c, i)) /\ At(u, i) = At(c, i)
    <3>1. ~(idx <= i /\ i < idx + Len(s))
      BY <1>1, <2>2, <2>12
    <3>2. ~Covers(c, idx, i)
      BY <2>10 DEF Covers
    <3>3. IsStored(u, i) <=> IsStored(c, i)
      BY <2>7, <3>1, <3>2
    <3> QED BY <2>7, <3>1, <3>3 DEF At
  <2>13. ~IsStored(c, idx - 1)
    <3>1. idx - 1 \in Int
      BY <1>1
    <3>2. ASSUME NEW m \in DOMAIN c, Covers(c, m, idx - 1) PROVE FALSE
      <4>1. m \in Int /\ LastIndex(c, m) \in Int
        BY <1>1, <3>2, ChunkParts
      <4>2. m <= idx - 1 /\ idx - 1 < LastIndex(c, m)
        BY <3>2 DEF Covers
      <4>3. m < idx /\ ~(LastIndex(c, m) < idx)
        BY <1>1, <4>1, <4>2
      <4> QED BY <2>4, <3>2, <4>3
    <3> QED BY <1>1, <3>1, <3>2, StoredIs
  <2> QED BY <1>1, <1>4, <2>9, <2>11, <2>12, <2>13 DEF SameElements
<1> QED BY <1>2, <1>3, <1>4

\* An assignment to an element that is stored changes that one.
LEMMA AssignIs ==
  ASSUME NEW c, Runs(c), NEW idx \in Int, IsStored(c, idx), NEW v \in Cell,
         NEW r, r = Assign(c, idx, v)
  PROVE  /\ Runs(r) /\ At(r, idx) = v
         /\ \A i \in Int : /\ IsStored(r, i) <=> IsStored(c, i)
                           /\ i # idx => At(r, i) = At(c, i)
<1> DEFINE k == Chunk(c, idx)
           j == idx - k + 1
           s == [c[k] EXCEPT ![j] = v]
<1>1. Laid(c) /\ Covers(c, k, idx)
  BY StoredIs DEF Runs
<1>2. r = [c EXCEPT ![k] = s]
  BY DEF Assign
<1> HIDE DEF k
<1>3. k \in DOMAIN c /\ c[k] \in Seq(Cell) /\ j \in 1..Len(c[k]) /\ k \in Int
  BY <1>1, CoverIs, ChunkParts DEF Covers
<1>4. s \in Seq(Cell) /\ Len(s) = Len(c[k]) /\ s[j] = v /\ \A i \in 1..Len(s) : i # j => s[i] = c[k][i]
  BY <1>3
<1> HIDE DEF s
<1>5. /\ DOMAIN r = DOMAIN c /\ Mapping(r) /\ r[k] = s /\ \A m \in DOMAIN c : m # k => r[m] = c[m]
  BY <1>2, <1>3 DEF Mapping
<1>6. \A m \in DOMAIN c : LastIndex(r, m) = LastIndex(c, m)
  BY <1>4, <1>5 DEF LastIndex
<1>7. Runs(r)
  BY <1>3, <1>4, <1>5, <1>6 DEF Runs, Laid
<1>8. Laid(r)
  BY <1>7 DEF Runs
<1>9. \A i \in Int, m \in DOMAIN c : Covers(r, m, i) <=> Covers(c, m, i)
  BY <1>5, <1>6 DEF Covers
<1>10. \A i \in Int : IsStored(r, i) <=> IsStored(c, i)
  BY <1>1, <1>5, <1>8, <1>9, StoredIs
<1>11. At(r, idx) = v
  <2>1. Covers(r, k, idx)
    BY <1>1, <1>3, <1>9
  <2> QED BY <1>4, <1>5, <1>8, <2>1, CoverIs
<1>12. ASSUME NEW i \in Int, i # idx PROVE At(r, i) = At(c, i)
  <2>1. CASE ~IsStored(c, i)
    BY <1>10, <2>1 DEF At
  <2>2. CASE IsStored(c, i)
    <3>1. PICK m \in DOMAIN c : Covers(c, m, i)
      BY <1>1, <2>2, StoredIs
    <3>2. Covers(r, m, i) /\ i - m + 1 \in 1..Len(c[m])
      BY <1>1, <1>9, <3>1, CoverIs
    <3>3. r[m][i - m + 1] = c[m][i - m + 1]
      <4>1. m = k => i - m + 1 # j
        BY <1>3, <1>12
      <4> QED BY <1>4, <1>5, <3>2, <4>1
    <3> QED BY <1>1, <1>8, <3>1, <3>2, <3>3, SameAt
  <2> QED BY <2>1, <2>2
<1> QED BY <1>7, <1>10, <1>11, <1>12

\* What is left when a chunk is cut off at a key.
CutAt(c, k, idx, r) ==
  /\ Runs(r) /\ DOMAIN r \subseteq DOMAIN c
  /\ \A other \in DOMAIN r : LastIndex(r, other) = IF other = k THEN idx ELSE LastIndex(c, other)
  /\ \A i \in Int : /\ IsStored(r, i) <=> IsStored(c, i) /\ ~(idx <= i /\ i < LastIndex(c, k))
                    /\ IsStored(r, i) => At(r, i) = At(c, i)

\* A chunk that is cut off at its own key is dropped.
LEMMA CutIs ==
  ASSUME NEW c, Runs(c), NEW k \in DOMAIN c, NEW idx \in Int, k <= idx, idx < LastIndex(c, k),
         NEW s, s = SubSeq(c[k], 1, idx - k),
         NEW r, r = IF s = <<>> THEN DropChunks(c, {k}) ELSE PutChunk(c, k, s)
  PROVE  CutAt(c, k, idx, r)
<1>1. Laid(c)
  BY DEF Runs
<1>2. /\ k \in Int /\ MinKey <= k /\ LastIndex(c, k) <= MaxKey + 1 /\ LastIndex(c, k) \in Int
      /\ LastIndex(c, k) = k + Len(c[k]) /\ Len(c[k]) \in Nat /\ c[k] \in Seq(Cell)
  BY <1>1, ChunkParts
<1>3. \A i \in Int : k <= i /\ i < LastIndex(c, k) => Covers(c, k, i) /\ Chunk(c, i) = k
  <2> SUFFICES ASSUME NEW i \in Int, k <= i, i < LastIndex(c, k)
               PROVE  Covers(c, k, i) /\ Chunk(c, i) = k
    OBVIOUS
  <2>1. Covers(c, k, i)
    BY DEF Covers
  <2> QED BY <1>1, <2>1, CoverIs
<1>4. s \in Seq(Cell) /\ Len(s) = idx - k /\ \A i \in 1..(idx - k) : s[i] = c[k][i]
  <2>1. 1 \in Int /\ idx - k \in 0..Len(c[k])
    BY <1>2
  <2>2. idx - k \in Nat
    BY <1>2
  <2>3. SubSeq(c[k], 1, idx - k) \in Seq(Cell)
    BY <1>2, <2>1, <2>2
  <2>4. Len(SubSeq(c[k], 1, idx - k)) = idx - k
    BY <1>2, <2>1, <2>2
  <2>5. \A i \in 1..(idx - k) : SubSeq(c[k], 1, idx - k)[i] = c[k][i]
    BY <1>2, <2>1, <2>2
  <2> QED BY <2>3, <2>4, <2>5
<1>5. CASE s = <<>>
  <2>1. idx = k
    BY <1>2, <1>4, <1>5
  <2>2. DroppedFrom(c, {k}, r) /\ Dropping(c, {k}, r)
    BY <1>1, <1>5, DropElements, DropIs
  <2>3. ASSUME NEW i \in Int
        PROVE  (IsStored(c, i) /\ Chunk(c, i) \notin {k})
                 <=> (IsStored(c, i) /\ ~(idx <= i /\ i < LastIndex(c, k)))
    <3>1. IsStored(c, i) => Covers(c, Chunk(c, i), i)
      BY <1>1, StoredIs
    <3>2. IsStored(c, i) /\ Chunk(c, i) = k => k <= i /\ i < LastIndex(c, k)
      BY <3>1 DEF Covers
    <3> QED BY <1>3, <2>1, <3>2
  <2>4. Runs(r)
    BY <2>2 DEF DroppedFrom
  <2>5. DOMAIN r \subseteq DOMAIN c
        /\ \A other \in DOMAIN r : LastIndex(r, other) = IF other = k THEN idx ELSE LastIndex(c, other)
    BY <2>2 DEF Dropping
  <2>6. \A i \in Int : /\ IsStored(r, i) <=> IsStored(c, i) /\ ~(idx <= i /\ i < LastIndex(c, k))
                       /\ IsStored(r, i) => At(r, i) = At(c, i)
    BY <2>2, <2>3 DEF DroppedFrom
  <2> QED BY <2>4, <2>5, <2>6 DEF CutAt
<1>6. CASE s # <<>>
  <2>1. Len(s) > 0 /\ k + Len(s) = idx
    BY <1>2, <1>4, <1>6
  <2>2. \A other \in DOMAIN c : /\ other < k => LastIndex(c, other) < k
                                /\ k < other => idx < other
    <3> SUFFICES ASSUME NEW other \in DOMAIN c
                 PROVE  /\ other < k => LastIndex(c, other) < k
                        /\ k < other => idx < other
      OBVIOUS
    <3>1. k < other => LastIndex(c, k) < other
      BY DEF Runs
    <3>2. other \in Int
      BY <1>1, ChunkParts
    <3>3. other < k => LastIndex(c, other) < k
      BY DEF Runs
    <3> QED BY <1>2, <3>1, <3>2, <3>3
  <2>3. r = PutChunk(c, k, s) /\ PutInto(c, k, s, r) /\ Putting(c, k, s, r)
    <3>1. \A other \in DOMAIN c : /\ other < k => LastIndex(c, other) <= k
                                  /\ k < other => k + Len(s) <= other
      BY <1>1, <1>2, <2>1, <2>2, ChunkParts
    <3>2. k + Len(s) <= MaxKey + 1
      BY <1>2, <2>1, KeysAre
    <3> QED BY <1>1, <1>2, <1>4, <1>6, <2>1, <3>1, <3>2, PutElements, PutIs
  <2>4. Runs(r)
    <3>1. Laid(r)
      BY <2>3 DEF PutInto
    <3> QED BY <1>2, <2>1, <2>2, <2>3, <3>1, PutRuns
  <2>5. DOMAIN r \subseteq DOMAIN c
        /\ \A other \in DOMAIN r : LastIndex(r, other) = IF other = k THEN idx ELSE LastIndex(c, other)
    BY <2>1, <2>3 DEF Putting
  <2>6. ASSUME NEW i \in Int
        PROVE  /\ IsStored(r, i) <=> IsStored(c, i) /\ ~(idx <= i /\ i < LastIndex(c, k))
               /\ IsStored(r, i) => At(r, i) = At(c, i)
    <3>1. CASE k <= i /\ i < idx
      <4>1. Covers(c, k, i)
        BY <1>2, <1>3, <3>1
      <4>2. IsStored(c, i) /\ At(c, i) = c[k][i - k + 1] /\ i - k + 1 \in 1..(idx - k)
        BY <1>1, <1>2, <3>1, <4>1, CoverIs
      <4>3. IsStored(r, i) /\ At(r, i) = s[i - k + 1]
        BY <2>1, <2>3, <3>1 DEF PutInto
      <4>4. ~(idx <= i)
        BY <3>1
      <4> QED BY <1>4, <4>2, <4>3, <4>4
    <3>2. CASE ~(k <= i /\ i < idx)
      <4>1. Covers(c, k, i) <=> idx <= i /\ i < LastIndex(c, k)
        BY <1>2, <3>2 DEF Covers
      <4>2. /\ IsStored(r, i) <=> IsStored(c, i) /\ ~Covers(c, k, i)
            /\ IsStored(r, i) => At(r, i) = At(c, i)
        BY <2>1, <2>3, <3>2 DEF PutInto
      <4> QED BY <4>1, <4>2
    <3> QED BY <3>1, <3>2
  <2> QED BY <2>4, <2>5, <2>6 DEF CutAt
<1> QED BY <1>5, <1>6

\* What is left when some keys are forgotten.
Forgotten(c, gone, r) ==
  \A i \in Int : /\ IsStored(r, i) <=> IsStored(c, i) /\ i \notin gone
                 /\ IsStored(r, i) => At(r, i) = At(c, i)

\* unstore() forgets one key.
LEMMA UnstoreIs ==
  ASSUME NEW c, Runs(c), NEW idx \in Int, NEW r, r = Unstore(c, idx)
  PROVE  Runs(r) /\ Forgotten(c, {idx}, r)
<1> DEFINE k == Chunk(c, idx)
           rest == SubSeq(c[k], idx - k + 2, Len(c[k]))
           head == SubSeq(c[k], 1, idx - k)
           left == IF head = <<>> THEN DropChunks(c, {k}) ELSE PutChunk(c, k, head)
<1>1. CASE ~IsStored(c, idx)
  BY <1>1 DEF Unstore, Forgotten
<1>2. CASE IsStored(c, idx)
  <2>1. r = IF rest = <<>> THEN left ELSE PutChunk(left, idx + 1, rest)
    BY <1>2 DEF Unstore
  <2>2. Laid(c) /\ Covers(c, k, idx) /\ idx \in Keys
    BY <1>2, StoredIs DEF Runs
  <2> HIDE DEF k
  <2>3. k \in DOMAIN c /\ k <= idx /\ idx < LastIndex(c, k)
    BY <2>2 DEF Covers
  <2>4. CutAt(c, k, idx, left)
    BY <2>3, CutIs
  <2> HIDE DEF left
  <2>5. /\ k \in Int /\ MinKey <= k /\ LastIndex(c, k) <= MaxKey + 1 /\ LastIndex(c, k) \in Int
        /\ LastIndex(c, k) = k + Len(c[k]) /\ Len(c[k]) \in Nat /\ c[k] \in Seq(Cell)
        /\ MinKey \in Int /\ MaxKey \in Int
    BY <2>2, <2>3, ChunkParts, KeysAre
  <2>6. /\ rest \in Seq(Cell) /\ Len(rest) = LastIndex(c, k) - (idx + 1)
        /\ \A i \in 1..Len(rest) : rest[i] = c[k][idx - k + 1 + i]
    <3>1. idx - k + 2 \in 1..(Len(c[k]) + 1) /\ idx - k + 2 \in Nat
      BY <2>3, <2>5
    <3>2. rest \in Seq(Cell)
      BY <2>5, <3>1
    <3>3. Len(rest) = Len(c[k]) - (idx - k + 2) + 1
      BY <2>5, <3>1
    <3>4. Len(c[k]) - (idx - k + 2) + 1 = LastIndex(c, k) - (idx + 1)
      BY <2>5
    <3>5. \A i \in 1..(Len(c[k]) - (idx - k + 2) + 1) : rest[i] = c[k][(idx - k + 2) + i - 1]
      BY <2>5, <3>1
    <3>6. \A i \in Int : (idx - k + 2) + i - 1 = idx - k + 1 + i
      BY <2>5
    <3> DEFINE n == Len(c[k]) - (idx - k + 2) + 1
    <3>7. \A i \in 1..n : rest[i] = c[k][idx - k + 1 + i]
      <4> SUFFICES ASSUME NEW i \in 1..n PROVE rest[i] = c[k][idx - k + 1 + i]
        OBVIOUS
      <4>1. i \in Int
        OBVIOUS
      <4> QED BY <3>5, <3>6, <4>1
    <3> HIDE DEF rest
    <3> QED BY <3>2, <3>3, <3>4, <3>7
  <2> HIDE DEF rest
  <2>7. Runs(left) /\ Laid(left)
    BY <2>4 DEF CutAt, Runs
  <2>8. CASE rest = <<>>
    <3>1. r = left /\ LastIndex(c, k) = idx + 1
      BY <2>1, <2>5, <2>6, <2>8
    <3>2. ASSUME NEW i \in Int
          PROVE  /\ IsStored(r, i) <=> IsStored(c, i) /\ i \notin {idx}
                 /\ IsStored(r, i) => At(r, i) = At(c, i)
      <4>1. (idx <= i /\ i < LastIndex(c, k)) <=> i = idx
        BY <3>1
      <4> QED BY <2>4, <3>1, <4>1 DEF CutAt
    <3> QED BY <2>7, <3>1, <3>2 DEF Forgotten
  <2>9. CASE rest # <<>>
    <3>1. /\ Len(rest) > 0 /\ (idx + 1) + Len(rest) = LastIndex(c, k) /\ idx + 1 \in Int
          /\ MinKey <= idx + 1
      BY <2>3, <2>5, <2>6, <2>9
    <3>2. ASSUME NEW other \in DOMAIN left
          PROVE  /\ other < idx + 1 => LastIndex(left, other) < idx + 1
                 /\ idx + 1 < other => (idx + 1) + Len(rest) < other
                 /\ other # idx + 1 /\ other \in Int /\ LastIndex(left, other) \in Int
      <4>1. other \in DOMAIN c /\ other \in Int /\ LastIndex(c, other) \in Int
        BY <2>2, <2>4, ChunkParts DEF CutAt
      <4>2. CASE other = k
        BY <2>3, <2>4, <2>5, <4>2 DEF CutAt
      <4>3. CASE other < k
        <5>1. LastIndex(left, other) = LastIndex(c, other) /\ LastIndex(c, other) < k
          BY <2>3, <2>4, <2>5, <4>1, <4>3 DEF CutAt, Runs
        <5> QED BY <2>3, <2>5, <4>1, <4>3, <5>1
      <4>4. CASE k < other
        <5>1. LastIndex(left, other) = LastIndex(c, other) /\ LastIndex(c, k) < other
          BY <2>3, <2>4, <2>5, <4>1, <4>4 DEF CutAt, Runs
        <5> QED BY <2>3, <2>5, <3>1, <4>1, <4>4, <5>1
      <4> QED BY <2>5, <4>1, <4>2, <4>3, <4>4
    <3>3. r = PutChunk(left, idx + 1, rest)
      BY <2>1, <2>9
    <3>4. PutInto(left, idx + 1, rest, r)
      <4>1. \A other \in DOMAIN left : /\ other < idx + 1 => LastIndex(left, other) <= idx + 1
                                       /\ idx + 1 < other => (idx + 1) + Len(rest) <= other
        <5> SUFFICES ASSUME NEW other \in DOMAIN left
                     PROVE  /\ other < idx + 1 => LastIndex(left, other) <= idx + 1
                            /\ idx + 1 < other => (idx + 1) + Len(rest) <= other
          OBVIOUS
        <5>1. Len(rest) \in Nat
          BY <2>6
        <5> QED BY <2>5, <3>1, <3>2, <5>1
      <4> DEFINE m == idx + 1
      <4>2. m \in Int /\ MinKey <= m /\ m + Len(rest) <= MaxKey + 1
        BY <2>5, <3>1
      <4>3. \A other \in DOMAIN left : /\ other < m => LastIndex(left, other) <= m
                                       /\ m < other => m + Len(rest) <= other
        BY <4>1
      <4> HIDE DEF m
      <4>4. PutInto(left, m, rest, PutChunk(left, m, rest))
        BY <2>6, <2>7, <3>1, <4>2, <4>3, PutElements
      <4> QED BY <3>3, <4>4 DEF m
    <3>5. Runs(r)
      <4> DEFINE m == idx + 1
      <4>1. m \in Int /\ r = PutChunk(left, m, rest) /\ Laid(r)
            /\ (\A other \in DOMAIN left : other < m => LastIndex(left, other) < m)
            /\ (\A other \in DOMAIN left : m < other => m + Len(rest) < other)
        BY <3>1, <3>2, <3>3, <3>4 DEF PutInto
      <4> HIDE DEF m
      <4> QED BY <2>7, <4>1, PutRuns
    <3>6. ASSUME NEW i \in Int
          PROVE  /\ IsStored(r, i) <=> IsStored(c, i) /\ i \notin {idx}
                 /\ IsStored(r, i) => At(r, i) = At(c, i)
      <4>1. CASE idx + 1 <= i /\ i < LastIndex(c, k)
        <5>1. Covers(c, k, i)
          BY <2>3, <2>5, <4>1 DEF Covers
        <5>2. IsStored(c, i) /\ At(c, i) = c[k][i - k + 1]
          BY <2>2, <5>1, CoverIs
        <5>3. IsStored(r, i) /\ At(r, i) = rest[i - (idx + 1) + 1]
          BY <3>1, <3>4, <4>1 DEF PutInto
        <5>4. /\ i - (idx + 1) + 1 \in 1..Len(rest) /\ i # idx
              /\ idx - k + 1 + (i - (idx + 1) + 1) = i - k + 1
          <6>1. Len(rest) \in Nat /\ Len(rest) = LastIndex(c, k) - (idx + 1)
            BY <2>6
          <6> HIDE DEF rest
          <6> QED BY <2>5, <4>1, <6>1
        <5> QED BY <2>6, <5>2, <5>3, <5>4
      <4>2. CASE ~(idx + 1 <= i /\ i < LastIndex(c, k))
        <5>1. ~Covers(left, idx + 1, i)
          BY <3>2 DEF Covers
        <5>2. /\ IsStored(r, i) <=> IsStored(left, i)
              /\ IsStored(r, i) => At(r, i) = At(left, i)
          BY <3>1, <3>4, <4>2, <5>1 DEF PutInto
        <5>3. (idx <= i /\ i < LastIndex(c, k)) <=> i = idx
          BY <2>3, <2>5, <4>2
        <5>4. /\ IsStored(left, i) <=> IsStored(c, i) /\ i # idx
              /\ IsStored(left, i) => At(left, i) = At(c, i)
          BY <2>4, <5>3 DEF CutAt
        <5> QED BY <5>2, <5>4
      <4> QED BY <4>1, <4>2
    <3> QED BY <3>5, <3>6 DEF Forgotten
  <2> QED BY <2>8, <2>9
<1> QED BY <1>1, <1>2

-----------------------------------------------------------------------------
(* How many elements there are.                                            *)

\* What is stored are the keys that are covered.
LEMMA StoredKeysAre ==
  ASSUME NEW c, Laid(c)
  PROVE  /\ StoredKeys(c) = {i \in Int : IsStored(c, i)}
         /\ IsFiniteSet(StoredKeys(c)) /\ Cardinality(StoredKeys(c)) \in Nat
<1>1. \A i \in Int : IsStored(c, i) => MinKey - 1 <= i /\ i <= MaxKey + 1
  BY StoredIs, KeysAre
<1>2. StoredKeys(c) = {i \in Int : IsStored(c, i)}
  BY <1>1, KeysAre DEF StoredKeys
<1>3. IsFiniteSet((MinKey - 1)..(MaxKey + 1)) /\ StoredKeys(c) \subseteq (MinKey - 1)..(MaxKey + 1)
  BY KeysAre, FS_Interval DEF StoredKeys
<1>4. IsFiniteSet(StoredKeys(c))
  BY <1>3, FS_Subset
<1> QED BY <1>2, <1>4, FS_CardinalityType

LEMMA SameCount ==
  ASSUME NEW c, Laid(c), NEW r, Laid(r), SameElements(c, r)
  PROVE  StoredKeys(r) = StoredKeys(c)
<1>1. \A i \in Int : IsStored(r, i) <=> IsStored(c, i)
  BY DEF SameElements
<1> QED BY <1>1, StoredKeysAre

\* A range of keys less.
LEMMA IntervalGone ==
  ASSUME NEW S, IsFiniteSet(S), NEW a \in Int, NEW b \in Int, a <= b, a..(b - 1) \subseteq S
  PROVE  /\ IsFiniteSet(S \ (a..(b - 1))) /\ Cardinality(S) \in Nat
         /\ Cardinality(S \ (a..(b - 1))) = Cardinality(S) - (b - a)
<1> DEFINE last == b - 1
           T == a..last
<1>1. last \in Int /\ last - a + 1 = b - a /\ (a > last => b - a = 0)
  OBVIOUS
<1> HIDE DEF last
<1>2. Cardinality(T) = IF a > last THEN 0 ELSE last - a + 1
  BY <1>1, FS_Interval
<1>3. Cardinality(T) = b - a
  BY <1>1, <1>2
<1>4. S \cap T = T
  BY DEF last
<1> HIDE DEF T
<1>5. IsFiniteSet(S \ T) /\ Cardinality(S \ T) = Cardinality(S) - Cardinality(S \cap T)
  BY FS_Difference
<1>6. Cardinality(S) \in Nat
  BY FS_CardinalityType
<1> QED BY <1>3, <1>4, <1>5, <1>6 DEF T, last

LEMMA OneMore ==
  ASSUME NEW c, Laid(c), NEW r, Laid(r), NEW idx \in Int, IsStored(r, idx),
         \A i \in Int : i # idx => (IsStored(r, i) <=> IsStored(c, i))
  PROVE  Cardinality(StoredKeys(r)) = Cardinality(StoredKeys(c)) + (IF IsStored(c, idx) THEN 0 ELSE 1)
<1>1. StoredKeys(r) = StoredKeys(c) \cup {idx}
  BY StoredKeysAre
<1>2. idx \in StoredKeys(c) <=> IsStored(c, idx)
  BY StoredKeysAre
<1>3. IsFiniteSet(StoredKeys(c)) /\ Cardinality(StoredKeys(c)) \in Nat
  BY StoredKeysAre
<1>4. Cardinality(StoredKeys(c) \cup {idx})
        = IF idx \in StoredKeys(c) THEN Cardinality(StoredKeys(c)) ELSE Cardinality(StoredKeys(c)) + 1
  BY <1>3, FS_AddElement
<1> QED BY <1>1, <1>2, <1>3, <1>4

LEMMA OneLess ==
  ASSUME NEW c, Laid(c), NEW r, Laid(r), NEW idx \in Int, Forgotten(c, {idx}, r)
  PROVE  Cardinality(StoredKeys(r)) = Cardinality(StoredKeys(c)) - (IF IsStored(c, idx) THEN 1 ELSE 0)
<1>1. StoredKeys(r) = StoredKeys(c) \ {idx}
  <2>1. \A i \in Int : IsStored(r, i) <=> IsStored(c, i) /\ i # idx
    BY DEF Forgotten
  <2> QED BY <2>1, StoredKeysAre
<1>2. idx \in StoredKeys(c) <=> IsStored(c, idx)
  BY StoredKeysAre
<1>3. IsFiniteSet(StoredKeys(c)) /\ Cardinality(StoredKeys(c)) \in Nat
  BY StoredKeysAre
<1>4. Cardinality(StoredKeys(c) \ {idx})
        = IF idx \in StoredKeys(c) THEN Cardinality(StoredKeys(c)) - 1 ELSE Cardinality(StoredKeys(c))
  BY <1>3, FS_RemoveElement
<1> QED BY <1>1, <1>2, <1>3, <1>4

-----------------------------------------------------------------------------
(* The sum over a set of chunks is the number of keys they cover.          *)

CoveredBy(c, ks) == {i \in StoredKeys(c) : Chunk(c, i) \in ks}

\* The sum of the lengths, chunk after chunk.
Sums(c, ks, f) ==
  f = [s \in SUBSET ks |-> IF s = {} THEN 0
                           ELSE Len(c[CHOOSE x \in s : TRUE]) + f[s \ {CHOOSE x \in s : TRUE}]]

LEMMA SumIsSums ==
  ASSUME NEW c, NEW ks
  PROVE  MapThenSumSet(LAMBDA i : Len(c[i]), ks) = (CHOOSE f : Sums(c, ks, f))[ks]
BY DEF MapThenSumSet, MapThenFoldSet, Sums

\* A chunk more covers as many keys more as it has values.
LEMMA ChunkCovers ==
  ASSUME NEW c, Laid(c), NEW s \in SUBSET DOMAIN c, NEW x \in s
  PROVE  /\ CoveredBy(c, s \ {x}) = CoveredBy(c, s) \ (x..(LastIndex(c, x) - 1))
         /\ Cardinality(CoveredBy(c, s)) = Len(c[x]) + Cardinality(CoveredBy(c, s \ {x}))
         /\ Cardinality(CoveredBy(c, s)) \in Nat
<1>1. /\ x \in Int /\ x < LastIndex(c, x) /\ LastIndex(c, x) \in Int
      /\ LastIndex(c, x) = x + Len(c[x]) /\ Len(c[x]) \in Nat
  BY ChunkParts
<1>2. \A i \in Int : (IsStored(c, i) /\ Chunk(c, i) = x) <=> i \in x..(LastIndex(c, x) - 1)
  <2> SUFFICES ASSUME NEW i \in Int
               PROVE  (IsStored(c, i) /\ Chunk(c, i) = x) <=> i \in x..(LastIndex(c, x) - 1)
    OBVIOUS
  <2>1. IsStored(c, i) => Covers(c, Chunk(c, i), i)
    BY StoredIs
  <2>2. Covers(c, x, i) => Chunk(c, i) = x /\ IsStored(c, i)
    BY CoverIs
  <2>3. Covers(c, x, i) <=> i \in x..(LastIndex(c, x) - 1)
    BY <1>1 DEF Covers
  <2> QED BY <2>1, <2>2, <2>3
<1>3. \A i \in Int : i \in StoredKeys(c) <=> IsStored(c, i)
  BY StoredKeysAre
<1>4. StoredKeys(c) \subseteq Int
  BY StoredKeysAre
<1>5. CoveredBy(c, s \ {x}) = CoveredBy(c, s) \ (x..(LastIndex(c, x) - 1))
  BY <1>2, <1>3, <1>4 DEF CoveredBy
<1>6. x..(LastIndex(c, x) - 1) \subseteq CoveredBy(c, s)
  BY <1>2, <1>3 DEF CoveredBy
<1>7. IsFiniteSet(CoveredBy(c, s))
  BY StoredKeysAre, FS_Subset DEF CoveredBy
<1>8. /\ Cardinality(CoveredBy(c, s)) \in Nat
      /\ Cardinality(CoveredBy(c, s \ {x})) = Cardinality(CoveredBy(c, s)) - (LastIndex(c, x) - x)
  <2> DEFINE b == LastIndex(c, x)
             S == CoveredBy(c, s)
  <2>1. IsFiniteSet(S) /\ x \in Int /\ b \in Int /\ x <= b /\ x..(b - 1) \subseteq S
    BY <1>1, <1>6, <1>7
  <2> HIDE DEF b, S
  <2>2. Cardinality(S) \in Nat /\ Cardinality(S \ (x..(b - 1))) = Cardinality(S) - (b - x)
    BY <2>1, IntervalGone
  <2> QED BY <1>5, <2>2 DEF b, S
<1> HIDE DEF CoveredBy
<1>9. Cardinality(CoveredBy(c, s)) = Len(c[x]) + Cardinality(CoveredBy(c, s \ {x}))
  BY <1>1, <1>8
<1> QED BY <1>5, <1>8, <1>9

LEMMA SumIs ==
  ASSUME NEW c, Laid(c), NEW ks \in SUBSET DOMAIN c
  PROVE  MapThenSumSet(LAMBDA i : Len(c[i]), ks) = Cardinality(CoveredBy(c, ks))
<1> DEFINE first(s) == CHOOSE x \in s : TRUE
           g == [s \in SUBSET ks |-> Cardinality(CoveredBy(c, s))]
<1>1. \A s \in SUBSET ks : s # {} => first(s) \in s
  OBVIOUS
<1>2. CoveredBy(c, {}) = {}
  BY DEF CoveredBy
<1>3. Cardinality(CoveredBy(c, {})) = 0
  BY <1>2, FS_EmptySet
<1>4. Sums(c, ks, g)
  <2>1. ASSUME NEW s \in SUBSET ks
        PROVE  g[s] = IF s = {} THEN 0 ELSE Len(c[first(s)]) + g[s \ {first(s)}]
    <3>1. CASE s = {}
      BY <1>3, <3>1
    <3>2. CASE s # {}
      <4>1. first(s) \in s /\ s \in SUBSET DOMAIN c /\ s \ {first(s)} \in SUBSET ks
        BY <1>1, <3>2
      <4> HIDE DEF first
      <4>2. Cardinality(CoveredBy(c, s)) = Len(c[first(s)]) + Cardinality(CoveredBy(c, s \ {first(s)}))
        BY <4>1, ChunkCovers
      <4> QED BY <3>2, <4>1, <4>2
    <3> QED BY <3>1, <3>2
  <2>2. g = [s \in SUBSET ks |-> g[s]]
    OBVIOUS
  <2> HIDE DEF g
  <2>3. g = [s \in SUBSET ks |-> IF s = {} THEN 0 ELSE Len(c[first(s)]) + g[s \ {first(s)}]]
    BY <2>1, <2>2
  <2> QED BY <2>3 DEF Sums
<1> DEFINE f == CHOOSE h : Sums(c, ks, h)
<1>5. Sums(c, ks, f)
  BY <1>4
<1> HIDE DEF f, g
<1>6. \A s \in SUBSET ks : f[s] = IF s = {} THEN 0 ELSE Len(c[first(s)]) + f[s \ {first(s)}]
  BY <1>5 DEF Sums
<1> HIDE DEF first
<1>7. IsFiniteSet(ks)
  <2>1. IsFiniteSet(MinKey..MaxKey)
    BY KeysAre, FS_Interval
  <2>2. ks \subseteq MinKey..MaxKey
    BY DEF Laid, Keys
  <2> QED BY <2>1, <2>2, FS_Subset
<1> DEFINE T == {n \in Nat : \A s \in SUBSET ks : Cardinality(s) = n
                               => f[s] = Cardinality(CoveredBy(c, s))}
<1>8. 0 \in T
  <2>1. \A s \in SUBSET ks : Cardinality(s) = 0 => s = {}
    BY <1>7, FS_EmptySet, FS_Subset
  <2> QED BY <1>3, <1>6, <2>1
<1>9. ASSUME NEW n \in Nat, n \in T PROVE n + 1 \in T
  <2> SUFFICES ASSUME NEW s \in SUBSET ks, Cardinality(s) = n + 1
               PROVE  f[s] = Cardinality(CoveredBy(c, s))
    OBVIOUS
  <2>1. s # {} /\ IsFiniteSet(s)
    BY <1>7, FS_EmptySet, FS_Subset
  <2> DEFINE x == first(s)
  <2>2. x \in s
    BY <1>1, <2>1
  <2> HIDE DEF x
  <2>3. Cardinality(s \ {x}) = n
    <3>1. Cardinality(s \ {x}) = Cardinality(s) - 1
      BY <2>1, <2>2, FS_RemoveElement
    <3> QED BY <3>1
  <2>4. f[s \ {x}] = Cardinality(CoveredBy(c, s \ {x}))
    BY <1>9, <2>3
  <2>5. f[s] = Len(c[x]) + f[s \ {x}]
    BY <1>6, <2>1 DEF x
  <2>6. Cardinality(CoveredBy(c, s)) = Len(c[x]) + Cardinality(CoveredBy(c, s \ {x}))
    BY <2>2, ChunkCovers
  <2> QED BY <2>4, <2>5, <2>6
<1> HIDE DEF T
<1>10. Cardinality(ks) \in T
  BY <1>7, <1>8, <1>9, Induction, FS_CardinalityType
<1>11. f[ks] = Cardinality(CoveredBy(c, ks))
  BY <1>10 DEF T
<1> QED BY <1>11, SumIsSums DEF f

\* What removing the chunks in ks takes from the count.
Whole(d, ks) == MapThenSumSet(LAMBDA i : Len(d[i]), ks)

\* Dropping chunks drops the keys they cover.
LEMMA DropCount ==
  ASSUME NEW c, Laid(c), NEW ks \in SUBSET DOMAIN c
  PROVE  Cardinality(StoredKeys(DropChunks(c, ks)))
           = Cardinality(StoredKeys(c)) - Whole(c, ks)
<1> DEFINE r == DropChunks(c, ks)
<1>1. DroppedFrom(c, ks, r)
  BY DropElements
<1> HIDE DEF r
<1>2. Laid(r) /\ \A i \in Int : IsStored(r, i) <=> IsStored(c, i) /\ Chunk(c, i) \notin ks
  BY <1>1 DEF DroppedFrom
<1>3. StoredKeys(r) = StoredKeys(c) \ CoveredBy(c, ks)
  BY <1>2, StoredKeysAre DEF CoveredBy
<1>4. StoredKeys(c) \cap CoveredBy(c, ks) = CoveredBy(c, ks)
  BY DEF CoveredBy
<1>5. Cardinality(StoredKeys(r)) = Cardinality(StoredKeys(c)) - Cardinality(CoveredBy(c, ks))
  BY <1>3, <1>4, StoredKeysAre, FS_Difference
<1>6. Whole(c, ks) = Cardinality(CoveredBy(c, ks))
  BY SumIs DEF Whole
<1> QED BY <1>5, <1>6 DEF r

-----------------------------------------------------------------------------
(* A range of keys.                                                        *)

\* The span begins with the first chunk and ends with the last, at keys that are stored.
LEMMA SpanIs ==
  ASSUME NEW c, Laid(c)
  PROVE  /\ SpanBegin(c) \in Int /\ SpanEnd(c) \in Int
         /\ SpanEnd(c) <= MaxKey + 1 /\ SpanBegin(c) <= SpanEnd(c)
         /\ \A i \in Int : IsStored(c, i) => SpanBegin(c) <= i /\ i < SpanEnd(c)
         /\ \A k \in DOMAIN c : SpanBegin(c) <= k
         /\ DOMAIN c # {} => /\ SpanBegin(c) \in DOMAIN c /\ MinKey < SpanEnd(c)
                             /\ IsStored(c, SpanEnd(c) - 1)
         /\ DOMAIN c = {} => SpanBegin(c) = 0 /\ SpanEnd(c) = 0
<1>1. CASE DOMAIN c = {}
  <2>1. SpanBegin(c) = 0 /\ SpanEnd(c) = 0
    BY <1>1 DEF SpanBegin, SpanEnd
  <2>2. \A i \in Int : ~IsStored(c, i)
    BY <1>1 DEF IsStored, UpTo
  <2> QED BY <1>1, <2>1, <2>2, KeysAre
<1>2. CASE DOMAIN c # {}
  <2> DEFINE a == SpanBegin(c)
             g == Greatest(DOMAIN c)
             b == SpanEnd(c)
  <2>1. DOMAIN c \in SUBSET Int /\ \A k \in DOMAIN c : MinKey <= k /\ k <= MaxKey
    BY KeysAre DEF Laid
  <2>2. a \in DOMAIN c /\ \A k \in DOMAIN c : a <= k
    <3>1. \E m \in DOMAIN c : \A other \in DOMAIN c : m <= other
      BY <1>2, <2>1, KeysAre, LowestNumber
    <3> QED BY <1>2, <3>1 DEF SpanBegin, Least
  <2>3. g \in DOMAIN c /\ \A k \in DOMAIN c : k <= g
    <3>1. \E m \in DOMAIN c : \A x \in DOMAIN c : x <= m
      BY <1>2, <2>1, KeysAre, GreatestNumber
    <3> QED BY <3>1 DEF Greatest
  <2>4. b = LastIndex(c, g)
    BY <1>2 DEF SpanEnd
  <2> HIDE DEF a, g, b
  <2>5. /\ a \in Int /\ g \in Int /\ b \in Int /\ MinKey <= a /\ a <= g /\ g < b /\ b <= MaxKey + 1
    BY <2>2, <2>3, <2>4, ChunkParts
  <2>6. ASSUME NEW i \in Int, IsStored(c, i) PROVE a <= i /\ i < b
    <3>1. PICK k \in DOMAIN c : Covers(c, k, i)
      BY <2>6, StoredIs
    <3>2. k <= i /\ i < LastIndex(c, k) /\ k \in Int /\ LastIndex(c, k) \in Int
      BY <3>1, ChunkParts DEF Covers
    <3>3. a <= k /\ k <= g
      BY <2>2, <2>3
    <3>4. k < g => LastIndex(c, k) <= g
      BY <2>3 DEF Laid
    <3>5. k = g => LastIndex(c, k) = b
      BY <2>4
    <3> QED BY <2>5, <3>2, <3>3, <3>4, <3>5
  <2>7. IsStored(c, b - 1)
    <3>1. Covers(c, g, b - 1)
      BY <2>3, <2>4, <2>5 DEF Covers
    <3>2. b - 1 \in Int
      BY <2>5
    <3> QED BY <3>1, <3>2, CoverIs
  <2>8. MinKey < b /\ a <= b
    BY <2>5, KeysAre
  <2> QED BY <1>2, <2>2, <2>5, <2>6, <2>7, <2>8 DEF a, b
<1> QED BY <1>1, <1>2

\* A range of keys and the part of it that first and last bound.
Clamped(c, from, to, first, last) ==
  /\ first \in Int /\ last \in Int
  /\ \A i \in Int : IsStored(c, i) => (i \in from..(to - 1) <=> first <= i /\ i <= last)
  /\ \A i \in Int : first <= i /\ i <= last => i \in from..(to - 1)
  /\ from < first => \A k \in DOMAIN c : first <= k

\* The range is cut to the span, and nothing is stored in what is cut.
LEMMA ClampIs ==
  ASSUME NEW c, Laid(c), NEW from \in Int, NEW to \in Int
  PROVE  Clamped(c, from, to, ClampFirst(c, from), ClampLast(c, to) - 1)
<1> DEFINE first == ClampFirst(c, from)
           last == ClampLast(c, to) - 1
<1> DEFINE a == SpanBegin(c)
           b == SpanEnd(c)
<1>1. /\ a \in Int /\ b \in Int /\ \A k \in DOMAIN c : a <= k
      /\ \A i \in Int : IsStored(c, i) => a <= i /\ i < b
  BY SpanIs
<1>2. /\ first = IF from < a THEN a ELSE from
      /\ last = (IF b < to THEN b ELSE to) - 1
  BY DEF ClampFirst, ClampLast
<1> HIDE DEF a, b, first, last
<1>3. first \in Int /\ last \in Int
  BY <1>1, <1>2
<1>4. ASSUME NEW i \in Int, IsStored(c, i) PROVE i \in from..(to - 1) <=> first <= i /\ i <= last
  <2>1. a <= i /\ i < b
    BY <1>1, <1>4
  <2> QED BY <1>1, <1>2, <2>1
<1>5. \A i \in Int : first <= i /\ i <= last => i \in from..(to - 1)
  BY <1>1, <1>2
<1>6. from < first => first = a
  BY <1>2
<1>7. Clamped(c, from, to, first, last)
  BY <1>1, <1>3, <1>4, <1>5, <1>6 DEF Clamped
<1> QED BY <1>7 DEF first, last

\* Whether something is stored where a range of two keys or more begins.
Begins(c, from, to) ==
  ClampFirst(c, from) + 1 < ClampLast(c, to) => IsStored(c, ClampFirst(c, from))

\* Nothing is left in the range, the count is right, and but for a range that begins in a
\* gap no other key is touched.
RangeLost(c, from, to, r) ==
  /\ Runs(r) /\ \A i \in from..(to - 1) : ~IsStored(r, i)
  /\ Cardinality(StoredKeys(r)) = Cardinality(StoredKeys(c)) - Removed(c, from, to)
  /\ Begins(c, from, to) => Forgotten(c, from..(to - 1), r)

Resized(values, n) == [i \in 1..n |-> IF i <= Len(values) THEN values[i] ELSE Default]

LEMMA RemovedIs ==
  ASSUME NEW c, NEW from, NEW to
  PROVE  Removed(c, from, to) =
           LET first == ClampFirst(c, from)
               last == ClampLast(c, to) - 1
               d == Unstore(c, last)
               within == {k \in DOMAIN d : first <= k /\ k < last}
               k == Chunk(d, first)
               one == IF IsStored(c, last) THEN 1 ELSE 0
           IN  IF last < first THEN 0
               ELSE IF last = first \/ first \in within \/ UpTo(d, first) = {}
                 THEN one + Whole(d, within)
               ELSE one + Whole(d, within) + LastIndex(d, k) - first
BY DEF Removed, Whole

\* unstore(first, last) in all its cases.
LEMMA UnstoreRangeIs ==
  ASSUME NEW c, Runs(c), NEW from \in Int, NEW to \in Int
  PROVE  RangeLost(c, from, to, UnstoreRange(c, from, to))
<1> DEFINE r == UnstoreRange(c, from, to)
           first == ClampFirst(c, from)
           last == ClampLast(c, to) - 1
           d == Unstore(c, last)
           within == {k \in DOMAIN d : first <= k /\ k < last}
           k == Chunk(d, first)
           m == DropChunks(d, within)
           one == IF IsStored(c, last) THEN 1 ELSE 0
           whole == one + Whole(d, within)
           removed == Removed(c, from, to)
           s == Resized(d[k], first - k)
<1>1. /\ last < first => r = c /\ removed = 0
      /\ ~(last < first) /\ (last = first \/ first \in within \/ UpTo(d, first) = {})
           => r = m /\ removed = whole
      /\ ~(last < first) /\ ~(last = first \/ first \in within \/ UpTo(d, first) = {})
           => /\ r = PutChunk(m, k, s) /\ removed = whole + LastIndex(d, k) - first
  BY RemovedIs DEF UnstoreRange, Resized
<1>2. Laid(c)
  BY DEF Runs
<1>3. /\ first \in Int /\ last \in Int
      /\ \A i \in Int : IsStored(c, i) => (i \in from..(to - 1) <=> first <= i /\ i <= last)
      /\ \A i \in Int : first <= i /\ i <= last => i \in from..(to - 1)
      /\ from < first => \A q \in DOMAIN c : first <= q
  <2>1. Clamped(c, from, to, first, last)
    BY <1>2, ClampIs
  <2> HIDE DEF first, last
  <2> QED BY <2>1 DEF Clamped
<1>4. Begins(c, from, to) /\ first < last => IsStored(c, first)
  <2>1. first < last => ClampFirst(c, from) + 1 < ClampLast(c, to)
    <3>1. ClampLast(c, to) = last + 1
      <4>1. ClampLast(c, to) \in Int
        BY <1>2, SpanIs DEF ClampLast
      <4> QED BY <4>1
    <3> HIDE DEF last
    <3>2. first < last => first + 1 < last + 1
      BY <1>3
    <3> QED BY <3>1, <3>2
  <2> QED BY <2>1 DEF Begins
<1> HIDE DEF r, first, last, removed
<1>5. Cardinality(StoredKeys(c)) \in Nat
  BY <1>2, StoredKeysAre
<1>6. CASE last < first
  <2>1. r = c /\ removed = 0
    BY <1>1, <1>6
  <2>2. \A i \in from..(to - 1) : ~IsStored(c, i)
    BY <1>3, <1>6
  <2>3. Forgotten(c, from..(to - 1), r)
    BY <2>1, <2>2 DEF Forgotten
  <2>4. Cardinality(StoredKeys(r)) = Cardinality(StoredKeys(c)) - removed
    BY <1>5, <2>1
  <2> QED BY <2>1, <2>2, <2>3, <2>4 DEF RangeLost, r, removed
<1>7. CASE ~(last < first)
  <2>1. Runs(d) /\ Forgotten(c, {last}, d)
    BY <1>3, UnstoreIs
  <2>2. Laid(d) /\ within \subseteq DOMAIN d
    BY <2>1 DEF Runs
  <2>3. Cardinality(StoredKeys(d)) = Cardinality(StoredKeys(c)) - one
    BY <1>2, <1>3, <2>1, <2>2, OneLess
  <2>4. DroppedFrom(d, within, m) /\ Dropping(d, within, m)
        /\ Cardinality(StoredKeys(m)) = Cardinality(StoredKeys(d)) - Whole(d, within)
    BY <2>2, DropElements, DropIs, DropCount
  <2>5. Laid(m) /\ Runs(m)
    BY <2>1, <2>4 DEF DroppedFrom
  <2>6. /\ Cardinality(StoredKeys(d)) \in Nat /\ Cardinality(StoredKeys(m)) \in Nat
        /\ one \in Int /\ Whole(d, within) \in Nat
    <3>1. Whole(d, within) = Cardinality(CoveredBy(d, within))
      BY <2>2, SumIs DEF Whole
    <3>2. IsFiniteSet(CoveredBy(d, within))
      BY <2>2, StoredKeysAre, FS_Subset DEF CoveredBy
    <3> QED BY <2>2, <2>5, <3>1, <3>2, StoredKeysAre, FS_CardinalityType
  <2>7. whole \in Int /\ Cardinality(StoredKeys(m)) = Cardinality(StoredKeys(c)) - whole
    <3> HIDE DEF one, d, within, m
    <3> QED BY <1>5, <2>3, <2>4, <2>6
  <2> HIDE DEF d, m, whole
  <2>8. \A i \in Int : /\ IsStored(d, i) <=> IsStored(c, i) /\ i # last
                       /\ IsStored(d, i) => At(d, i) = At(c, i)
    BY <2>1 DEF Forgotten
  \* A chunk of d that begins before last ends there.
  <2>9. \A q \in DOMAIN d : q < last => LastIndex(d, q) <= last
    <3> SUFFICES ASSUME NEW q \in DOMAIN d, q < last, ~(LastIndex(d, q) <= last) PROVE FALSE
      OBVIOUS
    <3>1. q \in Int /\ LastIndex(d, q) \in Int
      BY <2>2, ChunkParts
    <3>2. Covers(d, q, last)
      BY <1>3, <3>1 DEF Covers
    <3> QED BY <1>3, <2>2, <2>8, <3>2, CoverIs
  <2>10. \A i \in Int : IsStored(d, i) => Covers(d, Chunk(d, i), i)
    BY <2>2, StoredIs
  <2>11. \A i \in Int : IsStored(d, i) /\ Chunk(d, i) \in within => first <= i /\ i < last
    <3> SUFFICES ASSUME NEW i \in Int, IsStored(d, i), Chunk(d, i) \in within
                 PROVE  first <= i /\ i < last
      OBVIOUS
    <3> DEFINE q == Chunk(d, i)
    <3>1. q \in DOMAIN d /\ q <= i /\ i < LastIndex(d, q) /\ first <= q /\ q < last
      BY <2>10 DEF Covers
    <3> HIDE DEF q
    <3>2. LastIndex(d, q) <= last /\ LastIndex(d, q) \in Int /\ q \in Int
      BY <2>2, <2>9, <3>1, ChunkParts
    <3> QED BY <1>3, <3>1, <3>2
  <2>12. \A i \in Int : /\ IsStored(m, i) <=> IsStored(d, i) /\ Chunk(d, i) \notin within
                        /\ IsStored(m, i) => At(m, i) = At(d, i)
    BY <2>4 DEF DroppedFrom
  <2>13. CASE last = first \/ first \in within \/ UpTo(d, first) = {}
    <3>1. r = m /\ removed = whole
      BY <1>1, <1>7, <2>13
    <3>2. \A i \in Int : IsStored(d, i) /\ first <= i /\ i < last => Chunk(d, i) \in within
      <4> SUFFICES ASSUME NEW i \in Int, IsStored(d, i), first <= i, i < last
                   PROVE  Chunk(d, i) \in within
        OBVIOUS
      <4> DEFINE q == Chunk(d, i)
      <4>1. q \in DOMAIN d /\ q <= i /\ q \in Int
        BY <2>2, <2>10, ChunkParts DEF Covers
      <4>2. first \in DOMAIN d => first <= q
        BY <2>2, <4>1, ChunkIs DEF UpTo
      <4>3. UpTo(d, first) = {} => ~(q <= first)
        BY <4>1 DEF UpTo
      <4>4. last # first
        BY <1>3
      <4> HIDE DEF q
      <4>5. first <= q
        BY <1>3, <2>13, <4>1, <4>2, <4>3, <4>4
      <4>6. q \in within
        BY <1>3, <4>1, <4>5
      <4> QED BY <4>6 DEF q
    <3>3. \A i \in Int : IsStored(r, i) <=> IsStored(c, i) /\ ~(first <= i /\ i <= last)
      <4> SUFFICES ASSUME NEW i \in Int
                   PROVE  IsStored(r, i) <=> IsStored(c, i) /\ ~(first <= i /\ i <= last)
        OBVIOUS
      <4>1. (first <= i /\ i <= last) <=> (i = last \/ (first <= i /\ i < last))
        BY <1>3, <1>7
      <4>2. IsStored(d, i) => (Chunk(d, i) \in within <=> first <= i /\ i < last)
        BY <2>11, <3>2
      <4> HIDE DEF within
      <4> QED BY <2>8, <2>12, <3>1, <4>1, <4>2
    <3>4. Forgotten(c, from..(to - 1), r)
      BY <1>3, <2>8, <2>12, <3>1, <3>3 DEF Forgotten
    <3>5. \A i \in from..(to - 1) : ~IsStored(r, i)
      BY <3>4 DEF Forgotten
    <3>6. Cardinality(StoredKeys(r)) = Cardinality(StoredKeys(c)) - removed
      BY <2>7, <3>1
    <3> QED BY <2>5, <3>1, <3>4, <3>5, <3>6 DEF RangeLost, r, removed
  <2>14. CASE ~(last = first \/ first \in within \/ UpTo(d, first) = {})
    <3> DEFINE L == LastIndex(d, k)
    <3>1. r = PutChunk(m, k, s) /\ removed = whole + L - first
      BY <1>1, <1>7, <2>14
    <3>2. /\ k \in DOMAIN d /\ k <= first /\ first < last
          /\ \A other \in DOMAIN d : other <= first => other <= k
      BY <1>3, <1>7, <2>2, <2>14, ChunkIs
    <3> HIDE DEF k
    <3>3. k \in Int /\ L \in Int /\ k < L /\ d[k] \in Seq(Cell) /\ L = k + Len(d[k]) /\ MinKey <= k
      BY <2>2, <3>2, ChunkParts
    <3>4. k < first /\ k \notin within
      <4>1. k # first
        BY <1>3, <2>14, <3>2
      <4> QED BY <1>3, <3>2, <3>3, <4>1
    <3>5. k \in DOMAIN m /\ LastIndex(m, k) = L /\ DOMAIN m \subseteq DOMAIN d
      BY <2>4, <3>2, <3>4 DEF Dropping
    <3> HIDE DEF L
    <3>6. /\ s \in Seq(Cell) /\ Len(s) = first - k /\ Len(s) > 0
          /\ \A i \in 1..Len(s) : s[i] = IF i <= Len(d[k]) THEN d[k][i] ELSE Default
      <4>1. first - k \in Nat /\ first - k > 0
        BY <1>3, <3>3, <3>4
      <4>2. \A i \in 1..(first - k) : i <= Len(d[k]) => d[k][i] \in Cell
        BY <3>3
      <4> HIDE DEF k
      <4>3. s = [i \in 1..(first - k) |-> IF i <= Len(d[k]) THEN d[k][i] ELSE Default]
        BY DEF Resized
      <4> HIDE DEF s
      <4>4. s \in [1..(first - k) -> Cell]
        BY <4>2, <4>3, KeysAre
      <4>5. s \in Seq(Cell) /\ Len(s) = first - k
        BY <4>1, <4>4
      <4> QED BY <4>1, <4>3, <4>5
    <3> HIDE DEF s
    <3>7. k + Len(s) = first /\ first <= MaxKey + 1
      <4>1. k + Len(s) = first
        BY <1>3, <3>3, <3>6
      <4>2. last <= MaxKey
        <5>1. SpanEnd(c) \in Int /\ SpanEnd(c) <= MaxKey + 1 /\ MaxKey \in Int
          BY <1>2, SpanIs, KeysAre
        <5>2. last = ClampLast(c, to) - 1
          BY DEF last
        <5>3. ClampLast(c, to) <= SpanEnd(c) /\ ClampLast(c, to) \in Int
          BY <5>1 DEF ClampLast
        <5> QED BY <5>1, <5>2, <5>3
      <4> QED BY <1>3, <3>2, <4>1, <4>2, KeysAre
    <3>8. ASSUME NEW other \in DOMAIN m
          PROVE  /\ other < k => LastIndex(m, other) < k
                 /\ k < other => first < other
                 /\ other \in Int /\ LastIndex(m, other) \in Int
      <4>1. other \in DOMAIN d /\ other \in Int /\ other \notin within /\ LastIndex(m, other) \in Int
        BY <2>2, <2>4, <2>5, ChunkParts DEF Dropping
      <4>2. other < k => LastIndex(m, other) < k
        BY <2>5, <3>5 DEF Runs
      <4>3. other <= first => other <= k
        BY <3>2, <4>1
      <4> QED BY <1>3, <3>3, <4>1, <4>2, <4>3
    <3>9. PutInto(m, k, s, r)
      <4>1. \A other \in DOMAIN m : /\ other < k => LastIndex(m, other) <= k
                                    /\ k < other => k + Len(s) <= other
        <5> SUFFICES ASSUME NEW other \in DOMAIN m
                     PROVE  /\ other < k => LastIndex(m, other) <= k
                            /\ k < other => k + Len(s) <= other
          OBVIOUS
        <5>1. /\ other < k => LastIndex(m, other) < k
              /\ k < other => first < other
              /\ other \in Int /\ LastIndex(m, other) \in Int
          BY <3>8
        <5> QED BY <1>3, <3>3, <3>7, <5>1
      <4>2. k + Len(s) <= MaxKey + 1
        BY <3>7
      <4> QED BY <2>5, <3>1, <3>3, <3>6, <4>1, <4>2, PutElements
    <3>10. Runs(r)
      <4>1. Laid(r)
        BY <3>9 DEF PutInto
      <4>2. \A other \in DOMAIN m : k < other => k + Len(s) < other
        BY <3>7, <3>8
      <4>3. \A other \in DOMAIN m : other < k => LastIndex(m, other) < k
        BY <3>8
      <4> QED BY <2>5, <3>1, <3>3, <4>1, <4>2, <4>3, PutRuns
    <3> HIDE DEF within
    \* The chunk that is cut off or extended is the only one left that reaches into the range.
    <3>11. \A i \in Int : IsStored(m, i) /\ first <= i /\ i <= last => Covers(m, k, i)
      <4> SUFFICES ASSUME NEW i \in Int, IsStored(m, i), first <= i, i <= last
                   PROVE  Covers(m, k, i)
        OBVIOUS
      <4> DEFINE q == Chunk(d, i)
      <4>1. IsStored(d, i) /\ q \notin within /\ i # last
        BY <2>8, <2>12
      <4>2. q \in DOMAIN d /\ q <= i /\ i < LastIndex(d, q) /\ q \in Int
        BY <2>2, <2>10, <4>1, ChunkParts DEF Covers
      <4>3. k <= q
        <5>1. k <= i /\ UpTo(d, i) # {}
          BY <1>3, <3>2, <3>3, <4>2 DEF UpTo
        <5> QED BY <2>2, <3>2, <5>1, ChunkIs
      <4> HIDE DEF q
      <4>4. ~(first <= q)
        BY <1>3, <4>1, <4>2 DEF within
      <4>5. q = k
        BY <1>3, <3>2, <3>3, <4>2, <4>3, <4>4
      <4> QED BY <3>5, <4>2, <4>5 DEF Covers, L
    <3>12. \A i \in Int : k <= i /\ i < first => IsStored(r, i) /\ At(r, i) = s[i - k + 1]
      BY <3>7, <3>9 DEF PutInto
    <3>13. \A i \in Int : ~(k <= i /\ i < first) =>
             /\ IsStored(r, i) <=> IsStored(m, i) /\ ~(k <= i /\ i < L)
             /\ IsStored(r, i) => At(r, i) = At(m, i)
      BY <3>5, <3>7, <3>9 DEF PutInto, Covers
    <3>14. \A i \in Int : first <= i /\ i <= last => ~IsStored(r, i)
      <4> SUFFICES ASSUME NEW i \in Int, first <= i, i <= last PROVE ~IsStored(r, i)
        OBVIOUS
      <4>1. ~(k <= i /\ i < first)
        BY <1>3
      <4>2. IsStored(m, i) => k <= i /\ i < L
        BY <3>5, <3>11 DEF Covers
      <4> QED BY <3>13, <4>1, <4>2
    <3>15. \A i \in from..(to - 1) : ~IsStored(r, i)
      <4> SUFFICES ASSUME NEW i \in from..(to - 1), IsStored(r, i) PROVE FALSE
        OBVIOUS
      <4>1. ~(first <= i /\ i <= last)
        BY <3>14
      <4>2. CASE k <= i /\ i < first
        <5>1. from < first
          BY <1>3, <3>3, <4>2
        <5>2. \A q \in DOMAIN c : first <= q
          BY <1>3, <5>1
        <5>3. Covers(d, k, k)
          BY <3>2, <3>3 DEF Covers, L
        <5>4. IsStored(d, k)
          BY <2>2, <3>3, <5>3, CoverIs
        <5>5. IsStored(c, k)
          BY <2>8, <3>3, <5>4
        <5>6. PICK q \in DOMAIN c : Covers(c, q, k)
          BY <1>2, <3>3, <5>5, StoredIs
        <5>7. q <= k /\ first <= q /\ q \in Int
          BY <1>2, <5>2, <5>6, ChunkParts DEF Covers
        <5> QED BY <1>3, <3>3, <3>4, <5>7
      <4>3. CASE ~(k <= i /\ i < first)
        <5>1. IsStored(m, i)
          BY <3>13, <4>3
        <5>2. IsStored(d, i)
          BY <2>12, <5>1
        <5>3. IsStored(c, i)
          BY <2>8, <5>2
        <5> QED BY <1>3, <4>1, <5>3
      <4> QED BY <4>2, <4>3
    <3>16. Cardinality(StoredKeys(r)) = Cardinality(StoredKeys(c)) - removed
      <4> DEFINE R == StoredKeys(r)
                 M == StoredKeys(m)
      <4>1. Laid(r)
        BY <3>10 DEF Runs
      <4>2. IsFiniteSet(R) /\ IsFiniteSet(M) /\ R = {i \in Int : IsStored(r, i)}
            /\ M = {i \in Int : IsStored(m, i)}
        BY <2>5, <4>1, StoredKeysAre
      <4> HIDE DEF R, M
      <4>3. R \ (k..(first - 1)) = M \ (k..(L - 1))
        <5>1. ASSUME NEW i \in Int PROVE i \in R \ (k..(first - 1)) <=> i \in M \ (k..(L - 1))
          <6>1. i \in k..(first - 1) <=> k <= i /\ i < first
            BY <1>3, <3>3
          <6>2. i \in k..(L - 1) <=> k <= i /\ i < L
            BY <3>3
          <6>3. IsStored(m, i) /\ k <= i /\ i < first => i < L
            <7> SUFFICES ASSUME IsStored(m, i), k <= i, i < first PROVE i < L
              OBVIOUS
            <7> DEFINE q == Chunk(m, i)
            <7>1. q \in DOMAIN m /\ q <= i /\ k <= q /\ i < LastIndex(m, q)
              <8>1. UpTo(m, i) # {}
                BY <3>5 DEF UpTo
              <8> QED BY <2>5, <3>5, <8>1, ChunkIs, StoredIs DEF Covers
            <7> HIDE DEF q
            <7>2. q = k
              BY <1>3, <3>3, <3>8, <7>1
            <7> QED BY <3>5, <7>1, <7>2
          <6>4. i \in R <=> IsStored(r, i)
            BY <4>2
          <6>5. i \in M <=> IsStored(m, i)
            BY <4>2
          <6> QED BY <3>12, <3>13, <6>1, <6>2, <6>3, <6>4, <6>5
        <5>2. R \subseteq Int /\ M \subseteq Int
          BY <4>2
        <5> QED BY <5>1, <5>2
      <4>4. k..(first - 1) \subseteq R
        BY <1>3, <3>3, <3>12, <4>2
      <4>5. k..(L - 1) \subseteq M
        <5> SUFFICES ASSUME NEW i \in k..(L - 1) PROVE i \in M
          OBVIOUS
        <5>1. i \in Int /\ Covers(m, k, i)
          BY <3>3, <3>5 DEF Covers
        <5> QED BY <2>5, <4>2, <5>1, CoverIs
      <4>6. Cardinality(R) \in Nat /\ Cardinality(R \ (k..(first - 1))) = Cardinality(R) - (first - k)
        BY <1>3, <3>2, <3>3, <4>2, <4>4, IntervalGone
      <4>7. Cardinality(M) \in Nat /\ Cardinality(M \ (k..(L - 1))) = Cardinality(M) - (L - k)
        <5>1. k <= L
          BY <3>3
        <5> QED BY <3>3, <4>2, <4>5, <5>1, IntervalGone
      <4>8. Cardinality(M) = Cardinality(StoredKeys(c)) - whole
        BY <2>7 DEF M
      <4>9. Cardinality(R) - (first - k) = Cardinality(M) - (L - k)
        BY <4>3, <4>6, <4>7
      <4>10. Cardinality(R) = Cardinality(StoredKeys(c)) - removed
        <5>1. whole \in Int /\ removed = whole + L - first
          BY <2>7, <3>1
        <5> DEFINE cr == Cardinality(R)
                   cm == Cardinality(M)
                   cs == Cardinality(StoredKeys(c))
        <5> HIDE DEF k
        <5>2. cr \in Int /\ cm \in Int /\ cs \in Int
          BY <1>5, <4>6, <4>7
        <5>3. first \in Int /\ L \in Int /\ k \in Int
          BY <1>3, <3>3
        <5>4. cr - (first - k) = cm - (L - k) /\ cm = cs - whole
          BY <4>8, <4>9
        <5> HIDE DEF cr, cm, cs
        <5>5. cr = cs - removed
          BY <5>1, <5>2, <5>3, <5>4
        <5> QED BY <5>5 DEF cr, cs
      <4> QED BY <4>10 DEF R
    <3>17. ASSUME Begins(c, from, to) PROVE Forgotten(c, from..(to - 1), r)
      <4>1. IsStored(d, first)
        BY <1>3, <1>4, <2>8, <3>2, <3>17
      <4>2. first < L
        BY <1>3, <2>10, <4>1 DEF Covers, L, k
      <4>3. ASSUME NEW i \in Int, IsStored(r, i)
            PROVE  IsStored(c, i) /\ i \notin from..(to - 1) /\ At(r, i) = At(c, i)
        <5>1. i \notin from..(to - 1)
          BY <3>15, <4>3
        <5>2. CASE k <= i /\ i < first
          <6>1. Covers(d, k, i)
            BY <1>3, <3>2, <3>3, <4>2, <5>2 DEF Covers, L
          <6>2. IsStored(d, i) /\ At(d, i) = d[k][i - k + 1]
            BY <2>2, <6>1, CoverIs
          <6>3. s[i - k + 1] = d[k][i - k + 1]
            <7>1. i - k + 1 \in 1..Len(s) /\ i - k + 1 <= Len(d[k])
              BY <1>3, <3>3, <3>6, <4>2, <5>2
            <7> QED BY <3>6, <7>1
          <6>4. At(r, i) = s[i - k + 1]
            BY <3>12, <5>2
          <6> QED BY <2>8, <5>1, <6>2, <6>3, <6>4
        <5>3. CASE ~(k <= i /\ i < first)
          <6>1. IsStored(m, i) /\ At(r, i) = At(m, i)
            BY <3>13, <4>3, <5>3
          <6>2. IsStored(d, i) /\ At(m, i) = At(d, i)
            BY <2>12, <6>1
          <6> QED BY <2>8, <5>1, <6>1, <6>2
        <5> QED BY <5>2, <5>3
      <4>4. ASSUME NEW i \in Int, IsStored(c, i), i \notin from..(to - 1) PROVE IsStored(r, i)
        <5>1. ~(first <= i /\ i <= last)
          BY <1>3, <4>4
        <5>2. CASE k <= i /\ i < first
          BY <3>12, <5>2
        <5>3. CASE ~(k <= i /\ i < first)
          <6>1. IsStored(d, i)
            BY <1>3, <2>8, <3>2, <4>4, <5>1
          <6>2. IsStored(m, i)
            BY <1>3, <2>11, <2>12, <5>1, <6>1
          <6>3. ~(k <= i /\ i < L)
            <7>1. i < first => ~(k <= i)
              BY <5>3
            <7>2. L <= last
              BY <1>3, <2>9, <3>2, <3>3, <3>4 DEF L
            <7> QED BY <1>3, <3>3, <5>1, <7>1, <7>2
          <6> QED BY <3>13, <5>3, <6>2, <6>3
        <5> QED BY <5>2, <5>3
      <4> QED BY <4>3, <4>4 DEF Forgotten
    <3> QED BY <3>10, <3>15, <3>16, <3>17 DEF RangeLost, r, removed
  <2> QED BY <2>13, <2>14
<1> QED BY <1>6, <1>7

\* Where an element that is seen at a key was before the range was closed.
Before(first, last, i) == IF i < first THEN i ELSE i + (last - first)

\* The range is closed: every element behind it moves down.
Closed(u, first, last, r) ==
  \A i \in Int : /\ IsStored(r, i) <=> IsStored(u, Before(first, last, i))
                 /\ IsStored(r, i) => At(r, i) = At(u, Before(first, last, i))

LEMMA ShiftParts ==
  ASSUME NEW u, NEW first, NEW last
  PROVE  Shift(u, first, last)
           = [k \in {IF q < last THEN q ELSE q - (last - first) : q \in DOMAIN u} |->
                u[Before(first, last, k)]]
BY DEF Shift, Before

\* Only the chunk that ends at first and the one that moves there may touch.
ShiftedTo(u, first, last, d) ==
  /\ Laid(d) /\ Closed(u, first, last, d)
  /\ \A k, other \in DOMAIN d :
       k < other => LastIndex(d, k) < other \/ (k < first /\ other = first)

LEMMA ShiftIs ==
  ASSUME NEW u, Runs(u), NEW first \in Int, NEW last \in Int, first < last,
         DOMAIN u # {} => MinKey <= first, \A i \in first..(last - 1) : ~IsStored(u, i)
  PROVE  ShiftedTo(u, first, last, Shift(u, first, last))
<1> DEFINE d == Shift(u, first, last)
           n == last - first
           B(i) == Before(first, last, i)
<1>1. Laid(u)
  BY DEF Runs
<1>2. n \in Int /\ n > 0 /\ last = first + n
  OBVIOUS
<1>3. \A i \in Int : B(i) = IF i < first THEN i ELSE i + n
  BY DEF Before
<1>4. d = [k \in {IF q < last THEN q ELSE q - n : q \in DOMAIN u} |-> u[B(k)]]
  BY ShiftParts
<1> HIDE DEF d, n, B
<1>5. ASSUME NEW q \in DOMAIN u
      PROVE  /\ q \in Int /\ LastIndex(u, q) \in Int /\ q < LastIndex(u, q) /\ MinKey <= q
             /\ LastIndex(u, q) <= MaxKey + 1 /\ LastIndex(u, q) = q + Len(u[q])
             /\ Len(u[q]) > 0 /\ Len(u[q]) \in Nat /\ u[q] \in Seq(Cell)
             /\ q < first \/ last <= q
             /\ q < first => LastIndex(u, q) <= first
  <2>1. /\ q \in Int /\ LastIndex(u, q) \in Int /\ q < LastIndex(u, q) /\ MinKey <= q
        /\ LastIndex(u, q) <= MaxKey + 1 /\ LastIndex(u, q) = q + Len(u[q])
        /\ Len(u[q]) > 0 /\ Len(u[q]) \in Nat /\ u[q] \in Seq(Cell)
    BY <1>1, ChunkParts
  <2>2. ASSUME NEW i \in Int, q <= i, i < LastIndex(u, q), first <= i, i < last PROVE FALSE
    <3>1. Covers(u, q, i) /\ i \in first..(last - 1)
      BY <2>2 DEF Covers
    <3> QED BY <1>1, <3>1, CoverIs
  <2>3. q < first \/ last <= q
    BY <2>1, <2>2
  <2>4. q < first => LastIndex(u, q) <= first
    BY <2>1, <2>2
  <2> QED BY <2>1, <2>3, <2>4
<1>6. ASSUME NEW k \in DOMAIN d
      PROVE  k \in Int /\ B(k) \in DOMAIN u /\ d[k] = u[B(k)]
  <2>1. PICK q \in DOMAIN u : k = IF q < last THEN q ELSE q - n
    BY <1>4
  <2>2. q \in Int /\ (q < first \/ last <= q)
    BY <1>5
  <2>3. k \in Int /\ B(k) = q
    BY <1>2, <1>3, <2>1, <2>2
  <2>4. d[k] = u[B(k)]
    BY <1>4
  <2> QED BY <2>3, <2>4
<1>7. ASSUME NEW q \in DOMAIN u PROVE \E k \in DOMAIN d : B(k) = q
  <2>1. q \in Int /\ (q < first \/ last <= q)
    BY <1>5
  <2> DEFINE k == IF q < last THEN q ELSE q - n
  <2>2. k \in DOMAIN d
    BY <1>4
  <2>3. B(k) = q
    BY <1>2, <1>3, <2>1
  <2> QED BY <2>2, <2>3
<1>8. ASSUME NEW k \in DOMAIN d
      PROVE  /\ k \in Int /\ B(k) \in DOMAIN u /\ d[k] = u[B(k)]
             /\ LastIndex(d, k) \in Int
             /\ k < first => B(k) = k /\ LastIndex(d, k) = LastIndex(u, k) /\ LastIndex(d, k) <= first
             /\ ~(k < first) => B(k) = k + n /\ LastIndex(d, k) = LastIndex(u, k + n) - n
  <2>1. k \in Int /\ B(k) \in DOMAIN u /\ d[k] = u[B(k)]
    BY <1>6
  <2>2. LastIndex(d, k) = k + Len(u[B(k)]) /\ Len(u[B(k)]) \in Nat
    BY <1>5, <2>1 DEF LastIndex
  <2>3. k < first => B(k) = k /\ LastIndex(d, k) = LastIndex(u, k) /\ LastIndex(d, k) <= first
    BY <1>3, <1>5, <2>1, <2>2
  <2>4. ~(k < first) => B(k) = k + n /\ LastIndex(d, k) = LastIndex(u, k + n) - n
    <3> SUFFICES ASSUME ~(k < first)
                 PROVE  B(k) = k + n /\ LastIndex(d, k) = LastIndex(u, k + n) - n
      OBVIOUS
    <3>1. B(k) = k + n
      BY <1>3, <2>1
    <3>2. LastIndex(u, B(k)) = B(k) + Len(u[B(k)])
      BY <1>5, <2>1
    <3> QED BY <1>2, <2>1, <2>2, <3>1, <3>2
  <2> QED BY <2>1, <2>2, <2>3, <2>4
<1>9. ASSUME NEW k \in DOMAIN d, NEW other \in DOMAIN d, k < other
      PROVE  /\ LastIndex(d, k) <= other
             /\ LastIndex(d, k) < other \/ (k < first /\ other = first)
  <2>1. k \in Int /\ other \in Int /\ LastIndex(d, k) \in Int
    BY <1>8
  <2>2. CASE other < first
    <3>1. B(k) = k /\ B(other) = other /\ LastIndex(d, k) = LastIndex(u, k)
      BY <1>8, <1>9, <2>1, <2>2
    <3>2. LastIndex(u, k) < other
      BY <1>8, <1>9, <3>1 DEF Runs
    <3> QED BY <2>1, <3>1, <3>2
  <2>3. CASE k < first /\ ~(other < first)
    BY <1>8, <2>1, <2>3
  <2>4. CASE ~(k < first)
    <3>1. /\ B(k) = k + n /\ LastIndex(d, k) = LastIndex(u, k + n) - n
          /\ B(other) = other + n
      BY <1>8, <1>9, <2>1, <2>4
    <3>2. LastIndex(u, k + n) < other + n
      <4>1. k + n \in DOMAIN u /\ other + n \in DOMAIN u /\ k + n < other + n
        BY <1>2, <1>8, <1>9, <2>1, <3>1
      <4> QED BY <4>1 DEF Runs
    <3>3. LastIndex(u, k + n) \in Int
      BY <1>5, <1>8, <3>1
    <3> QED BY <1>2, <2>1, <3>1, <3>2, <3>3
  <2> QED BY <2>1, <2>2, <2>3, <2>4
<1>10. Laid(d)
  <2>1. ASSUME NEW k \in DOMAIN d
        PROVE  k \in Keys /\ d[k] \in Seq(Cell) /\ Len(d[k]) > 0 /\ LastIndex(d, k) <= MaxKey + 1
    <3>1. k \in Int /\ B(k) \in DOMAIN u /\ d[k] = u[B(k)]
      BY <1>8
    <3>2. d[k] \in Seq(Cell) /\ Len(d[k]) > 0
      BY <1>5, <3>1
    <3>3. MinKey <= first
      BY <3>1
    <3>4. LastIndex(u, B(k)) <= MaxKey + 1 /\ MinKey <= B(k) /\ B(k) < LastIndex(u, B(k))
          /\ LastIndex(u, B(k)) \in Int
      BY <1>5, <3>1
    <3>5. CASE k < first
      <4>1. B(k) = k /\ LastIndex(d, k) = LastIndex(u, k)
        BY <1>8, <3>5
      <4> QED BY <3>1, <3>2, <3>4, <3>5, <4>1, KeysAre
    <3>6. CASE ~(k < first)
      <4>1. B(k) = k + n /\ LastIndex(d, k) = LastIndex(u, k + n) - n
        BY <1>8, <3>6
      <4>2. LastIndex(d, k) <= MaxKey + 1 /\ k <= MaxKey /\ MinKey <= k
        BY <1>2, <3>1, <3>3, <3>4, <3>6, <4>1, KeysAre
      <4> QED BY <3>1, <3>2, <4>2, KeysAre
    <3> QED BY <3>5, <3>6
  <2>2. Mapping(d)
    BY <1>4 DEF Mapping
  <2>3. DOMAIN d \subseteq Keys
    BY <2>1
  <2> QED BY <1>9, <2>1, <2>2, <2>3 DEF Laid
<1>11. ASSUME NEW k \in DOMAIN d, NEW i \in Int
       PROVE  /\ B(i) \in Int
              /\ Covers(d, k, i) <=> Covers(u, B(k), B(i))
              /\ Covers(d, k, i) => d[k][i - k + 1] = u[B(k)][B(i) - B(k) + 1]
  <2>1. k \in Int /\ B(k) \in DOMAIN u /\ d[k] = u[B(k)] /\ LastIndex(d, k) \in Int
    BY <1>8
  <2>2. LastIndex(u, B(k)) \in Int /\ (B(k) < first \/ last <= B(k))
    BY <1>5, <2>1
  <2>3. B(i) = (IF i < first THEN i ELSE i + n) /\ B(k) = (IF k < first THEN k ELSE k + n)
    BY <1>3, <2>1
  <2>4. B(i) \in Int
    BY <1>2, <2>3
  <2>5. Covers(d, k, i) <=> (k <= i /\ i < LastIndex(d, k))
    BY DEF Covers
  <2>6. Covers(u, B(k), B(i)) <=> (B(k) <= B(i) /\ B(i) < LastIndex(u, B(k)))
    BY <2>1 DEF Covers
  <2>7. CASE k < first
    <3>1. LastIndex(d, k) = LastIndex(u, k) /\ LastIndex(d, k) <= first /\ B(k) = k
      BY <1>8, <2>7
    <3>2. Covers(d, k, i) => i < first
      BY <2>1, <2>5, <3>1
    <3>3. Covers(u, B(k), B(i)) => i < first
      BY <1>2, <2>1, <2>3, <2>6, <3>1
    <3>4. i < first => B(i) = i
      BY <2>3
    <3> QED BY <2>1, <2>4, <2>5, <2>6, <3>1, <3>2, <3>3, <3>4
  <2>8. CASE ~(k < first)
    <3>1. LastIndex(d, k) = LastIndex(u, k + n) - n /\ B(k) = k + n
      BY <1>8, <2>8
    <3>2. LastIndex(u, k + n) \in Int
      BY <2>2, <3>1
    <3>3. Covers(d, k, i) => ~(i < first)
      BY <2>1, <2>5, <2>8
    <3>4. Covers(u, B(k), B(i)) => ~(i < first)
      BY <1>2, <2>1, <2>3, <2>6, <2>8, <3>1
    <3>5. ~(i < first) => B(i) = i + n /\ (B(k) <= B(i) <=> k <= i) /\ B(i) - B(k) + 1 = i - k + 1
                          /\ (B(i) < LastIndex(u, B(k)) <=> i < LastIndex(d, k))
      BY <1>2, <2>1, <2>3, <3>1, <3>2
    <3> QED BY <2>1, <2>4, <2>5, <2>6, <3>3, <3>4, <3>5
  <2> QED BY <2>7, <2>8
<1>12. ASSUME NEW i \in Int
       PROVE  /\ IsStored(d, i) <=> IsStored(u, B(i))
              /\ IsStored(d, i) => At(d, i) = At(u, B(i))
  <2>1. B(i) \in Int
    BY <1>2, <1>3
  <2>2. ASSUME IsStored(d, i) PROVE IsStored(u, B(i)) /\ At(d, i) = At(u, B(i))
    <3>1. PICK k \in DOMAIN d : Covers(d, k, i)
      BY <1>10, <2>2, StoredIs
    <3>2. Covers(u, B(k), B(i))
      BY <1>11, <3>1
    <3>3. d[k][i - k + 1] = u[B(k)][B(i) - B(k) + 1]
      BY <1>11, <3>1
    <3> QED BY <1>1, <1>10, <2>1, <3>1, <3>2, <3>3, SameAt
  <2>3. ASSUME IsStored(u, B(i)) PROVE IsStored(d, i)
    <3>1. PICK q \in DOMAIN u : Covers(u, q, B(i))
      BY <1>1, <2>1, <2>3, StoredIs
    <3>2. PICK k \in DOMAIN d : B(k) = q
      BY <1>7
    <3>3. Covers(d, k, i)
      BY <1>11, <3>1, <3>2
    <3> QED BY <1>10, <3>3, CoverIs
  <2> QED BY <2>2, <2>3
<1>13. Closed(u, first, last, d)
  BY <1>12 DEF Closed, B
<1>14. ShiftedTo(u, first, last, d)
  BY <1>9, <1>10, <1>13 DEF ShiftedTo
<1> QED BY <1>14 DEF d

\* Moving elements down loses none.
LEMMA ClosedCount ==
  ASSUME NEW u, Laid(u), NEW first \in Int, NEW last \in Int, first < last, NEW r, Laid(r),
         \A i \in first..(last - 1) : ~IsStored(u, i), Closed(u, first, last, r)
  PROVE  Cardinality(StoredKeys(r)) = Cardinality(StoredKeys(u))
<1> DEFINE R == StoredKeys(r)
           U == StoredKeys(u)
           B(i) == Before(first, last, i)
           f == [i \in R |-> B(i)]
<1>1. /\ R = {i \in Int : IsStored(r, i)} /\ IsFiniteSet(R)
      /\ U = {i \in Int : IsStored(u, i)} /\ IsFiniteSet(U)
  BY StoredKeysAre
<1>2. \A i \in Int : B(i) = (IF i < first THEN i ELSE i + (last - first)) /\ B(i) \in Int
  BY DEF Before
<1>3. \A i \in Int : IsStored(r, i) <=> IsStored(u, B(i))
  BY DEF Closed
<1> HIDE DEF R, U, B
<1>4. f \in [R -> U] /\ \A i \in R : f[i] = B(i)
  BY <1>1, <1>2, <1>3
<1>5. \A i, j \in R : B(i) = B(j) => i = j
  BY <1>1, <1>2
<1>6. \A j \in U : \E i \in R : B(i) = j
  <2> SUFFICES ASSUME NEW j \in U PROVE \E i \in R : B(i) = j
    OBVIOUS
  <2> DEFINE i == IF j < first THEN j ELSE j - (last - first)
  <2>1. j \in Int /\ IsStored(u, j)
    BY <1>1
  <2>2. j \notin first..(last - 1)
    BY <2>1
  <2>3. i \in Int /\ B(i) = j
    BY <1>2, <2>1, <2>2
  <2>4. i \in R
    BY <1>1, <1>3, <2>1, <2>3
  <2> QED BY <2>3, <2>4
<1> HIDE DEF f
<1>7. f \in Bijection(R, U)
  <2>1. \A i, j \in R : f[i] = f[j] => i = j
    BY <1>4, <1>5
  <2>2. \A j \in U : \E i \in R : f[i] = j
    BY <1>4, <1>6
  <2>3. f \in Injection(R, U)
    BY <1>4, <2>1 DEF Injection, IsInjective
  <2>4. f \in Surjection(R, U)
    BY <1>4, <2>2 DEF Surjection
  <2> QED BY <2>3, <2>4 DEF Bijection
<1>8. ExistsBijection(R, U)
  BY <1>7 DEF ExistsBijection
<1>9. Cardinality(U) = Cardinality(R)
  BY <1>1, <1>8, FS_Bijection
<1> QED BY <1>9 DEF R, U

\* erase(first, last): the range is unstored and closed, and the chunks that meet are joined.
Erased(c, first, last, r) ==
  /\ Runs(r) /\ Cardinality(StoredKeys(r)) = Cardinality(StoredKeys(c)) - Removed(c, first, last)
  /\ \E u : RangeLost(c, first, last, u) /\ Closed(u, first, last, r)

LEMMA EraseRangeIs ==
  ASSUME NEW c, Runs(c), NEW first \in Int, NEW last \in Int, first < last,
         DOMAIN c # {} => MinKey <= first
  PROVE  Erased(c, first, last, EraseRange(c, first, last))
<1> DEFINE u == UnstoreRange(c, first, last)
           d == Shift(u, first, last)
           before == UpTo(d, first - 1)
           q == Chunk(d, first - 1)
           r == EraseRange(c, first, last)
<1>1. RangeLost(c, first, last, u)
  BY UnstoreRangeIs
<1>2. r = IF first \in DOMAIN d /\ before # {} THEN Compact(d, q) ELSE d
  BY DEF EraseRange, Chunk
<1> HIDE DEF u
<1>3. /\ Runs(u) /\ \A i \in first..(last - 1) : ~IsStored(u, i)
      /\ Cardinality(StoredKeys(u)) = Cardinality(StoredKeys(c)) - Removed(c, first, last)
  BY <1>1 DEF RangeLost
<1>4. Laid(c) /\ Laid(u)
  BY <1>3 DEF Runs
<1>5. DOMAIN u # {} => MinKey <= first
  <2> SUFFICES ASSUME DOMAIN c = {} PROVE DOMAIN u = {}
    OBVIOUS
  <2>1. SpanBegin(c) = 0 /\ SpanEnd(c) = 0
    BY <1>4, SpanIs
  <2>2. ~(ClampFirst(c, first) + 1 < ClampLast(c, last))
    BY <2>1 DEF ClampFirst, ClampLast
  <2>3. Forgotten(c, first..(last - 1), u)
    BY <1>1, <2>2 DEF RangeLost, Begins
  <2>4. ASSUME NEW k \in DOMAIN u PROVE FALSE
    <3>1. Covers(u, k, k) /\ k \in Int
      BY <1>4, ChunkParts DEF Covers
    <3>2. IsStored(u, k)
      BY <1>4, <3>1, CoverIs
    <3>3. IsStored(c, k)
      BY <2>3, <3>1, <3>2 DEF Forgotten
    <3> QED BY <3>3 DEF IsStored, UpTo
  <2> QED BY <2>4
<1>6. ShiftedTo(u, first, last, d)
  BY <1>3, <1>5, ShiftIs
<1> HIDE DEF d
<1>7. /\ Laid(d) /\ Closed(u, first, last, d)
      /\ \A k, other \in DOMAIN d :
           k < other => LastIndex(d, k) < other \/ (k < first /\ other = first)
  BY <1>6 DEF ShiftedTo
<1>8. Runs(r) /\ SameElements(d, r)
  <2>1. CASE first \in DOMAIN d /\ before # {}
    <3>1. /\ q \in DOMAIN d /\ q <= first - 1
          /\ \A other \in DOMAIN d : other <= first - 1 => other <= q
      BY <1>7, <2>1, ChunkIs
    <3> HIDE DEF q, r
    <3>2. ASSUME NEW k \in DOMAIN d, NEW other \in DOMAIN d, k < other, k # q
          PROVE  LastIndex(d, k) < other
      <4>1. q \in Int /\ k \in Int /\ LastIndex(d, k) \in Int
        BY <1>7, <3>1, ChunkParts
      <4>2. CASE k < first /\ other = first
        <5>1. k < q
          BY <3>1, <3>2, <4>1, <4>2
        <5>2. LastIndex(d, k) < q
          BY <1>7, <3>1, <4>1, <5>1
        <5> QED BY <3>1, <4>1, <4>2, <5>2
      <4> QED BY <1>7, <3>2, <4>2
    <3>3. RunsBut(d, q)
      BY <1>7, <3>2 DEF RunsBut
    <3>4. r = Compact(d, q)
      BY <1>2, <2>1
    <3> QED BY <3>1, <3>3, <3>4, CompactIs
  <2>2. CASE ~(first \in DOMAIN d /\ before # {})
    <3>1. r = d
      BY <1>2, <2>2
    <3>2. ASSUME NEW k \in DOMAIN d, NEW other \in DOMAIN d, k < other PROVE LastIndex(d, k) < other
      <4>1. k < first /\ other = first => k \in before
        BY <1>7, ChunkParts DEF UpTo
      <4> QED BY <1>7, <2>2, <3>2, <4>1
    <3> QED BY <1>7, <3>1, <3>2 DEF Runs, SameElements
  <2> QED BY <2>1, <2>2
<1> HIDE DEF r
<1>9. Laid(r)
  BY <1>8 DEF Runs
<1>10. Closed(u, first, last, r)
  BY <1>7, <1>8 DEF Closed, SameElements
<1>11. Cardinality(StoredKeys(r)) = Cardinality(StoredKeys(u))
  BY <1>3, <1>4, <1>9, <1>10, ClosedCount
<1>12. Erased(c, first, last, r)
  BY <1>1, <1>3, <1>8, <1>10, <1>11 DEF Erased
<1> QED BY <1>12 DEF r

-----------------------------------------------------------------------------
(* The array: its chunks are runs and its counter is right.                *)

ArrayInv == Runs(chunks) /\ stored = Cardinality(StoredKeys(chunks))

\* An array without chunks.
LEMMA EmptyIs == Runs(NoChunks) /\ StoredKeys(NoChunks) = {} /\ DOMAIN NoChunks = {}
<1>1. DOMAIN NoChunks = {} /\ Mapping(NoChunks)
  BY DEF NoChunks, Mapping
<1>2. \A i \in Int : ~IsStored(NoChunks, i)
  BY <1>1 DEF IsStored, UpTo
<1>3. Laid(NoChunks) /\ Runs(NoChunks)
  BY <1>1 DEF Runs, Laid
<1> QED BY <1>1, <1>2, <1>3, StoredKeysAre

\* The lemmas on the operations, for the steps that call them.
LEMMA StoreSteps ==
  ASSUME NEW c, Runs(c), NEW idx \in Keys, NEW v \in Values
  PROVE  /\ Runs(Ref(c, idx)) /\ Runs(Assign(Ref(c, idx), idx, v))
         /\ Cardinality(StoredKeys(Ref(c, idx)))
              = Cardinality(StoredKeys(c)) + (IF IsStored(c, idx) THEN 0 ELSE 1)
         /\ StoredKeys(Assign(Ref(c, idx), idx, v)) = StoredKeys(Ref(c, idx))
<1> DEFINE r == Ref(c, idx)
           t == Assign(r, idx, v)
<1>1. /\ Runs(r) /\ IsStored(r, idx)
      /\ \A i \in Int : i # idx => (IsStored(r, i) <=> IsStored(c, i)) /\ At(r, i) = At(c, i)
  <2> HIDE DEF r
  <2>1. r = Ref(c, idx)
    BY DEF r
  <2> QED BY <2>1, RefIs
<1> HIDE DEF r
<1>2. idx \in Int /\ v \in Cell /\ Laid(c) /\ Laid(r)
  BY <1>1, KeysAre DEF Cell, Runs
<1>3. Runs(t) /\ \A i \in Int : IsStored(t, i) <=> IsStored(r, i)
  <2> HIDE DEF t
  <2>1. t = Assign(r, idx, v)
    BY DEF t
  <2> QED BY <1>1, <1>2, <2>1, AssignIs
<1> HIDE DEF t
<1>4. Cardinality(StoredKeys(r)) = Cardinality(StoredKeys(c)) + (IF IsStored(c, idx) THEN 0 ELSE 1)
  BY <1>1, <1>2, OneMore
<1>5. Laid(t)
  BY <1>3 DEF Runs
<1>6. StoredKeys(t) = StoredKeys(r)
  BY <1>2, <1>3, <1>5, StoredKeysAre
<1> QED BY <1>1, <1>3, <1>4, <1>6 DEF r, t

LEMMA UnstoreSteps ==
  ASSUME NEW c, Runs(c), NEW idx \in Int
  PROVE  /\ Runs(Unstore(c, idx)) /\ Forgotten(c, {idx}, Unstore(c, idx))
         /\ Cardinality(StoredKeys(Unstore(c, idx)))
              = Cardinality(StoredKeys(c)) - (IF IsStored(c, idx) THEN 1 ELSE 0)
<1> DEFINE r == Unstore(c, idx)
<1>1. Runs(r) /\ Forgotten(c, {idx}, r)
  BY UnstoreIs
<1> HIDE DEF r
<1>2. Laid(c) /\ Laid(r)
  BY <1>1 DEF Runs
<1>3. Cardinality(StoredKeys(r)) = Cardinality(StoredKeys(c)) - (IF IsStored(c, idx) THEN 1 ELSE 0)
  BY <1>1, <1>2, OneLess
<1> QED BY <1>1, <1>3 DEF r

\* A range that is erased, pop_back() among them, does not begin before the keys.
LEMMA EraseBounds ==
  ASSUME NEW c, Laid(c), NEW first, NEW last,
         \/ first \in MinKey..(MaxKey + 1) /\ last \in MinKey..(MaxKey + 1)
         \/ first = SpanEnd(c) - 1 /\ last = SpanEnd(c)
  PROVE  first \in Int /\ last \in Int /\ (DOMAIN c # {} => MinKey <= first)
<1>1. SpanEnd(c) \in Int /\ (DOMAIN c # {} => MinKey < SpanEnd(c))
  BY SpanIs
<1> HIDE DEF SpanEnd
<1> QED BY <1>1, KeysAre

LEMMA ArrayInvHolds == ArraySpec => []ArrayInv
<1>1. ArrayInit => ArrayInv
  BY EmptyIs, FS_EmptySet DEF ArrayInit, ArrayInv
<1>2. ArrayInv /\ [ArrayNext]_arrayVars => ArrayInv'
  <2> SUFFICES ASSUME ArrayInv, [ArrayNext]_arrayVars PROVE ArrayInv'
    OBVIOUS
  <2>1. Runs(chunks) /\ Laid(chunks) /\ stored = Cardinality(StoredKeys(chunks))
    BY DEF ArrayInv, Runs
  <2>2. ASSUME NEW idx \in Keys, Touch(idx) PROVE ArrayInv'
    <3>1. Default \in Values
      BY SparseArrayAssumption
    <3>2. /\ chunks' = Ref(chunks, idx)
          /\ stored' = stored + (IF IsStored(chunks, idx) THEN 0 ELSE 1)
      BY <2>2 DEF Touch
    <3> QED BY <2>1, <3>1, <3>2, StoreSteps DEF ArrayInv
  <2>3. ASSUME NEW idx \in Keys, NEW v \in Values, Store(idx, v) PROVE ArrayInv'
    <3>1. /\ chunks' = Assign(Ref(chunks, idx), idx, v)
          /\ stored' = stored + (IF IsStored(chunks, idx) THEN 0 ELSE 1)
      BY <2>3 DEF Store
    <3> QED BY <2>1, <3>1, StoreSteps DEF ArrayInv
  <2>4. ASSUME NEW idx \in Keys, UnstoreOne(idx) PROVE ArrayInv'
    <3>1. idx \in Int
      BY KeysAre
    <3>2. /\ chunks' = Unstore(chunks, idx)
          /\ stored' = stored - (IF IsStored(chunks, idx) THEN 1 ELSE 0)
      BY <2>4 DEF UnstoreOne
    <3> QED BY <2>1, <3>1, <3>2, UnstoreSteps DEF ArrayInv
  <2>5. ASSUME NEW first \in MinKey..(MaxKey + 1), NEW last \in MinKey..(MaxKey + 1),
               UnstoreMany(first, last)
        PROVE  ArrayInv'
    <3>1. first \in Int /\ last \in Int
      BY KeysAre
    <3>2. RangeLost(chunks, first, last, UnstoreRange(chunks, first, last))
      BY <2>1, <3>1, UnstoreRangeIs
    <3>3. chunks' = UnstoreRange(chunks, first, last) /\ stored' = stored - Removed(chunks, first, last)
      BY <2>5 DEF UnstoreMany
    <3> QED BY <2>1, <3>2, <3>3 DEF RangeLost, ArrayInv
  <2>6. ASSUME NEW first, NEW last, Erase(first, last),
               \/ first \in MinKey..(MaxKey + 1) /\ last \in MinKey..(MaxKey + 1)
               \/ first = SpanEnd(chunks) - 1 /\ last = SpanEnd(chunks)
        PROVE  ArrayInv'
    <3>1. first \in Int /\ last \in Int /\ (DOMAIN chunks # {} => MinKey <= first)
      BY <2>1, <2>6, EraseBounds
    <3>2. /\ first < last /\ chunks' = EraseRange(chunks, first, last)
          /\ stored' = stored - Removed(chunks, first, last)
      BY <2>6 DEF Erase
    <3>3. Erased(chunks, first, last, EraseRange(chunks, first, last))
      BY <2>1, <3>1, <3>2, EraseRangeIs
    <3> QED BY <2>1, <3>2, <3>3 DEF Erased, ArrayInv
  <2>7. CASE ClearArray
    BY <2>7, EmptyIs, FS_EmptySet DEF ClearArray, ArrayInv
  <2>8. CASE PopBack
    BY <2>6, <2>8 DEF PopBack
  <2>9. ASSUME NEW v \in Values, PushBack(v) PROVE ArrayInv'
    BY <2>3, <2>9 DEF PushBack
  <2>10. CASE UNCHANGED arrayVars
    BY <2>1, <2>10 DEF arrayVars, ArrayInv
  <2> QED BY <2>2, <2>3, <2>4, <2>5, <2>6, <2>7, <2>8, <2>9, <2>10 DEF ArrayNext
<1> QED BY <1>1, <1>2, PTL DEF ArraySpec

(* After any sequence of writes, removals and renumberings, and wherever a range that    *)
(* is unstored begins, the chunks are the runs of the keys that are stored, none empty   *)
(* or touching another, and the counter on which empty() and the bounds rest is their    *)
(* number (ref, unstore, erase and compact_chunks).                                      *)
THEOREM ArrayStaysConsistent == ArraySpec => []ArrayConsistent
<1>1. ArrayInv => ArrayConsistent
  BY DEF ArrayInv, Runs, Laid, ArrayConsistent, ChunksAreRuns, StoredIsCounted
<1> QED BY <1>1, ArrayInvHolds, PTL

-----------------------------------------------------------------------------
(* What is seen through at() is a partial function.                        *)

ElementsOf(c) == [i \in StoredKeys(c) |-> At(c, i)]

\* A function over the keys that are stored, with what at() returns, is what is seen.
LEMMA ElementsAre ==
  ASSUME NEW r, Laid(r), NEW g, Mapping(g), DOMAIN g \subseteq Int,
         \A i \in Int : i \in DOMAIN g <=> IsStored(r, i),
         \A i \in DOMAIN g : g[i] = At(r, i)
  PROVE  ElementsOf(r) = g
<1>1. StoredKeys(r) = DOMAIN g
  BY StoredKeysAre
<1>2. g = [i \in DOMAIN g |-> g[i]]
  BY DEF Mapping
<1> QED BY <1>1, <1>2 DEF ElementsOf

\* And the other way around.
LEMMA ElementsParts ==
  ASSUME NEW c, Laid(c), NEW e, e = ElementsOf(c)
  PROVE  /\ Mapping(e) /\ DOMAIN e \subseteq Int /\ DOMAIN e = StoredKeys(c)
         /\ \A i \in Int : i \in DOMAIN e <=> IsStored(c, i)
         /\ \A i \in DOMAIN e : e[i] = At(c, i) /\ i \in Keys
<1>1. StoredKeys(c) = {i \in Int : IsStored(c, i)}
  BY StoredKeysAre
<1>2. Mapping(e) /\ DOMAIN e = StoredKeys(c) /\ \A i \in DOMAIN e : e[i] = At(c, i)
  BY DEF ElementsOf, Mapping
<1> QED BY <1>1, <1>2, StoredIs

LEMMA ElementsSame ==
  ASSUME NEW c, Laid(c), NEW r, Laid(r),
         \A i \in Int : (IsStored(r, i) <=> IsStored(c, i)) /\ (IsStored(r, i) => At(r, i) = At(c, i))
  PROVE  ElementsOf(r) = ElementsOf(c)
<1> DEFINE g == ElementsOf(c)
<1>1. /\ Mapping(g) /\ DOMAIN g \subseteq Int
      /\ \A i \in Int : i \in DOMAIN g <=> IsStored(c, i)
      /\ \A i \in DOMAIN g : g[i] = At(c, i)
  <2> HIDE DEF g
  <2>1. g = ElementsOf(c)
    BY DEF g
  <2> QED BY <2>1, ElementsParts
<1> HIDE DEF g
<1>2. \A i \in Int : i \in DOMAIN g <=> IsStored(r, i)
  BY <1>1
<1>3. \A i \in DOMAIN g : g[i] = At(r, i)
  BY <1>1, <1>2
<1>4. ElementsOf(r) = g
  BY <1>1, <1>2, <1>3, ElementsAre
<1> QED BY <1>4 DEF g

\* One key more, or another value under a key.
Added(e, k, v) == [i \in DOMAIN e \cup {k} |-> IF i = k THEN v ELSE e[i]]
Without(e, gone) == [i \in DOMAIN e \ gone |-> e[i]]

LEMMA AddedIs ==
  ASSUME NEW c, Laid(c), NEW r, Laid(r), NEW idx \in Int, IsStored(r, idx), NEW v, At(r, idx) = v,
         \A i \in Int : i # idx =>
           (IsStored(r, i) <=> IsStored(c, i)) /\ (IsStored(r, i) => At(r, i) = At(c, i))
  PROVE  ElementsOf(r) = Added(ElementsOf(c), idx, v)
<1> DEFINE e == ElementsOf(c)
           g == Added(e, idx, v)
<1>1. /\ DOMAIN e \subseteq Int /\ \A i \in Int : i \in DOMAIN e <=> IsStored(c, i)
      /\ \A i \in DOMAIN e : e[i] = At(c, i)
  <2> HIDE DEF e
  <2>1. e = ElementsOf(c)
    BY DEF e
  <2> QED BY <2>1, ElementsParts
<1> HIDE DEF e
<1>2. /\ Mapping(g) /\ DOMAIN g = DOMAIN e \cup {idx}
      /\ \A i \in DOMAIN g : g[i] = IF i = idx THEN v ELSE e[i]
  BY DEF Added, Mapping
<1> HIDE DEF g
<1>3. \A i \in Int : i \in DOMAIN g <=> IsStored(r, i)
  BY <1>1, <1>2
<1>4. \A i \in DOMAIN g : g[i] = At(r, i)
  BY <1>1, <1>2, <1>3
<1>5. DOMAIN g \subseteq Int
  BY <1>1, <1>2
<1>6. ElementsOf(r) = g
  BY <1>2, <1>3, <1>4, <1>5, ElementsAre
<1> QED BY <1>6 DEF g, e

LEMMA WithoutIs ==
  ASSUME NEW c, Laid(c), NEW r, Laid(r), NEW gone, Forgotten(c, gone, r)
  PROVE  ElementsOf(r) = Without(ElementsOf(c), gone)
<1> DEFINE e == ElementsOf(c)
           g == Without(e, gone)
<1>1. /\ DOMAIN e \subseteq Int /\ \A i \in Int : i \in DOMAIN e <=> IsStored(c, i)
      /\ \A i \in DOMAIN e : e[i] = At(c, i)
  <2> HIDE DEF e
  <2>1. e = ElementsOf(c)
    BY DEF e
  <2> QED BY <2>1, ElementsParts
<1> HIDE DEF e
<1>2. Mapping(g) /\ DOMAIN g = DOMAIN e \ gone /\ \A i \in DOMAIN g : g[i] = e[i]
  BY DEF Without, Mapping
<1> HIDE DEF g
<1>3. \A i \in Int : i \in DOMAIN g <=> IsStored(r, i)
  BY <1>1, <1>2 DEF Forgotten
<1>4. \A i \in DOMAIN g : g[i] = At(r, i)
  BY <1>1, <1>2, <1>3 DEF Forgotten
<1>5. DOMAIN g \subseteq Int
  BY <1>1, <1>2
<1>6. ElementsOf(r) = g
  BY <1>2, <1>3, <1>4, <1>5, ElementsAre
<1> QED BY <1>6 DEF g, e

\* The range is closed over what is left.
ClosedOver(e, first, last) ==
  [k \in {i \in MinKey..MaxKey : Before(first, last, i) \in DOMAIN e \ (first..(last - 1))} |->
     e[Before(first, last, k)]]

LEMMA ClosedIs ==
  ASSUME NEW c, Laid(c), NEW r, Laid(r), NEW first \in Int, NEW last \in Int, first < last,
         NEW u, Forgotten(c, first..(last - 1), u), Closed(u, first, last, r)
  PROVE  ElementsOf(r) = ClosedOver(ElementsOf(c), first, last)
<1> DEFINE e == ElementsOf(c)
           g == ClosedOver(e, first, last)
           B(i) == Before(first, last, i)
           gone == first..(last - 1)
<1>1. /\ DOMAIN e \subseteq Int /\ \A i \in Int : i \in DOMAIN e <=> IsStored(c, i)
      /\ \A i \in DOMAIN e : e[i] = At(c, i)
  <2> HIDE DEF e
  <2>1. e = ElementsOf(c)
    BY DEF e
  <2> QED BY <2>1, ElementsParts
<1>2. \A i \in Int : B(i) \in Int
  BY DEF Before
<1>3. \A i \in Int : /\ IsStored(u, i) <=> IsStored(c, i) /\ i \notin gone
                     /\ IsStored(u, i) => At(u, i) = At(c, i)
  BY DEF Forgotten
<1>4. \A i \in Int : /\ IsStored(r, i) <=> IsStored(u, B(i))
                     /\ IsStored(r, i) => At(r, i) = At(u, B(i))
  BY DEF Closed
<1> HIDE DEF e
<1>5. /\ Mapping(g) /\ DOMAIN g = {i \in MinKey..MaxKey : B(i) \in DOMAIN e \ gone}
      /\ \A i \in DOMAIN g : g[i] = e[B(i)]
  BY DEF ClosedOver, Mapping
<1> HIDE DEF g, B, gone
<1>6. \A i \in Int : i \in DOMAIN g <=> IsStored(r, i)
  <2> SUFFICES ASSUME NEW i \in Int PROVE i \in DOMAIN g <=> IsStored(r, i)
    OBVIOUS
  <2>1. IsStored(r, i) => i \in MinKey..MaxKey
    BY StoredIs DEF Keys
  <2>2. IsStored(r, i) <=> B(i) \in DOMAIN e \ gone
    BY <1>1, <1>2, <1>3, <1>4
  <2> QED BY <1>5, <2>1, <2>2
<1>7. DOMAIN g \subseteq Int
  BY <1>5, KeysAre
<1>8. \A i \in DOMAIN g : g[i] = At(r, i)
  <2> SUFFICES ASSUME NEW i \in DOMAIN g PROVE g[i] = At(r, i)
    OBVIOUS
  <2>1. i \in Int /\ IsStored(r, i) /\ B(i) \in DOMAIN e /\ g[i] = e[B(i)]
    BY <1>5, <1>6, <1>7
  <2>2. At(r, i) = At(u, B(i)) /\ IsStored(u, B(i)) /\ B(i) \in Int
    BY <1>2, <1>4, <2>1
  <2> QED BY <1>1, <1>3, <2>1, <2>2
<1>9. ElementsOf(r) = g
  BY <1>5, <1>6, <1>7, <1>8, ElementsAre
<1> QED BY <1>9 DEF g, e

-----------------------------------------------------------------------------
(* Every step of the array is a step of the partial function.              *)

\* What a key that is touched gets.
MadeAt(e, k) == IF k - 1 \in DOMAIN e THEN Default ELSE NewChunkValue

\* The steps of the abstract array, between e and e2.
MapSteps(e, e2) ==
  \/ \E k \in Keys, v \in Values : e2 = Added(e, k, v)
  \/ \E k \in Keys : e2 = IF k \in DOMAIN e THEN e ELSE Added(e, k, MadeAt(e, k))
  \/ \E first, last \in MinKey..(MaxKey + 1) :
       first < last /\ (e2 = Without(e, first..(last - 1)) \/ e2 = ClosedOver(e, first, last))
  \/ e2 = [k \in {} |-> Default]

LEMMA ElementsNow == Elements = ElementsOf(chunks) /\ Elements' = ElementsOf(chunks')
BY DEF Elements, ElementsOf

LEMMA MapStepsAre ==
  ASSUME MapSteps(Elements, Elements') PROVE Map!Next
<1>1. CASE \E k \in Keys, v \in Values : Elements' = Added(Elements, k, v)
  BY <1>1 DEF Keys, Map!Keys, Map!Next, Map!Store, Map!Put, Added
<1>2. CASE \E k \in Keys : Elements' = IF k \in DOMAIN Elements THEN Elements
                                        ELSE Added(Elements, k, MadeAt(Elements, k))
  BY <1>2 DEF Keys, Map!Keys, Map!Next, Map!Touch, Map!Put, Map!Made, Added, MadeAt
<1>3. CASE \E first, last \in MinKey..(MaxKey + 1) :
             first < last /\ (\/ Elements' = Without(Elements, first..(last - 1))
                              \/ Elements' = ClosedOver(Elements, first, last))
  <2>1. PICK first \in MinKey..(MaxKey + 1), last \in MinKey..(MaxKey + 1) :
          first < last /\ (\/ Elements' = Without(Elements, first..(last - 1))
                           \/ Elements' = ClosedOver(Elements, first, last))
    BY <1>3
  <2>2. CASE Elements' = Without(Elements, first..(last - 1))
    <3>1. Map!Unstore(first, last)
      BY <2>2 DEF Map!Unstore, Map!Forget, Without
    <3> QED BY <2>1, <3>1 DEF Map!Next
  <2>3. CASE Elements' = ClosedOver(Elements, first, last)
    <3>1. Map!Erase(first, last)
      BY <2>3 DEF Map!Erase, ClosedOver, Before
    <3> QED BY <2>1, <3>1 DEF Map!Next
  <2> QED BY <2>1, <2>2, <2>3
<1>4. CASE Elements' = [k \in {} |-> Default]
  BY <1>4 DEF Map!Next, Map!Clear, Map!Empty
<1> QED BY <1>1, <1>2, <1>3, <1>4 DEF MapSteps

\* One lemma for each operation.
LEMMA TouchMaps ==
  ASSUME NEW c, Runs(c), NEW idx \in Keys
  PROVE  MapSteps(ElementsOf(c), ElementsOf(Ref(c, idx)))
<1> DEFINE e == ElementsOf(c)
           r == Ref(c, idx)
<1>1. /\ Runs(r) /\ IsStored(r, idx) /\ (IsStored(c, idx) => r = c)
      /\ ~IsStored(c, idx) => At(r, idx) = IF IsStored(c, idx - 1) THEN Default ELSE NewChunkValue
      /\ \A i \in Int : i # idx => (IsStored(r, i) <=> IsStored(c, i)) /\ At(r, i) = At(c, i)
  <2> HIDE DEF r
  <2>1. r = Ref(c, idx)
    BY DEF r
  <2> QED BY <2>1, RefIs
<1> HIDE DEF r
<1>2. Laid(c) /\ Laid(r) /\ idx \in Int
  BY <1>1, KeysAre DEF Runs
<1>3. (idx \in DOMAIN e <=> IsStored(c, idx)) /\ (idx - 1 \in DOMAIN e <=> IsStored(c, idx - 1))
  BY <1>2, StoredKeysAre DEF ElementsOf
<1>4. ~IsStored(c, idx) => ElementsOf(r) = Added(e, idx, MadeAt(e, idx))
  <2>1. ~IsStored(c, idx) => At(r, idx) = MadeAt(e, idx)
    BY <1>1, <1>3 DEF MadeAt
  <2> HIDE DEF e
  <2>2. ~IsStored(c, idx) => ElementsOf(r) = Added(ElementsOf(c), idx, MadeAt(e, idx))
    BY <1>1, <1>2, <2>1, AddedIs
  <2> QED BY <2>2 DEF e
<1> HIDE DEF e
<1>5. IsStored(c, idx) => ElementsOf(r) = e
  BY <1>1 DEF e
<1>6. ElementsOf(r) = IF idx \in DOMAIN e THEN e ELSE Added(e, idx, MadeAt(e, idx))
  BY <1>3, <1>4, <1>5
<1>7. MapSteps(e, ElementsOf(r))
  BY <1>6 DEF MapSteps
<1> QED BY <1>7 DEF e, r

LEMMA StoreMaps ==
  ASSUME NEW c, Runs(c), NEW idx \in Keys, NEW v \in Values
  PROVE  MapSteps(ElementsOf(c), ElementsOf(Assign(Ref(c, idx), idx, v)))
<1> DEFINE e == ElementsOf(c)
           r == Ref(c, idx)
           t == Assign(r, idx, v)
<1>1. /\ Runs(r) /\ IsStored(r, idx)
      /\ \A i \in Int : i # idx => (IsStored(r, i) <=> IsStored(c, i)) /\ At(r, i) = At(c, i)
  <2> HIDE DEF r
  <2>1. r = Ref(c, idx)
    BY DEF r
  <2> QED BY <2>1, RefIs
<1> HIDE DEF r
<1>2. Laid(c) /\ Laid(r) /\ idx \in Int /\ v \in Cell
  BY <1>1, KeysAre DEF Runs, Cell
<1>3. /\ Runs(t) /\ At(t, idx) = v
      /\ \A i \in Int : /\ IsStored(t, i) <=> IsStored(r, i)
                        /\ i # idx => At(t, i) = At(r, i)
  <2> HIDE DEF t
  <2>1. t = Assign(r, idx, v)
    BY DEF t
  <2> QED BY <1>1, <1>2, <2>1, AssignIs
<1> HIDE DEF t
<1>4. Laid(t) /\ IsStored(t, idx)
  BY <1>1, <1>2, <1>3 DEF Runs
<1>5. \A i \in Int : i # idx =>
        (IsStored(t, i) <=> IsStored(c, i)) /\ (IsStored(t, i) => At(t, i) = At(c, i))
  BY <1>1, <1>3
<1>6. ElementsOf(t) = Added(e, idx, v)
  BY <1>2, <1>3, <1>4, <1>5, AddedIs
<1> HIDE DEF e
<1>7. MapSteps(e, ElementsOf(t))
  BY <1>6 DEF MapSteps
<1> QED BY <1>7 DEF e, r, t

LEMMA UnstoreMaps ==
  ASSUME NEW c, Runs(c), NEW idx \in Keys
  PROVE  MapSteps(ElementsOf(c), ElementsOf(Unstore(c, idx)))
<1> DEFINE e == ElementsOf(c)
           r == Unstore(c, idx)
           last == idx + 1
<1>1. idx \in Int /\ last \in MinKey..(MaxKey + 1) /\ idx \in MinKey..(MaxKey + 1) /\ idx < last
      /\ {idx} = idx..(last - 1)
  BY KeysAre
<1>2. Runs(r) /\ Forgotten(c, {idx}, r)
  BY <1>1, UnstoreSteps
<1> HIDE DEF r, last
<1>3. ElementsOf(r) = Without(e, {idx})
  BY <1>2, WithoutIs DEF Runs
<1> HIDE DEF e
<1>4. ElementsOf(r) = Without(e, idx..(last - 1))
  BY <1>1, <1>3
<1>5. MapSteps(e, ElementsOf(r))
  BY <1>1, <1>4 DEF MapSteps
<1> QED BY <1>5 DEF e, r

LEMMA RangeMaps ==
  ASSUME NEW c, Runs(c), NEW first \in MinKey..(MaxKey + 1), NEW last \in MinKey..(MaxKey + 1),
         Begins(c, first, last), NEW r, r = UnstoreRange(c, first, last)
  PROVE  ElementsOf(r) = ElementsOf(c) \/ MapSteps(ElementsOf(c), ElementsOf(r))
<1>1. first \in Int /\ last \in Int
  BY KeysAre
<1>2. RangeLost(c, first, last, r)
  BY <1>1, UnstoreRangeIs
<1>3. Runs(r) /\ Forgotten(c, first..(last - 1), r)
  BY <1>2 DEF RangeLost
<1>4. Laid(c) /\ Laid(r)
  BY <1>3 DEF Runs
<1>5. CASE first < last
  <2>1. ElementsOf(r) = Without(ElementsOf(c), first..(last - 1))
    BY <1>3, <1>4, WithoutIs
  <2> QED BY <1>5, <2>1 DEF MapSteps
<1>6. CASE ~(first < last)
  <2>1. \A i \in Int : i \notin first..(last - 1)
    BY <1>1, <1>6
  <2>2. \A i \in Int : (IsStored(r, i) <=> IsStored(c, i)) /\ (IsStored(r, i) => At(r, i) = At(c, i))
    BY <1>3, <2>1 DEF Forgotten
  <2> QED BY <1>4, <2>2, ElementsSame
<1> QED BY <1>5, <1>6

LEMMA EraseMaps ==
  ASSUME NEW c, Runs(c), NEW first, NEW last, first < last, Begins(c, first, last),
         \/ first \in MinKey..(MaxKey + 1) /\ last \in MinKey..(MaxKey + 1)
         \/ first = SpanEnd(c) - 1 /\ last = SpanEnd(c),
         NEW r, r = EraseRange(c, first, last)
  PROVE  ElementsOf(r) = ElementsOf(c) \/ MapSteps(ElementsOf(c), ElementsOf(r))
<1>1. Laid(c)
  BY DEF Runs
<1>2. first \in Int /\ last \in Int /\ (DOMAIN c # {} => MinKey <= first)
  BY <1>1, EraseBounds
<1>3. Erased(c, first, last, r)
  BY <1>2, EraseRangeIs
<1>4. PICK u : RangeLost(c, first, last, u) /\ Closed(u, first, last, r)
  BY <1>3 DEF Erased
<1>5. Forgotten(c, first..(last - 1), u) /\ Runs(r) /\ Laid(r)
  BY <1>3, <1>4 DEF RangeLost, Erased, Runs
<1>6. CASE first \in MinKey..(MaxKey + 1) /\ last \in MinKey..(MaxKey + 1)
  <2>1. ElementsOf(r) = ClosedOver(ElementsOf(c), first, last)
    BY <1>1, <1>2, <1>4, <1>5, ClosedIs
  <2> QED BY <1>6, <2>1 DEF MapSteps
<1>7. CASE first = SpanEnd(c) - 1 /\ last = SpanEnd(c) /\ DOMAIN c # {}
  <2>1. MinKey < SpanEnd(c) /\ SpanEnd(c) <= MaxKey + 1 /\ SpanEnd(c) \in Int
    BY <1>1, <1>7, SpanIs
  <2> HIDE DEF SpanEnd
  <2>2. first \in MinKey..(MaxKey + 1) /\ last \in MinKey..(MaxKey + 1)
    BY <1>7, <2>1, KeysAre
  <2> QED BY <1>6, <2>2
<1>8. CASE DOMAIN c = {}
  <2>1. \A i \in Int : ~IsStored(c, i)
    BY <1>8 DEF IsStored, UpTo
  <2>2. \A i \in Int : ~IsStored(u, i)
    BY <1>5, <2>1 DEF Forgotten
  <2>3. \A i \in Int : Before(first, last, i) \in Int
    BY <1>2 DEF Before
  <2>4. \A i \in Int : ~IsStored(r, i)
    BY <1>4, <2>2, <2>3 DEF Closed
  <2> QED BY <1>1, <1>5, <2>1, <2>4, ElementsSame
<1> QED BY <1>6, <1>7, <1>8

(* Where no range that is unstored begins between two runs, an array implements ArrayMap, *)
(* whatever a new vector begins with: seen through at(), every operation writes, forgets  *)
(* or renumbers the elements it names and no other, and an element that is made by being  *)
(* named is Value() exactly behind one that is stored, however the chunks are split,      *)
(* joined and moved (ref, unstore, erase and compact_chunks).                             *)
THEOREM ArrayIsAMap ==
  ASSUME RangesMayStartInGap = FALSE
  PROVE  ArraySpec => ArrayIsMap
<1>1. ArrayInit => Map!Init
  <2> SUFFICES ASSUME ArrayInit PROVE Elements = [k \in {} |-> Default]
    BY DEF Map!Init, Map!Empty
  <2>1. chunks = NoChunks
    BY DEF ArrayInit
  <2>2. StoredKeys(chunks) = {}
    BY <2>1, EmptyIs
  <2> QED BY <2>2 DEF Elements
<1>2. ArrayInv /\ [ArrayNext]_arrayVars => [Map!Next]_Elements
  <2> SUFFICES ASSUME ArrayInv, [ArrayNext]_arrayVars
               PROVE  MapSteps(ElementsOf(chunks), ElementsOf(chunks'))
                        \/ ElementsOf(chunks') = ElementsOf(chunks)
    BY ElementsNow, MapStepsAre
  <2>1. Runs(chunks)
    BY DEF ArrayInv
  <2>2. ASSUME NEW idx \in Keys, Touch(idx)
        PROVE  MapSteps(ElementsOf(chunks), ElementsOf(chunks'))
    BY <2>1, <2>2, TouchMaps DEF Touch
  <2>3. ASSUME NEW idx \in Keys, NEW v \in Values, Store(idx, v)
        PROVE  MapSteps(ElementsOf(chunks), ElementsOf(chunks'))
    BY <2>1, <2>3, StoreMaps DEF Store
  <2>4. ASSUME NEW idx \in Keys, UnstoreOne(idx)
        PROVE  MapSteps(ElementsOf(chunks), ElementsOf(chunks'))
    BY <2>1, <2>4, UnstoreMaps DEF UnstoreOne
  <2>5. ASSUME NEW first, NEW last, Allowed(first, last) PROVE Begins(chunks, first, last)
    BY <2>5 DEF Allowed, StartsInGap, Begins
  <2>6. ASSUME NEW first \in MinKey..(MaxKey + 1), NEW last \in MinKey..(MaxKey + 1),
               UnstoreMany(first, last)
        PROVE  MapSteps(ElementsOf(chunks), ElementsOf(chunks'))
                 \/ ElementsOf(chunks') = ElementsOf(chunks)
    <3>1. Begins(chunks, first, last) /\ chunks' = UnstoreRange(chunks, first, last)
      BY <2>5, <2>6 DEF UnstoreMany
    <3> QED BY <2>1, <3>1, RangeMaps
  <2>7. ASSUME NEW first, NEW last, Erase(first, last),
               \/ first \in MinKey..(MaxKey + 1) /\ last \in MinKey..(MaxKey + 1)
               \/ first = SpanEnd(chunks) - 1 /\ last = SpanEnd(chunks)
        PROVE  MapSteps(ElementsOf(chunks), ElementsOf(chunks'))
                 \/ ElementsOf(chunks') = ElementsOf(chunks)
    <3>1. /\ Begins(chunks, first, last) /\ first < last
          /\ chunks' = EraseRange(chunks, first, last)
      BY <2>5, <2>7 DEF Erase
    <3> QED BY <2>1, <2>7, <3>1, EraseMaps
  <2>8. CASE ClearArray
    <3>1. StoredKeys(chunks') = {}
      BY <2>8, EmptyIs DEF ClearArray
    <3>2. ElementsOf(chunks') = [k \in {} |-> Default]
      BY <3>1 DEF ElementsOf
    <3> QED BY <3>2 DEF MapSteps
  <2>9. CASE PopBack
    BY <2>7, <2>9 DEF PopBack
  <2>10. ASSUME NEW v \in Values, PushBack(v) PROVE MapSteps(ElementsOf(chunks), ElementsOf(chunks'))
    BY <2>3, <2>10 DEF PushBack
  <2>11. CASE UNCHANGED arrayVars
    BY <2>11 DEF arrayVars
  <2> QED BY <2>2, <2>3, <2>4, <2>6, <2>7, <2>8, <2>9, <2>10, <2>11 DEF ArrayNext
<1> QED BY <1>1, <1>2, ArrayInvHolds, PTL DEF ArraySpec, ArrayIsMap

(* "Unstores [first, last)" (the comment on unstore()) is true of every range that begins *)
(* at a key that is stored, whatever was unstored before: no other key is lost or gained. *)
THEOREM RangesFromRunsAreUnstored ==
  ArraySpec => [](\A first, last \in MinKey..(MaxKey + 1) :
                    StartsInGap(first, last)
                      \/ StoredKeys(UnstoreRange(chunks, first, last))
                           = StoredKeys(chunks) \ (first..(last - 1)))
<1>1. ASSUME ArrayInv, NEW first \in MinKey..(MaxKey + 1), NEW last \in MinKey..(MaxKey + 1),
             ~StartsInGap(first, last)
      PROVE  StoredKeys(UnstoreRange(chunks, first, last))
               = StoredKeys(chunks) \ (first..(last - 1))
  <2> DEFINE r == UnstoreRange(chunks, first, last)
  <2>1. Runs(chunks) /\ first \in Int /\ last \in Int
    BY <1>1, KeysAre DEF ArrayInv
  <2>2. RangeLost(chunks, first, last, r)
    BY <2>1, UnstoreRangeIs
  <2> HIDE DEF r
  <2>3. Runs(r) /\ Forgotten(chunks, first..(last - 1), r)
    BY <1>1, <2>2 DEF RangeLost, Begins, StartsInGap
  <2>4. StoredKeys(r) = StoredKeys(chunks) \ (first..(last - 1))
    BY <2>1, <2>3, StoredKeysAre DEF Runs, Forgotten
  <2> QED BY <2>4 DEF r
<1>2. ArrayInv => \A first, last \in MinKey..(MaxKey + 1) :
                    StartsInGap(first, last)
                      \/ StoredKeys(UnstoreRange(chunks, first, last))
                           = StoredKeys(chunks) \ (first..(last - 1))
  BY <1>1
<1> QED BY <1>2, ArrayInvHolds, PTL

=============================================================================
