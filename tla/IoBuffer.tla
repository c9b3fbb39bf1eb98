------------------------------ MODULE IoBuffer ------------------------------
(***************************************************************************)
(* io_buffer<T> (io/buffer.h) as its single-threaded clients drive it: one *)
(* action per member function that changes the buffer.                     *)
(***************************************************************************)
EXTENDS CircularBuffer, FiniteSets

CONSTANTS Elem,       \* the elements written
          Limits,     \* the limits given to the constructor
          NewLimits,  \* the limits given to set_max_size(), {} for never
          MaxBatch,   \* bound: the longest sequence a client writes at once
          Clients     \* the kinds of client: which of the read functions "one",
                      \* "upto", "partial", "all" and "swap" each of them uses

ASSUME IoBufferAssumption == /\ Moved \notin Elem
                             /\ Limits \subseteq Nat
                             /\ NewLimits \subseteq Nat
                             /\ MaxBatch \in Nat

VARIABLES buf,   \* the buffer
          reply, \* what the last call answered: op, ok, put and got
          uses   \* the read functions this client uses, chosen once

bufferVars == <<buf, reply, uses>>

Items == UNION {[1..n -> Elem] : n \in 0..MaxBatch}

Reply(op, ok, put, got) == [op |-> op, ok |-> ok, put |-> put, got |-> got]

BufferInit == /\ \E l \in Limits : buf = EmptyBuffer(l)
              /\ reply = Reply("none", TRUE, <<>>, <<>>)
              /\ uses \in Clients

-----------------------------------------------------------------------------
(* write(v), write_from(container) and write(begin, end).                  *)
Write(s) ==
  \/ /\ Accepts(buf, s)
     /\ buf' = Written(buf, s)
     /\ reply' = Reply("write", TRUE, s, <<>>)
  \/ /\ ~Accepts(buf, s)
     /\ reply' = Reply("write", FALSE, <<>>, <<>>)
     /\ UNCHANGED buf

\* read() and read(element).
ReadOne ==
  /\ "one" \in uses
  /\ buf' \in TakenOne(buf)
  /\ reply' = Reply("read", buf.size > 0, <<>>,
                    IF buf.size > 0 THEN <<Contents(buf)[1]>> ELSE <<>>)

\* read(max, p), read_into(max, out): the predicate consumes all it is given.
ReadUpTo(max) ==
  LET n == IF max < buf.size THEN max ELSE buf.size
  IN  /\ "upto" \in uses
      /\ buf' \in Consumed(buf, n, n)
      /\ reply' = Reply("read", n > 0, <<>>, SubSeq(Contents(buf), 1, n))

\* read(max, p) with a predicate that stops after c of the n elements.
ReadPartly(max, c) ==
  LET n == IF max < buf.size THEN max ELSE buf.size
  IN  /\ "partial" \in uses
      /\ c < n
      /\ buf' \in Consumed(buf, n, c)
      /\ reply' = Reply("partial", c > 0, <<>>, SubSeq(Contents(buf), 1, c))

\* read_all(p), read_all_into(out) and read_all<Container>().
ReadAll ==
  /\ "all" \in uses
  /\ buf' \in Consumed(buf, buf.size, buf.size)
  /\ reply' = Reply("read", buf.size > 0, <<>>, Contents(buf))

ReadAllSwap ==
  /\ "swap" \in uses
  /\ buf' \in Swapped(buf)
  /\ reply' = Reply("read", buf.size > 0, <<>>,
                    IF buf.first = 0 THEN SubSeq(buf.data, 1, buf.size)
                                     ELSE Contents(buf))

Clear == /\ buf' \in Cleared(buf)
         /\ reply' = Reply("clear", TRUE, <<>>, <<>>)

SetMaxSize(l) == /\ buf' = [buf EXCEPT !.limit = l]
                 /\ reply' = Reply("resize", TRUE, <<>>, <<>>)

Close == /\ buf' = [buf EXCEPT !.closed = TRUE]
         /\ reply' = Reply("close", TRUE, <<>>, <<>>)

BufferNext == /\ \/ \E s \in Items : Write(s)
                 \/ ReadOne
                 \/ \E max \in 0..Capacity(buf) : ReadUpTo(max)
                 \/ \E max, c \in 0..Capacity(buf) : ReadPartly(max, c)
                 \/ ReadAll
                 \/ ReadAllSwap
                 \/ Clear
                 \/ \E l \in NewLimits : SetMaxSize(l)
                 \/ Close
              /\ UNCHANGED uses

BufferSpec == BufferInit /\ [][BufferNext]_bufferVars

-----------------------------------------------------------------------------
\* Type correctness, with the geometry every index computation relies on,
\* and the reply's shape.
BufferTypeOK == /\ buf \in Buffers(Elem \cup {Moved}, Limits \cup NewLimits)
                /\ Geometry(buf)
                /\ reply \in [op : {"none", "write", "read", "partial", "clear",
                                    "resize", "close"},
                              ok : BOOLEAN, put : Seq(Elem), got : Seq(Elem)]
                /\ uses \in Clients

\* No live slot holds a moved-from element, whatever mix of growing, wrapping,
\* partial reads and shrinking came before (io_buffer::write and ::read).
LiveSlotsWritten == \A i \in 1..buf.size : Contents(buf)[i] \in Elem

\* The vector never outgrows the largest limit it was given, although it is
\* grown by align() and insert() and never shrunk by set_max_size().
CapacityWithinLimit ==
  \E l \in Limits \cup NewLimits :
    Capacity(buf) <= (IF l # 0 THEN l ELSE VectorMax)

Count(s, e) == Cardinality({i \in DOMAIN s : s[i] = e})

\* A call neither invents nor loses nor duplicates an element: what was live
\* and what it accepted is what it handed out and what is live afterwards.
\* (Clearing drops elements, a partly consuming predicate loses some.)
ElementsConserved ==
  [][reply'.op \notin {"clear", "partial"} =>
       \A e \in Elem : Count(Contents(buf), e) + Count(reply'.put, e)
                         = Count(Contents(buf'), e) + Count(reply'.got, e)]_bufferVars

\* The abstract queue, seen through what is live in the buffer.
Fifo == INSTANCE BoundedFifo
          WITH Batches <- Items, QueueLimits <- Limits \cup NewLimits,
               QueueMax <- VectorMax, queue <- Contents(buf),
               maxLen <- buf.limit, shut <- buf.closed, answer <- reply

\* A client that only ever takes everything (the loop of async_logger).
Draining == uses \subseteq {"all", "swap"}

\* For such a client the buffer implements the queue, whatever its vector
\* looks like: every call is a step of the queue, or leaves it as it was.
ImplementsFifo == /\ Draining => Fifo!Init
                  /\ [][Draining => [Fifo!Next]_(Fifo!vars)]_bufferVars

\* The indices, the slots and the vector's length fit together.
BufferConsistent == BufferTypeOK /\ LiveSlotsWritten /\ CapacityWithinLimit

=============================================================================
