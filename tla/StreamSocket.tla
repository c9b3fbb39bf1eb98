---------------------------- MODULE StreamSocket ----------------------------
(***************************************************************************)
(* stream_socket (socket/socket.h): the buffers between an application and *)
(* a connected, non-blocking descriptor.  The kernel takes and gives as    *)
(* many bytes of a request as it likes, which stands for partial transfers,*)
(* "would block" and errors alike.  A byte is its position in its stream.  *)
(***************************************************************************)
EXTENDS CircularBuffer, FiniteSets, SequencesExt

CONSTANTS MaxBytes,   \* bound: bytes in each direction
          MaxRequest, \* bound: bytes of one write() or read()
          ChunkSize,  \* READ_BUFFER_SIZE
          ReadLimits, \* the limits given to set_read_limit(), 0 for none
          Readers     \* the kinds of application: {"max"} reads piecemeal,
                      \* {"all"} only with read_all()

ASSUME SocketAssumption == /\ MaxBytes \in Nat /\ MaxRequest \in Nat
                           /\ ChunkSize \in Nat \ {0}
                           /\ ReadLimits \subseteq Nat
                           /\ Moved \notin Nat
                           /\ MaxBytes <= VectorMax

VARIABLES
  write_buffer, read_buffer,
  connected,  \* the socket is connected
  reads,      \* how this application reads, chosen once
  offered,    \* how many bytes the application has given to write()
  wire,       \* the bytes the kernel took, in order
  arrived,    \* the bytes the kernel has ready, in order
  coming,     \* how many bytes the peer has sent
  got         \* the bytes the application has read, in order

sending == <<write_buffer, offered, wire>>
receiving == <<read_buffer, arrived, coming, got>>
vars == <<sending, receiving, connected, reads>>

-----------------------------------------------------------------------------
Bytes(first, n) == [i \in 1..n |-> first + i - 1]

First(s, n) == SubSeq(s, 1, n)
From(s, n) == SubSeq(s, n + 1, Len(s))
Least(m, n) == IF m < n THEN m ELSE n

\* How many bytes of a request of n direct_write() or direct_read() may
\* transfer.
Transferred(n) == IF connected THEN 0..n ELSE {0}

Init == /\ write_buffer = EmptyBuffer(0)
        /\ \E l \in ReadLimits : read_buffer = EmptyBuffer(l)
        /\ reads \in Readers
        /\ connected = TRUE
        /\ offered = 0 /\ wire = <<>>
        /\ arrived = <<>> /\ coming = 0 /\ got = <<>>

-----------------------------------------------------------------------------
(* write() and async_flush_write_buffer().                                 *)

\* Mutant: the new bytes are sent although old ones are left over.
SentThroughOvertaking(s) ==
  LET pending == Contents(write_buffer)
  IN  \E n \in Transferred(Len(pending)), m \in Transferred(Len(s)) :
       \E b \in Consumed(write_buffer, n, n) :
        /\ wire' = wire \o First(pending, n) \o First(s, m)
        /\ write_buffer' = Written(b, From(s, m))

\* read_all() offers the kernel what was buffered; if it takes everything the
\* new bytes s are offered, and what is left of them is buffered.
SentThrough(s) ==
  LET pending == Contents(write_buffer)
  IN  \E n \in Transferred(Len(pending)), m \in Transferred(Len(s)) :
       \E b \in Consumed(write_buffer, Len(pending), n) :
        /\ n < Len(pending) => m = 0
        /\ wire' = wire \o First(pending, n) \o First(s, m)
        /\ write_buffer' = Written(b, From(s, m))

Write(n) ==
  /\ offered + n <= MaxBytes
  /\ SentThrough(Bytes(offered + 1, n))
  /\ offered' = offered + n
  /\ UNCHANGED <<receiving, connected, reads>>

Flush ==
  /\ write_buffer.size > 0
  /\ SentThrough(<<>>)
  /\ UNCHANGED <<offered, receiving, connected, reads>>

-----------------------------------------------------------------------------
(* async_fill_read_buffer(), read() and read_all().                        *)

\* The peer's bytes reach the kernel.
Arrive(n) ==
  /\ coming + n <= MaxBytes
  /\ arrived' = arrived \o Bytes(coming + 1, n)
  /\ coming' = coming + n
  /\ UNCHANGED <<sending, read_buffer, got, connected, reads>>

Chunks(s) ==
  [i \in 1..((Len(s) + ChunkSize - 1) \div ChunkSize) |->
     SubSeq(s, (i - 1) * ChunkSize + 1, Least(i * ChunkSize, Len(s)))]

\* Mutant: a chunk is read although the buffer may not have room for it.
FillWithoutRoom ==
  \E n \in Transferred(Len(arrived)) :
    /\ n > 0
    /\ read_buffer' = FoldLeft(LAMBDA b, s : IF Accepts(b, s) THEN Written(b, s) ELSE b,
                               read_buffer, Chunks(First(arrived, n)))
    /\ arrived' = From(arrived, n)
    /\ UNCHANGED <<sending, coming, got, connected, reads>>

\* The chunks are written to the read buffer one by one.
Filled(b, chunks) ==
  LET after[i \in 0..Len(chunks)] == IF i = 0 THEN b ELSE Written(after[i - 1], chunks[i])
  IN  after[Len(chunks)]

FillReadBuffer ==
  \E n \in Transferred(Least(Len(arrived), FreeSpace(read_buffer))) :
    /\ n > 0
    /\ read_buffer' = Filled(read_buffer, Chunks(First(arrived, n)))
    /\ arrived' = From(arrived, n)
    /\ UNCHANGED <<sending, coming, got, connected, reads>>

\* First what was buffered, then directly from the descriptor.
Take(max) ==
  LET n == Least(max, read_buffer.size)
  IN  \E m \in Transferred(Least(max - n, Len(arrived))) :
        /\ read_buffer' \in Consumed(read_buffer, n, n)
        /\ arrived' = From(arrived, m)
        /\ got' = got \o First(Contents(read_buffer), n) \o First(arrived, m)
        /\ UNCHANGED <<sending, coming, connected, reads>>

Read(max) == "max" \in reads /\ Take(max)

ReadAll == "all" \in reads /\ Take(read_buffer.size + Len(arrived))

\* The buffers keep what they hold.
Disconnect ==
  /\ connected
  /\ connected' = FALSE
  /\ UNCHANGED <<sending, receiving, reads>>

Next == \/ \E n \in 1..MaxRequest : Write(n) \/ Arrive(n) \/ Read(n)
        \/ Flush \/ FillReadBuffer \/ ReadAll \/ Disconnect

Spec == Init /\ [][Next]_vars

-----------------------------------------------------------------------------
(* Properties.                                                             *)

\* Type correctness and the geometry of both buffers.
TypeOK ==
  /\ write_buffer \in Buffers(1..MaxBytes \cup {Moved}, {0})
  /\ read_buffer \in Buffers(1..MaxBytes \cup {Moved}, ReadLimits)
  /\ Geometry(write_buffer) /\ Geometry(read_buffer)
  /\ connected \in BOOLEAN /\ reads \in Readers
  /\ offered \in 0..MaxBytes /\ coming \in 0..MaxBytes
  /\ wire \in Seq(1..MaxBytes) /\ arrived \in Seq(1..MaxBytes)
  /\ got \in Seq(1..MaxBytes)

Outgoing == wire \o Contents(write_buffer)
Incoming == got \o Contents(read_buffer) \o arrived

\* However the kernel splits what it takes, no byte is sent twice or before
\* one that was written earlier (write() stops at the first partial send).
SentInOrder == \A i, j \in DOMAIN Outgoing : i < j => Outgoing[i] < Outgoing[j]

\* The bytes of a write() are on the wire or buffered when it returns.
WriteKeepsItsBytes ==
  [][offered' > offered =>
       \E k \in 0..Len(Outgoing') : From(Outgoing', k) = Bytes(offered + 1, offered' - offered)]_vars

\* "The data is buffered for writing later if an error occurs or if the socket
\* is asynchronous and couldn't accept more data immediately": every byte
\* given to write() is on the wire or buffered.
NothingLostSending == Outgoing = Bytes(1, offered)

\* Receiving neither loses nor duplicates a byte, between the kernel, a buffer
\* with a limit, which may be full, and the application.
NothingLostReceiving ==
  Len(Incoming) = coming /\ \A i \in 1..coming : \E k \in DOMAIN Incoming : Incoming[k] = i

\* An application that only uses read_all() gets the peer's bytes in order.
ReceivedInOrder == reads = {"all"} => Incoming = Bytes(1, coming)

\* Receiving is reliable, whatever of it goes through the buffer.
ReceivedWhole == TypeOK /\ NothingLostReceiving /\ ReceivedInOrder

=============================================================================
