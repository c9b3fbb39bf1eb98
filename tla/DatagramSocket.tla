--------------------------- MODULE DatagramSocket ---------------------------
(***************************************************************************)
(* datagram_socket (socket/socket.h), non-blocking: packets that the kernel*)
(* does not take at once are buffered together with their destination, and *)
(* packets that arrive are buffered until the application asks for them.   *)
(***************************************************************************)
EXTENDS CircularBuffer, SequencesExt

CONSTANTS MaxDatagrams, \* bound: packets in each direction
          PacketLimits  \* the limits given to set_read_limit(), 0 for none

ASSUME DatagramAssumption == MaxDatagrams \in Nat /\ PacketLimits \subseteq Nat /\ MaxDatagrams <= VectorMax

VARIABLES
  state,      \* "connected" to one remote address, "bound", or "invalid"
  outgoing,   \* write_buffer
  incoming,   \* read_buffer
  given,      \* the packets given to write_datagram(), in order
  told,       \* whether the last write_datagram() returned an error
  sent,       \* the packets the kernel took, in order
  ready,      \* the packets the kernel has, in order
  came,       \* how many packets have arrived
  taken,      \* the packets the application has read, in order
  overflowed  \* how often the read buffer was full when a packet was read

writing == <<outgoing, given, told, sent>>
reading == <<incoming, ready, came, taken, overflowed>>
datagramVars == <<state, writing, reading>>

Unspecified == "unspecified"

DatagramInit ==
  /\ state \in {"connected", "bound"}
  /\ outgoing = EmptyBuffer(0) /\ given = <<>> /\ told = FALSE /\ sent = <<>>
  /\ \E limit \in PacketLimits : incoming = EmptyBuffer(limit)
  /\ ready = <<>> /\ came = 0 /\ taken = <<>> /\ overflowed = 0

-----------------------------------------------------------------------------
(* write_datagram() and async_flush_write_buffer().                        *)

\* What the kernel may answer to direct_write() or direct_write_to(): packets without
\* a destination need a connection, packets with one a socket that is only bound.
Answers(packet) ==
  IF \/ packet.to = Unspecified /\ state = "connected"
     \/ packet.to # Unspecified /\ state = "bound"
  THEN {"sent", "would block", "error"} ELSE {"error"}

\* The buffered packets are tried in order, up to the first that is not sent; all of
\* them leave the buffer.  Flushed(n, answer) says that n of them were sent, and what
\* the kernel answered to the next one ("sent" if there is none).
Flushed(n, answer) ==
  LET packets == Contents(outgoing)
  IN  /\ \A i \in 1..n : "sent" \in Answers(packets[i])
      /\ IF n = Len(packets) THEN answer = "sent" ELSE answer \in Answers(packets[n + 1]) \ {"sent"}

AfterFlush(n) == Consumed(outgoing, outgoing.size, n)

\* Mutant: a packet that would block is given up like one that failed.
WriteDatagramOrDrop(packet, queue_on_error) ==
  \E n \in 0..outgoing.size, flush \in {"sent", "would block", "error"} :
    /\ Flushed(n, flush)
    /\ \E answer \in IF flush = "error" THEN {"error"} ELSE Answers(packet) :
         /\ told' = (answer = "error")
         /\ LET before == sent \o SubSeq(Contents(outgoing), 1, n)
            IN  sent' = IF answer = "sent" THEN Append(before, packet) ELSE before
         /\ \E b \in AfterFlush(n) :
              outgoing' = IF answer # "sent" /\ queue_on_error THEN Written(b, <<packet>>) ELSE b

\* The new packet is tried unless a buffered one failed for good.  An error is
\* reported, but the packet may be queued all the same.
WriteDatagram(packet, queue_on_error) ==
  \E n \in 0..outgoing.size, flush \in {"sent", "would block", "error"} :
    /\ Flushed(n, flush)
    /\ \E answer \in IF flush = "error" THEN {"error"} ELSE Answers(packet) :
         /\ told' = (answer = "error")
         /\ LET before == sent \o SubSeq(Contents(outgoing), 1, n)
            IN  sent' = IF answer = "sent" THEN Append(before, packet) ELSE before
         /\ \E b \in AfterFlush(n) :
              outgoing' = IF answer # "sent" /\ (queue_on_error \/ answer = "would block")
                          THEN Written(b, <<packet>>) ELSE b

Give(to, queue_on_error) ==
  LET packet == [id |-> Len(given) + 1, to |-> to]
  IN  /\ Len(given) < MaxDatagrams
      /\ WriteDatagram(packet, queue_on_error)
      /\ given' = Append(given, packet)
      /\ UNCHANGED <<state, reading>>

\* The server calls this when the descriptor is writable.
FlushDatagrams ==
  /\ outgoing.size > 0
  /\ \E n \in 0..outgoing.size, flush \in {"sent", "would block", "error"} :
       /\ Flushed(n, flush)
       /\ sent' = sent \o SubSeq(Contents(outgoing), 1, n)
       /\ outgoing' \in AfterFlush(n)
  /\ UNCHANGED <<state, given, told, reading>>

-----------------------------------------------------------------------------
(* async_fill_read_buffer() and read_datagram().                           *)

Come ==
  /\ came < MaxDatagrams /\ state # "invalid"
  /\ came' = came + 1 /\ ready' = Append(ready, came + 1)
  /\ UNCHANGED <<state, writing, incoming, taken, overflowed>>

Store(b, packet) == IF Accepts(b, <<packet>>) THEN Written(b, <<packet>>) ELSE b

StoredEach(b, packets) ==
  LET after[i \in 0..Len(packets)] == IF i = 0 THEN b ELSE Store(after[i - 1], packets[i])
  IN  after[Len(packets)]

\* Everything the kernel has is read; what finds the buffer full is dropped.
FillPackets ==
  /\ state # "invalid" /\ ready # <<>>
  /\ incoming' = StoredEach(incoming, ready)
  /\ ready' = <<>>
  /\ overflowed' = overflowed + Len(ready) - (incoming'.size - incoming.size)
  /\ UNCHANGED <<state, writing, came, taken>>

\* First what is buffered, then directly from the descriptor.
ReadDatagram ==
  /\ IF incoming.size > 0
     THEN /\ taken' = Append(taken, Head(Contents(incoming)))
          /\ incoming' \in TakenOne(incoming) /\ UNCHANGED ready
     ELSE /\ state # "invalid" /\ ready # <<>>
          /\ taken' = Append(taken, Head(ready)) /\ ready' = Tail(ready) /\ UNCHANGED incoming
  /\ UNCHANGED <<state, writing, came, overflowed>>

\* disconnect(): the buffers keep what they hold; what the kernel has stays unread.
CloseDatagrams ==
  /\ state # "invalid"
  /\ state' = "invalid"
  /\ UNCHANGED <<writing, reading>>

DatagramNext ==
  \/ \E to \in {Unspecified, "a", "b"}, queue_on_error \in BOOLEAN : Give(to, queue_on_error)
  \/ FlushDatagrams \/ Come \/ FillPackets \/ ReadDatagram \/ CloseDatagrams

-----------------------------------------------------------------------------
(* Properties.                                                             *)

(* The kernel gets every packet at most once, with the destination it was given, and *)
(* in the order in which the packets were written, however often sending was blocked *)
(* or failed in between (write_datagram, async_flush_write_buffer).                   *)
DatagramsGoOnceInOrder ==
  LET packets == sent \o Contents(outgoing)
  IN  \A i \in DOMAIN packets :
        /\ packets[i] = given[packets[i].id]
        /\ i > 1 => packets[i - 1].id < packets[i].id

(* A packet whose write_datagram() returned no error was sent or is in the buffer    *)
(* when it returns.  (It may be dropped from there by the next flush.)                *)
AcceptedIsKept ==
  [][Len(given') > Len(given) /\ ~told' =>
       Last(given') \in Range(sent' \o Contents(outgoing'))]_datagramVars

(* The application gets every packet that arrived at most once, from the buffer or   *)
(* the kernel, and misses exactly as many as found the buffer full (read_datagram,    *)
(* async_fill_read_buffer).  Not always in order: io_buffer does not keep it.         *)
DatagramsComeOnce ==
  LET packets == taken \o Contents(incoming) \o ready
  IN  /\ IsInjective(packets) /\ Range(packets) \subseteq 1..came
      /\ Len(packets) + overflowed = came

=============================================================================
