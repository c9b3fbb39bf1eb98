---------------------------- MODULE MessageBuffer ----------------------------
(***************************************************************************)
(* MessageBufferInterface<Message> with the public functions it inherits   *)
(* from MessageInterface<Message> (threadbuffer.h).  The mutex is held for *)
(* the whole of every call except inside condition_variable::wait, so that *)
(* a call is one step, plus one step for every time it is woken.           *)
(***************************************************************************)
EXTENDS Integers, Sequences, FiniteSets, Functions

CONSTANTS Senders, Receivers, \* the threads that send and that read
          MaxSent,      \* bound: messages one sender offers
          Usages        \* the ways the threads may use the queue, see Usage

QueueTypes == {"BlockUntilDone", "BlockUntilSent", "Immediate", "ForceSend"}

\* sends, reads: the queue types used for sending and for reading, consumes:
\* the read types, closes: the arguments of close(), {} for never, readers:
\* the threads that read, limit: buffer_limit, 0 for none, batch: the most
\* messages of an atomic send.
Usage == [sends : SUBSET QueueTypes, reads : SUBSET QueueTypes,
          consumes : SUBSET {"WithoutRemoving", "AndRemove"},
          closes : SUBSET BOOLEAN, readers : SUBSET Receivers,
          limit : Nat, batch : Nat]

ASSUME MessageAssumption ==
  /\ Senders \cap Receivers = {}
  /\ IsFiniteSet(Senders) /\ IsFiniteSet(Receivers)
  /\ MaxSent \in Nat /\ Usages \subseteq Usage

VARIABLES
  usage,          \* how this program's threads use the queue, chosen once
  buffer,         \* the std::deque of messages
  closed,         \* closed for writing
  first_message_is_stale, \* the first message has been read already
  producer_wait,  \* threads waiting on this condition variable
  consumer_wait,  \* threads waiting on this condition variable
  call,           \* the call a thread is blocked in, or Idle
  result,         \* what each thread's last call returned
  sent,           \* how many messages each sender has offered
  accepted,       \* history: messages whose send reported success, in order
  delivered,      \* history: messages handed to readers, in order
  displaced,      \* history: messages a ForceSend reported as lost
  discarded,      \* history: messages removed as stale
  cancelled,      \* history: messages dropped by close(true)
  failed          \* history: whether a read has reported MessageFailed

queue == <<buffer, closed, first_message_is_stale, producer_wait, consumer_wait>>
history == <<accepted, delivered, displaced, discarded, cancelled, failed>>
vars == <<usage, queue, call, result, sent, history>>

-----------------------------------------------------------------------------
Threads == Senders \cup Receivers

Idle == [op |-> "idle"]

NextMessages(p, n) == [i \in 1..n |-> <<p, sent[p] + i>>]

Blocks(type) == type \in {"BlockUntilDone", "BlockUntilSent"}

\* What notify_one(), called n times, may leave of a wait set.
Notified(waiting, n) ==
  LET woken == IF n < Cardinality(waiting) THEN n ELSE Cardinality(waiting)
  IN  {waiting \ w : w \in {x \in SUBSET waiting : Cardinality(x) = woken}}

WokenSenders == {p \in Senders : call[p].op = "send" /\ p \notin producer_wait}
WokenReceivers == {c \in Receivers : call[c].op = "read" /\ c \notin consumer_wait}

Returns(t, r) == /\ call' = [call EXCEPT ![t] = Idle]
                 /\ result' = [result EXCEPT ![t] = r]

Init == /\ usage \in Usages
        /\ buffer = <<>> /\ closed = FALSE /\ first_message_is_stale = FALSE
        /\ producer_wait = {} /\ consumer_wait = {}
        /\ call = [t \in Threads |-> Idle]
        /\ result = [t \in Threads |-> "None"]
        /\ sent = [p \in Senders |-> 0]
        /\ accepted = <<>> /\ delivered = <<>> /\ displaced = {}
        /\ discarded = {} /\ cancelled = {} /\ failed = FALSE

-----------------------------------------------------------------------------
(* send() and sendMessagesAtomically(): kind is "one" or "batch".          *)

HasRoom(s) == usage.limit = 0 \/ usage.limit - Len(buffer) >= Len(s)

\* Mutant: a batch wakes one reader only.
EnqueueNotifiesOne(p, kind, kept, s, r) ==
  /\ buffer' = kept \o s
  /\ accepted' = accepted \o s
  /\ consumer_wait' \in Notified(consumer_wait, 1)
  /\ Returns(p, r)
  /\ UNCHANGED <<closed, first_message_is_stale, producer_wait>>

\* push_back, then notify_one for a message and notify_all for a batch.
Enqueue(p, kind, kept, s, r) ==
  /\ buffer' = kept \o s
  /\ accepted' = accepted \o s
  /\ consumer_wait' \in IF kind = "one" THEN Notified(consumer_wait, 1) ELSE {{}}
  /\ Returns(p, r)
  /\ UNCHANGED <<closed, first_message_is_stale, producer_wait>>

SendAnswered(p, r) == /\ Returns(p, r)
                      /\ UNCHANGED <<queue, accepted, displaced>>

SendFits(p, kind, type, s) ==
  /\ usage.limit = 0 \/ type # "BlockUntilDone"
  /\ HasRoom(s)
  /\ Enqueue(p, kind, buffer, s, "Success")
  /\ UNCHANGED displaced

\* QueueForceSend makes room by dropping the oldest messages.
SendForced(p, kind, s) ==
  LET excess == Len(s) - (usage.limit - Len(buffer))
  IN  /\ ~HasRoom(s)
      /\ Enqueue(p, kind, SubSeq(buffer, excess + 1, Len(buffer)), s,
                 "SuccessLostData")
      /\ displaced' = displaced \cup Range(SubSeq(buffer, 1, excess))

SendBlocked(p, kind, s) ==
  /\ ~HasRoom(s)
  /\ call' = [call EXCEPT ![p] = [op |-> "send", kind |-> kind, items |-> s]]
  /\ producer_wait' = producer_wait \cup {p}
  /\ UNCHANGED <<buffer, closed, first_message_is_stale, consumer_wait, result,
                 accepted, displaced>>

Impossible(kind, s) == kind = "batch" /\ usage.limit # 0 /\ usage.limit < Len(s)

\* The public call: the closed flag is looked at once, before any wait.
Send(p, kind, type, n) ==
  LET s == NextMessages(p, n)
  IN  /\ call[p] = Idle
      /\ kind = "one" => n = 1
      /\ sent[p] + n <= MaxSent
      /\ \/ closed /\ SendAnswered(p, "Failed")
         \/ ~closed /\ Impossible(kind, s) /\ SendAnswered(p, "AtomicImpossible")
         \/ /\ ~closed /\ ~Impossible(kind, s)
            /\ \/ SendFits(p, kind, type, s)
               \/ /\ type = "BlockUntilDone" /\ usage.limit # 0
                  /\ SendAnswered(p, "Unsupported")
               \/ type = "BlockUntilSent" /\ SendBlocked(p, kind, s)
               \/ /\ type = "Immediate" /\ ~HasRoom(s)
                  /\ SendAnswered(p, "TryAgain")
               \/ type = "ForceSend" /\ SendForced(p, kind, s)
      /\ sent' = [sent EXCEPT ![p] = @ + n]
      /\ UNCHANGED <<delivered, discarded, cancelled, failed>>

\* A woken sender only looks at the room left, not at the closed flag.
ResumeSend(p) ==
  /\ call[p].op = "send" /\ p \notin producer_wait
  /\ \/ SendFits(p, call[p].kind, "BlockUntilSent", call[p].items)
     \/ SendBlocked(p, call[p].kind, call[p].items)
  /\ UNCHANGED <<sent, delivered, discarded, cancelled, failed>>

-----------------------------------------------------------------------------
(* read(): readMessageImpl() runs once more, to discard a stale message.   *)
(* rest is what the discarding call, if any, leaves; it took n messages.   *)

\* Mutant: a producer is woken only when the queue was full.
ReadNotifiesIfFull(c, rest, n, consume) ==
  /\ rest # <<>>
  /\ buffer' = IF consume = "AndRemove" THEN Tail(rest) ELSE rest
  /\ delivered' = Append(delivered, Head(rest))
  /\ producer_wait' \in Notified(producer_wait, IF Len(buffer) = usage.limit THEN 1 ELSE 0)
  /\ first_message_is_stale' = (consume = "WithoutRemoving")
  /\ Returns(c, "Success")
  /\ UNCHANGED <<consumer_wait, failed>>

\* Each message taken, read or discarded, notifies one producer.
ReadDelivers(c, rest, n, consume) ==
  /\ rest # <<>>
  /\ buffer' = IF consume = "AndRemove" THEN Tail(rest) ELSE rest
  /\ delivered' = Append(delivered, Head(rest))
  /\ producer_wait' \in Notified(producer_wait, n + 1)
  /\ first_message_is_stale' = (consume = "WithoutRemoving")
  /\ Returns(c, "Success")
  /\ UNCHANGED <<consumer_wait, failed>>

\* The flag keeps its value while the reader waits.
ReadWaits(c, rest, n, pending) ==
  /\ rest = <<>> /\ Blocks(pending.type) /\ ~closed
  /\ buffer' = rest
  /\ producer_wait' \in Notified(producer_wait, n)
  /\ consumer_wait' = consumer_wait \cup {c}
  /\ call' = [call EXCEPT ![c] = pending]
  /\ UNCHANGED <<delivered, first_message_is_stale, result, failed>>

\* Mutant: the closed flag is looked at before the messages that are left.
ReadFailsEarly(c, rest, n, type) ==
  /\ IF Blocks(type) THEN closed ELSE rest = <<>>
  /\ buffer' = rest
  /\ producer_wait' \in Notified(producer_wait, n)
  /\ first_message_is_stale' = FALSE
  /\ Returns(c, IF Blocks(type) THEN "Failed" ELSE "TryAgain")
  /\ failed' = (failed \/ Blocks(type))
  /\ UNCHANGED <<consumer_wait, delivered>>

\* Only the blocking types look at the closed flag.
ReadFails(c, rest, n, type) ==
  /\ rest = <<>> /\ (Blocks(type) => closed)
  /\ buffer' = rest
  /\ producer_wait' \in Notified(producer_wait, n)
  /\ first_message_is_stale' = FALSE
  /\ Returns(c, IF Blocks(type) THEN "Failed" ELSE "TryAgain")
  /\ failed' = (failed \/ Blocks(type))
  /\ UNCHANGED <<consumer_wait, delivered>>

\* One pass from taking the mutex to giving it up, in phase "discard" or
\* "fetch" of the call.
ReadPass(c, phase, type, consume) ==
  LET discarding == phase = "discard" /\ buffer # <<>>
      rest == IF discarding THEN Tail(buffer) ELSE buffer
      n == IF discarding THEN 1 ELSE 0
      pending == [op |-> "read", type |-> type, consume |-> consume,
                  phase |-> IF discarding THEN "fetch" ELSE phase]
  IN  /\ discarded' = discarded \cup (IF discarding THEN {Head(buffer)} ELSE {})
      /\ \/ ReadDelivers(c, rest, n, consume)
         \/ ReadWaits(c, rest, n, pending)
         \/ ReadFails(c, rest, n, type)
      /\ UNCHANGED <<closed, sent, accepted, displaced, cancelled>>

\* Mutant: a message read before is not discarded.
ReadStale(c, type, consume) ==
  /\ call[c] = Idle
  /\ ReadPass(c, "fetch", type, consume)

Read(c, type, consume) ==
  /\ call[c] = Idle
  /\ ReadPass(c, IF first_message_is_stale THEN "discard" ELSE "fetch",
              type, consume)

ResumeRead(c) ==
  /\ call[c].op = "read" /\ c \notin consumer_wait
  /\ ReadPass(c, call[c].phase, call[c].type, call[c].consume)

-----------------------------------------------------------------------------
\* close(): only waiting readers are notified.
Close(cancel) ==
  /\ ~closed
  /\ closed' = TRUE
  /\ buffer' = IF cancel THEN <<>> ELSE buffer
  /\ cancelled' = IF cancel THEN cancelled \cup Range(buffer) ELSE cancelled
  /\ consumer_wait' = {}
  /\ UNCHANGED <<usage, first_message_is_stale, producer_wait, call, result,
                 sent, accepted, delivered, displaced, discarded, failed>>

SenderStep(p) ==
  /\ \/ \E kind \in {"one", "batch"}, type \in usage.sends, n \in 1..usage.batch :
          Send(p, kind, type, n)
     \/ ResumeSend(p)
  /\ UNCHANGED usage

ReceiverStep(c) ==
  /\ \/ \E type \in usage.reads, consume \in usage.consumes : Read(c, type, consume)
     \/ ResumeRead(c)
  /\ UNCHANGED usage

Next == \/ \E p \in Senders : SenderStep(p)
        \/ \E c \in usage.readers : ReceiverStep(c)
        \/ \E cancel \in usage.closes : Close(cancel)

Spec == Init /\ [][Next]_vars

\* Threads are scheduled, and their owners go on sending and reading.
Fairness == /\ \A p \in Senders : WF_vars(ResumeSend(p) /\ UNCHANGED usage)
            /\ \A c \in Receivers : WF_vars(c \in usage.readers /\ ReceiverStep(c))

FairSpec == Spec /\ Fairness

-----------------------------------------------------------------------------
(* Properties.                                                             *)

Message == Senders \X (1..MaxSent)

Call == {Idle}
        \cup [op : {"send"}, kind : {"one", "batch"}, items : Seq(Message)]
        \cup [op : {"read"}, type : usage.reads, consume : usage.consumes,
              phase : {"discard", "fetch"}]

Result == {"None", "Success", "SuccessLostData", "Unsupported", "Failed",
           "TryAgain", "AtomicImpossible"}

\* Type correctness; a bounded deque never exceeds its limit, and only a
\* thread blocked in a send (a read) waits on producer_wait (consumer_wait).
TypeOK ==
  /\ usage \in Usages
  /\ buffer \in Seq(Message)
  /\ usage.limit # 0 => Len(buffer) <= usage.limit
  /\ closed \in BOOLEAN /\ first_message_is_stale \in BOOLEAN
  /\ call \in [Threads -> Call]
  /\ producer_wait \subseteq {p \in Senders : call[p].op = "send"}
  /\ consumer_wait \subseteq {c \in Receivers : call[c].op = "read"}
  /\ result \in [Threads -> Result]
  /\ sent \in [Senders -> 0..MaxSent]
  /\ accepted \in Seq(Message) /\ delivered \in Seq(Message)
  /\ displaced \subseteq Message /\ discarded \subseteq Message
  /\ cancelled \subseteq Message /\ failed \in BOOLEAN

\* The one stale message belongs to one reader, or messages never get stale.
OneStaleReader == \/ usage.consumes = {"AndRemove"}
                  \/ Cardinality(usage.readers) = 1

\* No message reaches two readers, or one reader twice, although a message
\* read with ReadWithoutRemoving stays at the front of the deque.
DeliveredOnce == OneStaleReader => IsInjective(delivered)

\* Messages are read in the order in which they were enqueued, whatever is
\* displaced, discarded or cancelled in between.
DeliveredInOrder ==
  OneStaleReader =>
    \A i, j \in DOMAIN accepted, k, l \in DOMAIN delivered :
      (accepted[i] = delivered[k] /\ accepted[j] = delivered[l] /\ k < l) => i <= j

Lost == Range(accepted) \ (Range(delivered) \cup Range(buffer) \cup cancelled)

\* close(true) empties the queue and leaves the flag that its first message is
\* stale: a blocked sender that was woken before sends its message into the
\* closed queue, and the next read() discards it.
StaleFlagHasItsMessage == \/ usage.consumes = {"AndRemove"}
                          \/ TRUE \notin usage.closes
                          \/ "BlockUntilSent" \notin usage.sends

\* A message whose send succeeded vanishes unread only if some ForceSend has
\* said so: MessageSuccessLostData may be reported more often than data was
\* lost, never less often (the comments on MessageError and MessageReadType),
\* where a single reader leaves messages in the queue.  (With two of them one
\* discards a message the other left, and one nobody has read.)
LossIsReportedToOneReader ==
  OneStaleReader /\ StaleFlagHasItsMessage => Cardinality(Lost) <= Cardinality(displaced)

\* A sender that sleeps although the buffer is empty has a woken sender ahead
\* of it, even though a read notifies one producer only and may have picked a
\* batch that still does not fit.  (close(true) empties it without a word.)
SendersNotStranded ==
  (TRUE \notin usage.closes /\ producer_wait # {} /\ buffer = <<>>)
    => WokenSenders # {}

\* Single messages: every free place has a woken sender on the way while
\* others sleep (one notify_one per message taken is enough).
EveryPlaceHasASender ==
  (TRUE \notin usage.closes /\ usage.batch = 1 /\ producer_wait # {})
    => usage.limit - Len(buffer) <= Cardinality(WokenSenders)

\* While a reader sleeps the queue is open, and every message waiting has a
\* woken reader on the way (send() notifies one, the others notify all).  (A
\* reader that leaves a message in the queue does not wake another one for it.)
EveryMessageHasAReader ==
  (OneStaleReader /\ consumer_wait # {})
    => /\ ~closed
       /\ Len(buffer) <= Cardinality(WokenReceivers)

\* MessageFailed is final for a reader: once it was reported, "no message will
\* ever be available on the requested queue", where no sender can be blocked
\* when the queue is closed.  (A blocked one pushes its message afterwards.)
FailedIsFinalUnblocked == "BlockUntilSent" \notin usage.sends /\ failed => buffer = <<>>

\* A blocked send returns, with QueueBlockUntilSent, as long as there are
\* receivers that go on reading.
BlockedSendsReturn ==
  \A p \in Senders : call[p].op = "send" ~> call[p] = Idle

\* It does where nobody cancels what is queued.
UncancelledSendsReturn ==
  \A p \in Senders :
    (TRUE \notin usage.closes /\ call[p].op = "send") ~> call[p] = Idle

\* close() releases every reader that is or will be blocked.
CloseReleasesReaders ==
  \A c \in Receivers : (closed /\ call[c].op = "read") ~> call[c] = Idle

\* Every message has one fate: read once, in its turn, or told to be lost.
MessagesAccountedFor == DeliveredOnce /\ DeliveredInOrder /\ LossIsReportedToOneReader

\* Whoever is in a wait set has to be, or somebody comes for it (notify_one and
\* notify_all of every member function).
NobodyOversleeps ==
  TypeOK /\ SendersNotStranded /\ EveryPlaceHasASender /\ EveryMessageHasAReader

\* Blocked calls return, those of senders and of readers.
BlockedCallsReturn == UncancelledSendsReturn /\ CloseReleasesReaders

=============================================================================
