-------------------------- MODULE ThreadsafeBuffer --------------------------
(***************************************************************************)
(* io_threadsafe_buffer<T> (io/buffer.h) and the two guards that register  *)
(* its threads.  Every member function holds the mutex from its first to   *)
(* its last statement and gives it up only inside condition_variable::wait,*)
(* so that a call is one step, or one step for every time it is woken.     *)
(***************************************************************************)
EXTENDS CircularBuffer, FiniteSets, Functions

CONSTANTS Producers, Consumers, \* the threads holding each kind of guard
          Limit,         \* the buffer_limit given to the constructor
          MaxSent,       \* bound: elements one producer offers
          MaxBatch,      \* bound: elements written in one call
          Usages         \* the ways the threads may use the buffer, see Usage

\* reads: the read functions used, limits: those given to set_max_size(),
\* clears: whether clear() is called, early: whether every guard exists before
\* a thread makes its first call.
Usage == [reads : SUBSET {"one", "upto", "all", "swap"}, limits : SUBSET Nat,
          clears : BOOLEAN, early : BOOLEAN]

ASSUME ThreadAssumption ==
  /\ Producers \cap Consumers = {}
  /\ IsFiniteSet(Producers) /\ IsFiniteSet(Consumers)
  /\ Limit \in Nat /\ MaxSent \in Nat /\ MaxBatch \in Nat \ {0}
  /\ Usages \subseteq Usage
  /\ Moved \notin Producers \X Nat

VARIABLES
  usage,          \* how this program's threads use the buffer, chosen once
  buf,            \* the io_buffer<T> base object
  call,           \* the call a thread is blocked in, or Idle
  producer_wait,  \* threads waiting on this condition variable
  consumer_wait,  \* threads waiting on this condition variable
  producer_count, consumer_count,
  producer_registered, consumer_registered,
  guard,          \* each thread's guard object: "none", "open" or "closed"
  sent,           \* how many elements each producer has offered
  accepted,       \* history: the elements the buffer accepted, in order
  gone,           \* history: the elements read or cleared, in order
  ended           \* history: consumers whose waiting read came back empty

registration == <<producer_count, consumer_count,
                  producer_registered, consumer_registered, guard>>

vars == <<usage, buf, call, producer_wait, consumer_wait, registration,
          sent, accepted, gone, ended>>

-----------------------------------------------------------------------------
Threads == Producers \cup Consumers

Idle == [op |-> "idle", kind |-> "none", items |-> <<>>]

\* An element is identified by its producer and its number.
Element(p, n) == <<p, n>>

NextItems(p, n) == [i \in 1..n |-> Element(p, sent[p] + i)]

\* Mutant: a producer that is still to register does not count.
producers_counted == producer_count > 0

consumers_available == consumer_count > 0 \/ ~consumer_registered
producers_available == producer_count > 0 \/ ~producer_registered

\* A woken thread is out of the wait set but has not run yet.
WokenConsumers == {c \in Consumers : call[c].op = "read" /\ c \notin consumer_wait}

\* Calls begin once every guard exists, in a program that sees to it.
MayStart == usage.early => \A t \in Threads : guard[t] # "none"

NotifyOneConsumer ==
  IF consumer_wait = {} THEN consumer_wait' = {}
  ELSE \E c \in consumer_wait : consumer_wait' = consumer_wait \ {c}

Init == /\ usage \in Usages
        /\ buf = EmptyBuffer(Limit)
        /\ call = [t \in Threads |-> Idle]
        /\ producer_wait = {} /\ consumer_wait = {}
        /\ producer_count = 0 /\ consumer_count = 0
        /\ producer_registered = FALSE /\ consumer_registered = FALSE
        /\ guard = [t \in Threads |-> "none"]
        /\ sent = [p \in Producers |-> 0]
        /\ accepted = <<>> /\ gone = <<>> /\ ended = {}

-----------------------------------------------------------------------------
(* The guards: the constructor registers, close() or the destructor        *)
(* unregisters once.                                                       *)

RegisterProducer(p) ==
  /\ guard[p] = "none"
  /\ guard' = [guard EXCEPT ![p] = "open"]
  /\ producer_registered' = TRUE
  /\ producer_count' = producer_count + 1
  /\ UNCHANGED <<buf, call, producer_wait, consumer_wait, consumer_count,
                 consumer_registered, sent, accepted, gone, ended>>

RegisterConsumer(c) ==
  /\ guard[c] = "none"
  /\ guard' = [guard EXCEPT ![c] = "open"]
  /\ consumer_registered' = TRUE
  /\ consumer_count' = consumer_count + 1
  /\ UNCHANGED <<buf, call, producer_wait, consumer_wait, producer_count,
                 producer_registered, sent, accepted, gone, ended>>

\* Mutant: the guard may be closed again, and unregisters again.
UnregisterAgain(p) ==
  /\ MayStart /\ guard[p] = "open" /\ call[p] = Idle
  /\ producer_count' = IF producer_count > 0 THEN producer_count - 1 ELSE 0
  /\ consumer_wait' = IF producer_count = 1 THEN {} ELSE consumer_wait
  /\ UNCHANGED <<guard, buf, call, producer_wait, consumer_count,
                 consumer_registered, producer_registered, sent, accepted,
                 gone, ended>>

\* The last producer to hang up wakes every waiting consumer.
UnregisterProducer(p) ==
  /\ MayStart /\ guard[p] = "open" /\ call[p] = Idle
  /\ guard' = [guard EXCEPT ![p] = "closed"]
  /\ producer_count' = IF producer_count > 0 THEN producer_count - 1 ELSE 0
  /\ consumer_wait' = IF producer_count = 1 THEN {} ELSE consumer_wait
  /\ UNCHANGED <<buf, call, producer_wait, consumer_count, consumer_registered,
                 producer_registered, sent, accepted, gone, ended>>

\* Mutant: no waiting producer is told.
UnregisterSilently(c) ==
  /\ MayStart /\ guard[c] = "open" /\ call[c] = Idle
  /\ guard' = [guard EXCEPT ![c] = "closed"]
  /\ consumer_count' = IF consumer_count > 0 THEN consumer_count - 1 ELSE 0
  /\ UNCHANGED <<producer_wait, buf, call, consumer_wait, producer_count,
                 consumer_registered, producer_registered, sent, accepted,
                 gone, ended>>

\* The last consumer to hang up wakes every waiting producer.
UnregisterConsumer(c) ==
  /\ MayStart /\ guard[c] = "open" /\ call[c] = Idle
  /\ guard' = [guard EXCEPT ![c] = "closed"]
  /\ consumer_count' = IF consumer_count > 0 THEN consumer_count - 1 ELSE 0
  /\ producer_wait' = IF consumer_count = 1 THEN {} ELSE producer_wait
  /\ UNCHANGED <<buf, call, consumer_wait, producer_count, consumer_registered,
                 producer_registered, sent, accepted, gone, ended>>

-----------------------------------------------------------------------------
(* write(v), write_from(c) and write(begin, end).                          *)

\* A batch that can never fit is given up; a single element never is.
Hopeless(kind, s) == kind = "batch" /\ MaxSize(buf) < Len(s)

\* Mutant: a batch wakes one consumer only.
WriteNotifiesOne(p, kind, s) ==
  /\ Accepts(buf, s)
  /\ buf' = Written(buf, s)
  /\ accepted' = accepted \o s
  /\ call' = [call EXCEPT ![p] = Idle]
  /\ NotifyOneConsumer
  /\ UNCHANGED producer_wait

\* One pass of the loop of a write by p, from the moment it has the mutex.
WriteAccepted(p, kind, s) ==
  /\ Accepts(buf, s)
  /\ buf' = Written(buf, s)
  /\ accepted' = accepted \o s
  /\ call' = [call EXCEPT ![p] = Idle]
  /\ IF kind = "single" THEN NotifyOneConsumer ELSE consumer_wait' = {}
  /\ UNCHANGED producer_wait

WriteGivenUp(p, kind, s) ==
  /\ ~Accepts(buf, s)
  /\ ~consumers_available \/ Hopeless(kind, s)
  /\ call' = [call EXCEPT ![p] = Idle]
  /\ UNCHANGED <<buf, accepted, producer_wait, consumer_wait>>

WriteBlocked(p, kind, s) ==
  /\ ~Accepts(buf, s)
  /\ consumers_available /\ ~Hopeless(kind, s)
  /\ call' = [call EXCEPT ![p] = [op |-> "write", kind |-> kind, items |-> s]]
  /\ producer_wait' = producer_wait \cup {p}
  /\ UNCHANGED <<buf, accepted, consumer_wait>>

\* Without wait the loop ends at once, and the notification happens anyway.
WriteRefused(kind, s) ==
  /\ ~Accepts(buf, s)
  /\ IF kind = "single" THEN NotifyOneConsumer ELSE consumer_wait' = {}
  /\ UNCHANGED <<buf, accepted, call, producer_wait>>

WritePass(p, kind, s) == \/ WriteAccepted(p, kind, s)
                         \/ WriteGivenUp(p, kind, s)
                         \/ WriteBlocked(p, kind, s)

Write(p, kind, n, wait) ==
  /\ MayStart /\ guard[p] = "open" /\ call[p] = Idle
  /\ kind = "single" => n = 1
  /\ sent[p] + n <= MaxSent
  /\ \/ WriteAccepted(p, kind, NextItems(p, n))
     \/ wait /\ WriteGivenUp(p, kind, NextItems(p, n))
     \/ wait /\ WriteBlocked(p, kind, NextItems(p, n))
     \/ ~wait /\ WriteRefused(kind, NextItems(p, n))
  /\ sent' = [sent EXCEPT ![p] = @ + n]
  /\ UNCHANGED <<registration, gone, ended>>

\* A notified producer gets the mutex back and goes round its loop.
ResumeWrite(p) ==
  /\ call[p].op = "write" /\ p \notin producer_wait
  /\ WritePass(p, call[p].kind, call[p].items)
  /\ UNCHANGED <<registration, sent, gone, ended>>

-----------------------------------------------------------------------------
(* The read functions.                                                     *)

\* What the read functions leave behind in the buffer.
AfterRead(kind) ==
  CASE kind = "one"  -> TakenOne(buf)
    [] kind = "upto" -> LET n == IF MaxBatch < buf.size THEN MaxBatch ELSE buf.size
                        IN  Consumed(buf, n, n)
    [] kind = "all"  -> Consumed(buf, buf.size, buf.size)
    [] kind = "swap" -> Swapped(buf)

ReadDone(c, kind) ==
  /\ buf' \in AfterRead(kind)
  /\ gone' = gone \o SubSeq(Contents(buf), 1, buf.size - buf'.size)
  /\ producer_wait' = {}
  /\ call' = [call EXCEPT ![c] = Idle]
  /\ UNCHANGED <<consumer_wait, accepted>>

ReadBlocked(c, kind) ==
  /\ call' = [call EXCEPT ![c] = [op |-> "read", kind |-> kind, items |-> <<>>]]
  /\ consumer_wait' = consumer_wait \cup {c}
  /\ UNCHANGED <<buf, accepted, gone, producer_wait, ended>>

\* Mutant: once the producers are gone, the data they left is not looked at.
ReadGivesUp(c, kind) ==
  \/ /\ buf.size = 0 /\ producers_available
     /\ ReadBlocked(c, kind)
  \/ /\ buf.size > 0 /\ producers_available
     /\ ReadDone(c, kind)
     /\ UNCHANGED ended
  \/ /\ ~producers_available
     /\ call' = [call EXCEPT ![c] = Idle]
     /\ ended' = ended \cup {c}
     /\ UNCHANGED <<buf, accepted, gone, producer_wait, consumer_wait>>

\* One pass of a waiting read: it waits only for data that may still come.
ReadPass(c, kind) ==
  \/ /\ buf.size = 0 /\ producers_available
     /\ ReadBlocked(c, kind)
  \/ /\ buf.size > 0 \/ ~producers_available
     /\ ReadDone(c, kind)
     /\ ended' = IF buf.size = 0 THEN ended \cup {c} ELSE ended

Read(c, kind, wait) ==
  /\ MayStart /\ guard[c] = "open" /\ call[c] = Idle
  /\ \/ wait /\ ReadPass(c, kind)
     \/ ~wait /\ ReadDone(c, kind) /\ UNCHANGED ended
  /\ UNCHANGED <<registration, sent>>

ResumeRead(c) ==
  /\ call[c].op = "read" /\ c \notin consumer_wait
  /\ ReadPass(c, call[c].kind)
  /\ UNCHANGED <<registration, sent>>

-----------------------------------------------------------------------------
(* clear() and set_max_size(), which any thread may call.                  *)

Clear ==
  /\ usage.clears
  /\ buf' \in Cleared(buf)
  /\ gone' = gone \o Contents(buf)
  /\ producer_wait' = {}
  /\ UNCHANGED <<usage, call, consumer_wait, registration, sent, accepted,
                 ended>>

\* No thread is notified, whether the limit rises or falls.
SetMaxSize(l) ==
  /\ buf' = [buf EXCEPT !.limit = l]
  /\ UNCHANGED <<usage, call, producer_wait, consumer_wait, registration, sent,
                 accepted, gone, ended>>

-----------------------------------------------------------------------------
\* Every thread has hung up, so that nothing is left to happen.
Finished == /\ \A t \in Threads : guard[t] = "closed"
            /\ UNCHANGED vars

ProducerStep(p) ==
  /\ \/ RegisterProducer(p)
     \/ UnregisterProducer(p)
     \/ \E kind \in {"single", "batch"}, n \in 1..MaxBatch, wait \in BOOLEAN :
          Write(p, kind, n, wait)
     \/ ResumeWrite(p)
  /\ UNCHANGED usage

ConsumerStep(c) ==
  /\ \/ RegisterConsumer(c)
     \/ UnregisterConsumer(c)
     \/ \E kind \in usage.reads, wait \in BOOLEAN : Read(c, kind, wait)
     \/ ResumeRead(c)
  /\ UNCHANGED usage

Next == \/ \E p \in Producers : ProducerStep(p)
        \/ \E c \in Consumers : ConsumerStep(c)
        \/ Clear
        \/ \E l \in usage.limits : SetMaxSize(l)
        \/ Finished

Spec == Init /\ [][Next]_vars

\* Threads are scheduled, and their owners go on calling or hang up.
Fairness == /\ \A p \in Producers : WF_vars(ProducerStep(p))
            /\ \A c \in Consumers : WF_vars(ConsumerStep(c))

FairSpec == Spec /\ Fairness

-----------------------------------------------------------------------------
(* Properties.                                                             *)

Elem == Producers \X (1..MaxSent)

Call == [op : {"idle"}, kind : {"none"}, items : {<<>>}]
        \cup [op : {"read"}, kind : usage.reads, items : {<<>>}]
        \cup [op : {"write"}, kind : {"single", "batch"}, items : Seq(Elem)]

\* Type correctness and the buffer's geometry; only a thread blocked in a
\* write (a read) is in the wait set of the producers (the consumers).
TypeOK ==
  /\ usage \in Usages
  /\ buf \in Buffers(Elem \cup {Moved}, {Limit} \cup usage.limits)
  /\ Geometry(buf) /\ ~buf.closed
  /\ call \in [Threads -> Call]
  /\ producer_wait \subseteq {p \in Producers : call[p].op = "write"}
  /\ consumer_wait \subseteq {c \in Consumers : call[c].op = "read"}
  /\ producer_count \in Nat /\ consumer_count \in Nat
  /\ producer_registered \in BOOLEAN /\ consumer_registered \in BOOLEAN
  /\ guard \in [Threads -> {"none", "open", "closed"}]
  /\ sent \in [Producers -> 0..MaxSent]
  /\ accepted \in Seq(Elem) /\ gone \in Seq(Elem)
  /\ ended \subseteq Consumers

\* No lost wakeup of a producer: one that still sleeps on producer_wait would
\* go back to sleep if it were woken.  (Every read notifies all producers, and
\* so does the last consumer to hang up; holds while the limit is fixed.)
SleepingProducersMustWait ==
  \A p \in producer_wait : usage.limits = {} =>
    LET s == call[p].items
    IN  /\ ~Accepts(buf, s)
        /\ consumers_available
        /\ ~Hopeless(call[p].kind, s)

\* No lost wakeup of a consumer: if one sleeps on consumer_wait then more may
\* come, and each element waiting in the buffer has a woken consumer of its
\* own on the way, although a single write notifies only one.
SleepingConsumersMustWait ==
  consumer_wait # {} => /\ producers_available
                        /\ buf.size <= Cardinality(WokenConsumers)

\* The counts are those of the guards that are open: no guard is counted
\* twice or forgotten (the guards' close() may be called more than once).
CountsMatchGuards ==
  /\ producer_count = Cardinality({p \in Producers : guard[p] = "open"})
  /\ consumer_count = Cardinality({c \in Consumers : guard[c] = "open"})

\* Across all threads, what was accepted is either waiting or gone, once.
NothingLostOrDuplicated ==
  /\ Range(accepted) = Range(gone) \cup Range(Contents(buf))
  /\ Len(accepted) = Len(gone) + buf.size
  /\ Cardinality(Range(accepted)) = Len(accepted)

\* With consumers that take everything, elements leave in the order in which
\* the producers' writes were accepted.
FirstInFirstOut ==
  usage.reads \subseteq {"all", "swap"} => accepted = gone \o Contents(buf)

at_end == buf.size = 0 /\ ~producers_available

\* at_end() is final ("no more data will be able to be read from this buffer")
\* when every guard exists before a thread makes its first call; a guard that is
\* constructed later opens the buffer again.
AtEndIsFinalOnceRegistered == [][usage.early /\ at_end => at_end']_vars

\* A waiting consumer told that the stream ended has missed nothing: all that
\* was ever accepted, or will be, has been read (or cleared) by then, if every
\* guard exists before a thread makes its first call.
EndOfStreamIsComplete == usage.early /\ ended # {} => Range(accepted) = Range(gone)

\* A call that blocks returns: the reader's when data comes or the last
\* producer hangs up, the writer's when there is room or the last consumer
\* hangs up.
BlockedCallsReturn == \A t \in Threads : call[t] # Idle ~> call[t] = Idle

\* The vector, the wait sets and the counts fit together at every moment a
\* thread does not hold the mutex.
Consistent == TypeOK /\ CountsMatchGuards

\* No wakeup is lost, of a producer or of a consumer.
NoLostWakeup == SleepingProducersMustWait /\ SleepingConsumersMustWait

\* What the threads accept among them is handed out once, and in order.
HandedOutOnceInOrder == NothingLostOrDuplicated /\ FirstInFirstOut

=============================================================================
