------------------------ MODULE MessageBufferProofs ------------------------
(***************************************************************************)
(* MessageBufferInterface for any number of threads, any limit and every   *)
(* way to use it: whoever sleeps has to, and a reported failure is final.  *)
(***************************************************************************)
EXTENDS MessageBuffer, FiniteSetTheorems, SequenceTheorems, TLAPS

-----------------------------------------------------------------------------
(* Sets of threads.                                                        *)

\* notify_one(), called n times, wakes n threads or all there are.
LEMMA NotifiedThreads ==
  ASSUME NEW W, IsFiniteSet(W), NEW n \in Nat, NEW V \in Notified(W, n)
  PROVE  /\ V \subseteq W
         /\ n = 0 => V = W
         /\ V # {} => Cardinality(W \ V) = n
<1>1. PICK x \in SUBSET W :
        /\ Cardinality(x) = IF n < Cardinality(W) THEN n ELSE Cardinality(W)
        /\ V = W \ x
  BY DEF Notified
<1>2. /\ IsFiniteSet(x) /\ Cardinality(W) \in Nat
      /\ Cardinality(W) = Cardinality(x) => W = x
  BY FS_Subset, FS_CardinalityType
<1>3. W \ V = x
  BY <1>1
<1>4. CASE n < Cardinality(W)
  <2>1. Cardinality(x) = n
    BY <1>1, <1>4
  <2>2. n = 0 => x = {}
    BY <2>1, <1>2, FS_EmptySet
  <2> QED BY <1>1, <1>3, <2>1, <2>2
<1>5. CASE ~(n < Cardinality(W))
  <2>1. W = x /\ V = {}
    BY <1>1, <1>2, <1>5
  <2>2. n = 0 => Cardinality(W) = 0
    BY <1>2, <1>5
  <2>3. n = 0 => W = {}
    BY <2>2, FS_EmptySet
  <2> QED BY <2>1, <2>3
<1> QED BY <1>4, <1>5

\* A larger set has at least as many threads; a disjoint part adds its own.
LEMMA MoreThreads ==
  ASSUME NEW B, IsFiniteSet(B), NEW A \in SUBSET B, NEW X \in SUBSET B,
         A \cap X = {}
  PROVE  /\ Cardinality(A) \in Nat /\ Cardinality(X) \in Nat /\ Cardinality(B) \in Nat
         /\ Cardinality(A) + Cardinality(X) <= Cardinality(B)
<1>1. IsFiniteSet(A) /\ IsFiniteSet(X)
  BY FS_Subset
<1>2. Cardinality(A \cup X) = Cardinality(A) + Cardinality(X) - Cardinality(A \cap X)
  BY <1>1, FS_Union
<1>3. Cardinality(A \cap X) = 0
  BY FS_EmptySet
<1>4. A \cup X \in SUBSET B
  OBVIOUS
<1>5. Cardinality(A \cup X) <= Cardinality(B)
  BY <1>4, FS_Subset
<1>6. Cardinality(A) \in Nat /\ Cardinality(X) \in Nat /\ Cardinality(B) \in Nat
  BY <1>1, FS_CardinalityType
<1> QED BY <1>2, <1>3, <1>5, <1>6

\* One thread more or less.
LEMMA OneThread ==
  ASSUME NEW B, IsFiniteSet(B), NEW x, NEW A \in SUBSET B
  PROVE  /\ Cardinality(A) \in Nat /\ Cardinality(A \ {x}) \in Nat
         /\ Cardinality(A) - 1 <= Cardinality(A \ {x})
<1>1. IsFiniteSet(A)
  BY FS_Subset
<1>2. IsFiniteSet(A \ {x}) /\ (\/ Cardinality(A \ {x}) = Cardinality(A) - 1
                             \/ Cardinality(A \ {x}) = Cardinality(A))
  BY <1>1, FS_RemoveElement
<1>3. Cardinality(A) \in Nat /\ Cardinality(A \ {x}) \in Nat
  BY <1>1, <1>2, FS_CardinalityType
<1> QED BY <1>2, <1>3

-----------------------------------------------------------------------------
(* The inductive invariant.                                                *)

\* Only sends that may block do, and what they wait to send fits in the queue
\* once it is empty.
WaitingSends ==
  \A p \in Senders : call[p].op = "send" =>
    /\ "BlockUntilSent" \in usage.sends /\ usage.limit # 0
    /\ Len(call[p].items) \in 1..usage.limit
    /\ Len(call[p].items) <= usage.batch
    /\ call[p].kind = "one" => Len(call[p].items) = 1

\* Only the program's readers read.
ReadersRead == \A c \in Receivers : call[c].op = "read" => c \in usage.readers

\* A blocking read fails on a closed queue only.
FailedWhenClosed == failed => closed

IInv == /\ TypeOK /\ WaitingSends /\ ReadersRead /\ FailedWhenClosed
        /\ SendersNotStranded /\ EveryPlaceHasASender /\ EveryMessageHasAReader
        /\ FailedIsFinalUnblocked

\* How the queue is used is chosen once.
LEMMA UsageNumbers ==
  ASSUME TypeOK
  PROVE  /\ usage.limit \in Nat /\ usage.batch \in Nat
         /\ usage.readers \subseteq Receivers
         /\ usage.sends \subseteq QueueTypes /\ usage.reads \subseteq QueueTypes
         /\ usage.consumes \subseteq {"WithoutRemoving", "AndRemove"}
  BY MessageAssumption DEF TypeOK, Usage

\* The waiting threads are finite sets of their kind.
LEMMA WaitersFinite ==
  ASSUME TypeOK
  PROVE  /\ IsFiniteSet(producer_wait) /\ IsFiniteSet(consumer_wait)
         /\ producer_wait \subseteq Senders /\ consumer_wait \subseteq Receivers
         /\ IsFiniteSet(Senders) /\ IsFiniteSet(Receivers)
<1>1. producer_wait \in SUBSET Senders /\ consumer_wait \in SUBSET Receivers
  BY DEF TypeOK
<1> QED BY <1>1, MessageAssumption, FS_Subset

-----------------------------------------------------------------------------
(* What a step of a sender does.                                           *)

\* s is pushed behind kept, which is the buffer or what ForceSend leaves of it.
Pushes(p, kind, kept, s, r) ==
  /\ Enqueue(p, kind, kept, s, r)
  /\ kept \in Seq(Message) /\ s \in Seq(Message) /\ r \in Result
  /\ kind = "one" => Len(s) = 1
  /\ Len(s) >= 1 /\ Len(s) <= usage.batch
  /\ Len(kept) <= Len(buffer)
  /\ kept = buffer \/ Len(kept) + Len(s) = usage.limit
  /\ usage.limit # 0 => Len(kept) + Len(s) <= usage.limit
  /\ ~closed \/ call[p].op = "send"
  /\ displaced' \subseteq Message

\* The thread waits, for room that an empty buffer has.
Waits(p, kind, s) ==
  /\ SendBlocked(p, kind, s)
  /\ kind \in {"one", "batch"} /\ s \in Seq(Message)
  /\ kind = "one" => Len(s) = 1
  /\ usage.limit # 0 /\ Len(s) \in 1..usage.limit /\ Len(s) <= usage.batch
  /\ "BlockUntilSent" \in usage.sends

Answers(p, r) == call[p] = Idle /\ SendAnswered(p, r) /\ r \in Result

SendEffect(p) ==
  /\ \/ \E kind, kept, s, r : Pushes(p, kind, kept, s, r)
     \/ \E kind, s : Waits(p, kind, s)
     \/ \E r : Answers(p, r)
  /\ sent' \in [Senders -> 0..MaxSent]
  /\ UNCHANGED <<usage, delivered, discarded, cancelled, failed>>
  /\ p \notin producer_wait

\* What a sender offers may be pushed or waited with.
Offered(kind, s) ==
  /\ kind \in {"one", "batch"} /\ s \in Seq(Message)
  /\ kind = "one" => Len(s) = 1
  /\ Len(s) >= 1 /\ Len(s) <= usage.batch
  /\ usage.limit # 0 => Len(s) <= usage.limit

LEMMA FittingSends ==
  ASSUME TypeOK, NEW p \in Senders, NEW kind, NEW s, NEW type, Offered(kind, s),
         SendFits(p, kind, type, s), ~closed \/ call[p].op = "send"
  PROVE  Pushes(p, kind, buffer, s, "Success")
<1>1. /\ usage.limit \in Nat /\ buffer \in Seq(Message) /\ s \in Seq(Message)
      /\ displaced' \subseteq Message
  BY UsageNumbers DEF TypeOK, Offered, SendFits
<1>2. Len(buffer) \in Nat /\ Len(s) \in Nat
  BY <1>1
<1>3. usage.limit # 0 => Len(buffer) + Len(s) <= usage.limit
  BY <1>1, <1>2 DEF SendFits, HasRoom
<1>4. "Success" \in Result
  BY DEF Result
<1>5. Enqueue(p, kind, buffer, s, "Success")
  BY DEF SendFits
<1> QED BY <1>1, <1>2, <1>3, <1>4, <1>5 DEF Pushes, Offered

LEMMA ForcedSends ==
  ASSUME TypeOK, NEW p \in Senders, NEW kind, NEW s, Offered(kind, s),
         SendForced(p, kind, s), ~closed
  PROVE  \E kept : Pushes(p, kind, kept, s, "SuccessLostData")
<1> DEFINE excess == Len(s) - (usage.limit - Len(buffer))
           kept == SubSeq(buffer, excess + 1, Len(buffer))
           dropped == SubSeq(buffer, 1, excess)
<1>1. /\ usage.limit \in Nat /\ buffer \in Seq(Message) /\ s \in Seq(Message)
      /\ displaced \subseteq Message /\ usage.limit # 0
  BY UsageNumbers DEF TypeOK, Offered, SendForced, HasRoom
<1>2. Len(buffer) \in Nat /\ Len(s) \in Nat /\ Len(s) <= usage.limit
  BY <1>1 DEF Offered
<1>3. excess \in 1..Len(buffer)
  <2>1. ~(usage.limit - Len(buffer) >= Len(s))
    BY DEF SendForced, HasRoom
  <2> QED BY <1>1, <1>2, <2>1
<1>4. kept \in Seq(Message) /\ Len(kept) = Len(buffer) - excess
  BY <1>1, <1>2, <1>3, SubSeqProperties, SMTT(30)
<1>6. dropped \in Seq(Message)
  BY <1>1, <1>2, <1>3, SubSeqProperties
<1>7. Enqueue(p, kind, kept, s, "SuccessLostData")
      /\ displaced' = displaced \cup Range(dropped)
  BY DEF SendForced
<1> HIDE DEF kept, dropped
<1>5. Len(kept) + Len(s) = usage.limit /\ Len(kept) <= Len(buffer)
  BY <1>1, <1>2, <1>3, <1>4
<1> HIDE DEF excess
<1>8. displaced' \subseteq Message
  BY <1>1, <1>6, <1>7 DEF Range
<1>9. "SuccessLostData" \in Result
  BY DEF Result
<1> QED BY <1>1, <1>2, <1>4, <1>5, <1>7, <1>8, <1>9 DEF Pushes, Offered

LEMMA BlockedSends ==
  ASSUME TypeOK, NEW p \in Senders, NEW kind, NEW s, Offered(kind, s),
         SendBlocked(p, kind, s), "BlockUntilSent" \in usage.sends
  PROVE  Waits(p, kind, s)
<1>1. usage.limit \in Nat /\ usage.limit # 0 /\ Len(s) \in Nat
  BY UsageNumbers DEF Offered, SendBlocked, HasRoom
<1> QED BY <1>1 DEF Waits, Offered

LEMMA NewMessages ==
  ASSUME TypeOK, NEW p \in Senders, NEW n \in 1..usage.batch, sent[p] + n <= MaxSent
  PROVE  NextMessages(p, n) \in Seq(Message) /\ Len(NextMessages(p, n)) = n
<1>1. n \in Nat /\ sent[p] \in 0..MaxSent /\ MaxSent \in Nat
  BY UsageNumbers, MessageAssumption DEF TypeOK
<1>2. NextMessages(p, n) \in [1..n -> Message]
  BY <1>1 DEF NextMessages, Message
<1> QED BY <1>1, <1>2

LEMMA SenderSteps ==
  ASSUME TypeOK, WaitingSends, NEW p \in Senders, SenderStep(p)
  PROVE  SendEffect(p)
<1>1. CASE ResumeSend(p)
  <2> DEFINE kind == call[p].kind
             s == call[p].items
  <2>1. call[p].op = "send" /\ call[p] \in Call /\ p \notin producer_wait
    BY <1>1 DEF ResumeSend, TypeOK, Threads
  <2>2. kind \in {"one", "batch"} /\ s \in Seq(Message)
    BY <2>1 DEF Call, Idle
  <2>3. Offered(kind, s) /\ "BlockUntilSent" \in usage.sends
    BY <2>1, <2>2, UsageNumbers DEF WaitingSends, Offered
  <2>4. SendFits(p, kind, "BlockUntilSent", s) \/ SendBlocked(p, kind, s)
    BY <1>1 DEF ResumeSend
  <2> HIDE DEF kind, s
  <2>5. \/ \E k, b, m, r : Pushes(p, k, b, m, r)
        \/ \E k, m : Waits(p, k, m)
    BY <2>1, <2>3, <2>4, FittingSends, BlockedSends
  <2>6. sent' \in [Senders -> 0..MaxSent]
        /\ UNCHANGED <<usage, delivered, discarded, cancelled, failed>>
    BY <1>1 DEF ResumeSend, SenderStep, TypeOK
  <2> QED BY <2>1, <2>5, <2>6 DEF SendEffect
<1>2. ASSUME NEW kind \in {"one", "batch"}, NEW type \in usage.sends,
             NEW n \in 1..usage.batch, Send(p, kind, type, n)
      PROVE  SendEffect(p)
  <2> DEFINE s == NextMessages(p, n)
  <2>1. /\ call[p] = Idle /\ p \notin producer_wait
        /\ kind = "one" => n = 1
        /\ sent[p] + n <= MaxSent
    BY <1>2 DEF Send, TypeOK, Idle
  <2>2. s \in Seq(Message) /\ Len(s) = n
    BY <2>1, NewMessages
  <2>3. n \in Nat /\ n >= 1 /\ n <= usage.batch /\ usage.limit \in Nat
    BY UsageNumbers
  <2>4. ASSUME ~Impossible(kind, s), ~HasRoom(s) \/ usage.limit = 0 \/ HasRoom(s)
        PROVE  Offered(kind, s)
    BY <2>1, <2>2, <2>3, <2>4 DEF Offered, Impossible
  <2>5. /\ sent' \in [Senders -> 0..MaxSent]
        /\ UNCHANGED <<usage, delivered, discarded, cancelled, failed>>
    <3>1. sent' = [sent EXCEPT ![p] = @ + n]
          /\ UNCHANGED <<usage, delivered, discarded, cancelled, failed>>
      BY <1>2 DEF Send, SenderStep
    <3>2. sent \in [Senders -> 0..MaxSent] /\ MaxSent \in Nat
      BY MessageAssumption DEF TypeOK
    <3> QED BY <3>1, <3>2, <2>1, <2>3
  <2>6. CASE closed /\ SendAnswered(p, "Failed")
    BY <2>1, <2>5, <2>6 DEF SendEffect, Answers, Result
  <2>7. CASE SendAnswered(p, "AtomicImpossible")
    BY <2>1, <2>5, <2>7 DEF SendEffect, Answers, Result
  <2>8. CASE SendAnswered(p, "Unsupported")
    BY <2>1, <2>5, <2>8 DEF SendEffect, Answers, Result
  <2>9. CASE SendAnswered(p, "TryAgain")
    BY <2>1, <2>5, <2>9 DEF SendEffect, Answers, Result
  <2>10. CASE ~closed /\ ~Impossible(kind, s) /\ SendFits(p, kind, type, s)
    BY <2>1, <2>4, <2>5, <2>10, FittingSends DEF SendEffect
  <2>11. CASE ~closed /\ ~Impossible(kind, s) /\ type = "BlockUntilSent"
              /\ SendBlocked(p, kind, s)
    BY <2>1, <2>4, <2>5, <2>11, BlockedSends DEF SendEffect
  <2>12. CASE ~closed /\ ~Impossible(kind, s) /\ SendForced(p, kind, s)
    BY <2>1, <2>4, <2>5, <2>12, ForcedSends DEF SendEffect
  <2> QED BY <1>2, <2>6, <2>7, <2>8, <2>9, <2>10, <2>11, <2>12 DEF Send
<1> QED BY <1>1, <1>2 DEF SenderStep

-----------------------------------------------------------------------------
(* What a step of a reader does.                                           *)

ReadCall == [op : {"read"}, type : usage.reads, consume : usage.consumes,
             phase : {"discard", "fetch"}]

\* One pass that discards n messages, of which rest is left.
ReadEffect(c, rest, n) ==
  /\ c \in usage.readers /\ c \notin consumer_wait
  /\ call[c] = Idle \/ call[c].op = "read"
  /\ n \in {0, 1} /\ rest \in Seq(Message) /\ Len(rest) = Len(buffer) - n
  /\ n = 0 => rest = buffer
  /\ \/ \E consume \in usage.consumes : ReadDelivers(c, rest, n, consume)
     \/ \E pending \in ReadCall : ReadWaits(c, rest, n, pending)
     \/ \E type \in usage.reads : ReadFails(c, rest, n, type)
  /\ discarded' \subseteq Message
  /\ UNCHANGED <<usage, closed, sent, accepted, displaced, cancelled>>

LEMMA ReadPasses ==
  ASSUME TypeOK, NEW c \in usage.readers, c \notin consumer_wait,
         call[c] = Idle \/ call[c].op = "read",
         NEW phase \in {"discard", "fetch"}, NEW type \in usage.reads,
         NEW consume \in usage.consumes,
         ReadPass(c, phase, type, consume), usage' = usage
  PROVE  \E rest, n : ReadEffect(c, rest, n)
<1> DEFINE discarding == phase = "discard" /\ buffer # <<>>
           rest == IF discarding THEN Tail(buffer) ELSE buffer
           n == IF discarding THEN 1 ELSE 0
           pending == [op |-> "read", type |-> type, consume |-> consume,
                       phase |-> IF discarding THEN "fetch" ELSE phase]
<1>1. buffer \in Seq(Message) /\ discarded \subseteq Message
  BY DEF TypeOK
<1>2. /\ n \in {0, 1} /\ rest \in Seq(Message) /\ Len(rest) = Len(buffer) - n
      /\ n = 0 => rest = buffer
  BY <1>1
<1>3. discarded' \subseteq Message
  <2>1. discarding => Head(buffer) \in Message
    BY <1>1
  <2>2. discarded' = discarded \cup (IF discarding THEN {Head(buffer)} ELSE {})
    BY DEF ReadPass
  <2> QED BY <1>1, <2>1, <2>2
<1>4. pending \in ReadCall
  BY DEF ReadCall
<1>5. /\ \/ ReadDelivers(c, rest, n, consume)
         \/ ReadWaits(c, rest, n, pending)
         \/ ReadFails(c, rest, n, type)
      /\ UNCHANGED <<closed, sent, accepted, displaced, cancelled>>
  BY DEF ReadPass
<1> HIDE DEF rest, n, pending, discarding
<1> QED BY <1>2, <1>3, <1>4, <1>5 DEF ReadEffect

LEMMA ReaderSteps ==
  ASSUME TypeOK, ReadersRead, NEW c \in usage.readers, ReceiverStep(c)
  PROVE  \E rest, n : ReadEffect(c, rest, n)
<1>1. c \in Receivers /\ c \in Threads /\ usage' = usage
  BY UsageNumbers DEF ReceiverStep, Threads
<1>2. CASE ResumeRead(c)
  <2>1. call[c].op = "read" /\ c \notin consumer_wait /\ call[c] \in Call
    BY <1>1, <1>2 DEF ResumeRead, TypeOK
  <2>2. /\ call[c].phase \in {"discard", "fetch"} /\ call[c].type \in usage.reads
        /\ call[c].consume \in usage.consumes
    BY <2>1 DEF Call, Idle
  <2>3. ReadPass(c, call[c].phase, call[c].type, call[c].consume)
    BY <1>2 DEF ResumeRead
  <2> QED BY <1>1, <2>1, <2>2, <2>3, ReadPasses
<1>3. ASSUME NEW type \in usage.reads, NEW consume \in usage.consumes,
             Read(c, type, consume)
      PROVE  \E rest, n : ReadEffect(c, rest, n)
  <2>1. call[c] = Idle /\ c \notin consumer_wait
    BY <1>3 DEF Read, TypeOK, Idle
  <2>2. PICK phase \in {"discard", "fetch"} : ReadPass(c, phase, type, consume)
    BY <1>3 DEF Read
  <2> QED BY <1>1, <2>1, <2>2, ReadPasses
<1> QED BY <1>2, <1>3 DEF ReceiverStep

-----------------------------------------------------------------------------
(* Type correctness.                                                       *)

\* The calls a thread may be blocked in.
SendCall == [op : {"send"}, kind : {"one", "batch"}, items : Seq(Message)]

\* What stays true of the threads' calls and of the wait sets.
LEMMA CallsKept ==
  ASSUME TypeOK, usage' = usage, NEW t \in Threads,
         \/ call' = [call EXCEPT ![t] = Idle]
         \/ t \in Senders /\ \E x \in SendCall : call' = [call EXCEPT ![t] = x]
         \/ t \in Receivers /\ \E x \in ReadCall : call' = [call EXCEPT ![t] = x],
         t \in Senders => producer_wait' \subseteq producer_wait \cup {t},
         t \in Receivers => producer_wait' \subseteq producer_wait,
         t \in Receivers => consumer_wait' \subseteq consumer_wait \cup {t},
         t \in Senders => consumer_wait' \subseteq consumer_wait,
         t \notin producer_wait, t \notin consumer_wait,
         t \in producer_wait' => call'[t].op = "send",
         t \in consumer_wait' => call'[t].op = "read"
  PROVE  /\ (call \in [Threads -> Call])'
         /\ (producer_wait \subseteq {p \in Senders : call[p].op = "send"})'
         /\ (consumer_wait \subseteq {c \in Receivers : call[c].op = "read"})'
         /\ \A u \in Threads : u # t => call'[u] = call[u]
<1>1. /\ call \in [Threads -> Call] /\ Senders \cap Receivers = {}
      /\ Threads = Senders \cup Receivers
      /\ producer_wait \subseteq {p \in Senders : call[p].op = "send"}
      /\ consumer_wait \subseteq {c \in Receivers : call[c].op = "read"}
  BY MessageAssumption DEF TypeOK, Threads
<1>2. PICK x : x \in Call /\ call' = [call EXCEPT ![t] = x]
  BY DEF Call, SendCall, ReadCall
<1>3. Call' = Call
  BY DEF Call
<1>4. \A u \in Threads : u # t => call'[u] = call[u]
  BY <1>1, <1>2
<1> QED BY <1>1, <1>2, <1>3, <1>4

LEMMA TypesKeptSending ==
  ASSUME TypeOK, NEW p \in Senders, SendEffect(p)
  PROVE  TypeOK' /\ \A u \in Threads : u # p => call'[u] = call[u]
<1>1. /\ p \in Threads /\ p \notin Receivers /\ p \notin producer_wait
      /\ p \notin consumer_wait /\ usage' = usage
  BY MessageAssumption DEF SendEffect, TypeOK, Threads
<1>2. CASE \E kind, kept, s, r : Pushes(p, kind, kept, s, r)
  <2>1. PICK kind, kept, s, r : Pushes(p, kind, kept, s, r)
    BY <1>2
  <2>2. consumer_wait' \subseteq consumer_wait /\ producer_wait' = producer_wait
    <3>1. kind = "one" => consumer_wait' \in Notified(consumer_wait, 1)
      BY <2>1 DEF Pushes, Enqueue
    <3>2. kind # "one" => consumer_wait' = {}
      BY <2>1 DEF Pushes, Enqueue
    <3>3. kind = "one" => consumer_wait' \subseteq consumer_wait
      BY <3>1, WaitersFinite, NotifiedThreads, ZenonT(60)
    <3>4. producer_wait' = producer_wait
      BY <2>1 DEF Pushes, Enqueue
    <3> QED BY <3>2, <3>3, <3>4
  <2>3. /\ call' = [call EXCEPT ![p] = Idle] /\ result' = [result EXCEPT ![p] = r]
        /\ buffer' = kept \o s /\ accepted' = accepted \o s
        /\ UNCHANGED <<closed, first_message_is_stale>>
        /\ displaced' \subseteq Message
    BY <2>1 DEF Pushes, Enqueue, Returns
  <2>4. /\ (call \in [Threads -> Call])'
        /\ (producer_wait \subseteq {q \in Senders : call[q].op = "send"})'
        /\ (consumer_wait \subseteq {c \in Receivers : call[c].op = "read"})'
        /\ \A u \in Threads : u # p => call'[u] = call[u]
    BY <1>1, <2>2, <2>3, CallsKept
  <2>5. /\ buffer' \in Seq(Message) /\ accepted' \in Seq(Message)
        /\ usage.limit # 0 => Len(buffer') <= usage.limit
    <3>1. kept \in Seq(Message) /\ s \in Seq(Message) /\ accepted \in Seq(Message)
      BY <2>1 DEF Pushes, TypeOK
    <3>2. Len(kept \o s) = Len(kept) + Len(s)
      BY <3>1
    <3> QED BY <2>1, <2>3, <3>1, <3>2 DEF Pushes
  <2>6. result' \in [Threads -> Result]
    BY <2>1, <2>3 DEF Pushes, TypeOK
  <2>7. /\ usage' \in Usages /\ usage' = usage
        /\ closed' \in BOOLEAN /\ first_message_is_stale' \in BOOLEAN
        /\ displaced' \subseteq Message
    BY <1>1, <2>3 DEF TypeOK
  <2>8. /\ sent' \in [Senders -> 0..MaxSent]
        /\ (delivered \in Seq(Message) /\ discarded \subseteq Message
            /\ cancelled \subseteq Message /\ failed \in BOOLEAN)'
    BY DEF TypeOK, SendEffect
  <2>9. usage'.limit # 0 => Len(buffer') <= usage'.limit
    BY <2>5, <2>7
  <2>10. TypeOK'
    BY <2>4, <2>5, <2>6, <2>7, <2>8, <2>9 DEF TypeOK
  <2> QED BY <2>4, <2>10
<1>3. CASE \E kind, s : Waits(p, kind, s)
  <2>1. PICK kind, s : Waits(p, kind, s)
    BY <1>3
  <2> DEFINE x == [op |-> "send", kind |-> kind, items |-> s]
  <2>2. /\ x \in SendCall /\ call' = [call EXCEPT ![p] = x]
        /\ producer_wait' = producer_wait \cup {p} /\ x.op = "send"
        /\ UNCHANGED <<buffer, closed, first_message_is_stale, consumer_wait,
                       result, accepted, displaced>>
    BY <2>1 DEF Waits, SendBlocked, SendCall
  <2> HIDE DEF x
  <2>3. call'[p].op = "send"
    BY <1>1, <2>2 DEF TypeOK
  <2>4. /\ (call \in [Threads -> Call])'
        /\ (producer_wait \subseteq {q \in Senders : call[q].op = "send"})'
        /\ (consumer_wait \subseteq {c \in Receivers : call[c].op = "read"})'
        /\ \A u \in Threads : u # p => call'[u] = call[u]
    BY <1>1, <2>2, <2>3, CallsKept
  <2> QED BY <1>1, <2>2, <2>4 DEF TypeOK, SendEffect
<1>4. CASE \E r : Answers(p, r)
  <2>1. PICK r : Answers(p, r)
    BY <1>4
  <2>2. /\ call' = [call EXCEPT ![p] = Idle] /\ result' = [result EXCEPT ![p] = r]
        /\ UNCHANGED <<queue, accepted, displaced>> /\ r \in Result
    BY <2>1 DEF Answers, SendAnswered, Returns
  <2>3. /\ (call \in [Threads -> Call])'
        /\ (producer_wait \subseteq {q \in Senders : call[q].op = "send"})'
        /\ (consumer_wait \subseteq {c \in Receivers : call[c].op = "read"})'
        /\ \A u \in Threads : u # p => call'[u] = call[u]
    BY <1>1, <2>2, CallsKept DEF queue
  <2> QED BY <1>1, <2>2, <2>3 DEF TypeOK, SendEffect, queue
<1> QED BY <1>2, <1>3, <1>4 DEF SendEffect

\* What any pass of a reader leaves of the senders' side of the queue: for every
\* message that is gone a sender has been notified.
Freed(m) ==
  /\ producer_wait' \in Notified(producer_wait, m)
  /\ m \in Nat /\ Len(buffer') \in Nat /\ Len(buffer') >= Len(buffer) - m
  /\ m = 0 => buffer' = buffer

LEMMA ReadsFree ==
  ASSUME TypeOK, NEW c, NEW rest, NEW n, ReadEffect(c, rest, n)
  PROVE  /\ \E m : Freed(m)
         /\ buffer' \in Seq(Message) /\ Len(buffer') <= Len(buffer)
<1>1. /\ buffer \in Seq(Message) /\ rest \in Seq(Message) /\ n \in {0, 1}
      /\ Len(rest) = Len(buffer) - n /\ Len(buffer) \in Nat /\ Len(rest) \in Nat
      /\ n = 0 => rest = buffer
  BY DEF ReadEffect, TypeOK
<1>2. CASE \E consume \in usage.consumes : ReadDelivers(c, rest, n, consume)
  <2>1. PICK consume \in usage.consumes : ReadDelivers(c, rest, n, consume)
    BY <1>2
  <2>2. /\ rest # <<>> /\ buffer' = IF consume = "AndRemove" THEN Tail(rest) ELSE rest
        /\ producer_wait' \in Notified(producer_wait, n + 1)
    BY <2>1 DEF ReadDelivers
  <2>3. /\ buffer' \in Seq(Message)
        /\ Len(buffer') = IF consume = "AndRemove" THEN Len(rest) - 1 ELSE Len(rest)
    BY <1>1, <2>2
  <2>4. n + 1 \in Nat /\ n + 1 # 0 /\ Len(buffer') \in Nat
        /\ Len(buffer') >= Len(buffer) - (n + 1) /\ Len(buffer') <= Len(buffer)
    BY <1>1, <2>3
  <2>5. Freed(n + 1)
    BY <2>2, <2>4 DEF Freed
  <2> QED BY <2>3, <2>4, <2>5
<1>3. CASE buffer' = rest /\ producer_wait' \in Notified(producer_wait, n)
  <2>1. Freed(n)
    BY <1>1, <1>3 DEF Freed
  <2> QED BY <1>1, <1>3, <2>1
<1> QED BY <1>2, <1>3 DEF ReadEffect, ReadWaits, ReadFails

LEMMA FreedWakes ==
  ASSUME TypeOK, NEW m, Freed(m)
  PROVE  producer_wait' \subseteq producer_wait
  BY WaitersFinite, NotifiedThreads DEF Freed

LEMMA TypesKeptReading ==
  ASSUME TypeOK, NEW c, NEW rest, NEW n, ReadEffect(c, rest, n)
  PROVE  TypeOK' /\ \A u \in Threads : u # c => call'[u] = call[u]
<1>1. /\ c \in Receivers /\ c \in Threads /\ c \notin Senders /\ usage' = usage
      /\ c \notin producer_wait /\ c \notin consumer_wait
  BY MessageAssumption, UsageNumbers DEF ReadEffect, TypeOK, Threads
<1>2. /\ buffer' \in Seq(Message) /\ Len(buffer') <= Len(buffer)
      /\ producer_wait' \subseteq producer_wait
  BY ReadsFree, FreedWakes
<1>3. usage'.limit # 0 => Len(buffer') <= usage'.limit
  <2>1. /\ usage.limit \in Nat /\ Len(buffer) \in Nat /\ Len(buffer') \in Nat
        /\ usage.limit # 0 => Len(buffer) <= usage.limit
    BY <1>2, UsageNumbers DEF TypeOK
  <2> QED BY <1>1, <1>2, <2>1
<1>4. /\ usage' \in Usages /\ closed' \in BOOLEAN /\ sent' \in [Senders -> 0..MaxSent]
      /\ accepted' \in Seq(Message) /\ displaced' \subseteq Message
      /\ discarded' \subseteq Message /\ cancelled' \subseteq Message
  BY DEF ReadEffect, TypeOK
<1> DEFINE Typed == /\ (call \in [Threads -> Call])'
                    /\ (producer_wait \subseteq {p \in Senders : call[p].op = "send"})'
                    /\ (consumer_wait \subseteq {d \in Receivers : call[d].op = "read"})'
                    /\ \A u \in Threads : u # c => call'[u] = call[u]
           Told == /\ result' \in [Threads -> Result] /\ delivered' \in Seq(Message)
                   /\ first_message_is_stale' \in BOOLEAN /\ failed' \in BOOLEAN
<1>5. CASE \E consume \in usage.consumes : ReadDelivers(c, rest, n, consume)
  <2>1. PICK consume \in usage.consumes : ReadDelivers(c, rest, n, consume)
    BY <1>5
  <2>2. /\ call' = [call EXCEPT ![c] = Idle] /\ result' = [result EXCEPT ![c] = "Success"]
        /\ delivered' = Append(delivered, Head(rest)) /\ rest # <<>>
        /\ first_message_is_stale' = (consume = "WithoutRemoving")
        /\ UNCHANGED <<consumer_wait, failed>>
    BY <2>1 DEF ReadDelivers, Returns
  <2>3. Typed
    BY <1>1, <1>2, <2>2, CallsKept
  <2>4. rest \in Seq(Message) /\ delivered \in Seq(Message) /\ Head(rest) \in Message
    BY <2>2 DEF ReadEffect, TypeOK
  <2>5. first_message_is_stale' \in BOOLEAN
    BY <2>2
  <2>6. failed' \in BOOLEAN
    BY <2>2 DEF TypeOK
  <2>7. result' \in [Threads -> Result]
    BY <2>2 DEF TypeOK, Result
  <2> DEFINE h == Head(rest)
  <2>9. /\ delivered \in Seq(Message) /\ h \in Message
        /\ delivered' = Append(delivered, h)
    BY <2>2, <2>4
  <2> HIDE DEF h
  <2>10. delivered' \in Seq(Message)
    BY <2>9
  <2>8. Told
    BY <2>5, <2>6, <2>7, <2>10
  <2> QED BY <1>2, <1>3, <1>4, <2>3, <2>8 DEF TypeOK
<1>6. CASE \E pending \in ReadCall : ReadWaits(c, rest, n, pending)
  <2>1. PICK pending \in ReadCall : ReadWaits(c, rest, n, pending)
    BY <1>6
  <2>2. /\ call' = [call EXCEPT ![c] = pending] /\ consumer_wait' = consumer_wait \cup {c}
        /\ UNCHANGED <<delivered, first_message_is_stale, result, failed>>
        /\ pending.op = "read"
    BY <2>1 DEF ReadWaits, ReadCall
  <2>3. call'[c].op = "read"
    BY <1>1, <2>2 DEF TypeOK
  <2>4. Typed
    BY <1>1, <1>2, <2>1, <2>2, <2>3, CallsKept
  <2>5. Told
    BY <2>2 DEF TypeOK
  <2> QED BY <1>2, <1>3, <1>4, <2>4, <2>5 DEF TypeOK
<1>7. CASE \E type \in usage.reads : ReadFails(c, rest, n, type)
  <2>1. PICK type \in usage.reads : ReadFails(c, rest, n, type)
    BY <1>7
  <2>2. /\ call' = [call EXCEPT ![c] = Idle]
        /\ result' = [result EXCEPT ![c] = IF Blocks(type) THEN "Failed" ELSE "TryAgain"]
        /\ first_message_is_stale' = FALSE /\ failed' = (failed \/ Blocks(type))
        /\ UNCHANGED <<consumer_wait, delivered>>
    BY <2>1 DEF ReadFails, Returns
  <2>3. Typed
    BY <1>1, <1>2, <2>2, CallsKept
  <2>4. failed' \in BOOLEAN
    BY <2>2
  <2>5. Told
    BY <2>2, <2>4 DEF TypeOK, Result
  <2> QED BY <1>2, <1>3, <1>4, <2>3, <2>5 DEF TypeOK
<1> QED BY <1>5, <1>6, <1>7 DEF ReadEffect

LEMMA TypesKeptClosing ==
  ASSUME TypeOK, NEW cancel \in BOOLEAN, Close(cancel)
  PROVE  TypeOK'
<1>1. /\ buffer \in Seq(Message) /\ Range(buffer) \subseteq Message
      /\ usage.limit \in Nat
  BY UsageNumbers DEF TypeOK, Range
<1>2. /\ buffer' = (IF cancel THEN <<>> ELSE buffer) /\ closed' = TRUE
      /\ cancelled' = (IF cancel THEN cancelled \cup Range(buffer) ELSE cancelled)
      /\ consumer_wait' = {}
      /\ UNCHANGED <<usage, first_message_is_stale, producer_wait, call, result,
                     sent, accepted, delivered, displaced, discarded, failed>>
  BY DEF Close
<1>3. /\ buffer' \in Seq(Message)
      /\ usage'.limit # 0 => Len(buffer') <= usage'.limit
  BY <1>1, <1>2 DEF TypeOK
<1>4. cancelled' \subseteq Message
  BY <1>1, <1>2 DEF TypeOK
<1>5. /\ (call \in [Threads -> Call])'
      /\ (producer_wait \subseteq {p \in Senders : call[p].op = "send"})'
      /\ (consumer_wait \subseteq {d \in Receivers : call[d].op = "read"})'
  BY <1>2 DEF TypeOK, Call
<1>6. /\ usage' \in Usages /\ closed' \in BOOLEAN /\ sent' \in [Senders -> 0..MaxSent]
      /\ accepted' \in Seq(Message) /\ displaced' \subseteq Message
      /\ discarded' \subseteq Message
  BY <1>2 DEF TypeOK
<1>7. /\ result' \in [Threads -> Result] /\ delivered' \in Seq(Message)
      /\ first_message_is_stale' \in BOOLEAN /\ failed' \in BOOLEAN
  BY <1>2 DEF TypeOK
<1> QED BY <1>3, <1>4, <1>5, <1>6, <1>7 DEF TypeOK

-----------------------------------------------------------------------------
(* What the threads are blocked with.                                      *)

LEMMA WaitingSendsKept ==
  ASSUME TypeOK, WaitingSends, NEW p \in Senders, SendEffect(p)
  PROVE  WaitingSends'
<1>1. /\ \A q \in Senders : q # p => call'[q] = call[q]
      /\ usage' = usage /\ p \in Threads
  BY TypesKeptSending DEF SendEffect, Threads
<1>2. CASE \E kind, s : Waits(p, kind, s)
  <2>1. PICK kind, s : Waits(p, kind, s)
    BY <1>2
  <2> DEFINE x == [op |-> "send", kind |-> kind, items |-> s]
  <2>2. call'[p] = x
    BY <1>1, <2>1 DEF Waits, SendBlocked, TypeOK
  <2>3. call'[p].kind = kind /\ call'[p].items = s
    BY <2>2
  <2>4. /\ "BlockUntilSent" \in usage.sends /\ usage.limit # 0
        /\ Len(s) \in 1..usage.limit /\ Len(s) <= usage.batch
        /\ kind = "one" => Len(s) = 1
    BY <2>1 DEF Waits
  <2> HIDE DEF x
  <2> QED BY <1>1, <2>3, <2>4 DEF WaitingSends
<1>3. CASE call'[p] = Idle
  <2>1. call'[p].op # "send"
    BY <1>3 DEF Idle
  <2> QED BY <1>1, <2>1 DEF WaitingSends
<1>4. (\A kind, s : ~Waits(p, kind, s)) => call'[p] = Idle
  BY <1>1 DEF SendEffect, Pushes, Enqueue, Answers, SendAnswered, Returns, TypeOK
<1> QED BY <1>2, <1>3, <1>4

LEMMA WaitingSendsUntouched ==
  ASSUME TypeOK, WaitingSends, NEW c, NEW rest, NEW n, ReadEffect(c, rest, n)
  PROVE  /\ WaitingSends' /\ usage' = usage
         /\ \A q \in Senders : call'[q] = call[q]
<1>1. /\ \A q \in Senders : call'[q] = call[q]
      /\ usage' = usage
  BY TypesKeptReading, MessageAssumption, UsageNumbers DEF ReadEffect, Threads
<1> QED BY <1>1 DEF WaitingSends

LEMMA ReadersReadKept ==
  ASSUME TypeOK, ReadersRead,
         \/ \E p \in Senders : SendEffect(p)
         \/ \E c, rest, n : ReadEffect(c, rest, n)
  PROVE  ReadersRead'
<1>1. CASE \E p \in Senders : SendEffect(p)
  <2>1. PICK p \in Senders : SendEffect(p)
    BY <1>1
  <2>2. (\A c \in Receivers : call'[c] = call[c]) /\ usage' = usage
    BY <2>1, TypesKeptSending, MessageAssumption DEF SendEffect, Threads
  <2> QED BY <2>2 DEF ReadersRead
<1>2. CASE \E c, rest, n : ReadEffect(c, rest, n)
  <2>1. PICK c, rest, n : ReadEffect(c, rest, n)
    BY <1>2
  <2>2. usage' = usage /\ c \in usage.readers
    BY <2>1 DEF ReadEffect
  <2>3. \A u \in Threads : u # c => call'[u] = call[u]
    BY <2>1, TypesKeptReading
  <2>4. \A d \in Receivers : d # c => call'[d] = call[d]
    BY <2>3 DEF Threads
  <2> QED BY <2>2, <2>4 DEF ReadersRead
<1> QED BY <1>1, <1>2

-----------------------------------------------------------------------------
(* Senders.                                                                *)

\* The sets of woken senders, compared.
LEMMA WokenSendersFinite ==
  /\ IsFiniteSet(WokenSenders) /\ Cardinality(WokenSenders) \in Nat
  /\ WokenSenders \subseteq Senders
<1>1. WokenSenders \in SUBSET Senders
  BY DEF WokenSenders
<1> QED BY <1>1, MessageAssumption, FS_Subset, FS_CardinalityType

\* A read wakes a sender for every message it takes.
LEMMA FreedSenders ==
  ASSUME TypeOK, SendersNotStranded, EveryPlaceHasASender, usage' = usage,
         TypeOK', NEW m, Freed(m), \A q \in Senders : call'[q] = call[q]
  PROVE  SendersNotStranded' /\ EveryPlaceHasASender'
<1> DEFINE W == WokenSenders
           X == producer_wait \ producer_wait'
           V == WokenSenders'
<1>1. /\ producer_wait' \subseteq producer_wait
      /\ m = 0 => producer_wait' = producer_wait
      /\ producer_wait' # {} => Cardinality(X) = m
  BY WaitersFinite, NotifiedThreads DEF Freed
<1>2. W \subseteq V /\ X \subseteq V /\ W \cap X = {}
  BY <1>1 DEF WokenSenders, TypeOK
<1>3. IsFiniteSet(V) /\ Cardinality(V) \in Nat
  <2>1. V \in SUBSET Senders
    BY DEF WokenSenders
  <2> QED BY <2>1, MessageAssumption, FS_Subset, FS_CardinalityType
<1> HIDE DEF W, X, V
<1>4. /\ Cardinality(W) \in Nat /\ Cardinality(X) \in Nat
      /\ Cardinality(W) + Cardinality(X) <= Cardinality(V)
  BY <1>2, <1>3, MoreThreads
<1>5. /\ usage.limit \in Nat /\ Len(buffer) \in Nat /\ Len(buffer') \in Nat /\ m \in Nat
      /\ Len(buffer') >= Len(buffer) - m /\ (m = 0 => buffer' = buffer)
  BY UsageNumbers DEF Freed, TypeOK
<1>6. ASSUME TRUE \notin usage.closes, producer_wait' # {}, buffer' = <<>>
      PROVE  V # {}
  <2>1. CASE m = 0
    <3>1. W # {}
      BY <1>1, <1>5, <1>6, <2>1 DEF SendersNotStranded, W
    <3> QED BY <1>2, <3>1
  <2>2. CASE m # 0
    <3>1. Cardinality(V) # 0
      BY <1>1, <1>3, <1>4, <1>5, <1>6, <2>2
    <3> QED BY <3>1, FS_EmptySet
  <2> QED BY <2>1, <2>2
<1>7. ASSUME TRUE \notin usage.closes, usage.batch = 1, producer_wait' # {}
      PROVE  usage.limit - Len(buffer') <= Cardinality(V)
  <2>1. producer_wait # {}
    BY <1>1, <1>7
  <2>2. usage.limit - Len(buffer) <= Cardinality(W)
    BY <1>7, <2>1 DEF EveryPlaceHasASender, W
  <2>3. Cardinality(X) = m
    BY <1>1, <1>7
  <2> QED BY <1>3, <1>4, <1>5, <2>2, <2>3
<1> QED BY <1>6, <1>7 DEF SendersNotStranded, EveryPlaceHasASender, V

\* A send takes the place it was woken for, or finds none.
LEMMA SendingSenders ==
  ASSUME TypeOK, SendersNotStranded, EveryPlaceHasASender, TypeOK',
         NEW p \in Senders, SendEffect(p)
  PROVE  SendersNotStranded' /\ EveryPlaceHasASender'
<1> DEFINE W == WokenSenders
           V == WokenSenders'
<1>1. /\ usage' = usage /\ p \in Threads /\ p \notin producer_wait
      /\ \A q \in Senders : q # p => call'[q] = call[q]
  BY TypesKeptSending DEF SendEffect, Threads
<1>2. /\ usage.limit \in Nat /\ usage.batch \in Nat
      /\ buffer \in Seq(Message) /\ Len(buffer) \in Nat
      /\ IsFiniteSet(V) /\ Cardinality(V) \in Nat
  <2>1. V \in SUBSET Senders
    BY DEF WokenSenders
  <2> QED BY <2>1, UsageNumbers, MessageAssumption, FS_Subset, FS_CardinalityType DEF TypeOK
<1>3. CASE \E kind, kept, s, r : Pushes(p, kind, kept, s, r)
  <2>1. PICK kind, kept, s, r : Pushes(p, kind, kept, s, r)
    BY <1>3
  <2>2. /\ producer_wait' = producer_wait /\ buffer' = kept \o s
        /\ call' = [call EXCEPT ![p] = Idle]
        /\ kept \in Seq(Message) /\ s \in Seq(Message)
        /\ Len(s) >= 1 /\ Len(s) <= usage.batch
        /\ kept = buffer \/ Len(kept) + Len(s) = usage.limit
    BY <2>1 DEF Pushes, Enqueue, Returns
  <2>3. /\ Len(s) \in Nat /\ Len(kept) \in Nat /\ Len(buffer') = Len(kept) + Len(s)
        /\ Len(buffer') \in Nat /\ Len(buffer') # 0
    BY <2>2
  <2>4. buffer' # <<>>
    BY <2>3
  <2>5. W \ {p} \subseteq V
    BY <1>1, <2>2 DEF WokenSenders
  <2>6. /\ Cardinality(W) \in Nat /\ Cardinality(W \ {p}) \in Nat
        /\ Cardinality(W) - 1 <= Cardinality(W \ {p})
        /\ Cardinality(W \ {p}) <= Cardinality(V)
    <3>1. IsFiniteSet(W) /\ W \in SUBSET W
      BY WokenSendersFinite
    <3>2. W \ {p} \in SUBSET V
      BY <2>5
    <3> HIDE DEF W, V
    <3> QED BY <1>2, <3>1, <3>2, OneThread, FS_Subset
  <2> HIDE DEF W, V
  <2>7. ASSUME TRUE \notin usage.closes, usage.batch = 1, producer_wait # {}
        PROVE  usage.limit - Len(buffer') <= Cardinality(V)
    <3>1. usage.limit - Len(buffer) <= Cardinality(W)
      BY <2>7 DEF EveryPlaceHasASender, W
    <3>4. Len(s) = 1
      <4> DEFINE l == Len(s)
      <4>1. l >= 1 /\ l <= usage.batch /\ l \in Nat
        BY <2>2, <2>3
      <4> HIDE DEF l
      <4>2. l = 1
        BY <1>2, <2>7, <4>1
      <4> QED BY <4>2 DEF l
    <3>2. CASE Len(kept) + Len(s) = usage.limit
      BY <1>2, <2>3, <3>2
    <3>3. CASE kept = buffer
      BY <1>2, <2>3, <2>6, <3>1, <3>3, <3>4
    <3> QED BY <2>2, <3>2, <3>3
  <2> QED BY <1>1, <2>2, <2>4, <2>7 DEF SendersNotStranded, EveryPlaceHasASender, V
<1>4. CASE \E kind, s : Waits(p, kind, s)
  <2>1. PICK kind, s : Waits(p, kind, s)
    BY <1>4
  <2>2. /\ buffer' = buffer /\ ~(usage.limit - Len(buffer) >= Len(s))
        /\ Len(s) \in 1..usage.limit /\ Len(s) <= usage.batch
    BY <2>1 DEF Waits, SendBlocked, HasRoom
  <2>3. Len(buffer) # 0
    BY <1>2, <2>2
  <2>4. buffer' # <<>>
    BY <2>2, <2>3
  <2>5. usage.batch = 1 => usage.limit - Len(buffer') <= 0
    BY <1>2, <2>2
  <2> HIDE DEF V
  <2>6. usage.batch = 1 => usage.limit - Len(buffer') <= Cardinality(V)
    BY <1>2, <2>2, <2>5
  <2> QED BY <1>1, <2>4, <2>6 DEF SendersNotStranded, EveryPlaceHasASender, V
<1>5. CASE \E r : Answers(p, r)
  <2>1. PICK r : Answers(p, r)
    BY <1>5
  <2>2. call' = [call EXCEPT ![p] = Idle] /\ call[p] = Idle /\ UNCHANGED queue
    BY <2>1 DEF Answers, SendAnswered, Returns
  <2>3. UNCHANGED <<buffer, producer_wait>> /\ \A q \in Senders : call'[q] = call[q]
    BY <1>1, <2>2 DEF queue, TypeOK
  <2>4. V = W
    BY <2>3 DEF WokenSenders
  <2> HIDE DEF V, W
  <2> QED BY <1>1, <2>3, <2>4 DEF SendersNotStranded, EveryPlaceHasASender, V, W
<1> QED BY <1>3, <1>4, <1>5 DEF SendEffect

-----------------------------------------------------------------------------
(* Readers.                                                                *)

LEMMA WokenReceiversFinite ==
  /\ IsFiniteSet(WokenReceivers) /\ IsFiniteSet(WokenReceivers')
  /\ Cardinality(WokenReceivers) \in Nat /\ Cardinality(WokenReceivers') \in Nat
<1>1. WokenReceivers \in SUBSET Receivers /\ WokenReceivers' \in SUBSET Receivers
  BY DEF WokenReceivers
<1> QED BY <1>1, MessageAssumption, FS_Subset, FS_CardinalityType

LEMMA SendingReaders ==
  ASSUME TypeOK, EveryMessageHasAReader, NEW p \in Senders, SendEffect(p)
  PROVE  EveryMessageHasAReader'
<1> DEFINE R == WokenReceivers
           X == consumer_wait \ consumer_wait'
           Q == WokenReceivers'
<1>1. /\ usage' = usage /\ \A c \in Receivers : call'[c] = call[c]
  BY TypesKeptSending, MessageAssumption DEF SendEffect, Threads
<1>2. CASE \E kind, kept, s, r : Pushes(p, kind, kept, s, r)
  <2>1. PICK kind, kept, s, r : Pushes(p, kind, kept, s, r)
    BY <1>2
  <2>2. CASE kind = "one"
    <3>1. /\ consumer_wait' \in Notified(consumer_wait, 1) /\ closed' = closed
          /\ kept \in Seq(Message) /\ s \in Seq(Message) /\ Len(s) = 1
          /\ buffer' = kept \o s /\ Len(kept) <= Len(buffer)
      BY <2>1, <2>2 DEF Pushes, Enqueue
    <3>2. /\ consumer_wait' \subseteq consumer_wait
          /\ consumer_wait' # {} => Cardinality(X) = 1
      <4>1. IsFiniteSet(consumer_wait) /\ consumer_wait' \in Notified(consumer_wait, 1)
        BY <3>1, WaitersFinite
      <4> QED BY <4>1, NotifiedThreads
    <3>3. /\ Len(buffer') \in Nat /\ Len(buffer) \in Nat
          /\ Len(buffer') <= Len(buffer) + 1
      <4>3. kept \in Seq(Message) /\ s \in Seq(Message)
        BY <3>1
      <4>1. Len(kept \o s) = Len(kept) + Len(s) /\ Len(kept) \in Nat
        BY <4>3
      <4>2. Len(buffer) \in Nat
        BY DEF TypeOK
      <4> QED BY <3>1, <4>1, <4>2
    <3>4. R \subseteq Q /\ X \subseteq Q /\ R \cap X = {}
      BY <1>1, <3>2 DEF WokenReceivers, TypeOK
    <3>5. IsFiniteSet(Q)
      BY WokenReceiversFinite
    <3> HIDE DEF R, Q, X
    <3>6. /\ Cardinality(R) \in Nat /\ Cardinality(X) \in Nat /\ Cardinality(Q) \in Nat
          /\ Cardinality(R) + Cardinality(X) <= Cardinality(Q)
      BY <3>4, <3>5, MoreThreads
    <3>7. ASSUME OneStaleReader, consumer_wait' # {}
          PROVE  ~closed' /\ Len(buffer') <= Cardinality(Q)
      <4>1. ~closed /\ Len(buffer) <= Cardinality(R)
        BY <3>2, <3>7 DEF EveryMessageHasAReader, R
      <4>2. Cardinality(X) = 1
        BY <3>2, <3>7
      <4>3. Len(buffer') <= Cardinality(Q)
        BY <3>3, <3>6, <4>1, <4>2
      <4> QED BY <3>1, <4>1, <4>3
    <3> QED BY <1>1, <3>7 DEF EveryMessageHasAReader, OneStaleReader, Q
  <2>3. CASE kind # "one"
    <3>1. consumer_wait' = {}
      BY <2>1, <2>3 DEF Pushes, Enqueue
    <3> QED BY <3>1 DEF EveryMessageHasAReader
  <2> QED BY <2>2, <2>3
<1>3. CASE UNCHANGED <<buffer, closed, consumer_wait>>
  <2>1. Q = R
    BY <1>1, <1>3 DEF WokenReceivers
  <2> HIDE DEF Q, R
  <2> QED BY <1>1, <1>3, <2>1 DEF EveryMessageHasAReader, OneStaleReader, Q, R
<1> QED BY <1>2, <1>3 DEF SendEffect, Waits, SendBlocked, Answers, SendAnswered, queue

LEMMA ReadingReaders ==
  ASSUME TypeOK, ReadersRead, EveryMessageHasAReader,
         NEW c, NEW rest, NEW n, ReadEffect(c, rest, n)
  PROVE  EveryMessageHasAReader'
<1> DEFINE R == WokenReceivers
           Q == WokenReceivers'
<1>1. /\ usage' = usage /\ closed' = closed /\ c \in usage.readers /\ c \in Receivers
      /\ c \notin consumer_wait /\ rest \in Seq(Message) /\ n \in {0, 1}
      /\ Len(rest) = Len(buffer) - n /\ Len(buffer) \in Nat /\ Len(rest) \in Nat
  BY UsageNumbers DEF ReadEffect, TypeOK
<1>2. \A d \in Receivers : d # c => call'[d] = call[d]
  <2>1. \A u \in Threads : u # c => call'[u] = call[u]
    BY TypesKeptReading
  <2> QED BY <2>1 DEF Threads
<1>3. /\ IsFiniteSet(Q) /\ Cardinality(Q) \in Nat
      /\ IsFiniteSet(R) /\ Cardinality(R) \in Nat
  BY WokenReceiversFinite
<1>4. CASE \E consume \in usage.consumes : ReadDelivers(c, rest, n, consume)
  <2>1. PICK consume \in usage.consumes : ReadDelivers(c, rest, n, consume)
    BY <1>4
  <2>2. /\ consumer_wait' = consumer_wait /\ rest # <<>>
        /\ buffer' = IF consume = "AndRemove" THEN Tail(rest) ELSE rest
    BY <2>1 DEF ReadDelivers
  <2>3. CASE usage.consumes = {"AndRemove"}
    <3>1. Len(buffer') \in Nat /\ Len(buffer') <= Len(buffer) - 1
      BY <1>1, <2>2, <2>3
    <3>2. R \ {c} \in SUBSET Q
      BY <1>2, <2>2 DEF WokenReceivers
    <3> HIDE DEF R, Q
    <3>3. /\ Cardinality(R \ {c}) \in Nat /\ Cardinality(R) - 1 <= Cardinality(R \ {c})
          /\ Cardinality(R \ {c}) <= Cardinality(Q)
      <4>1. R \in SUBSET R
        OBVIOUS
      <4> QED BY <1>3, <3>2, <4>1, OneThread, FS_Subset
    <3>4. ASSUME consumer_wait # {}
          PROVE  ~closed /\ Len(buffer') <= Cardinality(Q)
      <4>1. ~closed /\ Len(buffer) <= Cardinality(R)
        BY <2>3, <3>4 DEF EveryMessageHasAReader, OneStaleReader, R
      <4>2. Len(buffer') <= Cardinality(Q)
        BY <1>1, <1>3, <3>1, <3>3, <4>1
      <4> QED BY <4>1, <4>2
    <3> QED BY <1>1, <2>2, <3>4 DEF EveryMessageHasAReader, Q
  <2>4. CASE Cardinality(usage.readers) = 1
    <3>1. usage.readers \in SUBSET Receivers
      BY UsageNumbers
    <3>2. IsFiniteSet(usage.readers)
      BY <3>1, MessageAssumption, FS_Subset
    <3>3. PICK x : usage.readers = {x}
      BY <2>4, <3>2, FS_Singleton
    <3>4. consumer_wait \subseteq usage.readers
      BY DEF ReadersRead, TypeOK
    <3>5. consumer_wait = {}
      BY <1>1, <3>3, <3>4
    <3> QED BY <2>2, <3>5 DEF EveryMessageHasAReader
  <2> QED BY <1>1, <2>3, <2>4 DEF EveryMessageHasAReader, OneStaleReader
<1>5. CASE /\ buffer' = rest /\ rest = <<>>
           /\ ~closed \/ consumer_wait' = consumer_wait
  <2>1. Len(buffer') = 0
    BY <1>5
  <2> HIDE DEF R, Q
  <2>2. Len(buffer') <= Cardinality(Q)
    BY <1>3, <2>1
  <2>3. OneStaleReader /\ consumer_wait' # {} => ~closed'
    BY <1>1, <1>5 DEF EveryMessageHasAReader
  <2> QED BY <1>1, <2>2, <2>3 DEF EveryMessageHasAReader, OneStaleReader, Q
<1> QED BY <1>4, <1>5 DEF ReadEffect, ReadWaits, ReadFails

-----------------------------------------------------------------------------
(* Failed reads.                                                           *)

LEMMA FailureKept ==
  ASSUME TypeOK, WaitingSends, FailedWhenClosed, FailedIsFinalUnblocked,
         \/ \E p \in Senders : SendEffect(p)
         \/ \E c, rest, n : ReadEffect(c, rest, n)
  PROVE  FailedWhenClosed' /\ FailedIsFinalUnblocked'
<1>1. CASE \E p \in Senders : SendEffect(p)
  <2>1. PICK p \in Senders : SendEffect(p)
    BY <1>1
  <2>2. usage' = usage /\ failed' = failed
    BY <2>1 DEF SendEffect
  <2>3. CASE \E kind, kept, s, r : Pushes(p, kind, kept, s, r)
    <3>1. closed' = closed /\ (~closed \/ call[p].op = "send")
      BY <2>3 DEF Pushes, Enqueue
    <3>2. call[p].op = "send" => "BlockUntilSent" \in usage.sends
      BY DEF WaitingSends
    <3> QED BY <2>2, <3>1, <3>2 DEF FailedWhenClosed, FailedIsFinalUnblocked
  <2>4. CASE closed' = closed /\ buffer' = buffer
    BY <2>2, <2>4 DEF FailedWhenClosed, FailedIsFinalUnblocked
  <2> QED BY <2>1, <2>3, <2>4 DEF SendEffect, Waits, SendBlocked, Answers, SendAnswered, queue
<1>2. CASE \E c, rest, n : ReadEffect(c, rest, n)
  <2>1. PICK c, rest, n : ReadEffect(c, rest, n)
    BY <1>2
  <2>2. /\ usage' = usage /\ closed' = closed
        /\ rest \in Seq(Message) /\ n \in {0, 1}
        /\ Len(rest) = Len(buffer) - n /\ Len(rest) \in Nat
    BY <2>1 DEF ReadEffect
  <2>3. CASE rest # <<>> /\ failed' = failed
    <3>1. buffer # <<>>
      BY <2>2, <2>3
    <3> QED BY <2>2, <2>3, <3>1 DEF FailedWhenClosed, FailedIsFinalUnblocked
  <2>4. CASE rest = <<>> /\ buffer' = rest /\ (failed' => (failed \/ closed))
    BY <2>2, <2>4 DEF FailedWhenClosed, FailedIsFinalUnblocked
  <2>5. ASSUME NEW consume, ReadDelivers(c, rest, n, consume)
        PROVE  rest # <<>> /\ failed' = failed
    BY <2>5 DEF ReadDelivers
  <2>6. ASSUME NEW pending, ReadWaits(c, rest, n, pending)
        PROVE  rest = <<>> /\ buffer' = rest /\ (failed' => (failed \/ closed))
    BY <2>6 DEF ReadWaits
  <2>7. ASSUME NEW type, ReadFails(c, rest, n, type)
        PROVE  rest = <<>> /\ buffer' = rest /\ (failed' => (failed \/ closed))
    <3>1. rest = <<>> /\ buffer' = rest
      BY <2>7 DEF ReadFails
    <3>2. (Blocks(type) => closed) /\ failed' = (failed \/ Blocks(type))
      BY <2>7 DEF ReadFails
    <3> QED BY <3>1, <3>2
  <2> QED BY <2>1, <2>3, <2>4, <2>5, <2>6, <2>7 DEF ReadEffect
<1> QED BY <1>1, <1>2

-----------------------------------------------------------------------------
(* The invariant is inductive.                                             *)

LEMMA ClosingKeeps ==
  ASSUME IInv, NEW cancel \in usage.closes, Close(cancel)
  PROVE  IInv'
<1>1. /\ TypeOK /\ WaitingSends /\ ReadersRead /\ FailedWhenClosed
      /\ SendersNotStranded /\ EveryPlaceHasASender /\ FailedIsFinalUnblocked
  BY DEF IInv
<1>2. usage.closes \in SUBSET BOOLEAN
  BY <1>1, MessageAssumption DEF TypeOK, Usage
<1>3. TypeOK'
  BY <1>1, <1>2, TypesKeptClosing
<1>4. /\ buffer' = (IF cancel THEN <<>> ELSE buffer)
      /\ closed' = TRUE /\ consumer_wait' = {}
      /\ UNCHANGED <<usage, producer_wait, call, failed>>
  BY DEF Close
<1>5. WaitingSends' /\ ReadersRead'
  BY <1>1, <1>4 DEF WaitingSends, ReadersRead
<1>6. FailedWhenClosed' /\ EveryMessageHasAReader'
  BY <1>4 DEF FailedWhenClosed, EveryMessageHasAReader
<1>7. FailedIsFinalUnblocked'
  BY <1>1, <1>2, <1>4 DEF FailedIsFinalUnblocked
<1>8. SendersNotStranded' /\ EveryPlaceHasASender'
  <2>1. CASE TRUE \in usage.closes
    BY <1>4, <2>1 DEF SendersNotStranded, EveryPlaceHasASender
  <2>2. CASE TRUE \notin usage.closes
    <3>1. buffer' = buffer
      BY <1>2, <1>4, <2>2
    <3>2. WokenSenders' = WokenSenders
      BY <1>4 DEF WokenSenders
    <3> QED BY <1>1, <1>4, <3>1, <3>2 DEF SendersNotStranded, EveryPlaceHasASender
  <2> QED BY <2>1, <2>2
<1> QED BY <1>3, <1>5, <1>6, <1>7, <1>8 DEF IInv

LEMMA InitInvariant == Init => IInv
<1> SUFFICES ASSUME Init
             PROVE  IInv
  OBVIOUS
<1>1. /\ usage \in Usages /\ buffer = <<>> /\ closed = FALSE
      /\ first_message_is_stale = FALSE /\ producer_wait = {} /\ consumer_wait = {}
      /\ call = [t \in Threads |-> Idle] /\ result = [t \in Threads |-> "None"]
      /\ sent = [p \in Senders |-> 0] /\ accepted = <<>> /\ delivered = <<>>
      /\ displaced = {} /\ discarded = {} /\ cancelled = {} /\ failed = FALSE
  BY DEF Init
<1>2. usage.limit \in Nat
  BY <1>1, MessageAssumption DEF Usage
<1>3. /\ \A t \in Threads : call[t] = Idle /\ call[t].op # "send" /\ call[t].op # "read"
      /\ call \in [Threads -> Call]
  BY <1>1 DEF Idle, Call
<1>4. TypeOK
  <2>1. sent \in [Senders -> 0..MaxSent] /\ result \in [Threads -> Result]
    BY <1>1, MessageAssumption DEF Result
  <2>2. /\ buffer \in Seq(Message) /\ accepted \in Seq(Message) /\ delivered \in Seq(Message)
        /\ usage.limit # 0 => Len(buffer) <= usage.limit
    BY <1>1, <1>2
  <2>3. closed \in BOOLEAN /\ first_message_is_stale \in BOOLEAN /\ failed \in BOOLEAN
    BY <1>1
  <2> QED BY <1>1, <1>3, <2>1, <2>2, <2>3 DEF TypeOK
<1>5. WaitingSends /\ ReadersRead
  BY <1>3 DEF WaitingSends, ReadersRead, Threads
<1>6. /\ SendersNotStranded /\ EveryPlaceHasASender /\ EveryMessageHasAReader
      /\ FailedWhenClosed /\ FailedIsFinalUnblocked
  BY <1>1 DEF SendersNotStranded, EveryPlaceHasASender, EveryMessageHasAReader,
              FailedWhenClosed, FailedIsFinalUnblocked
<1> QED BY <1>4, <1>5, <1>6 DEF IInv

LEMMA StepInvariant == IInv /\ [Next]_vars => IInv'
<1> SUFFICES ASSUME IInv, [Next]_vars
             PROVE  IInv'
  OBVIOUS
<1>1. /\ TypeOK /\ WaitingSends /\ ReadersRead /\ FailedWhenClosed
      /\ SendersNotStranded /\ EveryPlaceHasASender /\ EveryMessageHasAReader
      /\ FailedIsFinalUnblocked
  BY DEF IInv
<1>2. ASSUME NEW p \in Senders, SenderStep(p)
      PROVE  IInv'
  <2>1. SendEffect(p)
    BY <1>1, <1>2, SenderSteps
  <2>2. TypeOK'
    BY <1>1, <2>1, TypesKeptSending
  <2>3. WaitingSends' /\ ReadersRead'
    BY <1>1, <2>1, WaitingSendsKept, ReadersReadKept
  <2>4. SendersNotStranded' /\ EveryPlaceHasASender'
    BY <1>1, <2>1, <2>2, SendingSenders
  <2>5. EveryMessageHasAReader'
    BY <1>1, <2>1, SendingReaders
  <2>6. FailedWhenClosed' /\ FailedIsFinalUnblocked'
    BY <1>1, <2>1, FailureKept
  <2> QED BY <2>2, <2>3, <2>4, <2>5, <2>6 DEF IInv
<1>3. ASSUME NEW c \in usage.readers, ReceiverStep(c)
      PROVE  IInv'
  <2>1. PICK rest, n : ReadEffect(c, rest, n)
    BY <1>1, <1>3, ReaderSteps
  <2>2. TypeOK'
    BY <1>1, <2>1, TypesKeptReading
  <2>3. WaitingSends' /\ usage' = usage /\ \A q \in Senders : call'[q] = call[q]
    BY <1>1, <2>1, WaitingSendsUntouched
  <2>4. ReadersRead'
    BY <1>1, <2>1, ReadersReadKept
  <2>5. PICK m : Freed(m)
    BY <1>1, <2>1, ReadsFree
  <2>6. SendersNotStranded' /\ EveryPlaceHasASender'
    BY <1>1, <2>2, <2>3, <2>5, FreedSenders
  <2>7. EveryMessageHasAReader'
    BY <1>1, <2>1, ReadingReaders
  <2>8. FailedWhenClosed' /\ FailedIsFinalUnblocked'
    BY <1>1, <2>1, FailureKept
  <2> QED BY <2>2, <2>3, <2>4, <2>6, <2>7, <2>8 DEF IInv
<1>4. ASSUME NEW cancel \in usage.closes, Close(cancel)
      PROVE  IInv'
  BY <1>4, ClosingKeeps
<1>5. CASE UNCHANGED vars
  <2>1. UNCHANGED <<usage, buffer, closed, first_message_is_stale, producer_wait,
                    consumer_wait, call, result, sent, accepted, delivered, displaced,
                    discarded, cancelled, failed>>
    BY <1>5 DEF vars, queue, history
  <2>2. TypeOK'
    BY <1>1, <2>1 DEF TypeOK, Call
  <2>3. WokenSenders' = WokenSenders /\ WokenReceivers' = WokenReceivers
    BY <2>1 DEF WokenSenders, WokenReceivers
  <2>4. /\ WaitingSends' /\ ReadersRead' /\ FailedWhenClosed'
        /\ SendersNotStranded' /\ EveryPlaceHasASender' /\ EveryMessageHasAReader'
        /\ FailedIsFinalUnblocked'
    BY <1>1, <2>1, <2>3 DEF WaitingSends, ReadersRead, FailedWhenClosed, SendersNotStranded,
       EveryPlaceHasASender, EveryMessageHasAReader, OneStaleReader, FailedIsFinalUnblocked
  <2> QED BY <2>2, <2>4 DEF IInv
<1> QED BY <1>2, <1>3, <1>4, <1>5 DEF Next

\* For any number of senders and readers, any limit, any size of batches and any
\* mixture of queue types: a sender sleeps only while what is free is spoken for by
\* a woken one, a reader only while every message has a reader on the way and the
\* queue is open (the notify_one and notify_all calls of send(), read() and close()).
THEOREM NobodyIsLeftAsleep == Spec => []NobodyOversleeps
<1>1. IInv => NobodyOversleeps
  BY DEF IInv, NobodyOversleeps
<1> QED BY <1>1, InitInvariant, StepInvariant, PTL DEF Spec

\* However many threads read and send, MessageFailed is the last word unless a send
\* may block: nothing is in the queue then, and nothing ever will be
\* (readMessageImpl() and the closed flag that send() looks at).
THEOREM FailureIsFinal == Spec => []FailedIsFinalUnblocked
<1>1. IInv => FailedIsFinalUnblocked
  BY DEF IInv
<1> QED BY <1>1, InitInvariant, StepInvariant, PTL DEF Spec


-----------------------------------------------------------------------------
(* What becomes of the messages, in a program where one reader at most      *)
(* leaves messages in the queue.  The queue is the end of what was accepted,*)
(* and what was read lies before it, or is its first, while that is stale.  *)

\* A reader that waits has discarded what was stale.
Fetching(c) == call[c].op = "read" /\ call[c].phase = "fetch"

\* Whether the first message of the queue has been read, or counts as read.
Held == IF first_message_is_stale /\ \A c \in Receivers : ~Fetching(c) THEN 1 ELSE 0

\* Where the queue begins in what was accepted, and how much of that no reader
\* will be given any more.
Before == Len(accepted) - Len(buffer)
Done == Before + Held

\* b is the end of a.
EndOf(b, a) == /\ Len(b) <= Len(a)
               /\ \A i \in 1..Len(b) : b[i] = a[(Len(a) - Len(b)) + i]

\* The messages a sender waits with, or adds to what was accepted.
Fresh(p, s) == /\ IsInjective(s)
               /\ \A m \in Range(s) : /\ m[1] = p /\ m[2] <= sent[p]
                                      /\ m \notin Range(accepted)

\* A message is accepted once; those a sender waits with have yet to be.
AcceptedOnce ==
  /\ IsInjective(accepted)
  /\ \A m \in Range(accepted) : m[2] <= sent[m[1]]
  /\ \A p \in Senders : call[p].op = "send" => Fresh(p, call[p].items)

\* Who leaves nothing in the queue finds nothing stale; otherwise the message
\* that is stale is there, unless close(true) removed it.
StaleIsThere ==
  /\ usage.consumes = {"AndRemove"} =>
       ~first_message_is_stale /\ \A c \in Receivers : call[c].op = "read" => Fetching(c)
  /\ \A c \in Receivers : call[c].op = "read" /\ ~Fetching(c) => first_message_is_stale
  /\ Held = 1 /\ buffer = <<>> => closed /\ TRUE \in usage.closes

\* What was read was accepted in that order, and does not wait to be read.
ReadInOrder ==
  /\ \A k \in DOMAIN delivered : \E i \in DOMAIN accepted :
       i <= Done /\ delivered[k] = accepted[i]
  /\ \A i, j \in DOMAIN accepted, k, l \in DOMAIN delivered :
       accepted[i] = delivered[k] /\ accepted[j] = delivered[l] /\ k < l => i < j

\* The messages no reader was or will be given, but those that were cancelled.
Gone == {accepted[i] : i \in {j \in DOMAIN accepted : j <= Done}}
        \ (Range(delivered) \cup cancelled)

\* Displaced messages lie before the queue, and are no fewer than those.
LossesTold ==
  /\ \A m \in displaced : \E i \in DOMAIN accepted : i <= Before /\ m = accepted[i]
  /\ StaleFlagHasItsMessage => Cardinality(Gone) <= Cardinality(displaced)

Fates == OneStaleReader => /\ AcceptedOnce /\ EndOf(buffer, accepted) /\ StaleIsThere
                           /\ ReadInOrder /\ LossesTold

-----------------------------------------------------------------------------
(* Queues as ends of sequences.                                            *)

\* What is left behind the first x.
LEMMA EndKept ==
  ASSUME NEW S, NEW buf \in Seq(S), NEW x \in 0..Len(buf)
  PROVE  /\ SubSeq(buf, x + 1, Len(buf)) \in Seq(S)
         /\ Len(SubSeq(buf, x + 1, Len(buf))) = Len(buf) - x
         /\ \A i \in 1..(Len(buf) - x) : SubSeq(buf, x + 1, Len(buf))[i] = buf[i + x]
<1>1. Len(buf) \in Nat /\ x \in Nat /\ x <= Len(buf)
  OBVIOUS
<1>2. CASE x + 1 <= Len(buf)
  BY <1>1, <1>2, SubSeqProperties
<1>3. CASE ~(x + 1 <= Len(buf))
  BY <1>1, <1>3, SubSeqProperties
<1> QED BY <1>2, <1>3

\* The queue is given s behind k, which is what is left of it.
PutBehind(S, acc, buf, s, x, k, a, b) ==
  /\ acc \in Seq(S) /\ buf \in Seq(S) /\ EndOf(buf, acc) /\ s \in Seq(S)
  /\ x \in 0..Len(buf) /\ k \in Seq(S) /\ Len(k) = Len(buf) - x
  /\ \A i \in 1..(Len(buf) - x) : k[i] = buf[i + x]
  /\ a = acc \o s /\ b = k \o s

LEMMA EndPushed ==
  ASSUME NEW S, NEW acc, NEW buf, NEW s, NEW x, NEW k, NEW a, NEW b,
         PutBehind(S, acc, buf, s, x, k, a, b)
  PROVE  /\ a \in Seq(S) /\ b \in Seq(S)
         /\ Len(a) = Len(acc) + Len(s) /\ Len(b) = (Len(buf) - x) + Len(s)
         /\ EndOf(b, a)
<1> SUFFICES ASSUME acc \in Seq(S), buf \in Seq(S), EndOf(buf, acc), s \in Seq(S),
                    x \in 0..Len(buf), k \in Seq(S), Len(k) = Len(buf) - x,
                    \A i \in 1..(Len(buf) - x) : k[i] = buf[i + x],
                    a = acc \o s, b = k \o s
             PROVE  /\ a \in Seq(S) /\ b \in Seq(S)
                    /\ Len(a) = Len(acc) + Len(s) /\ Len(b) = (Len(buf) - x) + Len(s)
                    /\ EndOf(b, a)
  BY DEF PutBehind
<1>1. Len(acc) \in Nat /\ Len(buf) \in Nat /\ Len(s) \in Nat /\ x \in Nat /\ x <= Len(buf)
  OBVIOUS
<1>3. /\ a \in Seq(S) /\ Len(a) = Len(acc) + Len(s)
      /\ \A i \in 1..(Len(acc) + Len(s)) : a[i] = IF i <= Len(acc) THEN acc[i] ELSE s[i - Len(acc)]
  BY ConcatProperties
<1>5. /\ b \in Seq(S) /\ Len(b) = Len(k) + Len(s)
      /\ \A i \in 1..(Len(k) + Len(s)) : b[i] = IF i <= Len(k) THEN k[i] ELSE s[i - Len(k)]
  BY ConcatProperties
<1>6. ASSUME NEW i \in 1..Len(b)
      PROVE  b[i] = IF i <= Len(buf) - x THEN buf[i + x] ELSE s[i - (Len(buf) - x)]
  <2>1. Len(k) = Len(buf) - x /\ i \in 1..(Len(k) + Len(s))
    BY <1>5
  <2>2. b[i] = IF i <= Len(k) THEN k[i] ELSE s[i - Len(k)]
    BY <1>5, <2>1
  <2>3. CASE i <= Len(k)
    <3>1. i \in 1..(Len(buf) - x)
      BY <1>1, <2>1, <2>3
    <3> QED BY <2>1, <2>2, <2>3, <3>1
  <2> QED BY <2>1, <2>2, <2>3
<1>7. ASSUME NEW i \in 1..Len(b) PROVE b[i] = a[(Len(a) - Len(b)) + i]
  <2> DEFINE j == (Len(a) - Len(b)) + i
             n == Len(buf)
             m == Len(acc)
             o == Len(s)
  <2>0. /\ n \in Nat /\ m \in Nat /\ o \in Nat /\ x <= n /\ n <= m
        /\ Len(a) = m + o /\ Len(b) = (n - x) + o
    BY <1>1, <1>3, <1>5 DEF EndOf
  <2>1. j = (m - n) + x + i /\ j \in 1..Len(a) /\ i \in 1..((n - x) + o)
    <3> HIDE DEF n, m, o
    <3> QED BY <2>0
  <2>2. CASE i <= n - x
    <3>1. i + x \in 1..n /\ j <= m /\ j = (m - n) + (i + x)
      <4> HIDE DEF n, m, o, j
      <4> QED BY <2>0, <2>1, <2>2
    <3>2. buf[i + x] = acc[j]
      <4>1. buf[i + x] = acc[(m - n) + (i + x)]
        BY <3>1 DEF EndOf
      <4> QED BY <3>1, <4>1
    <3>3. a[j] = acc[j]
      <4> HIDE DEF j
      <4> QED BY <1>3, <2>1, <3>1
    <3>4. b[i] = buf[i + x]
      BY <1>6, <2>2
    <3> QED BY <3>2, <3>3, <3>4
  <2>3. CASE ~(i <= n - x)
    <3>1. ~(j <= m) /\ j - m = i - (n - x)
      <4> HIDE DEF n, m, o, j
      <4> QED BY <2>0, <2>1, <2>3
    <3>2. a[j] = s[j - m]
      <4> HIDE DEF j
      <4> QED BY <1>3, <2>1, <3>1
    <3>3. b[i] = s[i - (n - x)]
      BY <1>6, <2>3
    <3> QED BY <3>1, <3>2, <3>3
  <2> QED BY <2>2, <2>3
<1>8. Len(b) <= Len(a)
  BY <1>1, <1>3, <1>5 DEF EndOf
<1>9. EndOf(b, a)
  BY <1>7, <1>8 DEF EndOf
<1> QED BY <1>3, <1>5, <1>9

\* A queue that loses its first element.
LEMMA EndTail ==
  ASSUME NEW S, NEW acc \in Seq(S), NEW buf \in Seq(S), EndOf(buf, acc), buf # <<>>
  PROVE  /\ EndOf(Tail(buf), acc) /\ Len(Tail(buf)) = Len(buf) - 1 /\ Tail(buf) \in Seq(S)
         /\ Len(buf) \in Nat \ {0} /\ \A i \in 1..(Len(buf) - 1) : Tail(buf)[i] = buf[i + 1]
<1> DEFINE t == Tail(buf)
<1>1. /\ Len(acc) \in Nat /\ Len(buf) \in Nat \ {0} /\ t \in Seq(S) /\ Len(t) = Len(buf) - 1
      /\ \A i \in 1..(Len(buf) - 1) : t[i] = buf[i + 1]
  BY EmptySeq, HeadTailProperties
<1> HIDE DEF t
<1>2. ASSUME NEW i \in 1..Len(t) PROVE t[i] = acc[(Len(acc) - Len(t)) + i]
  <2>1. i + 1 \in 1..Len(buf) /\ (Len(acc) - Len(buf)) + (i + 1) = (Len(acc) - Len(t)) + i
    BY <1>1
  <2>2. buf[i + 1] = acc[(Len(acc) - Len(buf)) + (i + 1)]
    BY <2>1 DEF EndOf
  <2> QED BY <1>1, <2>1, <2>2
<1>3. EndOf(t, acc)
  BY <1>1, <1>2 DEF EndOf
<1> QED BY <1>1, <1>3 DEF t

\* Nothing is the end of everything.
LEMMA EndEmpty ==
  ASSUME NEW S, NEW acc \in Seq(S)
  PROVE  EndOf(<<>>, acc)
<1> DEFINE e == <<>>
<1>1. Len(e) = 0 /\ Len(acc) \in Nat
  OBVIOUS
<1> HIDE DEF e
<1> QED BY <1>1 DEF EndOf, e

\* The elements of a sequence with s behind it.
LEMMA RangeConcat ==
  ASSUME NEW S, NEW acc \in Seq(S), NEW s \in Seq(S), NEW a, a = acc \o s
  PROVE  Range(a) = Range(acc) \cup Range(s)
<1>1. /\ Len(acc) \in Nat /\ Len(s) \in Nat /\ a \in Seq(S) /\ Len(a) = Len(acc) + Len(s)
      /\ DOMAIN acc = 1..Len(acc) /\ DOMAIN s = 1..Len(s) /\ DOMAIN a = 1..Len(a)
      /\ \A i \in 1..(Len(acc) + Len(s)) : a[i] = IF i <= Len(acc) THEN acc[i] ELSE s[i - Len(acc)]
  BY ConcatProperties
<1>2. ASSUME NEW m \in Range(a) PROVE m \in Range(acc) \cup Range(s)
  <2>1. PICK i \in 1..Len(a) : m = a[i]
    BY <1>1, <1>2 DEF Range
  <2>2. CASE i <= Len(acc)
    <3>1. i \in DOMAIN acc /\ m = acc[i]
      BY <1>1, <2>1, <2>2
    <3> QED BY <3>1 DEF Range
  <2>3. CASE ~(i <= Len(acc))
    <3>1. i - Len(acc) \in DOMAIN s /\ m = s[i - Len(acc)]
      BY <1>1, <2>1, <2>3
    <3> QED BY <3>1 DEF Range
  <2> QED BY <2>2, <2>3
<1>3. ASSUME NEW m \in Range(acc) PROVE m \in Range(a)
  <2>1. PICK i \in 1..Len(acc) : m = acc[i]
    BY <1>1, <1>3 DEF Range
  <2>2. i \in DOMAIN a /\ a[i] = m
    BY <1>1, <2>1
  <2> QED BY <2>2 DEF Range
<1>4. ASSUME NEW m \in Range(s) PROVE m \in Range(a)
  <2>1. PICK i \in 1..Len(s) : m = s[i]
    BY <1>1, <1>4 DEF Range
  <2> DEFINE j == i + Len(acc)
  <2>2. j \in 1..Len(a) /\ ~(j <= Len(acc)) /\ j - Len(acc) = i
    BY <1>1
  <2> HIDE DEF j
  <2>3. j \in DOMAIN a /\ a[j] = m
    BY <1>1, <2>1, <2>2
  <2> QED BY <2>3 DEF Range
<1> QED BY <1>2, <1>3, <1>4

\* New elements keep a sequence free of repetitions.
LEMMA InjectiveConcat ==
  ASSUME NEW S, NEW acc \in Seq(S), NEW s \in Seq(S), NEW a, a = acc \o s,
         IsInjective(acc), IsInjective(s), Range(acc) \cap Range(s) = {}
  PROVE  IsInjective(a)
<1>1. /\ Len(acc) \in Nat /\ Len(s) \in Nat /\ Len(a) = Len(acc) + Len(s)
      /\ DOMAIN acc = 1..Len(acc) /\ DOMAIN s = 1..Len(s) /\ DOMAIN a = 1..Len(a)
      /\ \A i \in 1..(Len(acc) + Len(s)) : a[i] = IF i <= Len(acc) THEN acc[i] ELSE s[i - Len(acc)]
  BY ConcatProperties
<1>2. \A i \in 1..Len(acc) : acc[i] \in Range(acc)
  BY <1>1 DEF Range
<1>3. \A i \in 1..Len(s) : s[i] \in Range(s)
  BY <1>1 DEF Range
<1>4. SUFFICES ASSUME NEW i \in 1..Len(a), NEW j \in 1..Len(a), a[i] = a[j], i <= j PROVE i = j
  <2>1. \A i, j \in DOMAIN a : a[i] = a[j] => i = j
    BY <1>1, <1>4, SMTT(30)
  <2> QED BY <2>1 DEF IsInjective
<1>5. CASE j <= Len(acc)
  <2>1. a[i] = acc[i] /\ a[j] = acc[j] /\ i \in DOMAIN acc /\ j \in DOMAIN acc
    BY <1>1, <1>4, <1>5
  <2> QED BY <1>4, <2>1 DEF IsInjective
<1>6. CASE i <= Len(acc) /\ ~(j <= Len(acc))
  <2>1. a[i] = acc[i] /\ a[j] = s[j - Len(acc)] /\ i \in 1..Len(acc) /\ j - Len(acc) \in 1..Len(s)
    BY <1>1, <1>6
  <2> QED BY <1>2, <1>3, <1>4, <2>1
<1>7. CASE ~(i <= Len(acc))
  <2>1. /\ a[i] = s[i - Len(acc)] /\ a[j] = s[j - Len(acc)]
        /\ i - Len(acc) \in DOMAIN s /\ j - Len(acc) \in DOMAIN s
    BY <1>1, <1>4, <1>7
  <2>2. i - Len(acc) = j - Len(acc)
    BY <1>4, <2>1 DEF IsInjective
  <2> QED BY <1>1, <2>2
<1> QED BY <1>1, <1>5, <1>6, <1>7

-----------------------------------------------------------------------------
(* How senders move the queue.                                             *)

\* Fresh, once the step that offers the messages is taken.
FreshThen(p, s) == /\ IsInjective(s)
                   /\ \A m \in Range(s) : /\ m[1] = p /\ m[2] <= sent'[p]
                                          /\ m \notin Range(accepted)

\* s is put behind k, which is what is left of the queue without its first x.
Sends(p, s, x, k) ==
  /\ s \in Seq(Message) /\ Len(s) >= 1 /\ k \in Seq(Message) /\ x \in 0..Len(buffer)
  /\ Len(k) = Len(buffer) - x /\ \A i \in 1..(Len(buffer) - x) : k[i] = buffer[i + x]
  /\ buffer' = k \o s /\ accepted' = accepted \o s
  /\ displaced' = displaced \cup {buffer[i] : i \in 1..x}
  /\ call' = [call EXCEPT ![p] = Idle]
  /\ closed => call[p].op = "send"

\* The messages are told of, or waited with, and not yet sent.
Stays(p) ==
  /\ UNCHANGED <<buffer, accepted, displaced>>
  /\ \/ call' = [call EXCEPT ![p] = Idle]
     \/ \E kind, s : /\ FreshThen(p, s)
                     /\ call' = [call EXCEPT ![p] = [op |-> "send", kind |-> kind, items |-> s]]

SenderMove(p) ==
  /\ Stays(p) \/ \E s, x, k : FreshThen(p, s) /\ Sends(p, s, x, k)
  /\ UNCHANGED <<usage, closed, first_message_is_stale, delivered, cancelled>>
  /\ sent' \in [Senders -> Int] /\ sent[p] <= sent'[p]
  /\ \A q \in Senders : q # p => sent'[q] = sent[q]

\* The next messages of a sender differ from all it has offered.
LEMMA NextAreFresh ==
  ASSUME TypeOK, AcceptedOnce, NEW p \in Senders, NEW n \in Nat,
         sent' = [sent EXCEPT ![p] = @ + n]
  PROVE  FreshThen(p, NextMessages(p, n))
<1> DEFINE s == NextMessages(p, n)
<1>1. sent[p] \in Nat /\ sent'[p] = sent[p] + n
  BY MessageAssumption DEF TypeOK
<1>2. DOMAIN s = 1..n /\ \A i \in 1..n : s[i] = <<p, sent[p] + i>>
  BY DEF NextMessages
<1> HIDE DEF s
<1>3. IsInjective(s)
  <2>1. \A i, j \in 1..n : s[i] = s[j] => i = j
    BY <1>1, <1>2
  <2> QED BY <1>2, <2>1 DEF IsInjective
<1>4. ASSUME NEW m \in Range(s)
      PROVE  m[1] = p /\ m[2] <= sent'[p] /\ m \notin Range(accepted)
  <2>1. PICK i \in 1..n : m = <<p, sent[p] + i>>
    BY <1>2, <1>4 DEF Range
  <2>2. m[1] = p /\ m[2] = sent[p] + i
    BY <2>1
  <2>3. m \in Range(accepted) => m[2] <= sent[p]
    BY <2>2 DEF AcceptedOnce
  <2> QED BY <1>1, <2>2, <2>3
<1> QED BY <1>3, <1>4 DEF FreshThen, s

\* A send that fits displaces nothing.
LEMMA FitsSends ==
  ASSUME TypeOK, NEW p \in Senders, NEW kind, NEW s \in Seq(Message), NEW type,
         SendFits(p, kind, type, s), ~closed \/ call[p].op = "send", Len(s) >= 1
  PROVE  Sends(p, s, 0, buffer) /\ UNCHANGED <<closed, first_message_is_stale>>
<1>1. buffer \in Seq(Message) /\ Len(buffer) \in Nat
  BY DEF TypeOK
<1>2. /\ buffer' = buffer \o s /\ accepted' = accepted \o s /\ displaced' = displaced
      /\ call' = [call EXCEPT ![p] = Idle] /\ UNCHANGED <<closed, first_message_is_stale>>
  BY DEF SendFits, Enqueue, Returns
<1>3. displaced' = displaced \cup {buffer[i] : i \in 1..0}
  BY <1>2
<1>4. 0 \in 0..Len(buffer) /\ Len(buffer) = Len(buffer) - 0
      /\ \A i \in 1..(Len(buffer) - 0) : buffer[i] = buffer[i + 0]
  BY <1>1
<1> QED BY <1>1, <1>2, <1>3, <1>4 DEF Sends

\* A send that is forced displaces the first messages.
LEMMA ForcedSendsMove ==
  ASSUME TypeOK, NEW p \in Senders, NEW kind, NEW s, Offered(kind, s),
         SendForced(p, kind, s), ~closed
  PROVE  /\ \E x, k : Sends(p, s, x, k)
         /\ UNCHANGED <<closed, first_message_is_stale>>
<1> DEFINE x == Len(s) - (usage.limit - Len(buffer))
           k == SubSeq(buffer, x + 1, Len(buffer))
           dropped == SubSeq(buffer, 1, x)
<1>1. /\ usage.limit \in Nat /\ buffer \in Seq(Message) /\ s \in Seq(Message)
      /\ usage.limit # 0
  BY UsageNumbers DEF TypeOK, Offered, SendForced, HasRoom
<1>2. Len(buffer) \in Nat /\ Len(s) \in Nat /\ Len(s) <= usage.limit /\ Len(s) >= 1
  BY <1>1 DEF Offered
<1>3. x \in 1..Len(buffer)
  <2>1. ~(usage.limit - Len(buffer) >= Len(s))
    BY DEF SendForced, HasRoom
  <2> QED BY <1>1, <1>2, <2>1
<1>4. /\ buffer' = k \o s /\ accepted' = accepted \o s
      /\ call' = [call EXCEPT ![p] = Idle]
      /\ UNCHANGED <<closed, first_message_is_stale>>
      /\ displaced' = displaced \cup Range(dropped)
  BY DEF SendForced, Enqueue, Returns
<1>5. /\ k \in Seq(Message) /\ Len(k) = Len(buffer) - x
      /\ \A i \in 1..(Len(buffer) - x) : k[i] = buffer[i + x]
  <2>1. x \in 0..Len(buffer)
    BY <1>2, <1>3
  <2> HIDE DEF x
  <2> QED BY <1>1, <2>1, EndKept
<1>6. DOMAIN dropped = 1..x /\ \A i \in 1..x : dropped[i] = buffer[i]
  <2>1. dropped \in Seq(Message) /\ Len(dropped) = x /\ \A i \in 1..x : dropped[i] = buffer[i]
    BY <1>1, <1>2, <1>3, SubSeqProperties
  <2> HIDE DEF dropped
  <2> QED BY <2>1
<1> HIDE DEF k, dropped, x
<1>7. Range(dropped) = {buffer[i] : i \in 1..x}
  BY <1>6 DEF Range
<1>8. x \in 0..Len(buffer)
  BY <1>2, <1>3
<1>9. Sends(p, s, x, k)
  BY <1>1, <1>2, <1>4, <1>5, <1>7, <1>8 DEF Sends
<1> QED BY <1>4, <1>9

\* A step of a sender moves the queue in one of those ways.
LEMMA SendersMove ==
  ASSUME TypeOK, WaitingSends, AcceptedOnce, NEW p \in Senders, SenderStep(p)
  PROVE  SenderMove(p)
<1>0. sent \in [Senders -> 0..MaxSent] /\ MaxSent \in Nat
  BY MessageAssumption DEF TypeOK
<1>1. CASE ResumeSend(p)
  <2> DEFINE kind == call[p].kind
             s == call[p].items
  <2>1. call[p].op = "send" /\ call[p] \in Call
    BY <1>1 DEF ResumeSend, TypeOK, Threads
  <2>2. s \in Seq(Message) /\ Len(s) >= 1
    BY <2>1, UsageNumbers DEF Call, Idle, WaitingSends
  <2>3. UNCHANGED <<sent, usage, delivered, cancelled>>
    BY <1>1 DEF ResumeSend, SenderStep
  <2>4. FreshThen(p, s)
    BY <2>1, <2>3 DEF FreshThen, AcceptedOnce, Fresh
  <2>5. SendFits(p, kind, "BlockUntilSent", s) \/ SendBlocked(p, kind, s)
    BY <1>1 DEF ResumeSend
  <2>6. /\ sent' \in [Senders -> Int] /\ sent[p] <= sent'[p]
        /\ \A q \in Senders : q # p => sent'[q] = sent[q]
    BY <1>0, <2>3
  <2> HIDE DEF kind, s
  <2>7. CASE SendFits(p, kind, "BlockUntilSent", s)
    BY <2>1, <2>2, <2>3, <2>4, <2>6, <2>7, FitsSends DEF SenderMove
  <2>8. CASE SendBlocked(p, kind, s)
    BY <2>3, <2>4, <2>6, <2>8 DEF SenderMove, Stays, SendBlocked
  <2> QED BY <2>5, <2>7, <2>8
<1>2. ASSUME NEW kind \in {"one", "batch"}, NEW type \in usage.sends,
             NEW n \in 1..usage.batch, Send(p, kind, type, n)
      PROVE  SenderMove(p)
  <2> DEFINE s == NextMessages(p, n)
  <2>1. /\ call[p] = Idle /\ kind = "one" => n = 1
        /\ sent[p] + n <= MaxSent /\ sent' = [sent EXCEPT ![p] = @ + n]
        /\ UNCHANGED <<usage, delivered, cancelled>>
    BY <1>2 DEF Send, SenderStep
  <2>2. n \in Nat /\ n >= 1 /\ n <= usage.batch /\ usage.limit \in Nat
    BY UsageNumbers
  <2>3. s \in Seq(Message) /\ Len(s) = n
    BY <1>2, NewMessages DEF Send
  <2>4. FreshThen(p, s)
    BY <2>1, <2>2, NextAreFresh
  <2>5. ASSUME ~Impossible(kind, s), SendForced(p, kind, s)
        PROVE  Offered(kind, s)
    <3>1. kind = "one" => n = 1
      BY <1>2 DEF Send
    <3> QED BY <2>2, <2>3, <2>5, <3>1 DEF Offered, Impossible, SendForced, HasRoom
  <2>6. /\ sent' \in [Senders -> Int] /\ sent[p] <= sent'[p]
        /\ \A q \in Senders : q # p => sent'[q] = sent[q]
    <3>1. sent' = [sent EXCEPT ![p] = @ + n]
      BY <1>2 DEF Send
    <3> QED BY <1>0, <2>2, <3>1
  <2>7. UNCHANGED <<usage, delivered, cancelled>>
    BY <1>2 DEF Send, SenderStep
  <2> HIDE DEF s
  <2>8. ASSUME NEW r, SendAnswered(p, r)
        PROVE  SenderMove(p)
    BY <2>6, <2>7, <2>8 DEF SenderMove, Stays, SendAnswered, Returns, queue
  <2>9. CASE ~closed /\ SendFits(p, kind, type, s)
    BY <2>2, <2>3, <2>4, <2>6, <2>7, <2>9, FitsSends DEF SenderMove
  <2>10. CASE SendBlocked(p, kind, s)
    BY <2>4, <2>6, <2>7, <2>10 DEF SenderMove, Stays, SendBlocked
  <2>11. CASE ~closed /\ ~Impossible(kind, s) /\ SendForced(p, kind, s)
    BY <2>4, <2>5, <2>6, <2>7, <2>11, ForcedSendsMove DEF SenderMove
  <2> QED BY <1>2, <2>8, <2>9, <2>10, <2>11 DEF Send, s
<1> QED BY <1>1, <1>2 DEF SenderStep

-----------------------------------------------------------------------------
(* How readers move the queue.                                             *)

\* No reader is given any message, or one is given the first that no reader was
\* given or has gone.
Passes ==
  \/ /\ delivered' = delivered
     /\ \A i \in DOMAIN accepted : i <= Done <=> i <= Done'
  \/ \E q \in DOMAIN accepted :
       /\ q <= Done' /\ ~(q <= Done)
       /\ delivered' = Append(delivered, accepted[q])
       /\ \A i \in DOMAIN accepted : i <= Done' <=> i <= Done \/ i = q

ReaderMove(c) ==
  /\ Passes /\ StaleIsThere'
  /\ buffer' \in Seq(Message) /\ EndOf(buffer', accepted) /\ Before <= Before'
  /\ UNCHANGED <<usage, closed, sent, accepted, displaced, cancelled>>
  /\ \A p \in Senders : call'[p] = call[p]

\* Whether a reader begins by discarding is whether the first message is held;
\* no other one waits unless messages do not get stale.
LEMMA PassPhases ==
  ASSUME TypeOK, ReadersRead, StaleIsThere, OneStaleReader,
         NEW c \in usage.readers, ReceiverStep(c)
  PROVE  /\ \E phase \in {"discard", "fetch"}, type \in usage.reads, consume \in usage.consumes :
              ReadPass(c, phase, type, consume) /\ (phase = "discard" <=> Held = 1)
         /\ usage' = usage /\ c \in Receivers /\ c \in Threads
         /\ \/ usage.consumes = {"AndRemove"}
            \/ \A d \in Receivers : d # c => call[d].op # "read"
<1>1. c \in Receivers /\ c \in Threads /\ usage' = usage
  BY UsageNumbers DEF ReceiverStep, Threads
<1>2. ASSUME usage.consumes # {"AndRemove"}, NEW d \in Receivers, d # c PROVE call[d].op # "read"
  <2>1. Cardinality(usage.readers) = 1
    BY <1>2 DEF OneStaleReader
  <2>2. IsFiniteSet(usage.readers)
    BY UsageNumbers, WaitersFinite, FS_Subset
  <2>3. PICK e : usage.readers = {e}
    BY <2>1, <2>2, FS_Singleton
  <2> QED BY <1>2, <2>3 DEF ReadersRead
<1>3. \A d \in Receivers : d # c => (Fetching(d) => usage.consumes = {"AndRemove"})
  BY <1>2 DEF Fetching
<1>4. usage.consumes = {"AndRemove"} => ~first_message_is_stale /\ Held = 0
  BY DEF StaleIsThere, Held
<1>5. CASE ResumeRead(c)
  <2>1. call[c].op = "read" /\ call[c] \in Call
    BY <1>1, <1>5 DEF ResumeRead, TypeOK
  <2>2. /\ call[c].phase \in {"discard", "fetch"} /\ call[c].type \in usage.reads
        /\ call[c].consume \in usage.consumes
    BY <2>1 DEF Call, Idle
  <2>3. ReadPass(c, call[c].phase, call[c].type, call[c].consume)
    BY <1>5 DEF ResumeRead
  <2>4. call[c].phase = "discard" => Held = 1
    <3>1. call[c].phase = "discard" => ~Fetching(c)
      BY DEF Fetching
    <3>2. call[c].phase = "discard" => first_message_is_stale
      BY <1>1, <2>1, <3>1 DEF StaleIsThere
    <3> QED BY <1>3, <1>4, <3>1, <3>2 DEF Held
  <2>5. call[c].phase = "fetch" => Held # 1
    BY <1>1, <2>1 DEF Held, Fetching
  <2> QED BY <1>1, <1>2, <2>2, <2>3, <2>4, <2>5
<1>6. ASSUME NEW type \in usage.reads, NEW consume \in usage.consumes, Read(c, type, consume)
      PROVE  \E phase \in {"discard", "fetch"} :
               ReadPass(c, phase, type, consume) /\ (phase = "discard" <=> Held = 1)
  <2>1. ~Fetching(c)
    BY <1>6 DEF Read, Fetching, Idle
  <2>2. Held = 1 <=> first_message_is_stale
    BY <1>3, <1>4, <2>1 DEF Held
  <2> QED BY <1>6, <2>2 DEF Read
<1> QED BY <1>1, <1>2, <1>5, <1>6 DEF ReceiverStep

\* What a pass leaves when it is given a message.
LEMMA DeliversMoves ==
  ASSUME TypeOK, EndOf(buffer, accepted), StaleIsThere, OneStaleReader,
         NEW c \in Receivers, NEW n \in {0, 1}, NEW rest, NEW consume \in usage.consumes,
         \/ usage.consumes = {"AndRemove"}
         \/ \A d \in Receivers : d # c => call[d].op # "read",
         Held \in {0, 1}, n = Held, rest \in Seq(Message), Len(rest) = Len(buffer) - n,
         EndOf(rest, accepted), ReadDelivers(c, rest, n, consume),
         UNCHANGED <<usage, closed, sent, accepted, displaced, cancelled>>
  PROVE  ReaderMove(c)
<1>1. /\ buffer \in Seq(Message) /\ accepted \in Seq(Message) /\ Len(buffer) \in Nat
      /\ Len(accepted) \in Nat /\ Len(buffer) <= Len(accepted) /\ Len(rest) \in Nat \ {0}
      /\ DOMAIN accepted = 1..Len(accepted) /\ rest # <<>>
      /\ call \in [Threads -> Call] /\ c \in Threads /\ Senders \subseteq Threads
      /\ c \notin Senders
  BY EmptySeq, MessageAssumption DEF TypeOK, EndOf, ReadDelivers, Threads
<1>2. /\ call' = [call EXCEPT ![c] = Idle] /\ rest # <<>>
      /\ buffer' = IF consume = "AndRemove" THEN Tail(rest) ELSE rest
      /\ delivered' = Append(delivered, Head(rest))
      /\ first_message_is_stale' = (consume = "WithoutRemoving")
      /\ UNCHANGED <<usage, closed, sent, accepted, displaced, cancelled>>
  BY DEF ReadDelivers, Returns
<1> DEFINE q == (Len(accepted) - Len(rest)) + 1
<1>3. Head(rest) = accepted[q] /\ q \in DOMAIN accepted
  <2>1. 1 \in 1..Len(rest) /\ rest[1] = Head(rest) /\ Len(rest) <= Len(accepted)
    BY <1>1 DEF EndOf
  <2>2. rest[1] = accepted[q]
    BY <2>1 DEF EndOf
  <2> QED BY <1>1, <2>1, <2>2
<1>4. consume \in {"WithoutRemoving", "AndRemove"}
  BY UsageNumbers
<1>5. /\ ~Fetching(c)' /\ call'[c] = Idle
      /\ \A d \in Threads : d # c => call'[d] = call[d]
  <2>1. call'[c] = Idle /\ \A d \in Threads : d # c => call'[d] = call[d]
    BY <1>1, <1>2
  <2> QED BY <2>1 DEF Fetching, Idle
<1>6. /\ consume = "WithoutRemoving" => \A d \in Receivers : call'[d].op # "read"
      /\ consume = "WithoutRemoving" => Held' = 1
      /\ consume = "AndRemove" => Held' = 0
  <2>1. consume = "WithoutRemoving" => \A d \in Receivers : call'[d].op # "read"
    BY <1>5 DEF Idle, Threads
  <2>2. consume = "WithoutRemoving" => \A d \in Receivers : ~Fetching(d)'
    BY <2>1 DEF Fetching
  <2> QED BY <1>2, <1>4, <2>1, <2>2 DEF Held
<1>7. /\ buffer' \in Seq(Message) /\ EndOf(buffer', accepted)
      /\ Len(buffer') = IF consume = "AndRemove" THEN Len(rest) - 1 ELSE Len(rest)
  <2>1. Tail(rest) \in Seq(Message) /\ EndOf(Tail(rest), accepted) /\ Len(Tail(rest)) = Len(rest) - 1
    BY <1>1, EndTail
  <2> QED BY <1>2, <2>1
<1>8. Done = q - 1 /\ Done' = q /\ Before <= Before'
  <2> DEFINE a == Len(accepted)
             r == Len(rest)
             b == Len(buffer)
             e == Len(buffer')
  <2>1. Before = a - b /\ Before' = a - e /\ Done = (a - b) + Held /\ Done' = (a - e) + Held'
    BY <1>2 DEF Before, Done
  <2>2. /\ a \in Nat /\ r \in Nat /\ b \in Nat /\ r = b - n /\ n = Held
        /\ e = IF consume = "AndRemove" THEN r - 1 ELSE r
    BY <1>1, <1>7
  <2>3. q = (a - r) + 1
    OBVIOUS
  <2> HIDE DEF a, r, b, e, q
  <2> QED BY <1>4, <1>6, <2>1, <2>2, <2>3
<1>9. Passes
  <2>1. q \in Int /\ \A i \in DOMAIN accepted : i \in Int
    BY <1>1, <1>3
  <2> HIDE DEF q
  <2>2. q <= Done' /\ ~(q <= Done) /\ \A i \in DOMAIN accepted : i <= Done' <=> i <= Done \/ i = q
    BY <1>8, <2>1
  <2> QED BY <1>2, <1>3, <2>2 DEF Passes
<1>10. StaleIsThere'
  <2>1. usage.consumes = {"AndRemove"} => consume = "AndRemove"
    OBVIOUS
  <2>2. \A d \in Receivers : call'[d].op = "read" => d # c /\ call'[d] = call[d]
    BY <1>5 DEF Idle, Threads
  <2>3. \A d \in Receivers : call'[d].op = "read" => Fetching(d)'
    BY <2>2 DEF StaleIsThere, Fetching
  <2>4. ~(Held' = 1 /\ buffer' = <<>>)
    BY <1>2, <1>4, <1>6
  <2> QED BY <1>2, <2>1, <2>3, <2>4 DEF StaleIsThere
<1>11. \A p \in Senders : call'[p] = call[p]
  BY <1>1, <1>5
<1> QED BY <1>2, <1>7, <1>8, <1>9, <1>10, <1>11 DEF ReaderMove

\* What a pass leaves that is given nothing.
LEMMA EmptyMoves ==
  ASSUME TypeOK, EndOf(buffer, accepted), StaleIsThere, OneStaleReader,
         NEW c \in Receivers, NEW n \in {0, 1}, NEW phase \in {"discard", "fetch"},
         \/ usage.consumes = {"AndRemove"}
         \/ \A d \in Receivers : d # c => call[d].op # "read",
         Held \in {0, 1}, phase = "discard" <=> Held = 1,
         n = IF Held = 1 /\ buffer # <<>> THEN 1 ELSE 0,
         Len(buffer) - n = 0, buffer' = <<>>,
         \/ \E r, t : ReadFails(c, r, n, t)
         \/ \E r, pending : /\ pending.op = "read"
                            /\ pending.phase = IF n = 1 THEN "fetch" ELSE phase
                            /\ ReadWaits(c, r, n, pending),
         UNCHANGED <<usage, closed, sent, accepted, displaced, cancelled>>
  PROVE  ReaderMove(c)
<1>1. /\ buffer \in Seq(Message) /\ accepted \in Seq(Message) /\ Len(buffer) \in Nat
      /\ Len(accepted) \in Nat /\ Len(buffer) <= Len(accepted)
      /\ DOMAIN accepted = 1..Len(accepted)
      /\ call \in [Threads -> Call] /\ c \in Threads /\ Senders \subseteq Threads
      /\ c \notin Senders
  BY MessageAssumption DEF TypeOK, EndOf, Threads
<1>2. PICK x : /\ call' = [call EXCEPT ![c] = x] /\ delivered' = delivered
               /\ \/ ~first_message_is_stale' /\ x = Idle
                  \/ /\ first_message_is_stale' = first_message_is_stale /\ x.op = "read"
                     /\ x.phase = IF n = 1 THEN "fetch" ELSE phase
  BY DEF ReadFails, ReadWaits, Returns
<1>3. call'[c] = x /\ \A d \in Threads : d # c => call'[d] = call[d]
  BY <1>1, <1>2
<1>4. Len(buffer') = 0 /\ buffer' \in Seq(Message) /\ EndOf(buffer', accepted)
  BY <1>1, EndEmpty
<1>5. Held' \in {0, 1} /\ (Held' = 1 => Held = 1 /\ n = 0 /\ buffer = <<>>)
  <2>1. Held' = 1 => first_message_is_stale' /\ ~Fetching(c)'
    BY DEF Held
  <2>2. Held' = 1 => x.op = "read" /\ x.phase = "discard"
    BY <1>2, <1>3, <2>1 DEF Fetching
  <2>3. Held' = 1 => Held = 1 /\ n = 0
    BY <1>2, <2>2, <1>3 DEF Idle
  <2>4. Held' \in {0, 1}
    BY DEF Held
  <2> QED BY <2>3, <2>4
<1>6. /\ Before <= Before' /\ Passes
  <2> DEFINE a == Len(accepted)
             b == Len(buffer)
  <2>1. Before = a - b /\ Before' = a /\ Done = (a - b) + Held /\ Done' = a + Held'
    BY <1>1, <1>4 DEF Before, Done
  <2>2. a \in Nat /\ b \in Nat /\ b = n /\ (n = 1 => Held = 1)
    BY <1>1
  <2>3. \A i \in DOMAIN accepted : i \in Int /\ i <= a
    BY <1>1
  <2> HIDE DEF a, b
  <2>4. \A i \in DOMAIN accepted : i <= Done /\ i <= Done'
    BY <1>5, <2>1, <2>2, <2>3
  <2>5. Before <= Before'
    BY <2>1, <2>2
  <2> QED BY <1>2, <2>4, <2>5 DEF Passes
<1>7. StaleIsThere'
  <2>1. CASE usage.consumes = {"AndRemove"}
    <3>1. ~first_message_is_stale /\ Held = 0 /\ phase = "fetch"
      BY <2>1 DEF StaleIsThere, Held
    <3>2. ~first_message_is_stale'
      BY <1>2, <3>1
    <3>3. Held' # 1
      BY <3>2 DEF Held
    <3>4. ASSUME NEW d \in Receivers, call'[d].op = "read" PROVE Fetching(d)'
      <4>1. CASE d = c
        BY <1>2, <1>3, <3>1, <3>4, <4>1 DEF Fetching, Idle
      <4>2. CASE d # c
        <5>1. call'[d] = call[d]
          BY <1>3, <4>2 DEF Threads
        <5> QED BY <2>1, <3>4, <5>1 DEF StaleIsThere, Fetching
      <4> QED BY <4>1, <4>2
    <3> QED BY <3>2, <3>3, <3>4 DEF StaleIsThere
  <2>2. CASE usage.consumes # {"AndRemove"}
    <3>1. ASSUME NEW d \in Receivers, call'[d].op = "read", ~Fetching(d)'
          PROVE  first_message_is_stale'
      <4>1. d = c
        BY <1>3, <2>2, <3>1 DEF Threads
      <4>2. x.op = "read" /\ x.phase # "fetch"
        BY <1>3, <3>1, <4>1 DEF Fetching
      <4>3. Held = 1 /\ first_message_is_stale' = first_message_is_stale
        BY <1>2, <4>2 DEF Idle
      <4> QED BY <4>3 DEF Held
    <3>2. Held' = 1 => closed' /\ TRUE \in usage'.closes
      BY <1>5 DEF StaleIsThere
    <3> QED BY <2>2, <3>1, <3>2 DEF StaleIsThere
  <2> QED BY <2>1, <2>2
<1>8. \A p \in Senders : call'[p] = call[p]
  BY <1>1, <1>3
<1> QED BY <1>4, <1>6, <1>7, <1>8 DEF ReaderMove

\* A step of a reader moves the queue in one of those ways.
LEMMA ReadersMove ==
  ASSUME TypeOK, ReadersRead, EndOf(buffer, accepted), StaleIsThere, OneStaleReader,
         NEW c \in usage.readers, ReceiverStep(c)
  PROVE  ReaderMove(c)
<1>1. PICK phase \in {"discard", "fetch"}, type \in usage.reads, consume \in usage.consumes :
        ReadPass(c, phase, type, consume) /\ (phase = "discard" <=> Held = 1)
  BY PassPhases
<1>2. /\ usage' = usage /\ c \in Receivers
      /\ \/ usage.consumes = {"AndRemove"}
         \/ \A d \in Receivers : d # c => call[d].op # "read"
  BY PassPhases
<1>3. buffer \in Seq(Message) /\ accepted \in Seq(Message) /\ Held \in {0, 1}
  BY DEF TypeOK, Held
<1> DEFINE discarding == phase = "discard" /\ buffer # <<>>
           rest == IF discarding THEN Tail(buffer) ELSE buffer
           n == IF discarding THEN 1 ELSE 0
           pending == [op |-> "read", type |-> type, consume |-> consume,
                       phase |-> IF discarding THEN "fetch" ELSE phase]
<1>4. /\ \/ ReadDelivers(c, rest, n, consume)
         \/ ReadWaits(c, rest, n, pending)
         \/ ReadFails(c, rest, n, type)
      /\ UNCHANGED <<closed, sent, accepted, displaced, cancelled>>
  BY <1>1 DEF ReadPass
<1>5. /\ rest \in Seq(Message) /\ EndOf(rest, accepted) /\ Len(rest) = Len(buffer) - n
      /\ n \in {0, 1} /\ n = (IF Held = 1 /\ buffer # <<>> THEN 1 ELSE 0)
  <2>1. CASE discarding
    BY <1>1, <1>3, <2>1, EndTail
  <2>2. CASE ~discarding
    BY <1>1, <1>3, <2>2
  <2> QED BY <2>1, <2>2
<1>6. rest # <<>> => n = Held
  <2>1. buffer = <<>> => rest = <<>>
    OBVIOUS
  <2> QED BY <1>3, <1>5, <2>1
<1>7. pending.op = "read" /\ pending.phase = IF n = 1 THEN "fetch" ELSE phase
  BY <1>5
<1> HIDE DEF discarding, rest, n, pending
<1>8. CASE ReadDelivers(c, rest, n, consume)
  <2>1. n = Held
    BY <1>6, <1>8 DEF ReadDelivers
  <2> QED BY <1>2, <1>3, <1>4, <1>5, <1>8, <2>1, DeliversMoves
<1>9. CASE ReadWaits(c, rest, n, pending) \/ ReadFails(c, rest, n, type)
  <2>1. rest = <<>> /\ buffer' = <<>>
    BY <1>9 DEF ReadWaits, ReadFails
  <2>2. Len(buffer) - n = 0
    BY <1>5, <2>1
  <2>3. \/ \E r, t : ReadFails(c, r, n, t)
        \/ \E r, e : /\ e.op = "read" /\ e.phase = IF n = 1 THEN "fetch" ELSE phase
                     /\ ReadWaits(c, r, n, e)
    BY <1>7, <1>9
  <2> QED BY <1>1, <1>2, <1>3, <1>4, <1>5, <2>1, <2>2, <2>3, EmptyMoves
<1> QED BY <1>4, <1>8, <1>9

-----------------------------------------------------------------------------
(* Messages are accepted once.                                             *)

LEMMA AcceptedOnceSending ==
  ASSUME TypeOK, AcceptedOnce, NEW p \in Senders, SenderMove(p)
  PROVE  AcceptedOnce'
<1>1. /\ call \in [Threads -> Call] /\ p \in Threads /\ Senders \subseteq Threads
      /\ accepted \in Seq(Message) /\ sent \in [Senders -> Int]
      /\ sent' \in [Senders -> Int] /\ sent[p] <= sent'[p]
      /\ \A q \in Senders : q # p => sent'[q] = sent[q]
      /\ \A m \in Message : m[1] \in Senders /\ m[2] \in Int
  BY MessageAssumption DEF TypeOK, Threads, SenderMove, Message
<1>2. \A m \in Range(accepted) : m \in Message /\ m[2] <= sent'[m[1]]
  <2>1. ASSUME NEW m \in Range(accepted) PROVE m \in Message /\ m[2] <= sent'[m[1]]
    <3>1. m[2] <= sent[m[1]]
      BY DEF AcceptedOnce
    <3>2. PICK i \in DOMAIN accepted : m = accepted[i]
      BY DEF Range
    <3>3. m \in Message
      <4>1. accepted \in Seq(Message)
        BY DEF TypeOK
      <4> QED BY <3>2, <4>1
    <3>4. m[1] \in Senders /\ m[2] \in Int
      BY <1>1, <3>3
    <3>5. sent[m[1]] <= sent'[m[1]] /\ sent[m[1]] \in Int /\ sent'[m[1]] \in Int
      <4> DEFINE q == m[1]
      <4>1. q \in Senders /\ sent[q] \in Int /\ sent'[q] \in Int
        BY <1>1, <3>4
      <4>2. q = p \/ sent'[q] = sent[q]
        BY <1>1, <4>1
      <4> HIDE DEF q
      <4>3. sent[q] <= sent'[q]
        BY <1>1, <4>1, <4>2
      <4> QED BY <4>1, <4>3 DEF q
    <3>6. m[2] <= sent'[m[1]]
      <4> DEFINE a == m[2]
                 b == sent[m[1]]
                 d == sent'[m[1]]
      <4>1. a \in Int /\ b \in Int /\ d \in Int /\ a <= b /\ b <= d
        BY <3>1, <3>4, <3>5
      <4>2. a <= d
        <5> HIDE DEF a, b, d
        <5> QED BY <4>1
      <4> QED BY <4>2
    <3> QED BY <3>3, <3>6
  <2> QED BY <2>1
<1>3. CASE Stays(p)
  <2>1. PICK x : /\ call' = [call EXCEPT ![p] = x]
                 /\ \/ x.op # "send"
                    \/ FreshThen(p, x.items)
    <3>1. CASE call' = [call EXCEPT ![p] = Idle]
      <4> DEFINE y == Idle
      <4>1. y.op # "send" /\ call' = [call EXCEPT ![p] = y]
        BY <3>1 DEF Idle
      <4> HIDE DEF y
      <4> QED BY <4>1
    <3>2. ASSUME NEW kind, NEW s, FreshThen(p, s),
                 call' = [call EXCEPT ![p] = [op |-> "send", kind |-> kind, items |-> s]]
          PROVE  \E x : /\ call' = [call EXCEPT ![p] = x]
                        /\ x.op # "send" \/ FreshThen(p, x.items)
      <4> DEFINE y == [op |-> "send", kind |-> kind, items |-> s]
      <4>1. y.items = s /\ call' = [call EXCEPT ![p] = y]
        BY <3>2
      <4> HIDE DEF y
      <4> QED BY <3>2, <4>1
    <3> QED BY <1>3, <3>1, <3>2 DEF Stays
  <2>2. accepted' = accepted
    BY <1>3 DEF Stays
  <2>3. ASSUME NEW q \in Senders, call'[q].op = "send" PROVE Fresh(q, call[q].items)'
    <3>1. CASE q = p
      BY <1>1, <2>1, <2>2, <2>3, <3>1 DEF Fresh, FreshThen
    <3>2. CASE q # p
      <4>1. call'[q] = call[q] /\ sent'[q] = sent[q]
        BY <1>1, <2>1, <3>2
      <4> QED BY <2>2, <2>3, <4>1 DEF AcceptedOnce, Fresh
    <3> QED BY <3>1, <3>2
  <2> QED BY <1>2, <2>2, <2>3 DEF AcceptedOnce
<1>4. ASSUME NEW w, NEW x, NEW k, FreshThen(p, w), Sends(p, w, x, k)
      PROVE  AcceptedOnce'
  <2>1. /\ w \in Seq(Message) /\ accepted' = accepted \o w
        /\ call' = [call EXCEPT ![p] = Idle]
    BY <1>4 DEF Sends
  <2>2. Range(accepted') = Range(accepted) \cup Range(w)
    <3> DEFINE a == accepted'
    <3>1. a = accepted \o w
      BY <2>1
    <3> HIDE DEF a
    <3>2. Range(a) = Range(accepted) \cup Range(w)
      <4>1. accepted \in Seq(Message) /\ w \in Seq(Message)
        BY <1>1, <2>1
      <4>2. \A y \in Seq(Message), z \in Seq(Message) : \A e :
              e = y \o z => Range(e) = Range(y) \cup Range(z)
        BY RangeConcat, Zenon
      <4> QED BY <3>1, <4>1, <4>2
    <3> QED BY <3>2 DEF a
  <2>3. IsInjective(accepted')
    <3>1. Range(accepted) \cap Range(w) = {} /\ IsInjective(w) /\ IsInjective(accepted)
      BY <1>4 DEF FreshThen, AcceptedOnce
    <3> QED BY <1>1, <2>1, <3>1, InjectiveConcat
  <2>4. ASSUME NEW m \in Range(accepted') PROVE m[2] <= sent'[m[1]]
    BY <1>2, <1>4, <2>2 DEF FreshThen
  <2>5. ASSUME NEW q \in Senders, call'[q].op = "send" PROVE Fresh(q, call[q].items)'
    <3>1. q # p
      BY <1>1, <2>1, <2>5 DEF Idle
    <3>2. call'[q] = call[q] /\ sent'[q] = sent[q]
      BY <1>1, <2>1, <3>1
    <3>3. Fresh(q, call[q].items)
      BY <2>5, <3>2 DEF AcceptedOnce
    <3>4. \A m \in Range(call[q].items) : m \notin Range(w)
      BY <1>4, <3>1, <3>3 DEF Fresh, FreshThen
    <3> QED BY <2>2, <3>2, <3>3, <3>4 DEF Fresh
  <2> QED BY <2>3, <2>4, <2>5 DEF AcceptedOnce
<1> QED BY <1>3, <1>4 DEF SenderMove

LEMMA AcceptedOnceUntouched ==
  ASSUME AcceptedOnce, UNCHANGED <<accepted, sent>>, \A p \in Senders : call'[p] = call[p]
  PROVE  AcceptedOnce'
BY DEF AcceptedOnce, Fresh

-----------------------------------------------------------------------------
(* Messages are read in order.                                             *)

\* Nothing is read, and what is done with stays that, while more may be accepted.
LEMMA OrderExtended ==
  ASSUME ReadInOrder, delivered' = delivered, IsInjective(accepted'),
         \A i \in DOMAIN accepted : i \in DOMAIN accepted' /\ accepted'[i] = accepted[i],
         \A i \in DOMAIN accepted : i <= Done => i <= Done'
  PROVE  ReadInOrder'
<1>1. ASSUME NEW k \in DOMAIN delivered
      PROVE  \E i \in DOMAIN accepted' : i <= Done' /\ delivered'[k] = accepted'[i]
  <2>1. PICK i \in DOMAIN accepted : i <= Done /\ delivered[k] = accepted[i]
    BY DEF ReadInOrder
  <2> QED BY <2>1
<1>2. ASSUME NEW i \in DOMAIN accepted', NEW j \in DOMAIN accepted',
             NEW k \in DOMAIN delivered, NEW l \in DOMAIN delivered,
             accepted'[i] = delivered[k], accepted'[j] = delivered[l], k < l
      PROVE  i < j
  <2>1. PICK m \in DOMAIN accepted : delivered[k] = accepted[m]
    BY DEF ReadInOrder
  <2>2. PICK n \in DOMAIN accepted : delivered[l] = accepted[n]
    BY DEF ReadInOrder
  <2>3. i = m /\ j = n
    BY <1>2, <2>1, <2>2 DEF IsInjective
  <2>4. m < n
    BY <1>2, <2>1, <2>2 DEF ReadInOrder
  <2> QED BY <2>3, <2>4
<1> QED BY <1>1, <1>2 DEF ReadInOrder

\* One more message is read.
LEMMA OrderAppended ==
  ASSUME ReadInOrder, delivered \in Seq(Message), accepted' = accepted, IsInjective(accepted),
         accepted \in Seq(Message), Done \in Int,
         NEW q \in DOMAIN accepted, q <= Done', ~(q <= Done),
         delivered' = Append(delivered, accepted[q]),
         \A i \in DOMAIN accepted : i <= Done => i <= Done'
  PROVE  ReadInOrder'
<1> DEFINE n == Len(delivered)
           d == delivered'
<1>1. /\ n \in Nat /\ DOMAIN delivered = 1..n /\ DOMAIN d = 1..(n + 1)
      /\ d[n + 1] = accepted[q] /\ \A k \in 1..n : d[k] = delivered[k]
      /\ \A i \in DOMAIN accepted : i \in Int
  OBVIOUS
<1> HIDE DEF n, d
<1>2. ASSUME NEW k \in DOMAIN d
      PROVE  \E i \in DOMAIN accepted : i <= Done' /\ d[k] = accepted[i]
  <2>1. CASE k \in 1..n
    BY <1>1, <2>1 DEF ReadInOrder
  <2>2. CASE k = n + 1
    BY <1>1, <2>2
  <2> QED BY <1>1, <2>1, <2>2
<1>3. ASSUME NEW i \in DOMAIN accepted, NEW j \in DOMAIN accepted,
             NEW k \in DOMAIN d, NEW l \in DOMAIN d,
             accepted[i] = d[k], accepted[j] = d[l], k < l
      PROVE  i < j
  <2>1. k \in 1..n /\ l \in 1..(n + 1)
    BY <1>1, <1>3
  <2>2. PICK e \in DOMAIN accepted : e <= Done /\ delivered[k] = accepted[e]
    BY <1>1, <2>1 DEF ReadInOrder
  <2>3. i = e
    BY <1>1, <1>3, <2>1, <2>2 DEF IsInjective
  <2>4. CASE l \in 1..n
    BY <1>1, <1>3, <2>1, <2>4, SMTT(30) DEF ReadInOrder
  <2>5. CASE l = n + 1
    <3>1. j = q
      BY <1>1, <1>3, <2>5 DEF IsInjective
    <3> QED BY <1>1, <2>2, <2>3, <3>1
  <2> QED BY <1>1, <2>1, <2>4, <2>5
<1> QED BY <1>2, <1>3 DEF ReadInOrder, d

-----------------------------------------------------------------------------
(* Losses are told.                                                        *)

\* The elements of a finite sequence are no more than its length, and as many if
\* none is there twice.
LEMMA Elements ==
  ASSUME NEW n \in Nat, NEW f, DOMAIN f = 1..n, f = [i \in 1..n |-> f[i]]
  PROVE  /\ IsFiniteSet({f[i] : i \in 1..n})
         /\ Cardinality({f[i] : i \in 1..n}) \in Nat
         /\ Cardinality({f[i] : i \in 1..n}) <= n
         /\ IsInjective(f) => Cardinality({f[i] : i \in 1..n}) = n
<1> DEFINE T == {f[i] : i \in 1..n}
<1>1. f \in Surjection(1..n, T)
  BY DEF Surjection
<1>2. IsFiniteSet(1..n) /\ Cardinality(1..n) = n
  BY FS_Interval
<1>3. /\ IsFiniteSet(T) /\ Cardinality(T) <= Cardinality(1..n)
      /\ Cardinality(T) = Cardinality(1..n) <=> f \in Injection(1..n, T)
  BY <1>1, <1>2, FS_Surjection
<1>4. Cardinality(T) \in Nat
  BY <1>3, FS_CardinalityType
<1>5. IsInjective(f) => f \in Injection(1..n, T)
  BY DEF IsInjective, Injection
<1> QED BY <1>2, <1>3, <1>4, <1>5

\* No more than the new ones are added.
LEMMA NoMoreThan ==
  ASSUME NEW A, NEW B, NEW Y, IsFiniteSet(A), IsFiniteSet(Y), B \subseteq A \cup Y
  PROVE  /\ Cardinality(A) \in Nat /\ Cardinality(B) \in Nat /\ Cardinality(Y) \in Nat
         /\ Cardinality(B) <= Cardinality(A) + Cardinality(Y)
<1>1. /\ IsFiniteSet(A \cup Y) /\ IsFiniteSet(A \cap Y)
      /\ Cardinality(A \cup Y) = Cardinality(A) + Cardinality(Y) - Cardinality(A \cap Y)
  <2>1. IsFiniteSet(A \cap Y)
    BY FS_Intersection
  <2>2. /\ IsFiniteSet(A \cup Y)
        /\ Cardinality(A \cup Y) = Cardinality(A) + Cardinality(Y) - Cardinality(A \cap Y)
    <3>1. \A S, T : IsFiniteSet(S) /\ IsFiniteSet(T) =>
            /\ IsFiniteSet(S \cup T)
            /\ Cardinality(S \cup T) = Cardinality(S) + Cardinality(T) - Cardinality(S \cap T)
      BY FS_Union
    <3> QED BY <3>1
  <2> QED BY <2>1, <2>2
<1>2. IsFiniteSet(B) /\ Cardinality(B) <= Cardinality(A \cup Y)
  BY <1>1, FS_Subset
<1>3. /\ Cardinality(A) \in Nat /\ Cardinality(B) \in Nat /\ Cardinality(Y) \in Nat
      /\ Cardinality(A \cap Y) \in Nat
  BY <1>1, <1>2, FS_CardinalityType
<1> QED BY <1>1, <1>2, <1>3

LEMMA MessagesFinite == IsFiniteSet(Message)
<1>1. IsFiniteSet(1..MaxSent) /\ IsFiniteSet(Senders)
  BY MessageAssumption, FS_Interval
<1> QED BY <1>1, FS_Product DEF Message

\* What is gone and displaced are finitely many messages.
LEMMA LossesFinite ==
  ASSUME TypeOK
  PROVE  /\ IsFiniteSet(Gone) /\ IsFiniteSet(displaced)
         /\ Cardinality(Gone) \in Nat /\ Cardinality(displaced) \in Nat
<1>1. accepted \in Seq(Message) /\ displaced \subseteq Message
  BY DEF TypeOK
<1>2. \A i \in DOMAIN accepted : accepted[i] \in Message
  BY <1>1
<1>3. Gone \subseteq Message
  BY <1>2 DEF Gone
<1> QED BY <1>1, <1>3, MessagesFinite, FS_Subset, FS_CardinalityType

\* No message is displaced, and none goes that was not gone.
LEMMA LossesUntouched ==
  ASSUME TypeOK, LossesTold, UNCHANGED <<usage, displaced, accepted>>,
         Before \in Int, Before' \in Int, Before <= Before', accepted \in Seq(Message),
         Gone' \subseteq Gone
  PROVE  LossesTold'
<1>1. Cardinality(Gone') \in Nat /\ Cardinality(Gone') <= Cardinality(Gone)
  BY LossesFinite, FS_Subset, FS_CardinalityType
<1>2. Cardinality(Gone) \in Nat /\ Cardinality(displaced) \in Nat
  BY LossesFinite
<1>3. StaleFlagHasItsMessage' => Cardinality(Gone') <= Cardinality(displaced')
  <2>1. StaleFlagHasItsMessage' <=> StaleFlagHasItsMessage
    BY DEF StaleFlagHasItsMessage
  <2>2. StaleFlagHasItsMessage => Cardinality(Gone) <= Cardinality(displaced)
    BY DEF LossesTold
  <2> DEFINE a == Cardinality(Gone)
             b == Cardinality(Gone')
             d == Cardinality(displaced)
  <2>3. a \in Nat /\ b \in Nat /\ d \in Nat /\ b <= a /\ Cardinality(displaced') = d
    BY <1>1, <1>2
  <2>4. StaleFlagHasItsMessage => a <= d
    BY <2>2
  <2>5. StaleFlagHasItsMessage => b <= d
    <3> HIDE DEF a, b, d
    <3> QED BY <2>3, <2>4
  <2> QED BY <2>1, <2>3, <2>5
<1>4. ASSUME NEW m \in displaced'
      PROVE  \E i \in DOMAIN accepted' : i <= Before' /\ m = accepted'[i]
  <2>1. PICK i \in DOMAIN accepted : i <= Before /\ m = accepted[i]
    BY <1>4 DEF LossesTold
  <2>2. i \in Int
    OBVIOUS
  <2>3. i <= Before'
    BY <2>1, <2>2
  <2> QED BY <2>1, <2>3
<1> QED BY <1>3, <1>4 DEF LossesTold

\* A forced send displaces x messages, and no more than x others are gone then.
LEMMA LossesSending ==
  ASSUME TypeOK, WaitingSends, AcceptedOnce, AcceptedOnce', EndOf(buffer, accepted),
         StaleIsThere, LossesTold, NEW p \in Senders,
         UNCHANGED <<usage, closed, first_message_is_stale, delivered, cancelled>>,
         NEW w \in Seq(Message), NEW x \in 0..Len(buffer), accepted' = accepted \o w,
         displaced' = displaced \cup {buffer[i] : i \in 1..x},
         closed => call[p].op = "send",
         Held' = Held, Held \in {0, 1}, Before' = Before + x
  PROVE  LossesTold'
<1> DEFINE L == Len(accepted)
           b == Len(buffer)
           X == {buffer[i] : i \in 1..x}
<1>1. /\ accepted \in Seq(Message) /\ buffer \in Seq(Message) /\ L \in Nat /\ b \in Nat /\ b <= L
      /\ DOMAIN accepted = 1..L /\ x \in Nat /\ x <= b /\ Before = L - b
  BY DEF TypeOK, EndOf, Before
<1>2. /\ DOMAIN accepted' = 1..(L + Len(w)) /\ Len(w) \in Nat
      /\ \A i \in 1..L : accepted'[i] = accepted[i]
  BY <1>1, ConcatProperties
<1>3. \A i \in 1..b : buffer[i] = accepted[Before + i] /\ Before + i \in 1..L
  BY <1>1 DEF EndOf
<1>4. Done = (L - b) + Held /\ Done' = Done + x
  BY <1>1 DEF Done
<1>5. ASSUME NEW m \in displaced'
      PROVE  \E i \in DOMAIN accepted' : i <= Before' /\ m = accepted'[i]
  <2>1. CASE m \in displaced
    <3>1. PICK i \in DOMAIN accepted : i <= Before /\ m = accepted[i]
      BY <2>1 DEF LossesTold
    <3>2. i \in DOMAIN accepted' /\ accepted'[i] = m /\ i \in Int
      BY <1>1, <1>2, <3>1
    <3>3. i <= Before'
      BY <1>1, <3>1, <3>2
    <3> QED BY <3>2, <3>3
  <2>2. CASE m \in X
    <3>1. PICK i \in 1..x : m = buffer[i]
      BY <2>2
    <3> DEFINE j == Before + i
    <3>2. i \in 1..b /\ j <= Before' /\ j \in 1..L
      BY <1>1, <1>3
    <3>3. m = accepted[j]
      BY <1>3, <3>1, <3>2
    <3> HIDE DEF j
    <3>4. j \in DOMAIN accepted' /\ accepted'[j] = m
      BY <1>1, <1>2, <3>2, <3>3
    <3> QED BY <3>2, <3>4
  <2> QED BY <1>5, <2>1, <2>2
<1>6. X \cap displaced = {}
  <2>1. ASSUME NEW i \in 1..x, buffer[i] \in displaced PROVE FALSE
    <3>1. PICK j \in DOMAIN accepted : j <= Before /\ buffer[i] = accepted[j]
      BY <2>1 DEF LossesTold
    <3>2. i \in 1..b
      BY <1>1
    <3>3. buffer[i] = accepted[Before + i] /\ Before + i \in DOMAIN accepted
      BY <1>1, <1>3, <3>2
    <3>4. j = Before + i
      BY <3>1, <3>3 DEF AcceptedOnce, IsInjective
    <3> QED BY <1>1, <3>1, <3>2, <3>4
  <2> QED BY <2>1
<1>7. IsFiniteSet(X) /\ Cardinality(X) = x
  <2> DEFINE f == [i \in 1..x |-> buffer[i]]
  <2>1. DOMAIN f = 1..x /\ f = [i \in 1..x |-> f[i]] /\ \A i \in 1..x : f[i] = buffer[i]
    OBVIOUS
  <2>2. IsInjective(f)
    <3>1. ASSUME NEW i \in 1..x, NEW j \in 1..x, buffer[i] = buffer[j] PROVE i = j
      <4>1. i \in 1..b /\ j \in 1..b
        BY <1>1
      <4>2. /\ accepted[Before + i] = accepted[Before + j]
            /\ Before + i \in DOMAIN accepted /\ Before + j \in DOMAIN accepted
        BY <1>1, <1>3, <3>1, <4>1
      <4>3. Before + i = Before + j
        BY <4>2 DEF AcceptedOnce, IsInjective
      <4> QED BY <1>1, <4>1, <4>3
    <3> QED BY <2>1, <3>1 DEF IsInjective
  <2>3. X = {f[i] : i \in 1..x}
    BY <2>1
  <2> HIDE DEF f, X
  <2> QED BY <1>1, <2>1, <2>2, <2>3, Elements, ZenonT(60)
<1>8. Cardinality(displaced') = Cardinality(displaced) + x
  <2>1. IsFiniteSet(displaced) /\ Cardinality(displaced) \in Nat
    BY LossesFinite
  <2>2. displaced \cap X = {} /\ Cardinality({}) = 0
    BY <1>6, FS_EmptySet
  <2>3. displaced' = displaced \cup X
    OBVIOUS
  <2> HIDE DEF X
  <2>4. Cardinality(displaced \cup X)
          = Cardinality(displaced) + Cardinality(X) - Cardinality(displaced \cap X)
    <3>1. \A S, T : IsFiniteSet(S) /\ IsFiniteSet(T) =>
            Cardinality(S \cup T) = Cardinality(S) + Cardinality(T) - Cardinality(S \cap T)
      BY FS_Union
    <3> QED BY <1>7, <2>1, <3>1
  <2>5. Cardinality(displaced \cup X) = Cardinality(displaced) + x - 0
    BY <1>7, <2>2, <2>4
  <2>6. Cardinality(displaced) + x - 0 = Cardinality(displaced) + x
    BY <1>1, <2>1
  <2>7. Cardinality(displaced') = Cardinality(displaced \cup X)
    BY <2>3
  <2> QED BY <2>5, <2>6, <2>7
<1>9. ASSUME StaleFlagHasItsMessage PROVE Cardinality(Gone') <= Cardinality(displaced')
  <2>1. Held = 1 => b >= 1
    <3>1. SUFFICES ASSUME Held = 1, b = 0 PROVE FALSE
      BY <1>1
    <3>2. buffer = <<>>
      BY <1>1, <3>1, EmptySeq
    <3>3. closed /\ TRUE \in usage.closes /\ usage.consumes # {"AndRemove"}
      <4>1. closed /\ TRUE \in usage.closes
        BY <3>1, <3>2 DEF StaleIsThere
      <4>2. first_message_is_stale
        BY <3>1 DEF Held
      <4> QED BY <4>1, <4>2 DEF StaleIsThere
    <3>4. "BlockUntilSent" \in usage.sends
      BY <3>3 DEF WaitingSends
    <3> QED BY <1>9, <3>3, <3>4 DEF StaleFlagHasItsMessage
  <2>2. Done <= L /\ Done \in Int
    BY <1>1, <1>4, <2>1
  <2> DEFINE g == [i \in 1..x |-> accepted'[Done + i]]
             Y == {g[i] : i \in 1..x}
  <2>3. Gone' \subseteq Gone \cup Y
    <3>1. SUFFICES ASSUME NEW m \in Gone', m \notin Gone PROVE m \in Y
      OBVIOUS
    <3>2. PICK j \in DOMAIN accepted' : j <= Done' /\ m = accepted'[j]
      BY <3>1 DEF Gone
    <3>3. m \notin Range(delivered) \cup cancelled
      BY <3>1 DEF Gone
    <3>4. ~(j <= Done)
      <4>1. SUFFICES ASSUME j <= Done PROVE FALSE
        OBVIOUS
      <4>2. j \in DOMAIN accepted /\ accepted[j] = m
        BY <1>1, <1>2, <2>2, <3>2, <4>1
      <4> QED BY <3>1, <3>3, <4>1, <4>2 DEF Gone
    <3>5. j - Done \in 1..x /\ Done + (j - Done) = j
      <4>1. j \in Int /\ j <= Done + x /\ ~(j <= Done)
        BY <1>2, <1>4, <3>2, <3>4
      <4>2. x \in Nat /\ Done \in Int
        BY <1>1, <2>2
      <4> DEFINE d == Done
      <4>3. d \in Int /\ j <= d + x /\ ~(j <= d)
        BY <4>1, <4>2
      <4>4. j - d \in 1..x /\ d + (j - d) = j
        <5> HIDE DEF d
        <5> QED BY <4>1, <4>2, <4>3
      <4> QED BY <4>4
    <3>6. g[j - Done] = m
      BY <3>2, <3>5
    <3> HIDE DEF g
    <3> QED BY <3>5, <3>6
  <2>4. IsFiniteSet(Y) /\ Cardinality(Y) <= x /\ Cardinality(Y) \in Nat
    <3>1. DOMAIN g = 1..x /\ g = [i \in 1..x |-> g[i]]
      OBVIOUS
    <3> HIDE DEF g
    <3> QED BY <1>1, <3>1, Elements
  <2> HIDE DEF Y
  <2>5. IsFiniteSet(Gone) /\ Cardinality(displaced) \in Nat
    BY LossesFinite
  <2>6. /\ Cardinality(Gone) \in Nat /\ Cardinality(Gone') \in Nat
        /\ Cardinality(Gone') <= Cardinality(Gone) + Cardinality(Y)
    BY <2>3, <2>4, <2>5, NoMoreThan
  <2>7. Cardinality(Gone) <= Cardinality(displaced)
    BY <1>9 DEF LossesTold
  <2> QED BY <1>1, <1>8, <2>4, <2>5, <2>6, <2>7
<1>10. StaleFlagHasItsMessage' <=> StaleFlagHasItsMessage
  BY DEF StaleFlagHasItsMessage
<1> QED BY <1>5, <1>9, <1>10 DEF LossesTold

-----------------------------------------------------------------------------
(* Every step.                                                             *)

\* What is done with does not shrink but by what was read, so that no more is gone.
LEMMA GoneKept ==
  ASSUME accepted' = accepted, cancelled \subseteq cancelled',
         Range(delivered) \subseteq Range(delivered'),
         \A i \in DOMAIN accepted : i <= Done' /\ ~(i <= Done) =>
           accepted[i] \in Range(delivered') \cup cancelled'
  PROVE  Gone' \subseteq Gone
BY DEF Gone

\* The numbers of a queue that is the end of what was accepted.
LEMMA QueueNumbers ==
  ASSUME TypeOK, EndOf(buffer, accepted)
  PROVE  /\ accepted \in Seq(Message) /\ buffer \in Seq(Message) /\ delivered \in Seq(Message)
         /\ Len(accepted) \in Nat /\ Len(buffer) \in Nat /\ Len(buffer) <= Len(accepted)
         /\ DOMAIN accepted = 1..Len(accepted) /\ Before = Len(accepted) - Len(buffer)
         /\ Before \in Int /\ Held \in {0, 1} /\ Done = Before + Held /\ Done \in Int
<1>1. accepted \in Seq(Message) /\ buffer \in Seq(Message) /\ delivered \in Seq(Message)
  BY DEF TypeOK
<1>2. Len(buffer) <= Len(accepted)
  BY DEF EndOf
<1>3. Held \in {0, 1}
  BY DEF Held
<1>4. Len(accepted) \in Nat /\ Len(buffer) \in Nat /\ DOMAIN accepted = 1..Len(accepted)
  BY <1>1
<1>5. Before = Len(accepted) - Len(buffer) /\ Done = Before + Held
  BY DEF Before, Done
<1>6. Before \in Int
  BY <1>4, <1>5
<1>7. Done \in Int
  BY <1>3, <1>5, <1>6
<1> QED BY <1>1, <1>2, <1>3, <1>4, <1>5, <1>6, <1>7

\* A step of a sender.
LEMMA FatesSending ==
  ASSUME TypeOK, WaitingSends, TypeOK', OneStaleReader, Fates, NEW p \in Senders, SenderStep(p)
  PROVE  Fates'
<1>1. AcceptedOnce /\ EndOf(buffer, accepted) /\ StaleIsThere /\ ReadInOrder /\ LossesTold
  BY DEF Fates
<1>2. SenderMove(p)
  BY <1>1, SendersMove
<1>3. AcceptedOnce'
  BY <1>1, <1>2, AcceptedOnceSending
<1>4. UNCHANGED <<usage, closed, first_message_is_stale, delivered, cancelled>>
  BY <1>2 DEF SenderMove
<1>5. \A c \in Receivers : call'[c] = call[c]
  <2>1. \A c \in Receivers : c \in Threads /\ c # p
    BY MessageAssumption DEF Threads
  <2>2. call \in [Threads -> Call]
    BY DEF TypeOK
  <2>3. \E y : call' = [call EXCEPT ![p] = y]
    BY <1>2 DEF SenderMove, Stays, Sends
  <2> QED BY <2>1, <2>2, <2>3
<1>6. Held' = Held /\ \A c \in Receivers : Fetching(c)' = Fetching(c)
  <2>1. \A c \in Receivers : Fetching(c)' = Fetching(c)
    BY <1>5 DEF Fetching
  <2> QED BY <1>4, <2>1 DEF Held
<1>7. CASE Stays(p)
  <2>1. UNCHANGED <<buffer, accepted, displaced>>
    BY <1>7 DEF Stays
  <2>2. Before' = Before /\ Done' = Done
    BY <1>6, <2>1 DEF Before, Done
  <2>3. StaleIsThere'
    BY <1>1, <1>4, <1>5, <1>6, <2>1 DEF StaleIsThere
  <2>4. ReadInOrder'
    BY <1>1, <1>4, <2>1, <2>2 DEF ReadInOrder
  <2>5. Gone' = Gone /\ (StaleFlagHasItsMessage' <=> StaleFlagHasItsMessage)
    BY <1>4, <2>1, <2>2 DEF Gone, StaleFlagHasItsMessage
  <2>6. LossesTold'
    BY <1>1, <2>1, <2>2, <2>5 DEF LossesTold
  <2>7. EndOf(buffer', accepted')
    BY <1>1, <2>1
  <2> QED BY <1>3, <2>3, <2>4, <2>6, <2>7 DEF Fates
<1>8. ASSUME NEW w, NEW x, NEW k, Sends(p, w, x, k)
      PROVE  Fates'
  <2> DEFINE a == accepted'
             b == buffer'
  <2>1. /\ w \in Seq(Message) /\ k \in Seq(Message) /\ x \in 0..Len(buffer)
        /\ Len(k) = Len(buffer) - x /\ \A i \in 1..(Len(buffer) - x) : k[i] = buffer[i + x]
        /\ b = k \o w /\ a = accepted \o w
        /\ displaced' = displaced \cup {buffer[i] : i \in 1..x}
        /\ closed => call[p].op = "send"
    BY <1>8 DEF Sends
  <2>2. /\ accepted \in Seq(Message) /\ buffer \in Seq(Message) /\ Len(accepted) \in Nat
        /\ Len(buffer) \in Nat /\ DOMAIN accepted = 1..Len(accepted)
        /\ Before = Len(accepted) - Len(buffer) /\ Held \in {0, 1} /\ Done = Before + Held
    BY <1>1, QueueNumbers
  <2>3. /\ a \in Seq(Message) /\ b \in Seq(Message)
        /\ Len(a) = Len(accepted) + Len(w) /\ Len(b) = (Len(buffer) - x) + Len(w)
        /\ EndOf(b, a)
    <3> HIDE DEF a, b
    <3>1. PutBehind(Message, accepted, buffer, w, x, k, a, b)
      BY <1>1, <2>1, <2>2 DEF PutBehind
    <3> HIDE DEF a, b
    <3> QED BY <3>1, EndPushed
  <2>4. Before' = Before + x
    <3>1. Before' = Len(a) - Len(b)
      BY DEF Before
    <3>2. x \in Nat /\ Len(w) \in Nat
      BY <2>1
    <3> HIDE DEF a, b
    <3> QED BY <2>2, <2>3, <3>1, <3>2
  <2>5. \A i \in DOMAIN accepted : i \in DOMAIN accepted' /\ accepted'[i] = accepted[i]
    <3>1. Len(w) \in Nat /\ DOMAIN accepted' = 1..(Len(accepted) + Len(w))
      BY <2>1, <2>3
    <3>2. \A i \in 1..Len(accepted) : accepted'[i] = accepted[i]
      BY <2>1, <2>2, ConcatProperties
    <3> QED BY <2>2, <3>1, <3>2
  <2>6. \A i \in DOMAIN accepted : i <= Done => i <= Done'
    <3>1. Done' = (Before + x) + Held
      BY <1>6, <2>4 DEF Done
    <3>2. x \in Nat
      BY <2>1
    <3> QED BY <2>2, <3>1, <3>2
  <2>7. ReadInOrder'
    BY <1>1, <1>3, <1>4, <2>5, <2>6, OrderExtended DEF AcceptedOnce
  <2>8. LossesTold'
    BY <1>1, <1>3, <1>4, <1>6, <2>1, <2>2, <2>4, LossesSending
  <2>9. Held' = 1 /\ buffer' = <<>> => closed' /\ TRUE \in usage'.closes
    <3>1. Len(w) >= 1 /\ Len(w) \in Nat /\ x \in Nat /\ x <= Len(buffer)
      BY <1>8, <2>1, <2>2 DEF Sends
    <3>2. Len(b) # 0
      BY <2>2, <2>3, <3>1
    <3> QED BY <3>2
  <2>10. StaleIsThere'
    BY <1>1, <1>4, <1>5, <1>6, <2>9 DEF StaleIsThere
  <2>11. EndOf(buffer', accepted')
    BY <2>3
  <2> QED BY <1>3, <2>7, <2>8, <2>10, <2>11 DEF Fates
<1> QED BY <1>2, <1>7, <1>8 DEF SenderMove

\* A step of a reader.
LEMMA FatesReading ==
  ASSUME TypeOK, ReadersRead, TypeOK', OneStaleReader, Fates,
         NEW c \in usage.readers, ReceiverStep(c)
  PROVE  Fates'
<1>1. AcceptedOnce /\ EndOf(buffer, accepted) /\ StaleIsThere /\ ReadInOrder /\ LossesTold
  BY DEF Fates
<1>2. ReaderMove(c)
  BY <1>1, ReadersMove
<1>3. /\ UNCHANGED <<usage, closed, sent, accepted, displaced, cancelled>>
      /\ \A p \in Senders : call'[p] = call[p]
      /\ Passes /\ StaleIsThere' /\ EndOf(buffer', accepted) /\ Before <= Before'
      /\ buffer' \in Seq(Message)
  BY <1>2 DEF ReaderMove
<1>4. /\ accepted \in Seq(Message) /\ delivered \in Seq(Message) /\ Before \in Int
      /\ Done \in Int /\ IsInjective(accepted)
  BY <1>1, QueueNumbers DEF AcceptedOnce
<1>5. AcceptedOnce'
  BY <1>1, <1>3, AcceptedOnceUntouched
<1>6. Before' \in Int
  BY <1>3, <1>4 DEF Before
<1>7. CASE delivered' = delivered /\ \A i \in DOMAIN accepted : i <= Done <=> i <= Done'
  <2>1. IsInjective(accepted')
        /\ \A i \in DOMAIN accepted : i \in DOMAIN accepted' /\ accepted'[i] = accepted[i]
    BY <1>3, <1>4
  <2>2. ReadInOrder'
    BY <1>1, <1>7, <2>1, OrderExtended
  <2>3. Gone' = Gone
    BY <1>3, <1>7 DEF Gone
  <2>4. LossesTold'
    BY <1>1, <1>3, <1>4, <1>6, <2>3, LossesUntouched
  <2> QED BY <1>3, <1>5, <2>2, <2>4 DEF Fates
<1>8. ASSUME NEW q \in DOMAIN accepted, q <= Done', ~(q <= Done),
             delivered' = Append(delivered, accepted[q]),
             \A i \in DOMAIN accepted : i <= Done' <=> i <= Done \/ i = q
      PROVE  Fates'
  <2>1. \A i \in DOMAIN accepted : i <= Done => i <= Done'
    BY <1>8
  <2>2. ReadInOrder'
    BY <1>1, <1>3, <1>4, <1>8, <2>1, OrderAppended
  <2>3. Range(delivered) \subseteq Range(delivered') /\ accepted[q] \in Range(delivered')
    <3> DEFINE n == Len(delivered)
               d == delivered'
    <3>1. /\ n \in Nat /\ DOMAIN delivered = 1..n /\ DOMAIN d = 1..(n + 1)
          /\ d[n + 1] = accepted[q] /\ \A k \in 1..n : d[k] = delivered[k]
      BY <1>4, <1>8
    <3> HIDE DEF n, d
    <3>2. \A k \in DOMAIN delivered : k \in DOMAIN d /\ d[k] = delivered[k]
      BY <3>1
    <3>3. n + 1 \in DOMAIN d
      BY <3>1
    <3>4. Range(delivered) \subseteq Range(d)
      BY <3>2 DEF Range
    <3>5. accepted[q] \in Range(d)
      BY <3>1, <3>3 DEF Range
    <3> QED BY <3>4, <3>5 DEF d
  <2>4. Gone' \subseteq Gone
    <3>1. \A i \in DOMAIN accepted : i <= Done' /\ ~(i <= Done) =>
            accepted[i] \in Range(delivered') \cup cancelled'
      BY <1>8, <2>3
    <3>2. cancelled \subseteq cancelled' /\ accepted' = accepted
      BY <1>3
    <3> QED BY <2>3, <3>1, <3>2, GoneKept
  <2>5. LossesTold'
    BY <1>1, <1>3, <1>4, <1>6, <2>4, LossesUntouched
  <2> QED BY <1>3, <1>5, <2>2, <2>5 DEF Fates
<1> QED BY <1>3, <1>7, <1>8 DEF Passes

\* close() keeps what is queued, or cancels it.
LEMMA FatesClosing ==
  ASSUME TypeOK, OneStaleReader, Fates, NEW cancel \in usage.closes, Close(cancel)
  PROVE  Fates'
<1>1. AcceptedOnce /\ EndOf(buffer, accepted) /\ StaleIsThere /\ ReadInOrder /\ LossesTold
  BY DEF Fates
<1>2. /\ closed' = TRUE /\ buffer' = (IF cancel THEN <<>> ELSE buffer)
      /\ cancelled' = (IF cancel THEN cancelled \cup Range(buffer) ELSE cancelled)
      /\ UNCHANGED <<usage, first_message_is_stale, call, sent, accepted, delivered, displaced>>
  BY DEF Close
<1>3. cancel \in BOOLEAN
  BY MessageAssumption DEF TypeOK, Usage
<1>4. AcceptedOnce'
  BY <1>1, <1>2, AcceptedOnceUntouched
<1>5. /\ accepted \in Seq(Message) /\ buffer \in Seq(Message) /\ Len(accepted) \in Nat
      /\ Len(buffer) \in Nat /\ Len(buffer) <= Len(accepted)
      /\ DOMAIN accepted = 1..Len(accepted) /\ Before = Len(accepted) - Len(buffer)
      /\ Before \in Int /\ Held \in {0, 1} /\ Done = Before + Held /\ Done \in Int
      /\ IsInjective(accepted)
  BY <1>1, QueueNumbers DEF AcceptedOnce
<1>6. EndOf(buffer', accepted') /\ Len(buffer') \in Nat /\ Len(buffer') <= Len(buffer)
  <2>1. CASE cancel
    <3>1. Len(buffer') = 0
      BY <1>2, <2>1
    <3> QED BY <1>2, <1>5, <2>1, <3>1, EndEmpty
  <2>2. CASE ~cancel
    BY <1>1, <1>2, <1>5, <2>2
  <2> QED BY <2>1, <2>2
<1>7. Held' = Held /\ \A c \in Receivers : Fetching(c)' = Fetching(c)
  <2>1. \A c \in Receivers : Fetching(c)' = Fetching(c)
    BY <1>2 DEF Fetching
  <2> QED BY <1>2, <2>1 DEF Held
<1>8. Before' \in Int /\ Before <= Before' /\ Done' = Before' + Held /\ Before' <= Len(accepted)
  <2>1. Before' = Len(accepted) - Len(buffer') /\ Done' = Before' + Held'
    BY <1>2 DEF Before, Done
  <2> QED BY <1>5, <1>6, <1>7, <2>1
<1>9. StaleIsThere'
  <2>1. Held' = 1 /\ buffer' = <<>> => closed' /\ TRUE \in usage'.closes
    <3>1. cancel => TRUE \in usage.closes
      BY <1>3
    <3> QED BY <1>1, <1>2, <1>7, <3>1 DEF StaleIsThere
  <2> QED BY <1>1, <1>2, <1>7, <2>1 DEF StaleIsThere
<1>10. ReadInOrder'
  <2>1. IsInjective(accepted')
        /\ \A i \in DOMAIN accepted : i \in DOMAIN accepted' /\ accepted'[i] = accepted[i]
    BY <1>2, <1>5
  <2>2. \A i \in DOMAIN accepted : i <= Done => i <= Done'
    BY <1>5, <1>8
  <2>3. delivered' = delivered
    BY <1>2
  <2> QED BY <1>1, <2>1, <2>2, <2>3, OrderExtended
<1>11. Gone' \subseteq Gone
  <2>1. ASSUME NEW i \in DOMAIN accepted, i <= Done', ~(i <= Done)
        PROVE  accepted[i] \in Range(delivered') \cup cancelled'
    <3>1. CASE ~cancel
      <4>1. Before' = Before
        BY <1>2, <3>1 DEF Before
      <4> QED BY <1>5, <1>8, <2>1, <4>1
    <3>2. CASE cancel
      <4> DEFINE j == i - Before
      <4>1. j \in 1..Len(buffer) /\ Before + j = i
        BY <1>5, <2>1
      <4>2. buffer[j] = accepted[Before + j]
        BY <1>1, <1>5, <4>1 DEF EndOf
      <4>3. j \in DOMAIN buffer
        BY <1>5, <4>1
      <4> HIDE DEF j
      <4>4. accepted[i] \in Range(buffer)
        BY <4>1, <4>2, <4>3 DEF Range
      <4> QED BY <1>2, <3>2, <4>4
    <3> QED BY <3>1, <3>2
  <2>2. Range(delivered) \subseteq Range(delivered') /\ cancelled \subseteq cancelled'
    BY <1>2
  <2>3. accepted' = accepted
    BY <1>2
  <2> QED BY <2>1, <2>2, <2>3, GoneKept
<1>12. LossesTold'
  BY <1>1, <1>2, <1>5, <1>8, <1>11, LossesUntouched
<1> QED BY <1>4, <1>6, <1>9, <1>10, <1>12 DEF Fates

LEMMA FatesInit == Init => Fates
<1> SUFFICES ASSUME Init PROVE Fates
  OBVIOUS
<1> DEFINE e == <<>>
<1>1. /\ buffer = e /\ accepted = e /\ delivered = e /\ displaced = {} /\ cancelled = {}
      /\ first_message_is_stale = FALSE
      /\ \A t \in Threads : call[t] = Idle
  BY DEF Init
<1>2. DOMAIN e = {} /\ Len(e) = 0 /\ Range(e) = {}
  BY DEF Range
<1> HIDE DEF e
<1>3. /\ \A p \in Senders : call[p].op # "send"
      /\ \A c \in Receivers : call[c].op # "read"
  BY <1>1 DEF Idle, Threads
<1>4. Held = 0
  BY <1>1 DEF Held
<1>5. AcceptedOnce
  BY <1>1, <1>2, <1>3 DEF AcceptedOnce, IsInjective
<1>6. EndOf(buffer, accepted)
  BY <1>1, <1>2 DEF EndOf
<1>7. StaleIsThere
  BY <1>1, <1>3, <1>4 DEF StaleIsThere
<1>8. ReadInOrder
  BY <1>1, <1>2 DEF ReadInOrder
<1>9. Gone = {}
  BY <1>1, <1>2 DEF Gone
<1>10. LossesTold
  BY <1>1, <1>9, FS_EmptySet DEF LossesTold
<1> QED BY <1>5, <1>6, <1>7, <1>8, <1>10 DEF Fates

LEMMA FatesStep == IInv /\ IInv' /\ Fates /\ [Next]_vars => Fates'
<1> SUFFICES ASSUME IInv, IInv', Fates, [Next]_vars PROVE Fates'
  OBVIOUS
<1>1. TypeOK /\ WaitingSends /\ ReadersRead /\ TypeOK'
  BY DEF IInv
<1>2. usage' = usage
  BY DEF Next, SenderStep, ReceiverStep, Close, vars
<1>3. OneStaleReader' <=> OneStaleReader
  BY <1>2 DEF OneStaleReader
<1>4. SUFFICES ASSUME OneStaleReader PROVE Fates'
  BY <1>3 DEF Fates
<1>5. ASSUME NEW p \in Senders, SenderStep(p) PROVE Fates'
  BY <1>1, <1>4, <1>5, FatesSending
<1>6. ASSUME NEW c \in usage.readers, ReceiverStep(c) PROVE Fates'
  BY <1>1, <1>4, <1>6, FatesReading
<1>7. ASSUME NEW cancel \in usage.closes, Close(cancel) PROVE Fates'
  BY <1>1, <1>4, <1>7, FatesClosing
<1>8. CASE UNCHANGED vars
  <2>1. UNCHANGED <<usage, buffer, closed, first_message_is_stale, call, sent, accepted,
                    delivered, displaced, cancelled>>
    BY <1>8 DEF vars, queue, history
  <2>2. Before' = Before /\ Held' = Held /\ \A c \in Receivers : Fetching(c)' = Fetching(c)
    BY <2>1 DEF Before, Held, Fetching
  <2>3. Done' = Done
    BY <2>2 DEF Done
  <2>4. AcceptedOnce /\ EndOf(buffer, accepted) /\ StaleIsThere /\ ReadInOrder /\ LossesTold
    BY <1>4 DEF Fates
  <2>5. AcceptedOnce'
    BY <2>1, <2>4, AcceptedOnceUntouched
  <2>6. StaleIsThere' /\ EndOf(buffer', accepted')
    BY <2>1, <2>2, <2>4 DEF StaleIsThere
  <2>7. ReadInOrder'
    BY <2>1, <2>3, <2>4 DEF ReadInOrder
  <2>8. Gone' = Gone /\ (StaleFlagHasItsMessage' <=> StaleFlagHasItsMessage)
    BY <2>1, <2>3 DEF Gone, StaleFlagHasItsMessage
  <2>9. LossesTold'
    BY <2>1, <2>2, <2>4, <2>8 DEF LossesTold
  <2> QED BY <2>5, <2>6, <2>7, <2>9 DEF Fates
<1> QED BY <1>5, <1>6, <1>7, <1>8 DEF Next

LEMMA FatesAccount ==
  ASSUME TypeOK, Fates
  PROVE  MessagesAccountedFor
<1> SUFFICES ASSUME OneStaleReader PROVE MessagesAccountedFor
  BY DEF MessagesAccountedFor, DeliveredOnce, DeliveredInOrder, LossIsReportedToOneReader
<1>1. AcceptedOnce /\ EndOf(buffer, accepted) /\ StaleIsThere /\ ReadInOrder /\ LossesTold
  BY DEF Fates
<1>2. /\ accepted \in Seq(Message) /\ buffer \in Seq(Message) /\ Len(accepted) \in Nat
      /\ Len(buffer) \in Nat /\ DOMAIN accepted = 1..Len(accepted)
      /\ Before = Len(accepted) - Len(buffer) /\ Held \in {0, 1} /\ Done = Before + Held
      /\ delivered \in Seq(Message)
  BY <1>1, QueueNumbers
<1>3. DOMAIN delivered = 1..Len(delivered) /\ Len(delivered) \in Nat
  BY <1>2
<1>4. IsInjective(delivered)
  <2>1. ASSUME NEW k \in DOMAIN delivered, NEW l \in DOMAIN delivered,
               delivered[k] = delivered[l], k < l
        PROVE  FALSE
    <3>1. PICK i \in DOMAIN accepted : delivered[k] = accepted[i]
      BY <1>1 DEF ReadInOrder
    <3>2. i < i
      BY <1>1, <2>1, <3>1 DEF ReadInOrder
    <3>3. i \in Int
      BY <1>2
    <3> QED BY <3>2, <3>3
  <2>2. ASSUME NEW k \in DOMAIN delivered, NEW l \in DOMAIN delivered,
               delivered[k] = delivered[l]
        PROVE  k = l
    <3>1. k \in Int /\ l \in Int
      BY <1>3
    <3>2. k < l \/ l < k \/ k = l
      BY <3>1
    <3> QED BY <2>1, <2>2, <3>2
  <2> QED BY <2>2 DEF IsInjective
<1>5. ASSUME NEW i \in DOMAIN accepted, NEW j \in DOMAIN accepted,
             NEW k \in DOMAIN delivered, NEW l \in DOMAIN delivered,
             accepted[i] = delivered[k], accepted[j] = delivered[l], k < l
      PROVE  i <= j
  <2>1. i < j
    BY <1>1, <1>5 DEF ReadInOrder
  <2>2. i \in Int /\ j \in Int
    BY <1>2
  <2> QED BY <2>1, <2>2
<1>6. ASSUME StaleFlagHasItsMessage PROVE Cardinality(Lost) <= Cardinality(displaced)
  <2>1. ASSUME NEW m \in Lost PROVE m \in Gone
    <3>1. PICK i \in DOMAIN accepted : m = accepted[i]
      BY <2>1 DEF Lost, Range
    <3>2. m \notin Range(delivered) \cup cancelled /\ m \notin Range(buffer)
      BY <2>1 DEF Lost
    <3>3. i <= Done
      <4>1. SUFFICES ASSUME ~(i <= Done) PROVE FALSE
        OBVIOUS
      <4> DEFINE j == i - Before
      <4>2. j \in 1..Len(buffer) /\ Before + j = i
        BY <1>2, <4>1
      <4>3. buffer[j] = accepted[Before + j]
        BY <1>1, <1>2, <4>2 DEF EndOf
      <4>4. j \in DOMAIN buffer
        BY <1>2, <4>2
      <4> HIDE DEF j
      <4>5. m \in Range(buffer)
        BY <3>1, <4>2, <4>3, <4>4 DEF Range
      <4> QED BY <3>2, <4>5
    <3> QED BY <3>1, <3>2, <3>3 DEF Gone
  <2>2. IsFiniteSet(Gone) /\ Cardinality(Gone) \in Nat /\ Cardinality(displaced) \in Nat
    BY LossesFinite
  <2>3. Lost \in SUBSET Gone
    BY <2>1
  <2>4. IsFiniteSet(Lost) /\ Cardinality(Lost) <= Cardinality(Gone)
    BY <2>2, <2>3, FS_Subset
  <2>5. Cardinality(Lost) \in Nat
    BY <2>4, FS_CardinalityType
  <2>6. Cardinality(Gone) <= Cardinality(displaced)
    BY <1>1, <1>6 DEF LossesTold
  <2> QED BY <2>2, <2>4, <2>5, <2>6
<1>7. DeliveredOnce
  BY <1>4 DEF DeliveredOnce
<1>8. DeliveredInOrder
  BY <1>5 DEF DeliveredInOrder
<1>9. LossIsReportedToOneReader
  BY <1>6 DEF LossIsReportedToOneReader
<1> QED BY <1>7, <1>8, <1>9 DEF MessagesAccountedFor

\* For any number of senders, any limit, any size of batches and any mixture of queue
\* types, and however often the queue is forced, closed or cancelled: where one reader
\* at most leaves messages in the queue, no message is read twice, all are read in the
\* order in which they were accepted, and no more of them vanish unread than a
\* ForceSend has reported (send(), read(), close() and first_message_is_stale).
THEOREM EveryMessageHasOneFate == Spec => []MessagesAccountedFor
<1>1. IInv => TypeOK
  BY DEF IInv
<1>2. Spec => []IInv
  BY InitInvariant, StepInvariant, PTL DEF Spec
<1>3. Spec => []Fates
  BY <1>2, FatesInit, FatesStep, PTL DEF Spec
<1>4. TypeOK /\ Fates => MessagesAccountedFor
  BY FatesAccount
<1> QED BY <1>1, <1>2, <1>3, <1>4, PTL
=============================================================================
