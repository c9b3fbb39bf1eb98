----------------------- MODULE ThreadsafeBufferProofs -----------------------
(***************************************************************************)
(* io_threadsafe_buffer for any number of threads, any limit and any kind  *)
(* of program: no wakeup is lost, the registrations are those of the open  *)
(* guards, a program that takes everything gets it in order, and the end   *)
(* of the stream is final once every guard exists.                         *)
(***************************************************************************)
EXTENDS ThreadsafeBuffer, CircularBufferProofs, FiniteSetTheorems

Stored == Elem \cup {Moved}

LimitsUsed == {Limit} \cup usage.limits

-----------------------------------------------------------------------------
(* The operations on the buffer.                                           *)

\* What holds of the buffer at all times.
Sound(b, L) == /\ b \in Buffers(Stored, L) /\ Geometry(b)
               /\ ~b.closed /\ Live(b, Elem)

\* Reading leaves r of b.
Taken(r, b) == /\ r.limit = b.limit
               /\ r.size \in Nat /\ r.size <= b.size
               /\ b.size > 0 => r.size < b.size
               /\ \A i \in 1..r.size :
                    Contents(r)[i] = Contents(b)[b.size - r.size + i]

\* The sizes, and the elements waiting.
LEMMA SoundNumbers ==
  ASSUME NEW L, NEW b, Sound(b, L)
  PROVE  /\ b.size \in Nat /\ b.limit \in L
         /\ Contents(b) \in Seq(Elem) /\ Len(Contents(b)) = b.size
         /\ b.size = 0 => b.first = 0
  BY BufferNumbers, ContentsOfLive DEF Sound, Geometry

\* An empty vector holds no element, whatever the elements are.
LEMMA EmptyIsSound ==
  ASSUME NEW L, NEW b, Sound(b, L), NEW r \in Buffers(Stored, L),
         EmptiedFrom(r, b)
  PROVE  Sound(r, L) /\ Taken(r, b) /\ r.size = 0 /\ r.first = 0
<1>1. b.size \in Nat
  BY SoundNumbers
<1>2. Live(r, Elem)
  BY DEF Live, EmptiedFrom
<1> QED BY <1>1, <1>2 DEF Sound, Taken, EmptiedFrom

\* A write that is accepted appends, and does not make room.
LEMMA WriteIsSound ==
  ASSUME NEW L, NEW b, Sound(b, L), NEW s \in Seq(Elem), Accepts(b, s),
         L \subseteq Nat
  PROVE  /\ Sound(Written(b, s), L)
         /\ Written(b, s).limit = b.limit
         /\ Written(b, s).size = b.size + Len(s)
         /\ b.first = 0 => /\ Written(b, s).first = 0
                           /\ Contents(Written(b, s)) = Contents(b) \o s
<1> DEFINE r == Written(b, s)
<1>1. s \in Seq(Stored) /\ b.limit \in Nat /\ b.size \in Nat
  <2>1. s \in Seq(Stored)
    BY DEF Stored
  <2> QED BY <2>1, SoundNumbers
<1>2. r \in Buffers(Stored, L) /\ GrownBy(r, b, s)
  BY <1>1, WrittenGeometry DEF Sound
<1> HIDE DEF r
<1>3. Sound(r, L) /\ r.limit = b.limit /\ r.size = b.size + Len(s)
  BY <1>2 DEF GrownBy, Sound
<1>4. ASSUME b.first = 0
      PROVE  r.first = 0 /\ Contents(r) = Contents(b) \o s
  BY <1>1, <1>2, <1>4, GrownAppends DEF Sound
<1> QED BY <1>3, <1>4 DEF r

\* So what did not fit before does not fit afterwards.
LEMMA FullStaysFull ==
  ASSUME NEW b, NEW r, b.size \in Nat, r.size \in Nat, b.size <= r.size,
         r.limit = b.limit, b.limit \in Nat, ~b.closed,
         NEW s \in Seq(Elem), ~Accepts(b, s)
  PROVE  ~Accepts(r, s)
<1>1. /\ MaxSize(r) = MaxSize(b) /\ MaxSize(b) \in Nat
      /\ s # <<>> /\ Len(s) \in Nat /\ ~(Len(s) <= FreeSpace(b))
  BY BufferAssumption DEF MaxSize, Accepts
<1>2. ~(Len(s) <= FreeSpace(r))
  BY <1>1 DEF FreeSpace
<1> QED BY <1>1, <1>2 DEF Accepts

\* Every read takes something, if there is anything; a read of everything
\* leaves a buffer that starts over.
LEMMA ReadIsSound ==
  ASSUME NEW L, Sound(buf, L), NEW kind \in {"one", "upto", "all", "swap"},
         NEW r \in AfterRead(kind)
  PROVE  /\ Sound(r, L) /\ Taken(r, buf)
         /\ kind \in {"all", "swap"} => r.size = 0 /\ r.first = 0
<1>1. /\ buf \in Buffers(Stored, L) /\ Geometry(buf) /\ Live(buf, Elem)
      /\ ~buf.closed /\ Moved \in Stored
  BY DEF Sound, Stored
<1>2. PICK z \in Nat : z = buf.size
  BY SoundNumbers
<1>3. ASSUME NEW n \in Nat, n <= z, z > 0 => n > 0, r \in Consumed(buf, n, n)
      PROVE  Sound(r, L) /\ Taken(r, buf) /\ (n = z => r.size = 0 /\ r.first = 0)
  <2>1. r \in Buffers(Stored, L) /\ LeftBy(r, buf, n, n)
    <3>1. n <= buf.size /\ n <= n
      BY <1>2, <1>3
    <3> QED BY <1>1, <1>3, <3>1, ConsumedGeometry
  <2>2. r.size = z - n
    BY <1>2, <2>1 DEF LeftBy
  <2>3. Sound(r, L)
    <3>1. n <= buf.size /\ n <= n /\ buf.size \in Nat
      BY <1>2, <1>3
    <3>2. Live(r, Elem)
      BY <1>1, <1>3, <2>1, <3>1, LeftLive
    <3> QED BY <1>1, <2>1, <3>2 DEF Sound, LeftBy
  <2>4. Taken(r, buf)
    <3>1. \A i \in 1..r.size : Contents(r)[i] = Contents(buf)[n + i]
      BY <1>2, <1>3, <2>1, LeftRange
    <3>2. buf.size - r.size = n
      BY <1>2, <1>3, <2>2
    <3> QED BY <1>2, <1>3, <2>1, <2>2, <3>1, <3>2 DEF Taken, LeftBy
  <2>5. n = z => r.size = 0 /\ r.first = 0
    BY <1>3, <2>2, <2>3, SoundNumbers
  <2> QED BY <2>3, <2>4, <2>5
<1>4. CASE kind = "one"
  <2>1. r \in TakenOne(buf)
    BY <1>4 DEF AfterRead
  <2>2. CASE z = 0
    <3>1. r = buf
      BY <1>2, <2>1, <2>2 DEF TakenOne
    <3>2. Sound(r, L)
      BY <3>1
    <3>3. buf.size = 0 /\ r.size = 0 /\ r.limit = buf.limit
      BY <1>2, <2>2, <3>1
    <3>4. Taken(r, buf)
      BY <3>1, <3>3 DEF Taken
    <3> QED BY <1>4, <3>2, <3>4
  <2>3. CASE z # 0
    <3>1. r \in Consumed(buf, 1, 1) /\ 1 \in Nat /\ 1 <= z
      BY <1>2, <2>1, <2>3 DEF TakenOne
    <3> QED BY <1>3, <1>4, <3>1
  <2> QED BY <2>2, <2>3
<1>5. CASE kind = "upto"
  <2> DEFINE n == IF MaxBatch < buf.size THEN MaxBatch ELSE buf.size
  <2>1. r \in Consumed(buf, n, n)
    BY <1>5 DEF AfterRead
  <2>2. n \in Nat /\ n <= z /\ (z > 0 => n > 0)
    BY <1>2, ThreadAssumption
  <2> HIDE DEF n
  <2> QED BY <1>3, <1>5, <2>1, <2>2
<1>6. CASE kind = "all"
  <2>1. r \in Consumed(buf, z, z)
    BY <1>2, <1>6 DEF AfterRead
  <2> QED BY <1>3, <2>1
<1>7. CASE kind = "swap"
  <2>1. r \in Swapped(buf)
    BY <1>7 DEF AfterRead
  <2>2. r \in Buffers(Stored, L) /\ EmptiedFrom(r, buf)
    BY <1>1, <2>1, SwappedGeometry
  <2> QED BY <2>2, EmptyIsSound
<1> QED BY <1>4, <1>5, <1>6, <1>7

LEMMA ClearIsSound ==
  ASSUME NEW L, NEW b, Sound(b, L), NEW r \in Cleared(b)
  PROVE  Sound(r, L) /\ Taken(r, b) /\ r.size = 0 /\ r.first = 0
<1>1. r \in Buffers(Stored, L) /\ EmptiedFrom(r, b)
  BY ClearedGeometry DEF Sound
<1> QED BY <1>1, EmptyIsSound

-----------------------------------------------------------------------------
(* The calls.                                                              *)

ReadKinds == {"one", "upto", "all", "swap"}

LEMMA CallParts ==
  ASSUME NEW c \in Call
  PROVE  \/ c = Idle
         \/ c.op = "read" /\ c.kind \in usage.reads /\ c.items = <<>>
         \/ /\ c.op = "write" /\ c.kind \in {"single", "batch"}
            /\ c.items \in Seq(Elem)
<1>1. CASE c \in [op : {"idle"}, kind : {"none"}, items : {<<>>}]
  BY <1>1 DEF Idle
<1>2. CASE c \in [op : {"read"}, kind : usage.reads, items : {<<>>}]
  BY <1>2
<1>3. CASE c \in [op : {"write"}, kind : {"single", "batch"}, items : Seq(Elem)]
  BY <1>3
<1> QED BY <1>1, <1>2, <1>3 DEF Call

LEMMA CallsMade ==
  /\ Idle \in Call
  /\ \A kind \in usage.reads : [op |-> "read", kind |-> kind, items |-> <<>>] \in Call
  /\ \A kind \in {"single", "batch"}, s \in Seq(Elem) :
       [op |-> "write", kind |-> kind, items |-> s] \in Call
<1>1. Idle \in Call
  BY DEF Idle, Call
<1>2. ASSUME NEW kind \in usage.reads
      PROVE  [op |-> "read", kind |-> kind, items |-> <<>>] \in Call
  BY DEF Call
<1>3. ASSUME NEW kind \in {"single", "batch"}, NEW s \in Seq(Elem)
      PROVE  [op |-> "write", kind |-> kind, items |-> s] \in Call
  <2> SUFFICES [op |-> "write", kind |-> kind, items |-> s]
                 \in [op : {"write"}, kind : {"single", "batch"}, items : Seq(Elem)]
    BY DEF Call
  <2> QED OBVIOUS
<1> QED BY <1>1, <1>2, <1>3

\* The elements a producer offers are its own.
LEMMA OffersElements ==
  ASSUME NEW p \in Producers, NEW n \in Nat,
         sent \in [Producers -> 0..MaxSent], sent[p] + n <= MaxSent
  PROVE  NextItems(p, n) \in Seq(Elem) /\ Len(NextItems(p, n)) = n
<1>1. MaxSent \in Nat /\ sent[p] \in Nat
  BY ThreadAssumption
<1>2. \A i \in 1..n : sent[p] + i \in 1..MaxSent
  BY <1>1
<1>3. \A i \in 1..n : Element(p, sent[p] + i) \in Elem
  BY <1>2 DEF Element, Elem
<1> QED BY <1>3 DEF NextItems

-----------------------------------------------------------------------------
(* The inductive invariant, part by part.                                  *)

CallTypes == /\ call \in [Threads -> Call]
             /\ producer_wait \subseteq {p \in Producers : call[p].op = "write"}
             /\ consumer_wait \subseteq {c \in Consumers : call[c].op = "read"}
             /\ \A p \in Producers : call[p].op # "read"
             /\ \A c \in Consumers : call[c].op # "write"

GuardTypes == /\ producer_count \in Nat /\ consumer_count \in Nat
              /\ producer_registered \in BOOLEAN /\ consumer_registered \in BOOLEAN
              /\ guard \in [Threads -> {"none", "open", "closed"}]

HistoryTypes == /\ sent \in [Producers -> 0..MaxSent]
                /\ accepted \in Seq(Elem) /\ gone \in Seq(Elem)
                /\ ended \subseteq Consumers

Types == /\ usage \in Usages
         /\ Sound(buf, LimitsUsed)
         /\ CallTypes /\ GuardTypes /\ HistoryTypes

\* A write of a single element offers one.
SinglesAreSingle ==
  \A p \in Producers :
    call[p].op = "write" /\ call[p].kind = "single" => Len(call[p].items) = 1

\* Only a thread whose guard is open is inside a call.
BusyThreadsAreOpen == \A t \in Threads : call[t] # Idle => guard[t] = "open"

\* The flags remember that a guard was ever open, and in a program that
\* registers in time, no guard closes before all are open.
Registrations ==
  /\ producer_registered <=> \E p \in Producers : guard[p] # "none"
  /\ usage.early /\ (\E t \in Threads : guard[t] = "closed") =>
       \A t \in Threads : guard[t] # "none"

\* Who takes everything finds a buffer that starts at slot 0.
StartsOver == usage.reads \subseteq {"all", "swap"} => buf.first = 0

\* No element occurs twice.
Once(s) == \A i, j \in 1..Len(s) : s[i] = s[j] => i = j

\* The elements of s are producer p's own, with n[p] offered so far, and none
\* has been accepted.
New(p, s, n) ==
  /\ Once(s)
  /\ \A j \in 1..Len(s) : s[j][1] = p /\ s[j][2] <= n[p] /\ s[j] \notin Range(accepted)

\* Elements are numbered as they are offered, and accepted at most once.
AcceptedOnce ==
  /\ Once(accepted)
  /\ \A i \in 1..Len(accepted) : accepted[i][2] <= sent[accepted[i][1]]
  /\ \A p \in Producers : call[p].op = "write" => New(p, call[p].items, sent)

\* What was accepted is gone or waits in b.
Balance(a, g, b) == /\ Range(a) = Range(g) \cup Range(Contents(b))
                    /\ Len(a) = Len(g) + b.size

\* A consumer that saw the end of the stream saw it in a buffer that stays
\* empty.
EndIsSeen == usage.early /\ ended # {} => at_end

IInv == /\ Types
        /\ SinglesAreSingle /\ BusyThreadsAreOpen
        /\ CountsMatchGuards /\ Registrations
        /\ SleepingProducersMustWait /\ SleepingConsumersMustWait
        /\ StartsOver /\ FirstInFirstOut
        /\ AcceptedOnce /\ Balance(accepted, gone, buf)
        /\ EndIsSeen

-----------------------------------------------------------------------------
(* The steps, with what a call and its resumption have in common.          *)

\* What a call, or what is left of one, says of the step it takes.
WriteStep(p, kind, s) ==
  /\ kind = "single" => Len(s) = 1
  /\ guard[p] = "open" /\ p \notin producer_wait
  /\ WritePass(p, kind, s) \/ (WriteRefused(kind, s) /\ call[p] = Idle)
  /\ sent' \in [Producers -> 0..MaxSent]
  /\ \A q \in Producers : sent[q] <= sent'[q]
  /\ New(p, s, sent')
  /\ UNCHANGED <<usage, registration, gone, ended>>

ReadStep(c, kind) ==
  /\ guard[c] = "open" /\ c \notin consumer_wait
  /\ \/ buf.size = 0 /\ producers_available /\ ReadBlocked(c, kind)
     \/ /\ ReadDone(c, kind)
        /\ ended' = ended \/ (ended' = ended \cup {c} /\ at_end)
        /\ call[c] # Idle => buf.size > 0 \/ ~producers_available
  /\ UNCHANGED <<usage, registration, sent>>

\* The elements a producer offers next have not been accepted.
LEMMA OffersNew ==
  ASSUME AcceptedOnce, HistoryTypes, NEW p \in Producers, NEW n \in Nat,
         sent' = [sent EXCEPT ![p] = @ + n]
  PROVE  New(p, NextItems(p, n), sent')
<1> DEFINE s == NextItems(p, n)
<1>1. /\ sent[p] \in Nat /\ sent'[p] = sent[p] + n /\ Len(s) = n
      /\ \A j \in 1..n : s[j] = <<p, sent[p] + j>>
  BY ThreadAssumption DEF HistoryTypes, NextItems, Element
<1> HIDE DEF s
<1>2. \A j \in 1..n : s[j][1] = p /\ s[j][2] = sent[p] + j
  BY <1>1
<1>3. Once(s)
  BY <1>1, <1>2 DEF Once
<1>4. ASSUME NEW j \in 1..n, s[j] \in Range(accepted)
      PROVE  FALSE
  <2>1. PICK i \in 1..Len(accepted) : accepted[i] = s[j]
    <3>1. DOMAIN accepted = 1..Len(accepted)
      BY DEF HistoryTypes
    <3> QED BY <1>4, <3>1 DEF Range
  <2>2. sent[p] + j <= sent[p]
    BY <1>2, <2>1 DEF AcceptedOnce
  <2> QED BY <1>1, <2>2
<1> QED BY <1>1, <1>2, <1>3, <1>4 DEF New, s

LEMMA WritesAreSteps ==
  ASSUME IInv, NEW p \in Producers, UNCHANGED usage,
         \/ \E kind \in {"single", "batch"}, n \in 1..MaxBatch, wait \in BOOLEAN :
              Write(p, kind, n, wait)
         \/ ResumeWrite(p)
  PROVE  \E kind \in {"single", "batch"}, s \in Seq(Elem) : WriteStep(p, kind, s)
<1>1. /\ Types /\ SinglesAreSingle /\ BusyThreadsAreOpen /\ AcceptedOnce
      /\ p \in Threads /\ call[p] \in Call /\ sent \in [Producers -> 0..MaxSent]
  BY DEF IInv, Types, CallTypes, HistoryTypes, Threads
<1>2. ASSUME NEW kind \in {"single", "batch"}, NEW n \in 1..MaxBatch,
             NEW wait \in BOOLEAN, Write(p, kind, n, wait)
      PROVE  WriteStep(p, kind, NextItems(p, n)) /\ NextItems(p, n) \in Seq(Elem)
  <2> DEFINE s == NextItems(p, n)
  <2>1. /\ sent[p] + n <= MaxSent /\ n \in Nat /\ (kind = "single" => n = 1)
        /\ guard[p] = "open" /\ call[p] = Idle
        /\ sent' = [sent EXCEPT ![p] = @ + n]
        /\ UNCHANGED <<registration, gone, ended>>
    BY <1>2 DEF Write
  <2>2. s \in Seq(Elem) /\ Len(s) = n
    BY <1>1, <2>1, OffersElements
  <2>3. sent' \in [Producers -> 0..MaxSent]
    BY <1>1, <2>1, ThreadAssumption
  <2>4. p \notin producer_wait
    BY <1>1, <2>1 DEF Types, CallTypes, Idle
  <2>5. WritePass(p, kind, s) \/ WriteRefused(kind, s)
    BY <1>2 DEF Write, WritePass
  <2>6. \A q \in Producers : sent[q] <= sent'[q]
    BY <1>1, <2>1, ThreadAssumption
  <2>7. New(p, s, sent')
    BY <1>1, <2>1, OffersNew DEF Types
  <2> HIDE DEF s
  <2>8. WriteStep(p, kind, s)
    BY <2>1, <2>2, <2>3, <2>4, <2>5, <2>6, <2>7 DEF WriteStep
  <2> QED BY <2>2, <2>8 DEF s
<1>3. ASSUME ResumeWrite(p)
      PROVE  \E kind \in {"single", "batch"}, s \in Seq(Elem) : WriteStep(p, kind, s)
  <2>1. /\ call[p].op = "write" /\ p \notin producer_wait
        /\ WritePass(p, call[p].kind, call[p].items)
        /\ UNCHANGED <<registration, sent, gone, ended>>
    BY <1>3 DEF ResumeWrite
  <2>2. call[p].kind \in {"single", "batch"} /\ call[p].items \in Seq(Elem)
    BY <1>1, <2>1, CallParts DEF Idle
  <2>3. guard[p] = "open"
    BY <1>1, <2>1 DEF BusyThreadsAreOpen, Idle
  <2>4. call[p].kind = "single" => Len(call[p].items) = 1
    BY <1>1, <2>1 DEF SinglesAreSingle
  <2>5. New(p, call[p].items, sent)
    BY <1>1, <2>1 DEF AcceptedOnce
  <2>6. \A q \in Producers : sent[q] <= sent[q]
    BY <1>1
  <2>7. WriteStep(p, call[p].kind, call[p].items)
    BY <1>1, <2>1, <2>3, <2>4, <2>5, <2>6 DEF WriteStep
  <2> QED BY <2>2, <2>7
<1> QED BY <1>2, <1>3

LEMMA ReadsAreSteps ==
  ASSUME IInv, NEW c \in Consumers, UNCHANGED usage,
         \/ \E kind \in usage.reads, wait \in BOOLEAN : Read(c, kind, wait)
         \/ ResumeRead(c)
  PROVE  \E kind \in usage.reads : ReadStep(c, kind)
<1>1. /\ Types /\ BusyThreadsAreOpen /\ c \in Threads /\ call[c] \in Call
      /\ buf.size \in Nat
  BY SoundNumbers DEF IInv, Types, CallTypes, Threads
<1>2. ASSUME NEW kind, ReadPass(c, kind)
      PROVE  \/ buf.size = 0 /\ producers_available /\ ReadBlocked(c, kind)
             \/ /\ ReadDone(c, kind)
                /\ ended' = ended \/ (ended' = ended \cup {c} /\ at_end)
                /\ buf.size > 0 \/ ~producers_available
  BY <1>1, <1>2 DEF ReadPass, at_end
<1>3. ASSUME NEW kind \in usage.reads, NEW wait \in BOOLEAN, Read(c, kind, wait)
      PROVE  ReadStep(c, kind)
  <2>1. /\ guard[c] = "open" /\ call[c] = Idle
        /\ UNCHANGED <<registration, sent>>
    BY <1>3 DEF Read
  <2>2. c \notin consumer_wait
    BY <1>1, <2>1 DEF Types, CallTypes, Idle
  <2>3. CASE ReadPass(c, kind)
    BY <1>2, <2>1, <2>2, <2>3 DEF ReadStep
  <2>4. CASE ReadDone(c, kind) /\ UNCHANGED ended
    BY <2>1, <2>2, <2>4 DEF ReadStep
  <2> QED BY <1>3, <2>3, <2>4 DEF Read
<1>4. ASSUME ResumeRead(c)
      PROVE  \E kind \in usage.reads : ReadStep(c, kind)
  <2>1. /\ call[c].op = "read" /\ c \notin consumer_wait
        /\ ReadPass(c, call[c].kind)
        /\ UNCHANGED <<registration, sent>>
    BY <1>4 DEF ResumeRead
  <2>2. call[c].kind \in usage.reads
    BY <1>1, <2>1, CallParts DEF Idle
  <2>3. guard[c] = "open"
    BY <1>1, <2>1 DEF BusyThreadsAreOpen, Idle
  <2>4. ReadStep(c, call[c].kind)
    BY <1>2, <2>1, <2>3 DEF ReadStep
  <2> QED BY <2>2, <2>4
<1> QED BY <1>3, <1>4

Step == \/ UNCHANGED usage /\ \E p \in Producers : RegisterProducer(p)
        \/ UNCHANGED usage /\ \E p \in Producers : UnregisterProducer(p)
        \/ UNCHANGED usage /\ \E c \in Consumers : RegisterConsumer(c)
        \/ UNCHANGED usage /\ \E c \in Consumers : UnregisterConsumer(c)
        \/ \E p \in Producers, kind \in {"single", "batch"}, s \in Seq(Elem) :
             WriteStep(p, kind, s)
        \/ \E c \in Consumers, kind \in usage.reads : ReadStep(c, kind)
        \/ Clear
        \/ \E l \in usage.limits : SetMaxSize(l)
        \/ UNCHANGED vars

LEMMA StepCases == IInv /\ [Next]_vars => Step
<1> SUFFICES ASSUME IInv, [Next]_vars
             PROVE  Step
  OBVIOUS
<1>1. ASSUME NEW p \in Producers, ProducerStep(p)
      PROVE  Step
  <2>1. UNCHANGED usage
    BY <1>1 DEF ProducerStep
  <2>2. CASE RegisterProducer(p) \/ UnregisterProducer(p)
    BY <2>1, <2>2 DEF Step
  <2>3. CASE \/ \E kind \in {"single", "batch"}, n \in 1..MaxBatch, wait \in BOOLEAN :
                  Write(p, kind, n, wait)
             \/ ResumeWrite(p)
    BY <2>1, <2>3, WritesAreSteps DEF Step
  <2> QED BY <1>1, <2>2, <2>3 DEF ProducerStep
<1>2. ASSUME NEW c \in Consumers, ConsumerStep(c)
      PROVE  Step
  <2>1. UNCHANGED usage
    BY <1>2 DEF ConsumerStep
  <2>2. CASE RegisterConsumer(c) \/ UnregisterConsumer(c)
    BY <2>1, <2>2 DEF Step
  <2>3. CASE \/ \E kind \in usage.reads, wait \in BOOLEAN : Read(c, kind, wait)
             \/ ResumeRead(c)
    BY <2>1, <2>3, ReadsAreSteps DEF Step
  <2> QED BY <1>2, <2>2, <2>3 DEF ConsumerStep
<1>3. CASE Clear \/ (\E l \in usage.limits : SetMaxSize(l)) \/ UNCHANGED vars
  BY <1>3 DEF Step
<1>4. CASE Finished
  BY <1>4 DEF Finished, Step
<1> QED BY <1>1, <1>2, <1>3, <1>4 DEF Next

\* How the program uses the buffer never changes.
LEMMA SameUsage == Step => UNCHANGED usage
<1>1. ASSUME NEW p, NEW kind, NEW s, WriteStep(p, kind, s)
      PROVE  UNCHANGED usage
  BY <1>1 DEF WriteStep
<1>2. ASSUME NEW c, NEW kind, ReadStep(c, kind)
      PROVE  UNCHANGED usage
  BY <1>2 DEF ReadStep
<1>3. CASE Clear \/ (\E l \in usage.limits : SetMaxSize(l)) \/ UNCHANGED vars
  BY <1>3 DEF Clear, SetMaxSize, vars
<1> QED BY <1>1, <1>2, <1>3 DEF Step

LEMMA UsageParts ==
  ASSUME usage \in Usages
  PROVE  LimitsUsed \subseteq Nat /\ usage.reads \subseteq ReadKinds
  BY ThreadAssumption DEF Usage, LimitsUsed, ReadKinds

-----------------------------------------------------------------------------
(* What each step does to the buffer.                                      *)

LEMMA WriteEffect ==
  ASSUME Types, NEW p \in Producers, NEW kind, NEW s \in Seq(Elem),
         WriteStep(p, kind, s)
  PROVE  \/ /\ Accepts(buf, s) /\ accepted' = accepted \o s
            /\ Sound(buf', LimitsUsed)
            /\ buf'.limit = buf.limit /\ buf'.size = buf.size + Len(s)
            /\ buf.first = 0 => /\ buf'.first = 0
                                /\ Contents(buf') = Contents(buf) \o s
         \/ ~Accepts(buf, s) /\ buf' = buf /\ accepted' = accepted
<1>1. Sound(buf, LimitsUsed) /\ LimitsUsed \subseteq Nat
  BY UsageParts DEF Types
<1>2. CASE Accepts(buf, s) /\ buf' = Written(buf, s) /\ accepted' = accepted \o s
  <2>1. /\ Sound(Written(buf, s), LimitsUsed)
        /\ Written(buf, s).limit = buf.limit
        /\ Written(buf, s).size = buf.size + Len(s)
        /\ buf.first = 0 => /\ Written(buf, s).first = 0
                            /\ Contents(Written(buf, s)) = Contents(buf) \o s
    BY <1>1, <1>2, WriteIsSound
  <2> QED BY <1>2, <2>1
<1>3. CASE ~Accepts(buf, s) /\ buf' = buf /\ accepted' = accepted
  BY <1>3
<1>4. \/ Accepts(buf, s) /\ buf' = Written(buf, s) /\ accepted' = accepted \o s
      \/ ~Accepts(buf, s) /\ buf' = buf /\ accepted' = accepted
  BY DEF WriteStep, WritePass, WriteAccepted, WriteGivenUp, WriteBlocked,
         WriteRefused
<1> QED BY <1>2, <1>3, <1>4

LEMMA ReadEffect ==
  ASSUME Types, NEW kind \in usage.reads, NEW c, ReadDone(c, kind)
  PROVE  /\ Sound(buf', LimitsUsed) /\ Taken(buf', buf)
         /\ kind \in {"all", "swap"} => buf'.size = 0 /\ buf'.first = 0
         /\ gone' = gone \o SubSeq(Contents(buf), 1, buf.size - buf'.size)
<1>1. Sound(buf, LimitsUsed) /\ kind \in ReadKinds
  BY UsageParts DEF Types
<1>2. /\ buf' \in AfterRead(kind)
      /\ gone' = gone \o SubSeq(Contents(buf), 1, buf.size - buf'.size)
  BY DEF ReadDone
<1>3. \A r \in AfterRead(kind) :
        /\ Sound(r, LimitsUsed) /\ Taken(r, buf)
        /\ kind \in {"all", "swap"} => r.size = 0 /\ r.first = 0
  BY <1>1, ReadIsSound DEF ReadKinds
<1> QED BY <1>2, <1>3

LEMMA ClearEffect ==
  ASSUME Types, Clear
  PROVE  /\ Sound(buf', LimitsUsed) /\ buf'.limit = buf.limit
         /\ buf'.size = 0 /\ buf'.first = 0
<1>1. buf' \in Cleared(buf) /\ Sound(buf, LimitsUsed)
  BY DEF Clear, Types
<1>2. \A r \in Cleared(buf) : /\ Sound(r, LimitsUsed) /\ Taken(r, buf)
                              /\ r.size = 0 /\ r.first = 0
  BY <1>1, ClearIsSound
<1> QED BY <1>1, <1>2 DEF Taken

LEMMA ResizeEffect ==
  ASSUME Types, NEW l \in usage.limits, SetMaxSize(l)
  PROVE  /\ Sound(buf', LimitsUsed)
         /\ buf'.size = buf.size /\ buf'.first = buf.first
         /\ Contents(buf') = Contents(buf)
<1>1. /\ buf \in Buffers(Stored, LimitsUsed) /\ Geometry(buf)
      /\ ~buf.closed /\ Live(buf, Elem)
      /\ buf' = [buf EXCEPT !.limit = l] /\ l \in LimitsUsed
  BY DEF Types, Sound, SetMaxSize, LimitsUsed
<1>2. /\ buf' \in Buffers(Stored, LimitsUsed)
      /\ buf'.data = buf.data /\ buf'.first = buf.first /\ buf'.size = buf.size
      /\ buf'.closed = buf.closed
  BY <1>1 DEF Buffers
<1>3. Geometry(buf') /\ Live(buf', Elem) /\ Contents(buf') = Contents(buf)
  BY <1>1, <1>2 DEF Geometry, Live, LiveAt, Slot, Capacity, Contents
<1> QED BY <1>1, <1>2, <1>3 DEF Sound

\* The steps that leave the buffer alone.
BufferUntouched == UNCHANGED <<usage, buf, sent, accepted, gone, ended>>

LEMMA RegisteringEffect ==
  /\ \A p \in Producers : RegisterProducer(p) /\ UNCHANGED usage => BufferUntouched
  /\ \A p \in Producers : UnregisterProducer(p) /\ UNCHANGED usage => BufferUntouched
  /\ \A c \in Consumers : RegisterConsumer(c) /\ UNCHANGED usage => BufferUntouched
  /\ \A c \in Consumers : UnregisterConsumer(c) /\ UNCHANGED usage => BufferUntouched
  BY DEF RegisterProducer, UnregisterProducer, RegisterConsumer,
         UnregisterConsumer, BufferUntouched

-----------------------------------------------------------------------------
(* The buffer and what went through it.                                    *)

LEMMA BufferKept == IInv /\ Step => Sound(buf, LimitsUsed)'
<1> SUFFICES ASSUME IInv, Step
             PROVE  Sound(buf', LimitsUsed)
  BY SameUsage DEF LimitsUsed, Sound, Stored, Elem
<1>1. Types /\ Sound(buf, LimitsUsed)
  BY DEF IInv, Types
<1>2. CASE BufferUntouched \/ UNCHANGED vars
  BY <1>1, <1>2 DEF BufferUntouched, vars
<1>3. ASSUME NEW p \in Producers, NEW kind \in {"single", "batch"},
             NEW s \in Seq(Elem), WriteStep(p, kind, s)
      PROVE  Sound(buf', LimitsUsed)
  BY <1>1, <1>3, WriteEffect
<1>4. ASSUME NEW c \in Consumers, NEW kind \in usage.reads, ReadStep(c, kind)
      PROVE  Sound(buf', LimitsUsed)
  <2>1. CASE ReadDone(c, kind)
    BY <1>1, <2>1, ReadEffect
  <2>2. CASE ReadBlocked(c, kind)
    BY <1>1, <2>2 DEF ReadBlocked
  <2> QED BY <1>4, <2>1, <2>2 DEF ReadStep
<1>5. CASE Clear
  BY <1>1, <1>5, ClearEffect
<1>6. ASSUME NEW l \in usage.limits, SetMaxSize(l)
      PROVE  Sound(buf', LimitsUsed)
  BY <1>1, <1>6, ResizeEffect
<1> QED BY <1>2, <1>3, <1>4, <1>5, <1>6, RegisteringEffect DEF Step

\* A client that takes everything finds a queue.
Queue == usage.reads \subseteq {"all", "swap"} =>
           buf.first = 0 /\ accepted = gone \o Contents(buf)

\* Whether all or part of it is said to be gone, what is left of b is r.
QueueAfter(a, g, b, r) ==
  /\ a = (g \o SubSeq(Contents(b), 1, b.size - r.size)) \o Contents(r)
  /\ a = (g \o Contents(b)) \o Contents(r)

LEMMA QueueEmptied ==
  ASSUME NEW a \in Seq(Elem), NEW g \in Seq(Elem), NEW L, NEW b, Sound(b, L),
         a = g \o Contents(b)
  PROVE  \A r : Sound(r, L) /\ r.size = 0 => QueueAfter(a, g, b, r)
<1> SUFFICES ASSUME NEW r, Sound(r, L), r.size = 0
             PROVE  /\ a = (g \o SubSeq(Contents(b), 1, b.size - r.size)) \o Contents(r)
                    /\ a = (g \o Contents(b)) \o Contents(r)
  BY DEF QueueAfter
<1>1. /\ Contents(b) \in Seq(Elem) /\ Len(Contents(b)) = b.size
      /\ Contents(r) \in Seq(Elem) /\ Len(Contents(r)) = 0
  BY SoundNumbers
<1>2. Contents(r) = <<>>
  BY <1>1, EmptySeq
<1>3. b.size \in Nat /\ b.size - r.size = b.size
  BY SoundNumbers
<1>4. SubSeq(Contents(b), 1, b.size) = Contents(b)
  BY <1>1, <1>3
<1>5. \A z \in Seq(Elem) : z \o <<>> = z
  BY EmptySeq
<1> QED BY <1>2, <1>3, <1>4, <1>5

LEMMA QueueKept == IInv /\ Step => Queue'
<1> SUFFICES ASSUME IInv, Step
             PROVE  Queue'
  OBVIOUS
<1>0. UNCHANGED usage
  BY SameUsage
<1> SUFFICES ASSUME usage.reads \subseteq {"all", "swap"}
             PROVE  buf'.first = 0 /\ accepted' = gone' \o Contents(buf')
  BY <1>0 DEF Queue, Contents, Slot, Capacity
<1>1. /\ Types /\ Sound(buf, LimitsUsed) /\ accepted \in Seq(Elem) /\ gone \in Seq(Elem)
      /\ buf.first = 0 /\ accepted = gone \o Contents(buf)
      /\ Contents(buf) \in Seq(Elem)
  <2>1. /\ Types /\ Sound(buf, LimitsUsed) /\ accepted \in Seq(Elem) /\ gone \in Seq(Elem)
        /\ buf.first = 0 /\ accepted = gone \o Contents(buf)
    BY DEF IInv, Types, HistoryTypes, StartsOver, FirstInFirstOut
  <2> QED BY <2>1, SoundNumbers
<1>2. CASE BufferUntouched \/ UNCHANGED vars
  BY <1>1, <1>2 DEF BufferUntouched, vars
<1>3. ASSUME NEW p \in Producers, NEW kind \in {"single", "batch"},
             NEW s \in Seq(Elem), WriteStep(p, kind, s)
      PROVE  buf'.first = 0 /\ accepted' = gone' \o Contents(buf')
  <2>1. UNCHANGED gone
    BY <1>3 DEF WriteStep
  <2>2. CASE buf' = buf /\ accepted' = accepted
    BY <1>1, <2>1, <2>2
  <2>3. CASE accepted' = accepted \o s
             /\ buf'.first = 0 /\ Contents(buf') = Contents(buf) \o s
    <3>1. (gone \o Contents(buf)) \o s = gone \o (Contents(buf) \o s)
      BY <1>1, ConcatAssociative
    <3> QED BY <1>1, <2>1, <2>3, <3>1
  <2> QED BY <1>1, <1>3, <2>2, <2>3, WriteEffect
<1>4. ASSUME NEW c \in Consumers, NEW kind \in usage.reads, ReadStep(c, kind)
      PROVE  buf'.first = 0 /\ accepted' = gone' \o Contents(buf')
  <2>1. CASE ReadDone(c, kind)
    <3>1. /\ Sound(buf', LimitsUsed) /\ buf'.size = 0 /\ buf'.first = 0
          /\ gone' = gone \o SubSeq(Contents(buf), 1, buf.size - buf'.size)
          /\ accepted' = accepted
      BY <1>1, <2>1, ReadEffect DEF ReadDone
    <3>2. \A r : Sound(r, LimitsUsed) /\ r.size = 0 =>
            QueueAfter(accepted, gone, buf, r)
      BY <1>1, QueueEmptied
    <3> QED BY <3>1, <3>2 DEF QueueAfter
  <2>2. CASE ReadBlocked(c, kind)
    BY <1>1, <2>2 DEF ReadBlocked
  <2> QED BY <1>4, <2>1, <2>2 DEF ReadStep
<1>5. CASE Clear
  <2>1. /\ Sound(buf', LimitsUsed) /\ buf'.size = 0 /\ buf'.first = 0
        /\ gone' = gone \o Contents(buf) /\ accepted' = accepted
    BY <1>1, <1>5, ClearEffect DEF Clear
  <2>2. \A r : Sound(r, LimitsUsed) /\ r.size = 0 =>
          QueueAfter(accepted, gone, buf, r)
    BY <1>1, QueueEmptied
  <2> QED BY <2>1, <2>2 DEF QueueAfter
<1>6. ASSUME NEW l \in usage.limits, SetMaxSize(l)
      PROVE  buf'.first = 0 /\ accepted' = gone' \o Contents(buf')
  <2>1. UNCHANGED <<accepted, gone>>
    BY <1>6 DEF SetMaxSize
  <2> QED BY <1>1, <1>6, <2>1, ResizeEffect
<1> QED BY <1>2, <1>3, <1>4, <1>5, <1>6, RegisteringEffect DEF Step

LEMMA HistoryKept == IInv /\ Step => HistoryTypes'
<1> SUFFICES ASSUME IInv, Step
             PROVE  HistoryTypes'
  OBVIOUS
<1>1. /\ Types /\ HistoryTypes /\ Contents(buf) \in Seq(Elem)
      /\ Len(Contents(buf)) = buf.size /\ buf.size \in Nat
  BY SoundNumbers DEF IInv, Types
<1>2. CASE BufferUntouched \/ UNCHANGED vars
  BY <1>1, <1>2 DEF BufferUntouched, vars, HistoryTypes, Elem
<1>3. ASSUME NEW p \in Producers, NEW kind \in {"single", "batch"},
             NEW s \in Seq(Elem), WriteStep(p, kind, s)
      PROVE  HistoryTypes'
  <2>1. /\ sent' \in [Producers -> 0..MaxSent]
        /\ UNCHANGED <<gone, ended>>
    BY <1>3 DEF WriteStep
  <2>2. accepted' = accepted \/ accepted' = accepted \o s
    BY <1>1, <1>3, WriteEffect
  <2>3. accepted' \in Seq(Elem)
    <3>1. accepted \in Seq(Elem)
      BY <1>1 DEF HistoryTypes
    <3>2. accepted \o s \in Seq(Elem)
      BY <3>1
    <3> QED BY <2>2, <3>1, <3>2
  <2> QED BY <1>1, <2>1, <2>3 DEF HistoryTypes, Elem
<1>4. ASSUME NEW c \in Consumers, NEW kind \in usage.reads, ReadStep(c, kind)
      PROVE  HistoryTypes'
  <2>1. CASE ReadDone(c, kind) /\ (ended' = ended \/ (ended' = ended \cup {c} /\ at_end))
    <3>1. /\ gone' = gone \o SubSeq(Contents(buf), 1, buf.size - buf'.size)
          /\ buf'.size \in Nat /\ buf'.size <= buf.size
          /\ UNCHANGED <<sent, accepted>>
      BY <1>1, <1>4, <2>1, ReadEffect DEF ReadDone, ReadStep, Taken
    <3>2. PICK n \in Nat : n = buf.size - buf'.size /\ n <= Len(Contents(buf))
      BY <1>1, <3>1
    <3>3. SubSeq(Contents(buf), 1, n) \in Seq(Elem)
      BY <1>1, <3>2
    <3>4. gone' \in Seq(Elem)
      BY <1>1, <3>1, <3>2, <3>3 DEF HistoryTypes
    <3> QED BY <1>1, <2>1, <3>1, <3>4 DEF HistoryTypes, Elem
  <2>2. CASE ReadBlocked(c, kind)
    BY <1>1, <1>4, <2>2 DEF ReadBlocked, ReadStep, HistoryTypes, Elem
  <2> QED BY <1>4, <2>1, <2>2 DEF ReadStep
<1>5. CASE Clear
  <2>1. gone' \in Seq(Elem) /\ UNCHANGED <<sent, accepted, ended>>
    BY <1>1, <1>5 DEF Clear, HistoryTypes
  <2> QED BY <1>1, <2>1 DEF HistoryTypes, Elem
<1>6. ASSUME NEW l \in usage.limits, SetMaxSize(l)
      PROVE  HistoryTypes'
  BY <1>1, <1>6 DEF SetMaxSize, HistoryTypes, Elem
<1> QED BY <1>2, <1>3, <1>4, <1>5, <1>6, RegisteringEffect DEF Step

-----------------------------------------------------------------------------
(* The calls and the wait sets.                                            *)

WriteCall(kind, s) == [op |-> "write", kind |-> kind, items |-> s]
ReadCall(kind) == [op |-> "read", kind |-> kind, items |-> <<>>]

\* How a producer's step changes its call: it returns, it goes to sleep, or it
\* had not begun one.
LEMMA WriteCallEffect ==
  ASSUME NEW p \in Producers, NEW kind, NEW s, WriteStep(p, kind, s)
  PROVE  /\ \/ call' = [call EXCEPT ![p] = Idle] /\ producer_wait' = producer_wait
            \/ /\ call' = [call EXCEPT ![p] = WriteCall(kind, s)]
               /\ producer_wait' = producer_wait \cup {p}
            \/ call' = call /\ producer_wait' = producer_wait
         /\ consumer_wait' \subseteq consumer_wait
<1>1. CASE WriteAccepted(p, kind, s)
  BY <1>1 DEF WriteAccepted, NotifyOneConsumer
<1>2. CASE WriteGivenUp(p, kind, s)
  BY <1>2 DEF WriteGivenUp
<1>3. CASE WriteBlocked(p, kind, s)
  BY <1>3 DEF WriteBlocked, WriteCall
<1>4. CASE WriteRefused(kind, s)
  BY <1>4 DEF WriteRefused, NotifyOneConsumer
<1> QED BY <1>1, <1>2, <1>3, <1>4 DEF WriteStep, WritePass

LEMMA ReadCallEffect ==
  ASSUME NEW c \in Consumers, NEW kind, ReadStep(c, kind)
  PROVE  \/ /\ call' = [call EXCEPT ![c] = Idle]
            /\ producer_wait' = {} /\ consumer_wait' = consumer_wait
         \/ /\ call' = [call EXCEPT ![c] = ReadCall(kind)]
            /\ producer_wait' = producer_wait
            /\ consumer_wait' = consumer_wait \cup {c}
<1>1. CASE ReadDone(c, kind)
  BY <1>1 DEF ReadDone
<1>2. CASE ReadBlocked(c, kind)
  BY <1>2 DEF ReadBlocked, ReadCall
<1> QED BY <1>1, <1>2 DEF ReadStep

\* The steps that make no call at most wake threads.
Waking == /\ UNCHANGED <<usage, call>>
          /\ producer_wait' \subseteq producer_wait
          /\ consumer_wait' \subseteq consumer_wait

LEMMA WakingSteps ==
  /\ \A p \in Producers : RegisterProducer(p) /\ UNCHANGED usage => Waking
  /\ \A p \in Producers : UnregisterProducer(p) /\ UNCHANGED usage => Waking
  /\ \A c \in Consumers : RegisterConsumer(c) /\ UNCHANGED usage => Waking
  /\ \A c \in Consumers : UnregisterConsumer(c) /\ UNCHANGED usage => Waking
  /\ Clear => Waking
  /\ \A l : SetMaxSize(l) => Waking
  /\ UNCHANGED vars => Waking
  BY DEF RegisterProducer, UnregisterProducer, RegisterConsumer,
         UnregisterConsumer, Clear, SetMaxSize, vars, Waking

\* What a step may be, as far as calls are concerned.
LEMMA CallCases ==
  Step => \/ Waking
          \/ \E p \in Producers, kind \in {"single", "batch"}, s \in Seq(Elem) :
               WriteStep(p, kind, s)
          \/ \E c \in Consumers, kind \in usage.reads : ReadStep(c, kind)
  BY WakingSteps DEF Step

\* Writers write and readers read.
LEMMA CallsKept == IInv /\ Step => CallTypes'
<1> SUFFICES ASSUME IInv, Step
             PROVE  CallTypes'
  OBVIOUS
<1>1. CallTypes /\ Producers \cap Consumers = {}
  BY ThreadAssumption DEF IInv, Types
<1>2. Call' = Call
  BY SameUsage DEF Call, Elem
<1>3. CASE Waking
  <2>1. call' = call /\ producer_wait' \subseteq producer_wait
        /\ consumer_wait' \subseteq consumer_wait
    BY <1>3 DEF Waking
  <2> HIDE DEF Call
  <2> QED BY <1>1, <1>2, <2>1 DEF CallTypes
<1>4. ASSUME NEW p \in Producers, NEW kind \in {"single", "batch"},
             NEW s \in Seq(Elem), WriteStep(p, kind, s)
      PROVE  CallTypes'
  <2>1. /\ WriteCall(kind, s) \in Call /\ WriteCall(kind, s).op = "write"
        /\ Idle \in Call /\ Idle.op = "idle" /\ p \in Threads
    BY CallsMade DEF WriteCall, Idle, Threads
  <2>2. p \notin producer_wait /\ p \notin Consumers
    BY <1>1, <1>4 DEF WriteStep
  <2>3. consumer_wait' \subseteq consumer_wait
    BY <1>4, WriteCallEffect
  <2>4. CASE call' = [call EXCEPT ![p] = Idle] /\ producer_wait' = producer_wait
    BY <1>1, <1>2, <2>1, <2>2, <2>3, <2>4 DEF CallTypes, Threads
  <2>5. CASE /\ call' = [call EXCEPT ![p] = WriteCall(kind, s)]
             /\ producer_wait' = producer_wait \cup {p}
    BY <1>1, <1>2, <2>1, <2>2, <2>3, <2>5 DEF CallTypes, Threads
  <2>6. CASE call' = call /\ producer_wait' = producer_wait
    BY <1>1, <1>2, <2>3, <2>6 DEF CallTypes
  <2> QED BY <1>4, <2>4, <2>5, <2>6, WriteCallEffect
<1>5. ASSUME NEW c \in Consumers, NEW kind \in usage.reads, ReadStep(c, kind)
      PROVE  CallTypes'
  <2>1. /\ ReadCall(kind) \in Call /\ ReadCall(kind).op = "read"
        /\ Idle \in Call /\ Idle.op = "idle" /\ c \in Threads
    BY CallsMade DEF ReadCall, Idle, Threads
  <2>2. c \notin consumer_wait /\ c \notin Producers
    BY <1>1, <1>5 DEF ReadStep
  <2>3. CASE /\ call' = [call EXCEPT ![c] = Idle]
             /\ producer_wait' = {} /\ consumer_wait' = consumer_wait
    BY <1>1, <1>2, <2>1, <2>2, <2>3 DEF CallTypes, Threads
  <2>4. CASE /\ call' = [call EXCEPT ![c] = ReadCall(kind)]
             /\ producer_wait' = producer_wait
             /\ consumer_wait' = consumer_wait \cup {c}
    BY <1>1, <1>2, <2>1, <2>2, <2>4 DEF CallTypes, Threads
  <2> QED BY <1>5, <2>3, <2>4, ReadCallEffect
<1> QED BY <1>3, <1>4, <1>5, CallCases

LEMMA SinglesKept == IInv /\ Step => SinglesAreSingle'
<1> SUFFICES ASSUME IInv, Step
             PROVE  SinglesAreSingle'
  OBVIOUS
<1>1. SinglesAreSingle /\ CallTypes /\ Producers \cap Consumers = {}
  BY ThreadAssumption DEF IInv, Types
<1>2. CASE Waking
  BY <1>1, <1>2 DEF Waking, SinglesAreSingle
<1>3. ASSUME NEW p \in Producers, NEW kind \in {"single", "batch"},
             NEW s \in Seq(Elem), WriteStep(p, kind, s)
      PROVE  SinglesAreSingle'
  <2>1. kind = "single" => Len(s) = 1
    BY <1>3 DEF WriteStep
  <2>2. /\ WriteCall(kind, s).kind = kind /\ WriteCall(kind, s).items = s
        /\ Idle.op = "idle"
    BY DEF WriteCall, Idle
  <2>3. \/ call' = [call EXCEPT ![p] = Idle]
        \/ call' = [call EXCEPT ![p] = WriteCall(kind, s)]
        \/ call' = call
    BY <1>3, WriteCallEffect
  <2>4. ASSUME NEW q \in Producers
        PROVE  call'[q] = call[q] \/ call'[q] = Idle \/ call'[q] = WriteCall(kind, s)
    BY <1>1, <2>3 DEF CallTypes, Threads
  <2> QED BY <1>1, <2>1, <2>2, <2>4 DEF SinglesAreSingle
<1>4. ASSUME NEW c \in Consumers, NEW kind \in usage.reads, ReadStep(c, kind)
      PROVE  SinglesAreSingle'
  <2>1. \/ call' = [call EXCEPT ![c] = Idle]
        \/ call' = [call EXCEPT ![c] = ReadCall(kind)]
    BY <1>4, ReadCallEffect
  <2>2. \A q \in Producers : call'[q] = call[q]
    BY <1>1, <2>1 DEF CallTypes, Threads
  <2> QED BY <1>1, <2>2 DEF SinglesAreSingle
<1> QED BY <1>2, <1>3, <1>4, CallCases

-----------------------------------------------------------------------------
(* The guards.                                                             *)

Guards == [Threads -> {"none", "open", "closed"}]

Open(S, g) == {t \in S : g[t] = "open"}

\* Opening a guard counts one more, closing it one less.
LEMMA OpenCounts ==
  ASSUME NEW S, IsFiniteSet(S), S \subseteq Threads, NEW g \in Guards, NEW t \in S
  PROVE  /\ Cardinality(Open(S, g)) \in Nat
         /\ g[t] # "open" =>
              Cardinality(Open(S, [g EXCEPT ![t] = "open"])) = Cardinality(Open(S, g)) + 1
         /\ g[t] = "open" =>
              /\ Cardinality(Open(S, g)) > 0
              /\ Cardinality(Open(S, [g EXCEPT ![t] = "closed"])) = Cardinality(Open(S, g)) - 1
<1>1. Open(S, g) \in SUBSET S
  BY DEF Open
<1>2. IsFiniteSet(Open(S, g)) /\ Cardinality(Open(S, g)) \in Nat
  BY <1>1, FS_Subset, FS_CardinalityType
<1>3. ASSUME g[t] # "open"
      PROVE  Cardinality(Open(S, [g EXCEPT ![t] = "open"])) = Cardinality(Open(S, g)) + 1
  <2>1. Open(S, [g EXCEPT ![t] = "open"]) = Open(S, g) \cup {t} /\ t \notin Open(S, g)
    BY <1>3 DEF Open, Guards
  <2> QED BY <1>2, <2>1, FS_AddElement
<1>4. ASSUME g[t] = "open"
      PROVE  /\ Cardinality(Open(S, g)) > 0
             /\ Cardinality(Open(S, [g EXCEPT ![t] = "closed"])) = Cardinality(Open(S, g)) - 1
  <2>1. Open(S, [g EXCEPT ![t] = "closed"]) = Open(S, g) \ {t} /\ t \in Open(S, g)
    BY <1>4 DEF Open, Guards
  <2>2. Cardinality(Open(S, g)) # 0
    BY <1>2, <2>1, FS_EmptySet
  <2>3. Cardinality(Open(S, g) \ {t}) = Cardinality(Open(S, g)) - 1
    BY <1>2, <2>1, FS_RemoveElement
  <2>4. Cardinality(Open(S, g)) > 0
    <3> DEFINE n == Cardinality(Open(S, g))
    <3>1. n \in Nat /\ n # 0
      BY <1>2, <2>2
    <3> HIDE DEF n
    <3>2. n > 0
      BY <3>1
    <3> QED BY <3>2 DEF n
  <2>5. Cardinality(Open(S, [g EXCEPT ![t] = "closed"])) = Cardinality(Open(S, g) \ {t})
    BY <2>1
  <2> QED BY <2>3, <2>4, <2>5
<1> QED BY <1>2, <1>3, <1>4

\* The same of other threads does not count.
LEMMA OthersDoNotCount ==
  ASSUME NEW S, S \subseteq Threads, NEW g \in Guards, NEW t \in Threads, t \notin S
  PROVE  /\ Open(S, [g EXCEPT ![t] = "open"]) = Open(S, g)
         /\ Open(S, [g EXCEPT ![t] = "closed"]) = Open(S, g)
  BY DEF Open, Guards

\* Only the guards' own steps touch what the guards keep.
LEMMA GuardCases ==
  Step => \/ UNCHANGED registration
          \/ \E p \in Producers : RegisterProducer(p) \/ UnregisterProducer(p)
          \/ \E c \in Consumers : RegisterConsumer(c) \/ UnregisterConsumer(c)
  BY DEF Step, WriteStep, ReadStep, Clear, SetMaxSize, vars

\* What CountsMatchGuards says, with the sets named.
LEMMA CountsOpen ==
  CountsMatchGuards <=> /\ producer_count = Cardinality(Open(Producers, guard))
                        /\ consumer_count = Cardinality(Open(Consumers, guard))
  BY DEF CountsMatchGuards, Open

LEMMA GuardsKept == IInv /\ Step => GuardTypes' /\ CountsMatchGuards'
<1> SUFFICES ASSUME IInv, Step
             PROVE  /\ GuardTypes'
                    /\ producer_count' = Cardinality(Open(Producers, guard'))
                    /\ consumer_count' = Cardinality(Open(Consumers, guard'))
  BY DEF CountsMatchGuards, Open
<1>1. /\ GuardTypes /\ guard \in Guards
      /\ producer_count = Cardinality(Open(Producers, guard))
      /\ consumer_count = Cardinality(Open(Consumers, guard))
      /\ Producers \subseteq Threads /\ Consumers \subseteq Threads
      /\ Producers \cap Consumers = {}
      /\ IsFiniteSet(Producers) /\ IsFiniteSet(Consumers)
  BY ThreadAssumption, CountsOpen DEF IInv, Types, GuardTypes, Threads,
                                Guards
<1>2. CASE UNCHANGED registration
  BY <1>1, <1>2 DEF registration, GuardTypes
<1>3. ASSUME NEW p \in Producers, RegisterProducer(p)
      PROVE  /\ GuardTypes'
             /\ producer_count' = Cardinality(Open(Producers, guard'))
             /\ consumer_count' = Cardinality(Open(Consumers, guard'))
  <2>1. /\ guard[p] # "open" /\ guard' = [guard EXCEPT ![p] = "open"]
        /\ producer_count' = producer_count + 1 /\ producer_registered' = TRUE
        /\ UNCHANGED <<consumer_count, consumer_registered>>
    BY <1>3 DEF RegisterProducer
  <2>2. Cardinality(Open(Producers, [guard EXCEPT ![p] = "open"])) = producer_count + 1
    BY <1>1, <2>1, OpenCounts
  <2>3. Open(Consumers, [guard EXCEPT ![p] = "open"]) = Open(Consumers, guard)
    BY <1>1, OthersDoNotCount
  <2>4. GuardTypes'
    BY <1>1, <2>1 DEF GuardTypes
  <2> QED BY <1>1, <2>1, <2>2, <2>3, <2>4
<1>4. ASSUME NEW p \in Producers, UnregisterProducer(p)
      PROVE  /\ GuardTypes'
             /\ producer_count' = Cardinality(Open(Producers, guard'))
             /\ consumer_count' = Cardinality(Open(Consumers, guard'))
  <2>1. /\ guard[p] = "open" /\ guard' = [guard EXCEPT ![p] = "closed"]
        /\ producer_count' = (IF producer_count > 0 THEN producer_count - 1 ELSE 0)
        /\ UNCHANGED <<producer_registered, consumer_count, consumer_registered>>
    BY <1>4 DEF UnregisterProducer
  <2>2. /\ producer_count > 0
        /\ Cardinality(Open(Producers, [guard EXCEPT ![p] = "closed"])) = producer_count - 1
    BY <1>1, <2>1, OpenCounts
  <2>3. Open(Consumers, [guard EXCEPT ![p] = "closed"]) = Open(Consumers, guard)
    BY <1>1, OthersDoNotCount
  <2>4. GuardTypes'
    BY <1>1, <2>1 DEF GuardTypes
  <2> QED BY <1>1, <2>1, <2>2, <2>3, <2>4
<1>5. ASSUME NEW c \in Consumers, RegisterConsumer(c)
      PROVE  /\ GuardTypes'
             /\ producer_count' = Cardinality(Open(Producers, guard'))
             /\ consumer_count' = Cardinality(Open(Consumers, guard'))
  <2>1. /\ guard[c] # "open" /\ guard' = [guard EXCEPT ![c] = "open"]
        /\ consumer_count' = consumer_count + 1 /\ consumer_registered' = TRUE
        /\ UNCHANGED <<producer_count, producer_registered>>
    BY <1>5 DEF RegisterConsumer
  <2>2. Cardinality(Open(Consumers, [guard EXCEPT ![c] = "open"])) = consumer_count + 1
    BY <1>1, <2>1, OpenCounts
  <2>3. Open(Producers, [guard EXCEPT ![c] = "open"]) = Open(Producers, guard)
    BY <1>1, OthersDoNotCount
  <2>4. GuardTypes'
    BY <1>1, <2>1 DEF GuardTypes
  <2> QED BY <1>1, <2>1, <2>2, <2>3, <2>4
<1>6. ASSUME NEW c \in Consumers, UnregisterConsumer(c)
      PROVE  /\ GuardTypes'
             /\ producer_count' = Cardinality(Open(Producers, guard'))
             /\ consumer_count' = Cardinality(Open(Consumers, guard'))
  <2>1. /\ guard[c] = "open" /\ guard' = [guard EXCEPT ![c] = "closed"]
        /\ consumer_count' = (IF consumer_count > 0 THEN consumer_count - 1 ELSE 0)
        /\ UNCHANGED <<producer_registered, producer_count, consumer_registered>>
    BY <1>6 DEF UnregisterConsumer
  <2>2. /\ consumer_count > 0
        /\ Cardinality(Open(Consumers, [guard EXCEPT ![c] = "closed"])) = consumer_count - 1
    BY <1>1, <2>1, OpenCounts
  <2>3. Open(Producers, [guard EXCEPT ![c] = "closed"]) = Open(Producers, guard)
    BY <1>1, OthersDoNotCount
  <2>4. GuardTypes'
    BY <1>1, <2>1 DEF GuardTypes
  <2> QED BY <1>1, <2>1, <2>2, <2>3, <2>4
<1> QED BY <1>2, <1>3, <1>4, <1>5, <1>6, GuardCases

\* A guard outlives the calls made under it.
LEMMA BusyKept == IInv /\ Step => BusyThreadsAreOpen'
<1> SUFFICES ASSUME IInv, Step, NEW t \in Threads, call'[t] # Idle
             PROVE  guard'[t] = "open"
  BY DEF BusyThreadsAreOpen
<1>1. /\ call \in [Threads -> Call] /\ guard \in Guards
      /\ call[t] # Idle => guard[t] = "open"
  BY DEF IInv, Types, CallTypes, GuardTypes, BusyThreadsAreOpen, Guards
<1>2. CASE UNCHANGED <<call, guard>>
  BY <1>1, <1>2
<1>3. ASSUME NEW u \in Threads, call' = call, guard[u] = "none",
             guard' = [guard EXCEPT ![u] = "open"]
      PROVE  guard'[t] = "open"
  BY <1>1, <1>3 DEF Guards
<1>4. ASSUME NEW u \in Threads, call' = call, call[u] = Idle,
             guard' = [guard EXCEPT ![u] = "closed"]
      PROVE  guard'[t] = "open"
  BY <1>1, <1>4 DEF Guards
<1>5. ASSUME NEW u \in Threads, guard[u] = "open", guard' = guard,
             call' = call \/ \E k : call' = [call EXCEPT ![u] = k]
      PROVE  guard'[t] = "open"
  BY <1>1, <1>5
<1>6. ASSUME NEW p \in Producers, NEW kind \in {"single", "batch"},
             NEW s \in Seq(Elem), WriteStep(p, kind, s)
      PROVE  guard'[t] = "open"
  <2>1. p \in Threads /\ guard[p] = "open" /\ guard' = guard
    BY <1>6 DEF WriteStep, registration, Threads
  <2>2. call' = call \/ \E k : call' = [call EXCEPT ![p] = k]
    BY <1>6, WriteCallEffect
  <2> QED BY <1>5, <2>1, <2>2
<1>7. ASSUME NEW c \in Consumers, NEW kind \in usage.reads, ReadStep(c, kind)
      PROVE  guard'[t] = "open"
  <2>1. c \in Threads /\ guard[c] = "open" /\ guard' = guard
    BY <1>7 DEF ReadStep, registration, Threads
  <2>2. \E k : call' = [call EXCEPT ![c] = k]
    BY <1>7, ReadCallEffect
  <2> QED BY <1>5, <2>1, <2>2
<1>8. CASE Clear \/ (\E l \in usage.limits : SetMaxSize(l)) \/ UNCHANGED vars
  BY <1>2, <1>8 DEF Clear, SetMaxSize, vars, registration
<1>9. CASE \/ \E p \in Producers : RegisterProducer(p) \/ UnregisterProducer(p)
           \/ \E c \in Consumers : RegisterConsumer(c) \/ UnregisterConsumer(c)
  BY <1>3, <1>4, <1>9 DEF RegisterProducer, UnregisterProducer,
       RegisterConsumer, UnregisterConsumer, Threads
<1> QED BY <1>6, <1>7, <1>8, <1>9 DEF Step

LEMMA RegistrationsKept == IInv /\ Step => Registrations'
<1> SUFFICES ASSUME IInv, Step
             PROVE  Registrations'
  OBVIOUS
<1>1. Registrations /\ guard \in Guards /\ UNCHANGED usage
  BY SameUsage DEF IInv, Types, GuardTypes, Guards
<1>2. CASE UNCHANGED registration
  BY <1>1, <1>2 DEF registration, Registrations
<1>3. ASSUME NEW t \in Threads, guard[t] = "none",
             guard' = [guard EXCEPT ![t] = "open"],
             producer_registered' = IF t \in Producers THEN TRUE ELSE producer_registered
      PROVE  Registrations'
  <2>1. producer_registered' <=> \E p \in Producers : guard'[p] # "none"
    BY <1>1, <1>3 DEF Registrations, Guards, Threads
  <2>2. usage'.early /\ (\E u \in Threads : guard'[u] = "closed") =>
          \A u \in Threads : guard'[u] # "none"
    BY <1>1, <1>3 DEF Registrations, Guards
  <2> QED BY <2>1, <2>2 DEF Registrations
<1>4. ASSUME NEW t \in Threads, guard[t] = "open", MayStart,
             guard' = [guard EXCEPT ![t] = "closed"],
             UNCHANGED producer_registered
      PROVE  Registrations'
  <2>1. producer_registered' <=> \E p \in Producers : guard'[p] # "none"
    BY <1>1, <1>4 DEF Registrations, Guards, Threads
  <2>2. usage'.early /\ (\E u \in Threads : guard'[u] = "closed") =>
          \A u \in Threads : guard'[u] # "none"
    BY <1>1, <1>4 DEF MayStart, Guards
  <2> QED BY <2>1, <2>2 DEF Registrations
<1>5. ASSUME NEW p \in Producers, RegisterProducer(p) \/ UnregisterProducer(p)
      PROVE  Registrations'
  <2>1. p \in Threads
    BY DEF Threads
  <2> QED BY <1>3, <1>4, <1>5, <2>1 DEF RegisterProducer, UnregisterProducer
<1>6. ASSUME NEW c \in Consumers, RegisterConsumer(c) \/ UnregisterConsumer(c)
      PROVE  Registrations'
  <2>1. c \in Threads /\ c \notin Producers
    BY ThreadAssumption DEF Threads
  <2> QED BY <1>3, <1>4, <1>6, <2>1 DEF RegisterConsumer, UnregisterConsumer
<1> QED BY <1>2, <1>5, <1>6, GuardCases

-----------------------------------------------------------------------------
(* Wakeups.                                                                *)

\* Why a producer sleeps, of its call c and the buffer b.
NoRoom(c, b) == /\ ~Accepts(b, c.items)
                /\ ~(c.kind = "batch" /\ MaxSize(b) < Len(c.items))

LEMMA ProducersKept == IInv /\ Step => SleepingProducersMustWait'
<1> SUFFICES ASSUME IInv, Step
             PROVE  SleepingProducersMustWait'
  OBVIOUS
<1>0. UNCHANGED usage
  BY SameUsage
<1> SUFFICES ASSUME usage.limits = {}, NEW q \in producer_wait'
             PROVE  NoRoom(call'[q], buf') /\ consumers_available'
  BY <1>0 DEF SleepingProducersMustWait, NoRoom, Hopeless
<1>1. /\ Types /\ Sound(buf, LimitsUsed) /\ LimitsUsed \subseteq Nat
      /\ call \in [Threads -> Call] /\ GuardTypes
      /\ producer_wait \subseteq {p \in Producers : call[p].op = "write"}
      /\ Producers \subseteq Threads
  BY UsageParts DEF IInv, Types, CallTypes, Threads
<1>2. q \in producer_wait => NoRoom(call[q], buf) /\ consumers_available
  BY DEF IInv, SleepingProducersMustWait, NoRoom, Hopeless
<1>3. CASE /\ call' = call /\ buf' = buf /\ producer_wait' = producer_wait
           /\ consumers_available => consumers_available'
  BY <1>2, <1>3
<1>4. ASSUME NEW p \in Producers, NEW kind \in {"single", "batch"},
             NEW s \in Seq(Elem), WriteStep(p, kind, s)
      PROVE  NoRoom(call'[q], buf') /\ consumers_available'
  <2>1. consumers_available' = consumers_available /\ p \notin producer_wait
    BY <1>4 DEF WriteStep, registration, consumers_available
  <2>2. CASE q \in producer_wait
    <3>1. q # p /\ call'[q] = call[q]
      BY <1>1, <1>4, <2>1, <2>2, WriteCallEffect DEF Threads
    <3>2. call[q].items \in Seq(Elem)
      <4>1. call[q] \in Call /\ call[q].op = "write"
        BY <1>1, <2>2
      <4> QED BY <4>1, CallParts DEF Idle
    <3>3. NoRoom(call[q], buf')
      <4>1. CASE buf' = buf
        BY <1>2, <2>2, <4>1
      <4>2. CASE /\ Sound(buf', LimitsUsed) /\ buf'.limit = buf.limit
                 /\ buf'.size = buf.size + Len(s)
        <5>1. /\ buf.size \in Nat /\ buf'.size \in Nat /\ buf.size <= buf'.size
              /\ buf.limit \in Nat /\ ~buf.closed
          <6>1. buf.size \in Nat /\ buf'.size \in Nat /\ buf.limit \in Nat
            BY <1>1, <4>2, SoundNumbers
          <6> QED BY <1>1, <4>2, <6>1 DEF Sound
        <5>2. ~Accepts(buf, call[q].items)
          BY <1>2, <2>2 DEF NoRoom
        <5>3. \A r : r.size \in Nat /\ buf.size <= r.size /\ r.limit = buf.limit =>
                ~Accepts(r, call[q].items)
          BY <3>2, <5>1, <5>2, FullStaysFull
        <5>4. MaxSize(buf') = MaxSize(buf)
          BY <4>2 DEF MaxSize
        <5> QED BY <1>2, <2>2, <4>2, <5>1, <5>3, <5>4 DEF NoRoom
      <4> QED BY <1>1, <1>4, <4>1, <4>2, WriteEffect
    <3> QED BY <1>2, <2>1, <2>2, <3>1, <3>3
  <2>3. CASE q \notin producer_wait
    <3>1. WriteBlocked(p, kind, s) /\ q = p
      BY <2>3, <1>4 DEF WriteStep, WritePass, WriteAccepted, WriteGivenUp,
                        WriteBlocked, WriteRefused
    <3>2. /\ ~Accepts(buf, s) /\ consumers_available /\ buf' = buf
          /\ ~(kind = "batch" /\ MaxSize(buf) < Len(s))
          /\ call' = [call EXCEPT ![p] = WriteCall(kind, s)]
      BY <3>1 DEF WriteBlocked, Hopeless, WriteCall
    <3>3. call'[q] = WriteCall(kind, s)
      BY <1>1, <3>1, <3>2
    <3> QED BY <2>1, <3>2, <3>3 DEF NoRoom, WriteCall
  <2> QED BY <2>2, <2>3
<1>5. ASSUME NEW c \in Consumers, NEW kind \in usage.reads, ReadStep(c, kind)
      PROVE  NoRoom(call'[q], buf') /\ consumers_available'
  <2>1. ReadBlocked(c, kind)
    BY <1>5 DEF ReadStep, ReadDone
  <2>2. /\ buf' = buf /\ producer_wait' = producer_wait
        /\ call' = [call EXCEPT ![c] = ReadCall(kind)]
        /\ consumers_available' = consumers_available
    BY <1>5, <2>1 DEF ReadBlocked, ReadStep, ReadCall, registration,
                      consumers_available
  <2>3. call'[q] = call[q]
    BY <1>1, <2>2, ThreadAssumption
  <2> QED BY <1>2, <2>2, <2>3
<1>6. ASSUME NEW c \in Consumers, UnregisterConsumer(c)
      PROVE  NoRoom(call'[q], buf') /\ consumers_available'
  <2>1. /\ consumer_count # 1 /\ producer_wait' = producer_wait
        /\ consumer_count' = (IF consumer_count > 0 THEN consumer_count - 1 ELSE 0)
        /\ UNCHANGED <<buf, call, consumer_registered>>
    BY <1>6 DEF UnregisterConsumer
  <2>2. consumers_available => consumers_available'
    BY <1>1, <2>1 DEF consumers_available, GuardTypes
  <2> QED BY <1>3, <2>1, <2>2
<1>7. ASSUME NEW c \in Consumers, RegisterConsumer(c)
      PROVE  NoRoom(call'[q], buf') /\ consumers_available'
  <2>1. consumer_count' = consumer_count + 1 /\ UNCHANGED <<buf, call, producer_wait>>
    BY <1>7 DEF RegisterConsumer
  <2>2. consumers_available'
    BY <1>1, <2>1 DEF consumers_available, GuardTypes
  <2> QED BY <1>3, <2>1, <2>2
<1>8. ASSUME NEW p \in Producers, RegisterProducer(p) \/ UnregisterProducer(p)
      PROVE  NoRoom(call'[q], buf') /\ consumers_available'
  BY <1>3, <1>8 DEF RegisterProducer, UnregisterProducer, consumers_available
<1>9. CASE Clear
  BY <1>9 DEF Clear
<1>10. CASE UNCHANGED vars
  BY <1>3, <1>10 DEF vars, registration, consumers_available
<1> QED BY <1>4, <1>5, <1>6, <1>7, <1>8, <1>9, <1>10 DEF Step

\* The woken consumers are a finite set, and two of them can be compared.
LEMMA WokenFinite ==
  /\ IsFiniteSet(WokenConsumers) /\ Cardinality(WokenConsumers) \in Nat
  /\ \A S \in SUBSET Consumers :
       IsFiniteSet(S) /\ Cardinality(S) \in Nat
<1>1. \A S \in SUBSET Consumers : IsFiniteSet(S) /\ Cardinality(S) \in Nat
  BY ThreadAssumption, FS_Subset, FS_CardinalityType
<1>2. WokenConsumers \in SUBSET Consumers
  BY DEF WokenConsumers
<1> QED BY <1>1, <1>2

\* If none of the woken consumers is lost there are still enough of them.
LEMMA EnoughWoken ==
  ASSUME NEW A \in SUBSET Consumers, NEW B \in SUBSET Consumers, A \subseteq B,
         NEW n \in Nat, n <= Cardinality(A)
  PROVE  n <= Cardinality(B)
<1>1. IsFiniteSet(B) /\ Cardinality(A) \in Nat /\ Cardinality(B) \in Nat
  BY WokenFinite
<1>2. Cardinality(A) <= Cardinality(B)
  BY <1>1, FS_Subset
<1> QED BY <1>1, <1>2

\* With one more there are enough for one element more.
LEMMA OneMoreWoken ==
  ASSUME NEW A \in SUBSET Consumers, NEW B \in SUBSET Consumers,
         NEW x \in Consumers, x \notin A, A \cup {x} \subseteq B,
         NEW n \in Nat, n <= Cardinality(A)
  PROVE  n + 1 <= Cardinality(B)
<1>1. /\ IsFiniteSet(A) /\ A \cup {x} \in SUBSET Consumers
      /\ Cardinality(A) \in Nat
  BY WokenFinite
<1>2. Cardinality(A \cup {x}) = Cardinality(A) + 1
  BY <1>1, FS_AddElement
<1>3. n + 1 \in Nat /\ n + 1 <= Cardinality(A \cup {x})
  BY <1>1, <1>2
<1> DEFINE m == n + 1
           C == A \cup {x}
<1>4. m \in Nat /\ m <= Cardinality(C) /\ C \subseteq B /\ C \in SUBSET Consumers
  BY <1>1, <1>3
<1> HIDE DEF m, C
<1>5. m <= Cardinality(B)
  BY <1>4, EnoughWoken
<1> QED BY <1>5 DEF m

\* With one less there are enough for fewer elements.
LEMMA OneLessWoken ==
  ASSUME NEW A \in SUBSET Consumers, NEW B \in SUBSET Consumers,
         NEW x \in Consumers, A \ {x} \subseteq B,
         NEW n \in Nat, n <= Cardinality(A), NEW k \in Nat, k < n
  PROVE  k <= Cardinality(B)
<1> DEFINE C == A \ {x}
<1>1. /\ IsFiniteSet(A) /\ Cardinality(A) \in Nat
      /\ C \in SUBSET Consumers /\ C \subseteq B /\ Cardinality(C) \in Nat
  BY WokenFinite
<1>2. Cardinality(C) = Cardinality(A) - 1 \/ Cardinality(C) = Cardinality(A)
  BY <1>1, FS_RemoveElement
<1> HIDE DEF C
<1>3. k <= Cardinality(C)
  BY <1>1, <1>2
<1> QED BY <1>1, <1>3, EnoughWoken

LEMMA ConsumersKept == IInv /\ Step => SleepingConsumersMustWait'
<1> SUFFICES ASSUME IInv, Step, consumer_wait' # {}
             PROVE  producers_available' /\ buf'.size <= Cardinality(WokenConsumers')
  BY DEF SleepingConsumersMustWait
<1> DEFINE W == WokenConsumers
           n == buf.size
           Enough == producers_available' /\ buf'.size <= Cardinality(WokenConsumers')
<1> HIDE DEF W
<1>1. /\ Types /\ Sound(buf, LimitsUsed) /\ GuardTypes /\ n \in Nat
      /\ call \in [Threads -> Call] /\ Producers \cap Consumers = {}
      /\ consumer_wait \subseteq {c \in Consumers : call[c].op = "read"}
      /\ Consumers \subseteq Threads /\ Producers \subseteq Threads
  <2>1. Types /\ Sound(buf, LimitsUsed)
    BY DEF IInv, Types
  <2>2. n \in Nat
    BY <2>1, SoundNumbers
  <2> QED BY <2>1, <2>2, ThreadAssumption DEF Types, CallTypes, Threads
<1>2. consumer_wait # {} => producers_available /\ n <= Cardinality(W)
  BY DEF IInv, SleepingConsumersMustWait, W
<1>3. W \in SUBSET Consumers /\ W' \in SUBSET Consumers
      /\ W' = {c \in Consumers : call'[c].op = "read" /\ c \notin consumer_wait'}
      /\ W = {c \in Consumers : call[c].op = "read" /\ c \notin consumer_wait}
  BY DEF W, WokenConsumers
<1>4. ASSUME producers_available', buf'.size <= Cardinality(W')
      PROVE  Enough
  BY <1>4 DEF W
<1>5. ASSUME buf'.size = n, \A c \in Consumers : call'[c] = call[c],
             consumer_wait' \subseteq consumer_wait,
             producers_available => producers_available'
      PROVE  Enough
  <2>1. W \subseteq W'
    BY <1>3, <1>5
  <2>2. n <= Cardinality(W')
    <3>1. n \in Nat /\ n <= Cardinality(W)
      BY <1>1, <1>2, <1>5
    <3> HIDE DEF n
    <3> QED BY <1>3, <2>1, <3>1, EnoughWoken
  <2> QED BY <1>2, <1>4, <1>5, <2>2
<1>6. ASSUME NEW p \in Producers, NEW kind \in {"single", "batch"},
             NEW s \in Seq(Elem), WriteStep(p, kind, s)
      PROVE  Enough
  <2>1. /\ producers_available' = producers_available
        /\ kind = "single" => Len(s) = 1
        /\ consumer_wait' \subseteq consumer_wait
        /\ \A c \in Consumers : call'[c] = call[c]
    <3>1. consumer_wait' \subseteq consumer_wait
      BY <1>6, WriteCallEffect
    <3>2. \A c \in Consumers : call'[c] = call[c]
      BY <1>1, <1>6, WriteCallEffect
    <3> QED BY <1>6, <3>1, <3>2 DEF WriteStep, registration, producers_available
  <2>2. CASE ~WriteAccepted(p, kind, s)
    <3>1. buf' = buf
      BY <1>6, <2>2 DEF WriteStep, WritePass, WriteGivenUp, WriteBlocked,
                        WriteRefused
    <3> QED BY <1>5, <2>1, <3>1
  <2>3. CASE WriteAccepted(p, kind, s)
    <3>1. kind = "single" /\ NotifyOneConsumer /\ Accepts(buf, s)
      BY <2>3 DEF WriteAccepted
    <3>2. buf'.size = n + 1
      BY <1>1, <1>6, <2>1, <3>1, WriteEffect
    <3>3. PICK c \in consumer_wait : consumer_wait' = consumer_wait \ {c}
      BY <2>1, <3>1 DEF NotifyOneConsumer
    <3>4. c \notin W /\ W \cup {c} \subseteq W'
      BY <1>1, <1>3, <2>1, <3>3
    <3>5. n + 1 <= Cardinality(W')
      <4>1. n \in Nat /\ n <= Cardinality(W)
        BY <1>1, <1>2, <3>3
      <4>2. c \in Consumers
        BY <1>1
      <4> HIDE DEF n
      <4> QED BY <1>3, <3>4, <4>1, <4>2, OneMoreWoken
    <3> QED BY <1>2, <1>4, <2>1, <3>2, <3>3, <3>5
  <2> QED BY <2>2, <2>3
<1>7. ASSUME NEW c \in Consumers, NEW kind \in usage.reads, ReadStep(c, kind)
      PROVE  Enough
  <2>1. producers_available' = producers_available
    BY <1>7 DEF ReadStep, registration, producers_available
  <2>2. CASE buf.size = 0 /\ producers_available /\ ReadBlocked(c, kind)
    <3>1. buf'.size = 0 /\ producers_available'
      BY <2>1, <2>2 DEF ReadBlocked
    <3>2. 0 <= Cardinality(W')
      BY <1>3, WokenFinite
    <3> QED BY <1>4, <3>1, <3>2
  <2>3. CASE ReadDone(c, kind) /\ (call[c] # Idle => buf.size > 0 \/ ~producers_available)
    <3>1. /\ call' = [call EXCEPT ![c] = Idle] /\ consumer_wait' = consumer_wait
          /\ buf'.size \in Nat /\ buf'.size <= n /\ (n > 0 => buf'.size < n)
      BY <1>1, <2>3, ReadEffect DEF ReadDone, Taken
    <3>2. producers_available /\ n <= Cardinality(W)
      BY <1>2, <3>1
    <3>3. CASE call[c] = Idle
      <4>1. W \subseteq W'
        BY <1>1, <1>3, <3>1, <3>3 DEF Idle
      <4>2. n <= Cardinality(W')
        <5>1. n \in Nat
          BY <1>1
        <5> HIDE DEF n
        <5> QED BY <1>3, <3>2, <4>1, <5>1, EnoughWoken
      <4>3. buf'.size <= Cardinality(W')
        <5>1. Cardinality(W') \in Nat
          BY <1>3, WokenFinite
        <5> QED BY <1>1, <3>1, <4>2, <5>1
      <4> QED BY <1>4, <2>1, <3>2, <4>3
    <3>4. CASE call[c] # Idle
      <4>1. W \ {c} \subseteq W'
        BY <1>1, <1>3, <3>1
      <4>2. buf'.size < n /\ n \in Nat
        BY <1>1, <2>3, <3>1, <3>2, <3>4
      <4>3. buf'.size <= Cardinality(W')
        <5> HIDE DEF n
        <5> QED BY <1>3, <3>1, <3>2, <4>1, <4>2, OneLessWoken
      <4> QED BY <1>4, <2>1, <3>2, <4>3
    <3> QED BY <3>3, <3>4
  <2> QED BY <1>7, <2>2, <2>3 DEF ReadStep
<1>8. CASE Clear
  <2>1. buf'.size = 0 /\ consumer_wait' = consumer_wait
        /\ producers_available' = producers_available
    BY <1>1, <1>8, ClearEffect DEF Clear, registration, producers_available
  <2>2. 0 <= Cardinality(W')
    BY <1>3, WokenFinite
  <2> QED BY <1>2, <1>4, <2>1, <2>2
<1>9. ASSUME NEW l \in usage.limits, SetMaxSize(l)
      PROVE  Enough
  <2>1. buf'.size = n /\ consumer_wait' = consumer_wait /\ call' = call
        /\ producers_available' = producers_available
    BY <1>1, <1>9, ResizeEffect DEF SetMaxSize, registration, producers_available
  <2> QED BY <1>5, <2>1
<1>10. ASSUME NEW p \in Producers, UnregisterProducer(p)
       PROVE  Enough
  <2>1. /\ producer_count # 1 /\ consumer_wait' = consumer_wait
        /\ producer_count' = (IF producer_count > 0 THEN producer_count - 1 ELSE 0)
        /\ UNCHANGED <<buf, call, producer_registered>>
    BY <1>10 DEF UnregisterProducer
  <2>2. producers_available => producers_available'
    BY <1>1, <2>1 DEF producers_available, GuardTypes
  <2> QED BY <1>5, <2>1, <2>2
<1>11. ASSUME NEW p \in Producers, RegisterProducer(p)
       PROVE  Enough
  <2>1. producer_count' = producer_count + 1 /\ UNCHANGED <<buf, call, consumer_wait>>
    BY <1>11 DEF RegisterProducer
  <2>2. producers_available'
    BY <1>1, <2>1 DEF producers_available, GuardTypes
  <2> QED BY <1>5, <2>1, <2>2
<1>12. ASSUME NEW c \in Consumers, RegisterConsumer(c) \/ UnregisterConsumer(c)
       PROVE  Enough
  BY <1>5, <1>12 DEF RegisterConsumer, UnregisterConsumer, producers_available
<1>13. CASE UNCHANGED vars
  BY <1>5, <1>13 DEF vars, registration, producers_available
<1> QED BY <1>6, <1>7, <1>8, <1>9, <1>10, <1>11, <1>12, <1>13 DEF Step

-----------------------------------------------------------------------------
(* What was accepted, and where it is.                                     *)

\* The elements of two sequences behind each other.
LEMMA ConcatRange ==
  ASSUME NEW S, NEW u \in Seq(S), NEW v \in Seq(S)
  PROVE  Range(u \o v) = Range(u) \cup Range(v)
<1>1. /\ u \o v \in Seq(S) /\ Len(u \o v) = Len(u) + Len(v)
      /\ \A k \in 1..(Len(u) + Len(v)) :
           (u \o v)[k] = IF k <= Len(u) THEN u[k] ELSE v[k - Len(u)]
  BY ConcatParts
<1>2. /\ DOMAIN u = 1..Len(u) /\ DOMAIN v = 1..Len(v)
      /\ DOMAIN (u \o v) = 1..(Len(u) + Len(v))
      /\ Len(u) \in Nat /\ Len(v) \in Nat
  BY <1>1
<1> DEFINE w == u \o v
<1> HIDE DEF w
<1>3. ASSUME NEW k \in 1..(Len(u) + Len(v))
      PROVE  w[k] \in Range(u) \cup Range(v)
  <2>1. CASE k <= Len(u)
    <3>1. k \in 1..Len(u) /\ w[k] = u[k]
      BY <1>1, <1>2, <2>1 DEF w
    <3> QED BY <1>2, <3>1 DEF Range
  <2>2. CASE ~(k <= Len(u))
    <3>1. k - Len(u) \in 1..Len(v) /\ w[k] = v[k - Len(u)]
      BY <1>1, <1>2, <2>2 DEF w
    <3> QED BY <1>2, <3>1 DEF Range
  <2> QED BY <2>1, <2>2
<1>4. ASSUME NEW k \in 1..Len(u)
      PROVE  u[k] \in Range(w)
  <2>1. k \in 1..(Len(u) + Len(v)) /\ w[k] = u[k]
    BY <1>1, <1>2 DEF w
  <2> QED BY <1>2, <2>1 DEF Range, w
<1>5. ASSUME NEW k \in 1..Len(v)
      PROVE  v[k] \in Range(w)
  <2>1. k + Len(u) \in 1..(Len(u) + Len(v)) /\ w[k + Len(u)] = v[k]
    <3>1. /\ k + Len(u) \in 1..(Len(u) + Len(v)) /\ ~(k + Len(u) <= Len(u))
          /\ (k + Len(u)) - Len(u) = k
      BY <1>2
    <3> QED BY <1>1, <3>1 DEF w
  <2> QED BY <1>2, <2>1 DEF Range, w
<1> QED BY <1>2, <1>3, <1>4, <1>5 DEF Range, w

\* A sequence without repetition has as many elements as places.
LEMMA OnceCounted ==
  ASSUME NEW S, NEW s \in Seq(S), Once(s)
  PROVE  Cardinality(Range(s)) = Len(s)
<1>1. s \in [1..Len(s) -> Range(s)] /\ Len(s) \in Nat /\ DOMAIN s = 1..Len(s)
  BY DEF Range
<1>2. s \in Bijection(1..Len(s), Range(s))
  BY <1>1 DEF Once, Range, Bijection, Injection, Surjection, IsInjective
<1>3. ExistsBijection(1..Len(s), Range(s))
  BY <1>2 DEF ExistsBijection
<1> QED BY <1>1, <1>3, FS_CountingElements

\* Appending what is new to what was accepted.
LEMMA AcceptsNew ==
  ASSUME AcceptedOnce, HistoryTypes, NEW p \in Producers, NEW s \in Seq(Elem),
         NEW n \in [Producers -> 0..MaxSent],
         \A q \in Producers : sent[q] <= n[q], New(p, s, n)
  PROVE  /\ Once(accepted \o s)
         /\ \A i \in 1..Len(accepted \o s) :
              (accepted \o s)[i][2] <= n[(accepted \o s)[i][1]]
<1> DEFINE a == accepted
           w == a \o s
<1>1. /\ a \in Seq(Elem) /\ w \in Seq(Elem) /\ Len(w) = Len(a) + Len(s)
      /\ Len(a) \in Nat /\ Len(s) \in Nat
      /\ \A k \in 1..(Len(a) + Len(s)) :
           w[k] = IF k <= Len(a) THEN a[k] ELSE s[k - Len(a)]
  BY ConcatParts DEF HistoryTypes
<1>2. /\ Once(a) /\ Once(s)
      /\ \A i \in 1..Len(a) : a[i][2] <= sent[a[i][1]] /\ a[i] \in Range(a)
      /\ \A j \in 1..Len(s) : s[j][1] = p /\ s[j][2] <= n[p] /\ s[j] \notin Range(a)
  <2>1. \A i \in 1..Len(a) : a[i] \in Range(a)
    BY <1>1 DEF Range
  <2> QED BY <2>1 DEF AcceptedOnce, New
<1> HIDE DEF a, w
<1>3. Once(w)
  <2> SUFFICES ASSUME NEW i \in 1..Len(w), NEW j \in 1..Len(w), w[i] = w[j]
               PROVE  i = j
    BY DEF Once
  <2>1. CASE i <= Len(a) /\ j <= Len(a)
    <3>1. i \in 1..Len(a) /\ j \in 1..Len(a) /\ w[i] = a[i] /\ w[j] = a[j]
      BY <1>1, <2>1
    <3> QED BY <1>2, <3>1 DEF Once
  <2>2. CASE ~(i <= Len(a)) /\ ~(j <= Len(a))
    <3>1. /\ i - Len(a) \in 1..Len(s) /\ j - Len(a) \in 1..Len(s)
          /\ w[i] = s[i - Len(a)] /\ w[j] = s[j - Len(a)]
      BY <1>1, <2>2
    <3>2. i - Len(a) = j - Len(a)
      BY <1>2, <3>1 DEF Once
    <3> QED BY <1>1, <3>2
  <2>3. ASSUME NEW x \in 1..Len(w), NEW y \in 1..Len(w), x <= Len(a), ~(y <= Len(a)),
               w[x] = w[y]
        PROVE  FALSE
    <3>1. /\ x \in 1..Len(a) /\ y - Len(a) \in 1..Len(s)
          /\ w[x] = a[x] /\ w[y] = s[y - Len(a)]
      BY <1>1, <2>3
    <3> QED BY <1>2, <2>3, <3>1
  <2> QED BY <2>1, <2>2, <2>3
<1>4. ASSUME NEW i \in 1..Len(w)
      PROVE  w[i][2] <= n[w[i][1]]
  <2>1. CASE i <= Len(a)
    <3>1. i \in 1..Len(a) /\ w[i] = a[i]
      BY <1>1, <2>1
    <3>2. a[i] \in Elem
      BY <1>1, <3>1
    <3>3. a[i][1] \in Producers /\ a[i][2] \in 1..MaxSent
      BY <3>2 DEF Elem
    <3>4. /\ a[i][2] <= sent[a[i][1]] /\ sent[a[i][1]] <= n[a[i][1]]
          /\ sent[a[i][1]] \in 0..MaxSent /\ n[a[i][1]] \in 0..MaxSent
          /\ a[i][2] \in Nat /\ MaxSent \in Nat
      BY <1>2, <3>1, <3>3, ThreadAssumption, SMTT(30) DEF HistoryTypes
    <3> QED BY <3>1, <3>4
  <2>2. CASE ~(i <= Len(a))
    <3>1. i - Len(a) \in 1..Len(s) /\ w[i] = s[i - Len(a)]
      BY <1>1, <2>2
    <3> QED BY <1>2, <3>1
  <2> QED BY <2>1, <2>2
<1> QED BY <1>3, <1>4 DEF w, a

LEMMA AcceptedKept == IInv /\ Step => AcceptedOnce'
<1> SUFFICES ASSUME IInv, Step
             PROVE  AcceptedOnce'
  OBVIOUS
<1>1. /\ AcceptedOnce /\ Types /\ HistoryTypes /\ CallTypes
      /\ call \in [Threads -> Call] /\ Producers \cap Consumers = {}
      /\ Producers \subseteq Threads
  BY ThreadAssumption DEF IInv, Types, CallTypes, Threads
<1>2. ASSUME UNCHANGED <<accepted, sent>>, \A p \in Producers : call'[p] = call[p]
      PROVE  AcceptedOnce'
  BY <1>1, <1>2 DEF AcceptedOnce, New
<1>3. CASE Waking /\ UNCHANGED <<accepted, sent>>
  BY <1>2, <1>3 DEF Waking
<1>4. ASSUME NEW c \in Consumers, NEW kind \in usage.reads, ReadStep(c, kind)
      PROVE  AcceptedOnce'
  <2>1. UNCHANGED <<accepted, sent>>
    BY <1>4 DEF ReadStep, ReadDone, ReadBlocked
  <2>2. \A p \in Producers : call'[p] = call[p]
    BY <1>1, <1>4, ReadCallEffect
  <2> QED BY <1>2, <2>1, <2>2
<1>5. ASSUME NEW p \in Producers, NEW kind \in {"single", "batch"},
             NEW s \in Seq(Elem), WriteStep(p, kind, s)
      PROVE  AcceptedOnce'
  <2>1. /\ sent' \in [Producers -> 0..MaxSent] /\ New(p, s, sent')
        /\ \A q \in Producers : sent[q] <= sent'[q] /\ sent[q] \in Nat /\ sent'[q] \in Nat
    BY <1>1, <1>5, ThreadAssumption DEF WriteStep, HistoryTypes
  <2>2. \A q \in Producers : q # p => call'[q] = call[q]
    BY <1>1, <1>5, WriteCallEffect
  <2>3. \A q \in Producers : q # p /\ call'[q].op = "write" =>
          /\ Once(call'[q].items)
          /\ \A j \in 1..Len(call'[q].items) :
               /\ call'[q].items[j][1] = q /\ call'[q].items[j][2] <= sent[q]
               /\ call'[q].items[j] \notin Range(accepted)
    BY <1>1, <2>2 DEF AcceptedOnce, New
  <2>4. \A q \in Producers : q # p /\ call'[q].op = "write" =>
          call'[q].items \in Seq(Elem)
    BY <1>1, <2>2, CallParts DEF Idle
  <2>5. \A q \in Producers : q # p /\ call'[q].op = "write" =>
          \A j \in 1..Len(call'[q].items) : call'[q].items[j][2] <= sent'[q]
    <3> SUFFICES ASSUME NEW q \in Producers, q # p, call'[q].op = "write",
                        NEW j \in 1..Len(call'[q].items)
                 PROVE  call'[q].items[j][2] <= sent'[q]
      OBVIOUS
    <3>1. call'[q].items[j] \in Elem
      BY <2>4
    <3>2. call'[q].items[j][2] \in Nat
      BY <3>1, ThreadAssumption DEF Elem
    <3>3. call'[q].items[j][2] <= sent[q]
      BY <2>3
    <3> QED BY <2>1, <3>2, <3>3
  <2>6. CASE UNCHANGED accepted
    <3>1. ASSUME NEW q \in Producers, q # p, call'[q].op = "write"
          PROVE  New(q, call[q].items, sent)'
      BY <2>3, <2>5, <2>6, <3>1 DEF New
    <3>2. call'[p].op = "write" => New(p, call[p].items, sent)'
      <4>1. \/ call' = [call EXCEPT ![p] = Idle]
            \/ call' = [call EXCEPT ![p] = WriteCall(kind, s)]
            \/ call' = call
        BY <1>5, WriteCallEffect
      <4>2. New(p, s, sent)'
        BY <2>1, <2>6 DEF New
      <4>3. CASE call' = call
        <5>1. ASSUME call[p].op = "write"
              PROVE  New(p, call[p].items, sent)'
          <6>1. New(p, call[p].items, sent) /\ call[p].items \in Seq(Elem)
            BY <1>1, <5>1, CallParts DEF AcceptedOnce, Idle
          <6>2. \A j \in 1..Len(call[p].items) : call[p].items[j][2] <= sent'[p]
            <7> TAKE j \in 1..Len(call[p].items)
            <7>1. call[p].items[j] \in Elem
              BY <6>1
            <7>2. call[p].items[j][2] \in Nat
              BY <7>1, ThreadAssumption DEF Elem
            <7>3. call[p].items[j][2] <= sent[p]
              BY <6>1 DEF New
            <7> QED BY <2>1, <7>2, <7>3
          <6> QED BY <2>6, <4>3, <6>1, <6>2 DEF New
        <5> QED BY <4>3, <5>1
      <4> QED BY <1>1, <4>1, <4>2, <4>3 DEF WriteCall, Idle
    <3>3. \A i \in 1..Len(accepted) : accepted[i][2] <= sent'[accepted[i][1]]
      <4> TAKE i \in 1..Len(accepted)
      <4>1. accepted[i] \in Elem
        BY <1>1 DEF HistoryTypes
      <4>2. accepted[i][1] \in Producers /\ accepted[i][2] \in Nat
        BY <4>1, ThreadAssumption DEF Elem
      <4>3. accepted[i][2] <= sent[accepted[i][1]]
        BY <1>1 DEF AcceptedOnce
      <4> QED BY <2>1, <4>2, <4>3
    <3> QED BY <1>1, <2>6, <3>1, <3>2, <3>3 DEF AcceptedOnce
  <2>7. CASE WriteAccepted(p, kind, s)
    <3>1. /\ accepted' = accepted \o s /\ call' = [call EXCEPT ![p] = Idle]
          /\ accepted \in Seq(Elem)
      BY <1>1, <2>7 DEF WriteAccepted, HistoryTypes
    <3>2. /\ Once(accepted)'
          /\ \A i \in 1..Len(accepted') : accepted'[i][2] <= sent'[accepted'[i][1]]
      <4>1. /\ Once(accepted \o s)
            /\ \A i \in 1..Len(accepted \o s) :
                 (accepted \o s)[i][2] <= sent'[(accepted \o s)[i][1]]
        BY <1>1, <2>1, AcceptsNew
      <4> QED BY <3>1, <4>1
    <3>3. Range(accepted') = Range(accepted) \cup Range(s) /\ DOMAIN s = 1..Len(s)
      BY <3>1, ConcatRange
    <3>4. ASSUME NEW q \in Producers, call'[q].op = "write"
          PROVE  New(q, call[q].items, sent)'
      <4>1. q # p
        BY <1>1, <3>1, <3>4 DEF Idle
      <4>2. \A j \in 1..Len(call'[q].items) : call'[q].items[j] \notin Range(s)
        <5>1. \A j \in 1..Len(s) : s[j][1] = p
          BY <2>1 DEF New
        <5>2. \A j \in 1..Len(call'[q].items) : call'[q].items[j][1] = q
          BY <2>3, <3>4, <4>1
        <5> QED BY <3>3, <4>1, <5>1, <5>2 DEF Range
      <4> QED BY <2>3, <2>5, <3>3, <3>4, <4>1, <4>2 DEF New
    <3> QED BY <3>2, <3>4 DEF AcceptedOnce
  <2> QED BY <1>5, <2>6, <2>7 DEF WriteStep, WritePass, WriteGivenUp, WriteBlocked,
                                  WriteRefused
<1>6. ASSUME \/ \E q \in Producers : RegisterProducer(q) \/ UnregisterProducer(q)
             \/ \E c \in Consumers : RegisterConsumer(c) \/ UnregisterConsumer(c),
             UNCHANGED usage
      PROVE  AcceptedOnce'
  <2>1. Waking
    BY <1>6, WakingSteps
  <2>2. BufferUntouched
    BY <1>6, RegisteringEffect
  <2> QED BY <1>3, <2>1, <2>2 DEF BufferUntouched
<1>7. CASE Clear \/ (\E l \in usage.limits : SetMaxSize(l)) \/ UNCHANGED vars
  BY <1>2, <1>7 DEF Clear, SetMaxSize, vars
<1> QED BY <1>4, <1>5, <1>6, <1>7 DEF Step

\* A write that is accepted.
LEMMA WriteBalances ==
  ASSUME NEW a \in Seq(Elem), NEW g \in Seq(Elem), NEW L, NEW b, Sound(b, L),
         Balance(a, g, b), NEW s \in Seq(Elem), Accepts(b, s), L \subseteq Nat
  PROVE  Balance(a \o s, g, Written(b, s))
<1> DEFINE r == Written(b, s)
<1>1. /\ b.size \in Nat /\ Contents(b) \in Seq(Elem) /\ Len(Contents(b)) = b.size
      /\ Live(b, Elem) /\ b.limit \in Nat
  BY SoundNumbers DEF Sound
<1>2. GrownBy(r, b, s) /\ Sound(r, L) /\ r.size = b.size + Len(s)
  <2>1. s \in Seq(Stored)
    BY DEF Stored
  <2>2. GrownBy(r, b, s)
    BY <1>1, <2>1, WrittenGeometry DEF Sound
  <2> QED BY <2>2, WriteIsSound
<1> HIDE DEF r
<1>3. Contents(r) \in Seq(Elem) /\ Len(Contents(r)) = r.size /\ r.size \in Nat
  BY <1>2, SoundNumbers
<1>4. Range(Contents(r)) = Range(Contents(b)) \cup Range(s)
  <2>1. Waiting(r) = Waiting(b) \cup Offers(s)
    BY <1>1, <1>2, GrownRange
  <2>2. /\ DOMAIN Contents(r) = 1..r.size /\ DOMAIN Contents(b) = 1..b.size
        /\ DOMAIN s = 1..Len(s)
    BY <1>1, <1>3
  <2> QED BY <2>1, <2>2 DEF Range, Waiting, Offers
<1>5. Range(a \o s) = Range(a) \cup Range(s)
  BY ConcatRange
<1>6. Len(a \o s) = Len(a) + Len(s) /\ Len(a) \in Nat /\ Len(s) \in Nat /\ Len(g) \in Nat
  BY ConcatParts
<1> QED BY <1>1, <1>2, <1>4, <1>5, <1>6 DEF Balance, r

\* A read hands out the first elements and leaves the others.
LEMMA ReadBalances ==
  ASSUME NEW a \in Seq(Elem), NEW g \in Seq(Elem), NEW L, NEW b, Sound(b, L),
         Balance(a, g, b), NEW r, Sound(r, L), Taken(r, b)
  PROVE  Balance(a, g \o SubSeq(Contents(b), 1, b.size - r.size), r)
<1> DEFINE c == Contents(b)
           d == Contents(r)
           n == b.size - r.size
           x == SubSeq(c, 1, n)
<1>1. /\ c \in Seq(Elem) /\ Len(c) = b.size /\ d \in Seq(Elem) /\ Len(d) = r.size
      /\ b.size \in Nat /\ r.size \in Nat /\ n \in Nat /\ n + r.size = b.size
      /\ n <= Len(c)
  BY SoundNumbers DEF Taken
<1>2. \A i \in 1..r.size : d[i] = c[n + i]
  BY DEF Taken
<1> HIDE DEF c, d, n
<1>3. x \in Seq(Elem) /\ Len(x) = n /\ \A i \in 1..n : x[i] = c[i]
  BY <1>1
<1> HIDE DEF x
<1>4. Range(c) = Range(x) \cup Range(d)
  <2>1. /\ DOMAIN c = 1..b.size /\ DOMAIN d = 1..r.size /\ DOMAIN x = 1..n
    BY <1>1, <1>3
  <2>2. ASSUME NEW i \in 1..b.size
        PROVE  c[i] \in Range(x) \cup Range(d)
    <3>1. CASE i <= n
      <4>1. i \in 1..n
        BY <1>1, <3>1
      <4> QED BY <1>3, <2>1, <4>1 DEF Range
    <3>2. CASE ~(i <= n)
      <4>1. i - n \in 1..r.size /\ n + (i - n) = i
        BY <1>1, <3>2
      <4>2. d[i - n] = c[i]
        BY <1>2, <4>1
      <4> QED BY <2>1, <4>1, <4>2 DEF Range
    <3> QED BY <3>1, <3>2
  <2>3. ASSUME NEW i \in 1..n
        PROVE  x[i] \in Range(c)
    <3>1. i \in 1..b.size
      BY <1>1
    <3> QED BY <1>3, <2>1, <3>1 DEF Range
  <2>4. ASSUME NEW i \in 1..r.size
        PROVE  d[i] \in Range(c)
    <3>1. n + i \in 1..b.size
      BY <1>1
    <3> QED BY <1>2, <2>1, <3>1 DEF Range
  <2>5. Range(x) \subseteq Range(c) /\ Range(d) \subseteq Range(c)
    BY <2>1, <2>3, <2>4 DEF Range
  <2>6. Range(c) \subseteq Range(x) \cup Range(d)
    <3> HIDE DEF x
    <3>1. ASSUME NEW y \in Range(c)
          PROVE  y \in Range(x) \cup Range(d)
      <4>1. PICK i \in 1..b.size : y = c[i]
        BY <2>1 DEF Range
      <4> QED BY <2>2, <4>1
    <3> QED BY <3>1
  <2> QED BY <2>5, <2>6
<1>5. Range(g \o x) = Range(g) \cup Range(x) /\ Len(g \o x) = Len(g) + n
  BY <1>3, ConcatRange, ConcatParts, ZenonT(60)
<1>6. Range(a) = Range(g) \cup Range(c) /\ Len(a) = Len(g) + b.size
  BY DEF Balance, c
<1>7. Range(a) = Range(g \o x) \cup Range(d)
  BY <1>4, <1>5, <1>6
<1>8. Len(a) = Len(g \o x) + r.size
  <2>1. Len(g) \in Nat
    OBVIOUS
  <2> QED BY <1>1, <1>5, <1>6, <2>1
<1> QED BY <1>7, <1>8 DEF Balance, x, c, d, n

LEMMA BalanceKept == IInv /\ Step => Balance(accepted, gone, buf)'
<1> SUFFICES ASSUME IInv, Step
             PROVE  Balance(accepted', gone', buf')
  BY DEF Balance, Contents, Slot, Capacity, Range
<1>1. /\ Types /\ Sound(buf, LimitsUsed) /\ LimitsUsed \subseteq Nat
      /\ accepted \in Seq(Elem) /\ gone \in Seq(Elem) /\ Balance(accepted, gone, buf)
  BY UsageParts DEF IInv, Types, HistoryTypes
<1>2. CASE BufferUntouched \/ UNCHANGED vars
  BY <1>1, <1>2 DEF BufferUntouched, vars
<1>3. ASSUME NEW p \in Producers, NEW kind \in {"single", "batch"},
             NEW s \in Seq(Elem), WriteStep(p, kind, s)
      PROVE  Balance(accepted', gone', buf')
  <2>1. \/ UNCHANGED <<accepted, gone, buf>>
        \/ /\ Accepts(buf, s) /\ buf' = Written(buf, s)
           /\ accepted' = accepted \o s /\ gone' = gone
    BY <1>3 DEF WriteStep, WritePass, WriteAccepted, WriteGivenUp, WriteBlocked,
                WriteRefused
  <2>2. Accepts(buf, s) => Balance(accepted \o s, gone, Written(buf, s))
    BY <1>1, WriteBalances
  <2> QED BY <1>1, <2>1, <2>2
<1>4. ASSUME NEW c \in Consumers, NEW kind \in usage.reads, ReadStep(c, kind)
      PROVE  Balance(accepted', gone', buf')
  <2>1. CASE ReadDone(c, kind)
    <3>1. /\ Sound(buf', LimitsUsed) /\ Taken(buf', buf)
          /\ gone' = gone \o SubSeq(Contents(buf), 1, buf.size - buf'.size)
          /\ accepted' = accepted
      BY <1>1, <2>1, ReadEffect DEF ReadDone
    <3> QED BY <1>1, <3>1, ReadBalances
  <2>2. CASE ReadBlocked(c, kind)
    BY <1>1, <2>2 DEF ReadBlocked
  <2> QED BY <1>4, <2>1, <2>2 DEF ReadStep
<1>5. CASE Clear
  <2>1. /\ Sound(buf', LimitsUsed) /\ Taken(buf', buf) /\ buf'.size = 0
        /\ gone' = gone \o Contents(buf) /\ accepted' = accepted
    BY <1>1, <1>5, ClearIsSound DEF Clear
  <2>2. SubSeq(Contents(buf), 1, buf.size - buf'.size) = Contents(buf)
    <3>1. /\ Contents(buf) \in Seq(Elem) /\ Len(Contents(buf)) = buf.size
          /\ buf.size \in Nat
      BY <1>1, SoundNumbers
    <3>2. buf.size - buf'.size = Len(Contents(buf))
      BY <2>1, <3>1
    <3> QED BY <3>1, <3>2
  <2>3. Balance(accepted, gone \o SubSeq(Contents(buf), 1, buf.size - buf'.size), buf')
    BY <1>1, <2>1, ReadBalances
  <2> QED BY <2>1, <2>2, <2>3
<1>6. ASSUME NEW l \in usage.limits, SetMaxSize(l)
      PROVE  Balance(accepted', gone', buf')
  <2>1. /\ Contents(buf') = Contents(buf) /\ buf'.size = buf.size
        /\ UNCHANGED <<accepted, gone>>
    BY <1>1, <1>6, ResizeEffect DEF SetMaxSize
  <2> QED BY <1>1, <2>1 DEF Balance
<1> QED BY <1>2, <1>3, <1>4, <1>5, <1>6, RegisteringEffect DEF Step

\* at_end() is final when every guard exists before the first call: no
\* producer is left that could write.
LEMMA EndStays == IInv /\ Step /\ usage.early /\ at_end => at_end'
<1> SUFFICES ASSUME IInv, Step, usage.early, at_end
             PROVE  at_end'
  OBVIOUS
<1>1. /\ Types /\ Sound(buf, LimitsUsed) /\ guard \in Guards /\ GuardTypes
      /\ buf.size = 0 /\ producer_count = 0 /\ producer_registered
      /\ Producers \subseteq Threads
  BY DEF IInv, Types, GuardTypes, at_end, producers_available, Threads, Guards
<1>2. \A p \in Producers : guard[p] \notin {"none", "open"}
  <2>1. Open(Producers, guard) = {}
    <3>1. /\ Cardinality(Open(Producers, guard)) = 0
          /\ Open(Producers, guard) \in SUBSET Producers
      BY <1>1, CountsOpen DEF IInv, Open
    <3> QED BY <3>1, FS_Subset, FS_EmptySet, ThreadAssumption
  <2>2. \A p \in Producers : guard[p] # "open"
    BY <2>1 DEF Open
  <2>3. PICK p \in Producers : guard[p] # "none"
    BY <1>1 DEF IInv, Registrations
  <2>4. guard[p] = "closed"
    BY <1>1, <2>2, <2>3 DEF Guards
  <2>5. \A t \in Threads : guard[t] # "none"
    BY <1>1, <2>4 DEF IInv, Registrations
  <2> QED BY <1>1, <2>2, <2>5
<1>3. CASE buf'.size = 0 /\ UNCHANGED <<producer_count, producer_registered>>
  BY <1>1, <1>3 DEF at_end, producers_available
<1>4. ASSUME NEW p \in Producers, RegisterProducer(p) \/ UnregisterProducer(p)
      PROVE  FALSE
  BY <1>2, <1>4 DEF RegisterProducer, UnregisterProducer
<1>5. ASSUME NEW p \in Producers, NEW kind, NEW s, WriteStep(p, kind, s)
      PROVE  FALSE
  BY <1>2, <1>5 DEF WriteStep
<1>6. ASSUME NEW c \in Consumers, RegisterConsumer(c) \/ UnregisterConsumer(c)
      PROVE  at_end'
  BY <1>1, <1>3, <1>6 DEF RegisterConsumer, UnregisterConsumer
<1>7. ASSUME NEW c \in Consumers, NEW kind \in usage.reads, ReadStep(c, kind)
      PROVE  at_end'
  <2>1. UNCHANGED <<producer_count, producer_registered>>
    BY <1>7 DEF ReadStep, registration
  <2>2. CASE ReadBlocked(c, kind)
    BY <1>1, <1>3, <2>1, <2>2 DEF ReadBlocked
  <2>3. CASE ReadDone(c, kind)
    <3>1. buf'.size \in Nat /\ buf'.size <= buf.size
      BY <1>1, <2>3, ReadEffect DEF Taken
    <3>2. buf'.size = 0
      BY <1>1, <3>1
    <3> QED BY <1>3, <2>1, <3>2
  <2> QED BY <1>7, <2>2, <2>3 DEF ReadStep
<1>8. CASE Clear
  <2>1. buf'.size = 0
    BY <1>1, <1>8, ClearEffect
  <2> QED BY <1>3, <1>8, <2>1 DEF Clear, registration
<1>9. ASSUME NEW l \in usage.limits, SetMaxSize(l)
      PROVE  at_end'
  <2>1. buf'.size = 0
    BY <1>1, <1>9, ResizeEffect
  <2> QED BY <1>3, <1>9, <2>1 DEF SetMaxSize, registration
<1>10. CASE UNCHANGED vars
  BY <1>1, <1>3, <1>10 DEF vars, registration
<1> QED BY <1>4, <1>5, <1>6, <1>7, <1>8, <1>9, <1>10 DEF Step

LEMMA EndKept == IInv /\ Step => EndIsSeen'
<1> SUFFICES ASSUME IInv, Step, usage.early, ended' # {}
             PROVE  at_end'
  BY SameUsage DEF EndIsSeen
<1>1. ended = {} \/ at_end
  BY DEF IInv, EndIsSeen
<1>2. CASE at_end
  BY <1>2, EndStays
<1>3. CASE ~at_end
  <2>1. ended' = ended
    <3>1. ASSUME NEW p \in Producers, NEW kind, NEW s, WriteStep(p, kind, s)
          PROVE  ended' = ended
      BY <3>1 DEF WriteStep
    <3>2. ASSUME NEW c \in Consumers, NEW kind, ReadStep(c, kind)
          PROVE  ended' = ended
      BY <1>3, <3>2 DEF ReadStep, ReadBlocked
    <3>3. CASE Clear \/ (\E l \in usage.limits : SetMaxSize(l)) \/ UNCHANGED vars
      BY <3>3 DEF Clear, SetMaxSize, vars
    <3> QED BY <3>1, <3>2, <3>3, RegisteringEffect DEF Step, BufferUntouched
  <2> QED BY <1>1, <1>3, <2>1
<1> QED BY <1>2, <1>3

-----------------------------------------------------------------------------
(* The invariant, and what follows.                                        *)

LEMMA InitEstablishes == Init => IInv
<1> SUFFICES ASSUME Init
             PROVE  IInv
  OBVIOUS
<1>1. /\ usage \in Usages /\ buf = EmptyBuffer(Limit)
      /\ call = [t \in Threads |-> Idle] /\ guard = [t \in Threads |-> "none"]
      /\ producer_wait = {} /\ consumer_wait = {}
      /\ producer_count = 0 /\ consumer_count = 0
      /\ producer_registered = FALSE /\ consumer_registered = FALSE
      /\ sent = [p \in Producers |-> 0]
      /\ accepted = <<>> /\ gone = <<>> /\ ended = {}
      /\ Producers \subseteq Threads /\ Consumers \subseteq Threads
  BY DEF Init, Threads
<1>2. /\ <<>> \in Seq(Stored) /\ <<>> \in Seq(Elem) /\ Len(<<>>) = 0
      /\ Idle \in Call /\ Idle.op = "idle" /\ MaxSent \in Nat
  BY EmptySeq, CallsMade, ThreadAssumption DEF Idle
<1>3. Sound(buf, LimitsUsed) /\ buf.size = 0 /\ buf.first = 0
  <2>1. /\ buf \in Buffers(Stored, LimitsUsed) /\ buf.data = <<>>
        /\ buf.size = 0 /\ buf.first = 0 /\ buf.closed = FALSE
    BY <1>1, <1>2 DEF EmptyBuffer, Buffers, LimitsUsed
  <2>2. Geometry(buf) /\ Live(buf, Elem)
    BY <1>2, <2>1 DEF Geometry, Live, Capacity
  <2> QED BY <2>1, <2>2 DEF Sound
<1>4. CallTypes
  BY <1>1, <1>2 DEF CallTypes
<1>5. GuardTypes
  BY <1>1 DEF GuardTypes
<1>6. HistoryTypes
  BY <1>1, <1>2 DEF HistoryTypes
<1>7. Types
  BY <1>1, <1>3, <1>4, <1>5, <1>6 DEF Types
<1>8. CountsMatchGuards
  <2>1. /\ {p \in Producers : guard[p] = "open"} = {}
        /\ {c \in Consumers : guard[c] = "open"} = {}
    BY <1>1
  <2> QED BY <1>1, <2>1, FS_EmptySet DEF CountsMatchGuards
<1>9. SinglesAreSingle /\ BusyThreadsAreOpen
  BY <1>1, <1>2 DEF SinglesAreSingle, BusyThreadsAreOpen
<1>10. Registrations
  BY <1>1 DEF Registrations
<1>11. SleepingProducersMustWait /\ SleepingConsumersMustWait
  BY <1>1 DEF SleepingProducersMustWait, SleepingConsumersMustWait
<1>12. StartsOver /\ FirstInFirstOut
  <2>1. Contents(buf) \in Seq(Elem) /\ Len(Contents(buf)) = 0
    BY <1>3, SoundNumbers
  <2>2. Contents(buf) = <<>>
    BY <2>1, EmptySeq
  <2>3. <<>> = <<>> \o <<>>
    BY EmptySeq
  <2> QED BY <1>1, <1>3, <2>2, <2>3 DEF StartsOver, FirstInFirstOut
<1>13. AcceptedOnce
  <2>1. \A p \in Producers : call[p].op # "write"
    BY <1>1, <1>2
  <2> QED BY <1>1, <1>2, <2>1 DEF AcceptedOnce, Once
<1>14. Balance(accepted, gone, buf)
  <2>1. Contents(buf) \in Seq(Elem) /\ Len(Contents(buf)) = 0
    BY <1>3, SoundNumbers
  <2>2. Contents(buf) = <<>>
    BY <2>1, EmptySeq
  <2> QED BY <1>1, <1>2, <1>3, <2>2 DEF Balance, Range
<1>15. EndIsSeen
  BY <1>1 DEF EndIsSeen
<1> QED BY <1>7, <1>8, <1>9, <1>10, <1>11, <1>12, <1>13, <1>14, <1>15 DEF IInv

LEMMA StepPreserves == IInv /\ [Next]_vars => IInv'
<1> SUFFICES ASSUME IInv, Step
             PROVE  IInv'
  BY StepCases
<1>1. (usage \in Usages)'
  BY SameUsage DEF IInv, Types
<1>2. Types'
  BY <1>1, BufferKept, CallsKept, GuardsKept, HistoryKept DEF Types
<1>3. (StartsOver /\ FirstInFirstOut)'
  BY QueueKept DEF Queue, StartsOver, FirstInFirstOut
<1> QED BY <1>2, <1>3, SinglesKept, BusyKept, GuardsKept, RegistrationsKept,
           ProducersKept, ConsumersKept, AcceptedKept, BalanceKept, EndKept DEF IInv

LEMMA Invariance == Spec => []IInv
  BY InitEstablishes, StepPreserves, PTL DEF Spec

\* Type correctness: the geometry of the shared buffer survives every order of
\* calls, and only threads blocked in a write (a read) are in the wait set of
\* the producers (the consumers).
THEOREM TypeCorrect == Spec => []TypeOK
<1>1. IInv => TypeOK
  BY DEF IInv, Types, Sound, Stored, LimitsUsed, CallTypes, GuardTypes,
         HistoryTypes, TypeOK
<1> QED BY <1>1, Invariance, PTL

\* No wakeup of a producer is lost, for any number of threads and elements:
\* one that sleeps could not have gone on.
THEOREM NoProducerSleepsInVain == Spec => []SleepingProducersMustWait
<1>1. IInv => SleepingProducersMustWait
  BY DEF IInv
<1> QED BY <1>1, Invariance, PTL

\* No wakeup of a consumer is lost: while one sleeps, every element in the
\* buffer has a woken consumer on its way to it.
THEOREM NoConsumerSleepsInVain == Spec => []SleepingConsumersMustWait
<1>1. IInv => SleepingConsumersMustWait
  BY DEF IInv
<1> QED BY <1>1, Invariance, PTL

\* The registration counts are the numbers of open guards.
THEOREM CountsAreOfOpenGuards == Spec => []CountsMatchGuards
<1>1. IInv => CountsMatchGuards
  BY DEF IInv
<1> QED BY <1>1, Invariance, PTL

\* The monitor's representation is sound whenever no thread holds the mutex.
THEOREM MonitorIsConsistent == Spec => []Consistent
BY TypeCorrect, CountsAreOfOpenGuards, PTL DEF Consistent

\* No notification of io_threadsafe_buffer is lost, for any number of threads.
THEOREM NoWakeupIsLost == Spec => []NoLostWakeup
BY NoProducerSleepsInVain, NoConsumerSleepsInVain, PTL DEF NoLostWakeup

\* Consumers that take everything get the elements in the order in which they
\* were accepted, and lose none, however reads, writes and clears interleave.
THEOREM TakersFindAQueue == Spec => []FirstInFirstOut
<1>1. IInv => FirstInFirstOut
  BY DEF IInv
<1> QED BY <1>1, Invariance, PTL

\* Once every guard exists before the first call, at_end() stays true.
THEOREM EndIsFinal == Spec => AtEndIsFinalOnceRegistered
<1>1. IInv /\ [Next]_vars => [usage.early /\ at_end => at_end']_vars
  BY StepCases, EndStays
<1> QED BY <1>1, Invariance, PTL DEF Spec, AtEndIsFinalOnceRegistered

\* A consumer told that the stream ended missed nothing that any producer ever
\* got accepted.
THEOREM EndMissesNothing == Spec => []EndOfStreamIsComplete
<1>1. IInv => EndOfStreamIsComplete
  <2> SUFFICES ASSUME IInv, usage.early, ended # {}
               PROVE  Range(accepted) = Range(gone)
    BY DEF EndOfStreamIsComplete
  <2>1. Contents(buf) = <<>>
    BY DEF IInv, EndIsSeen, at_end, Contents
  <2>2. Range(<<>>) = {}
    BY DEF Range
  <2> QED BY <2>1, <2>2 DEF IInv, Balance
<1> QED BY <1>1, Invariance, PTL

\* What the producers get accepted is handed out once: nothing is lost or
\* duplicated, whatever the vector's layout was when it grew.
THEOREM NothingIsLost == Spec => []NothingLostOrDuplicated
<1>1. IInv => NothingLostOrDuplicated
  <2> SUFFICES ASSUME IInv
               PROVE  NothingLostOrDuplicated
    OBVIOUS
  <2>1. accepted \in Seq(Elem) /\ Once(accepted)
    BY DEF IInv, Types, HistoryTypes, AcceptedOnce
  <2>2. Cardinality(Range(accepted)) = Len(accepted)
    BY <2>1, OnceCounted
  <2> QED BY <2>2 DEF IInv, Balance, NothingLostOrDuplicated
<1> QED BY <1>1, Invariance, PTL

\* The elements of all producers together are handed out once, and in the
\* order of acceptance to consumers that take everything.
THEOREM HandsOutOnceInOrder == Spec => []HandedOutOnceInOrder
BY NothingIsLost, TakersFindAQueue, PTL DEF HandedOutOnceInOrder

=============================================================================
