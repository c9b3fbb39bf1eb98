-------------------------- MODULE AsyncLoggerProofs --------------------------
(***************************************************************************)
(* The safety of async_logger for any number of clients, limits and        *)
(* entries: the order of what is written, no client asleep without a worker*)
(* to wake it, and what the first close() may rely on.                     *)
(***************************************************************************)
EXTENDS AsyncLogger, SequenceTheorems, TLAPS

\* A client only sleeps beside a queue with something in it, which the worker
\* is about to take, and the worker only sleeps beside an empty one.
Beds == /\ \A t \in Clients : call[t].op = "log" => Len(call[t].items) = 1
        /\ \A t \in Clients : call[t].op = "batch" => call[t].items # <<>>
        /\ producer_wait # {} => queue # <<>>
        /\ worker = "asleep" => queue = <<>>

\* One client at most takes the guard's pointer, and is the one to unregister.
Guarded ==
  /\ guard_open => producer_count = 1
  /\ \A t \in Clients : call[t].op = "hang up" => producer_count = 1 /\ ~guard_open
  /\ \A t, u \in Clients : call[t].op = "hang up" /\ call[u].op = "hang up" => t = u
  /\ worker \in {"stopping", "done"} => producer_count = 0

\* When the worker has stopped, what was due at the first close() is written.
Drained ==
  /\ \A t \in Clients : due[t] <= Len(accepted)
  /\ worker \in {"stopping", "done"} =>
       \A t \in Clients : call[t].op \in {"join", "joined"} => due[t] <= Len(written)
  /\ \A t \in Clients : call[t].op = "joined" => worker = "done"

IInv == /\ TypeOK /\ WrittenInOrder /\ SleepersHaveAWorker
        /\ Beds /\ Guarded /\ Drained

-----------------------------------------------------------------------------
\* What a client is doing between two calls is well-formed.
LEMMA CallsMade ==
  /\ Idle \in Calls
  /\ \A op \in {"hang up", "join", "joined", "closed"} : Doing(op) \in Calls
BY DEF Idle, Doing, Calls

\* The parts of what a client is doing.
LEMMA CallParts ==
  ASSUME TypeOK, NEW t \in Clients
  PROVE  call[t] \in Calls /\ call[t].items \in Seq(Entry)
BY DEF TypeOK, Calls

\* Appending the same entries to the queue and to what was accepted.
LEMMA OrderKept ==
  ASSUME written \in Seq(Entry), entries \in Seq(Entry), queue \in Seq(Entry),
         NEW s \in Seq(Entry), WrittenInOrder,
         queue' = queue \o s, accepted' = accepted \o s,
         written' = written, entries' = entries
  PROVE  WrittenInOrder'
<1>1. ((written \o entries) \o queue) \o s = (written \o entries) \o (queue \o s)
  OBVIOUS
<1>2. accepted = (written \o entries) \o queue
  BY DEF WrittenInOrder
<1> QED BY <1>1, <1>2, Zenon DEF WrittenInOrder

LEMMA InitEstablishes == Init => IInv
<1> SUFFICES ASSUME Init PROVE IInv
  OBVIOUS
<1> USE LoggerAssumption DEF Init
<1>1. TypeOK
  <2>1. /\ <<>> \in Seq(Entry) /\ 0 \in 0..MaxLogged /\ -1 \in {-1} \cup Nat
        /\ \A t \in {} : t \in Clients
    OBVIOUS
  <2> QED BY <2>1, CallsMade DEF TypeOK
<1>2. WrittenInOrder /\ SleepersHaveAWorker
  BY DEF WrittenInOrder, SleepersHaveAWorker
<1>3. \A t \in Clients : call[t].op = "idle" /\ due[t] = -1
  BY DEF Idle
<1>4. Len(accepted) = 0
  OBVIOUS
<1>5. Beds /\ Guarded
  BY <1>3 DEF Beds, Guarded
<1>6. Drained
  BY <1>3, <1>4 DEF Drained
<1> QED BY <1>1, <1>2, <1>5, <1>6 DEF IInv

\* The entries of a log() or batch_log() are well-formed.
LEMMA NextEntriesType ==
  ASSUME TypeOK, NEW t \in Clients, NEW n \in 1..MaxBatch,
         logged[t] + n <= MaxLogged
  PROVE  /\ NextEntries(t, n) \in Seq(Entry)
         /\ Len(NextEntries(t, n)) = n
         /\ NextEntries(t, n) # <<>>
<1>1. n \in Nat /\ n > 0 /\ logged[t] \in Nat /\ MaxLogged \in Nat
  BY LoggerAssumption DEF TypeOK
<1>2. \A i \in 1..n : logged[t] + i \in 1..MaxLogged
  BY <1>1
<1>3. NextEntries(t, n) \in [1..n -> Entry]
  BY <1>2 DEF NextEntries, Entry
<1> QED BY <1>1, <1>3

\* One pass of a waiting write keeps the invariant, whoever makes it.
LEMMA PassPreserves ==
  ASSUME IInv, NEW t \in Clients, NEW kind \in {"log", "batch"},
         NEW s \in Seq(Entry), s # <<>>, kind = "log" => Len(s) = 1,
         t \notin producer_wait, call[t].op \in {"idle", "log", "batch"},
         LogPass(t, kind, s),
         logged' \in [Clients -> 0..MaxLogged],
         UNCHANGED <<limit, producer_count, guard_open, entries, written, due>>
  PROVE  IInv'
<1> USE LoggerAssumption
<1>0. TypeOK /\ Beds /\ Guarded /\ Drained /\ WrittenInOrder /\ SleepersHaveAWorker
  BY DEF IInv
<1>1. /\ queue \in Seq(Entry) /\ accepted \in Seq(Entry) /\ written \in Seq(Entry)
      /\ entries \in Seq(Entry) /\ limit \in Nat /\ Len(s) \in Nat /\ Len(s) > 0
      /\ Len(queue) \in Nat /\ call \in [Clients -> Calls]
  BY <1>0 DEF TypeOK
<1>2. CASE LogAccepted(t, s)
  <2>1. /\ queue' = queue \o s /\ accepted' = accepted \o s
        /\ worker' = IF worker = "asleep" THEN "reading" ELSE worker
        /\ call' = [call EXCEPT ![t] = Idle]
        /\ producer_wait' = producer_wait
    BY <1>2 DEF LogAccepted
  <2>2. queue' \in Seq(Entry) /\ accepted' \in Seq(Entry) /\ queue' # <<>>
        /\ Len(accepted') >= Len(accepted)
    BY <1>1, <2>1
  <2>3. TypeOK'
    BY <1>0, <2>1, <2>2, CallsMade DEF TypeOK
  <2>4. WrittenInOrder'
    BY <1>0, <1>1, <2>1, OrderKept, Zenon
  <2>5. SleepersHaveAWorker'
    BY <1>0, <2>1 DEF SleepersHaveAWorker
  <2>6. Beds'
    BY <1>0, <1>1, <2>1, <2>2 DEF Beds, Idle
  <2>7. Guarded'
    BY <1>0, <1>1, <2>1 DEF Guarded, Idle
  <2>8. Drained'
    <3>1. \A u \in Clients : due'[u] <= Len(accepted')
      <4> TAKE u \in Clients
      <4>1. due[u] <= Len(accepted) /\ due[u] \in Int
        BY <1>0 DEF Drained, TypeOK
      <4>2. Len(accepted) \in Int /\ Len(accepted') \in Int
        BY <1>1, <2>2
      <4> QED BY <4>1, <4>2, <2>2
    <3>2. \A u \in Clients : call'[u].op \in {"join", "joined"} => call'[u] = call[u]
      BY <1>1, <2>1 DEF Idle
    <3> QED BY <1>0, <2>1, <3>1, <3>2 DEF Drained, Guarded
  <2> QED BY <2>3, <2>4, <2>5, <2>6, <2>7, <2>8 DEF IInv
<1>3. CASE LogDropped(t, kind, s)
  <2>1. /\ call' = [call EXCEPT ![t] = Idle]
        /\ UNCHANGED <<queue, accepted, worker, producer_wait>>
    BY <1>3 DEF LogDropped
  <2>2. TypeOK'
    BY <1>0, <2>1, CallsMade DEF TypeOK
  <2>3. WrittenInOrder' /\ SleepersHaveAWorker'
    BY <1>0, <2>1 DEF WrittenInOrder, SleepersHaveAWorker
  <2>4. Beds' /\ Guarded' /\ Drained'
    BY <1>0, <1>1, <2>1 DEF Beds, Guarded, Drained, Idle
  <2> QED BY <2>2, <2>3, <2>4 DEF IInv
<1>4. CASE LogBlocked(t, kind, s)
  <2>1. /\ call' = [call EXCEPT ![t] = [op |-> kind, items |-> s]]
        /\ producer_wait' = producer_wait \cup {t}
        /\ UNCHANGED <<queue, accepted, worker>>
        /\ worker # "done" /\ ~Fits(s) /\ ~Hopeless(kind, s)
    BY <1>4 DEF LogBlocked, consumers_available
  <2>2. queue # <<>>
    <3> SUFFICES ASSUME queue = <<>> PROVE FALSE
      OBVIOUS
    <3>1. limit # 0 /\ Len(s) > limit
      BY <1>1, <2>1 DEF Fits
    <3>2. kind = "log"
      BY <1>1, <2>1, <3>1 DEF Hopeless
    <3>3. Len(s) = 1
      BY <3>2
    <3> QED BY <1>1, <3>1, <3>3
  <2>3. TypeOK'
    <3>1. [op |-> kind, items |-> s] \in Calls
      BY DEF Calls
    <3>2. producer_wait' \subseteq {u \in Clients : call'[u].op \in {"log", "batch"}}
      BY <1>0, <1>1, <2>1 DEF TypeOK
    <3> QED BY <1>0, <2>1, <3>1, <3>2 DEF TypeOK
  <2>4. WrittenInOrder' /\ SleepersHaveAWorker'
    BY <1>0, <2>1, <2>2 DEF WrittenInOrder, SleepersHaveAWorker, Beds
  <2>5. Beds'
    BY <1>0, <1>1, <2>1, <2>2 DEF Beds
  <2>6. Guarded' /\ Drained'
    BY <1>0, <1>1, <2>1 DEF Guarded, Drained
  <2> QED BY <2>3, <2>4, <2>5, <2>6 DEF IInv
<1> QED BY <1>2, <1>3, <1>4 DEF LogPass

LEMMA ClientPreserves ==
  ASSUME IInv, NEW t \in Clients, ClientStep(t)
  PROVE  IInv'
<1> USE LoggerAssumption
<1>0. TypeOK /\ Beds /\ Guarded /\ Drained /\ WrittenInOrder /\ SleepersHaveAWorker
  BY DEF IInv
<1>1. ASSUME NEW kind \in {"log", "batch"}, NEW n \in 1..MaxBatch, Log(t, kind, n)
      PROVE  IInv'
  <2>1. /\ call[t] = Idle /\ logged[t] + n <= MaxLogged
        /\ LogPass(t, kind, NextEntries(t, n)) /\ (kind = "log" => n = 1)
        /\ logged' = [logged EXCEPT ![t] = @ + n]
    BY <1>1 DEF Log
  <2>2. t \notin producer_wait
    <3>1. call[t].op = "idle"
      BY <2>1 DEF Idle
    <3>2. \A u \in producer_wait : call[u].op \in {"log", "batch"}
      BY <1>0 DEF TypeOK
    <3> QED BY <3>1, <3>2
  <2>3. logged' \in [Clients -> 0..MaxLogged]
    BY <1>0, <2>1 DEF TypeOK
  <2>4. /\ NextEntries(t, n) \in Seq(Entry)
        /\ Len(NextEntries(t, n)) = n /\ NextEntries(t, n) # <<>>
    BY <1>0, <2>1, NextEntriesType
  <2>5. call[t].op \in {"idle", "log", "batch"}
    BY <2>1 DEF Idle
  <2> DEFINE s == NextEntries(t, n)
  <2>6. UNCHANGED <<limit, producer_count, guard_open, entries, written, due>>
    BY <1>1 DEF Log
  <2>7. /\ s \in Seq(Entry) /\ s # <<>> /\ Len(s) = n
        /\ LogPass(t, kind, s)
    BY <2>1, <2>4, Zenon
  <2>8. kind = "log" => Len(s) = 1
    BY <2>1, <2>7
  <2> HIDE DEF s
  <2> QED BY <2>2, <2>3, <2>5, <2>6, <2>7, <2>8, PassPreserves
<1>2. ASSUME ResumeLog(t) PROVE IInv'
  <2>1. /\ call[t].op \in {"log", "batch"} /\ t \notin producer_wait
        /\ LogPass(t, call[t].op, call[t].items)
        /\ UNCHANGED <<limit, producer_count, guard_open, entries, logged, written, due>>
    BY <1>2 DEF ResumeLog
  <2>2. call[t].items \in Seq(Entry)
    BY <1>0, CallParts
  <2>3. call[t].op = "log" => Len(call[t].items) = 1
    BY <1>0 DEF Beds
  <2>4. call[t].items # <<>>
    <3>1. Len(<<>>) = 0
      OBVIOUS
    <3> QED BY <1>0, <2>1, <3>1 DEF Beds
  <2>5. logged' \in [Clients -> 0..MaxLogged]
    BY <1>0, <2>1 DEF TypeOK
  <2> QED BY <2>1, <2>2, <2>3, <2>4, <2>5, PassPreserves
<1>3. ASSUME Close(t) PROVE IInv'
  <2>1. /\ call[t] = Idle
        /\ due' = [due EXCEPT ![t] = Len(accepted)]
        /\ guard_open' = FALSE
        /\ call' = [call EXCEPT ![t] =
                      Doing(IF guard_open THEN "hang up" ELSE "closed")]
        /\ UNCHANGED <<queue, limit, producer_count, producer_wait, worker,
                       entries, logged, accepted, written>>
    BY <1>3 DEF Close
  <2>2. Len(accepted) \in Nat
    BY <1>0 DEF TypeOK
  <2>3. TypeOK'
    <3>1. Doing(IF guard_open THEN "hang up" ELSE "closed") \in Calls
      BY CallsMade
    <3>2. call' \in [Clients -> Calls] /\ due' \in [Clients -> {-1} \cup Nat]
      BY <1>0, <2>1, <2>2, <3>1 DEF TypeOK
    <3>3. producer_wait \subseteq {u \in Clients : call'[u].op \in {"log", "batch"}}
      <4>0. call[t] = Idle
        BY <2>1
      <4>1. call[t].op = "idle"
        BY <4>0 DEF Idle
      <4>2. \A u \in producer_wait : u \in Clients /\ call[u].op \in {"log", "batch"}
        BY <1>0 DEF TypeOK
      <4>3. \A u \in Clients : u # t => call'[u] = call[u]
        BY <1>0, <2>1 DEF TypeOK
      <4> QED BY <4>1, <4>2, <4>3
    <3>4. guard_open' \in BOOLEAN
      BY <2>1
    <3> QED BY <1>0, <2>1, <3>2, <3>3, <3>4 DEF TypeOK
  <2>4. WrittenInOrder' /\ SleepersHaveAWorker'
    BY <1>0, <2>1 DEF WrittenInOrder, SleepersHaveAWorker
  <2>5. call'[t].op \in {"hang up", "closed"} /\ (call'[t].op = "hang up" => guard_open)
    BY <1>0, <2>1 DEF TypeOK, Doing
  <2>6. \A u \in Clients : u # t => call'[u] = call[u] /\ due'[u] = due[u]
    BY <1>0, <2>1 DEF TypeOK
  <2>7. Beds'
    BY <1>0, <2>1, <2>5, <2>6 DEF Beds
  <2>8. Guarded'
    <3>0. Guarded /\ UNCHANGED <<producer_count, worker>> /\ ~guard_open'
      BY <1>0, <2>1
    <3>1. \A u \in Clients : call'[u].op = "hang up" =>
            producer_count' = 1 /\ ~guard_open'
      BY <2>5, <2>6, <3>0 DEF Guarded
    <3>2. \A u, v \in Clients : call'[u].op = "hang up" /\ call'[v].op = "hang up"
            => u = v
      BY <2>5, <2>6, <3>0 DEF Guarded
    <3> QED BY <3>0, <3>1, <3>2 DEF Guarded
  <2>9. due'[t] <= Len(accepted)
    <3>1. due \in [Clients -> {-1} \cup Nat]
      BY <1>0 DEF TypeOK
    <3>2. due'[t] = Len(accepted)
      BY <2>1, <3>1
    <3> QED BY <2>2, <3>2
  <2>10. Drained'
    BY <1>0, <2>1, <2>5, <2>6, <2>9 DEF Drained
  <2> QED BY <2>3, <2>4, <2>7, <2>8, <2>10 DEF IInv
<1>4. ASSUME HangUp(t) PROVE IInv'
  <2>1. /\ call[t].op = "hang up" /\ producer_count' = 0
        /\ worker' = IF worker = "asleep" THEN "reading" ELSE worker
        /\ call' = [call EXCEPT ![t] = Doing("join")]
        /\ UNCHANGED <<queue, limit, producer_wait, guard_open, entries, logged,
                       accepted, written, due>>
    BY <1>4 DEF HangUp
  <2>2. TypeOK'
    BY <1>0, <2>1, CallsMade DEF TypeOK
  <2>3. WrittenInOrder' /\ SleepersHaveAWorker'
    BY <1>0, <2>1 DEF WrittenInOrder, SleepersHaveAWorker
  <2>4. call'[t].op = "join" /\ \A u \in Clients : u # t => call'[u] = call[u]
    BY <1>0, <2>1 DEF TypeOK, Doing
  <2>5. producer_count = 1 /\ ~guard_open /\ worker \notin {"stopping", "done"}
    <3>1. producer_count = 1 /\ ~guard_open
      BY <1>0, <2>1, Zenon DEF Guarded
    <3>2. worker \in {"stopping", "done"} => producer_count = 0
      BY <1>0, Zenon DEF Guarded
    <3> QED BY <3>1, <3>2
  <2>6. Beds'
    BY <1>0, <2>1, <2>4 DEF Beds
  <2>7. Guarded'
    BY <1>0, <2>1, <2>4, <2>5 DEF Guarded
  <2>8. Drained'
    BY <1>0, <2>1, <2>4, <2>5 DEF Drained
  <2> QED BY <2>2, <2>3, <2>6, <2>7, <2>8 DEF IInv
<1>5. ASSUME Join(t) PROVE IInv'
  <2>1. /\ call[t].op = "join" /\ worker = "done"
        /\ call' = [call EXCEPT ![t] = Doing("joined")]
        /\ UNCHANGED <<queue, limit, producer_count, producer_wait, guard_open,
                       worker, entries, logged, accepted, written, due>>
    BY <1>5 DEF Join
  <2>2. call'[t].op = "joined" /\ \A u \in Clients : u # t => call'[u] = call[u]
    BY <1>0, <2>1 DEF TypeOK, Doing
  <2>3. TypeOK'
    BY <1>0, <2>1, CallsMade DEF TypeOK
  <2>4. WrittenInOrder' /\ SleepersHaveAWorker'
    BY <1>0, <2>1 DEF WrittenInOrder, SleepersHaveAWorker
  <2>5. Beds' /\ Guarded' /\ Drained'
    BY <1>0, <2>1, <2>2 DEF Beds, Guarded, Drained
  <2> QED BY <2>3, <2>4, <2>5 DEF IInv
<1>6. ASSUME Return(t) PROVE IInv'
  <2>1. /\ call[t].op \in {"joined", "closed"}
        /\ call' = [call EXCEPT ![t] = Idle]
        /\ UNCHANGED <<queue, limit, producer_count, producer_wait, guard_open,
                       worker, entries, logged, accepted, written, due>>
    BY <1>6 DEF Return
  <2>2. call'[t].op = "idle" /\ \A u \in Clients : u # t => call'[u] = call[u]
    BY <1>0, <2>1 DEF TypeOK, Idle
  <2>3. TypeOK'
    BY <1>0, <2>1, CallsMade DEF TypeOK
  <2>4. WrittenInOrder' /\ SleepersHaveAWorker'
    BY <1>0, <2>1 DEF WrittenInOrder, SleepersHaveAWorker
  <2>5. Beds' /\ Guarded' /\ Drained'
    BY <1>0, <2>1, <2>2 DEF Beds, Guarded, Drained
  <2> QED BY <2>3, <2>4, <2>5 DEF IInv
<1> QED BY <1>1, <1>2, <1>3, <1>4, <1>5, <1>6 DEF ClientStep

LEMMA WorkerPreserves ==
  ASSUME IInv, WorkerStep
  PROVE  IInv'
<1> USE LoggerAssumption
<1>0. TypeOK /\ Beds /\ Guarded /\ Drained /\ WrittenInOrder /\ SleepersHaveAWorker
  BY DEF IInv
<1>1. CASE WorkerStarts
  BY <1>0, <1>1 DEF WorkerStarts, IInv, TypeOK, Beds, Guarded, Drained,
                    WrittenInOrder, SleepersHaveAWorker
<1>2. CASE WorkerSleeps
  BY <1>0, <1>2 DEF WorkerSleeps, IInv, TypeOK, Beds, Guarded, Drained,
                    WrittenInOrder, SleepersHaveAWorker
<1>3. CASE WorkerTakes
  <2>1. entries = <<>>
    BY <1>0, <1>3 DEF WorkerTakes, TypeOK
  <2>2. WrittenInOrder'
    BY <1>0, <1>3, <2>1 DEF WorkerTakes, WrittenInOrder, TypeOK
  <2>3. TypeOK' /\ SleepersHaveAWorker'
    BY <1>0, <1>3 DEF WorkerTakes, TypeOK, SleepersHaveAWorker
  <2>4. Beds' /\ Guarded' /\ Drained'
    BY <1>0, <1>3 DEF WorkerTakes, Beds, Guarded, Drained
  <2> QED BY <2>2, <2>3, <2>4 DEF IInv
<1>4. CASE WorkerWrites
  <2>1. entries # <<>> /\ entries \in Seq(Entry) /\ written \in Seq(Entry)
        /\ queue \in Seq(Entry) /\ Len(entries) \in Nat /\ Len(entries) > 0
    BY <1>0, <1>4 DEF WorkerWrites, TypeOK
  <2>2. /\ Head(entries) \in Entry /\ Tail(entries) \in Seq(Entry)
        /\ (Tail(entries) # <<>> <=> Len(entries) # 1)
    <3>1. /\ Head(entries) \in Entry /\ Tail(entries) \in Seq(Entry)
          /\ Len(Tail(entries)) = Len(entries) - 1
      BY <2>1, HeadTailProperties
    <3>2. Tail(entries) = <<>> <=> Len(Tail(entries)) = 0
      BY <3>1, EmptySeq
    <3> QED BY <2>1, <3>1, <3>2
  <2>3. entries = <<Head(entries)>> \o Tail(entries)
    BY <2>1
  <2>4. Append(written, Head(entries)) \o Tail(entries) = written \o entries
    BY <2>1, <2>2
  <2>5. WrittenInOrder'
    BY <1>0, <1>4, <2>4 DEF WorkerWrites, WrittenInOrder
  <2>6. TypeOK'
    BY <1>0, <1>4, <2>1, <2>2 DEF WorkerWrites, TypeOK
  <2>7. SleepersHaveAWorker' /\ Beds' /\ Guarded'
    BY <1>0, <1>4 DEF WorkerWrites, SleepersHaveAWorker, Beds, Guarded
  <2>8. worker' \notin {"stopping", "done"} /\ worker # "done"
    BY <1>4 DEF WorkerWrites
  <2>9. Drained'
    BY <1>0, <1>4, <2>8 DEF WorkerWrites, Drained
  <2> QED BY <2>5, <2>6, <2>7, <2>9 DEF IInv
<1>5. CASE WorkerStops
  <2>1. entries = <<>> /\ queue = <<>>
    BY <1>0, <1>5 DEF WorkerStops, TypeOK
  <2>2. accepted = written
    BY <1>0, <2>1 DEF WrittenInOrder, TypeOK
  <2>3. TypeOK' /\ SleepersHaveAWorker' /\ WrittenInOrder'
    BY <1>0, <1>5 DEF WorkerStops, TypeOK, SleepersHaveAWorker, WrittenInOrder
  <2>4. Beds' /\ Guarded'
    BY <1>0, <1>5 DEF WorkerStops, Beds, Guarded
  <2>5. Drained'
    BY <1>0, <1>5, <2>2 DEF WorkerStops, Drained
  <2> QED BY <2>3, <2>4, <2>5 DEF IInv
<1>6. CASE WorkerEnds
  BY <1>0, <1>6 DEF WorkerEnds, IInv, TypeOK, Beds, Guarded, Drained,
                    WrittenInOrder, SleepersHaveAWorker
<1> QED BY <1>1, <1>2, <1>3, <1>4, <1>5, <1>6 DEF WorkerStep

LEMMA StepPreserves == IInv /\ [Next]_vars => IInv'
<1> SUFFICES ASSUME IInv, [Next]_vars PROVE IInv'
  OBVIOUS
<1>1. CASE \E t \in Clients : ClientStep(t)
  BY <1>1, ClientPreserves
<1>2. CASE \E l \in NewLimits : SetBufferLimit(l)
  <2>1. PICK l \in NewLimits : SetBufferLimit(l)
    BY <1>2
  <2>2. TypeOK /\ TypeOK'
    BY <2>1 DEF SetBufferLimit, IInv, TypeOK
  <2>3. WrittenInOrder' /\ SleepersHaveAWorker' /\ Beds'
    BY <2>1 DEF SetBufferLimit, IInv, WrittenInOrder, SleepersHaveAWorker, Beds
  <2>4. Guarded' /\ Drained'
    BY <2>1 DEF SetBufferLimit, IInv, Guarded, Drained
  <2> QED BY <2>2, <2>3, <2>4 DEF IInv
<1>3. CASE WorkerStep
  BY <1>3, WorkerPreserves
<1>4. CASE UNCHANGED vars
  BY <1>4 DEF IInv, TypeOK, Beds, Guarded, Drained, WrittenInOrder,
              SleepersHaveAWorker, vars
<1> QED BY <1>1, <1>2, <1>3, <1>4 DEF Next

LEMMA Invariance == Spec => []IInv
BY InitEstablishes, StepPreserves, PTL DEF Spec

-----------------------------------------------------------------------------
\* Type correctness of the logger, its clients and its worker.
THEOREM TypeCorrect == Spec => []TypeOK
<1>1. IInv => TypeOK
  BY DEF IInv
<1> QED BY <1>1, Invariance, PTL

\* Whatever the clients do, entries are written in the order in which the queue
\* accepted them, and none is lost between the queue and the output
\* (async_logger's worker loop).
THEOREM OrderIsKept == Spec => []WrittenInOrder
<1>1. IInv => WrittenInOrder
  BY DEF IInv
<1> QED BY <1>1, Invariance, PTL

\* A client never sleeps in log() while the worker sleeps or is gone, for any
\* number of clients and any change of the limit.
THEOREM NobodySleepsAlone == Spec => []SleepersHaveAWorker
<1>1. IInv => SleepersHaveAWorker
  BY DEF IInv
<1> QED BY <1>1, Invariance, PTL

\* Clients, queue and worker fit together, whoever closes and whoever logs.
THEOREM LoggerIsConsistent == Spec => []Consistent
BY TypeCorrect, NobodySleepsAlone, PTL DEF Consistent

\* The client whose close() joins the worker finds everything written that was
\* accepted before it called close().
THEOREM FirstCloseIsComplete == Spec => []FirstCloseWaits
<1>1. IInv => FirstCloseWaits
  BY DEF IInv, Drained, FirstCloseWaits
<1> QED BY <1>1, Invariance, PTL

=============================================================================
