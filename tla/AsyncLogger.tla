----------------------------- MODULE AsyncLogger -----------------------------
(***************************************************************************)
(* async_logger (io/logger.h): threads that log share one producer guard of*)
(* an io_threadsafe_buffer, and a worker thread writes what they log.  The *)
(* worker only ever takes everything, for which the buffer is a FIFO queue *)
(* (ImplementsFifo of IoBuffer, FirstInFirstOut of ThreadsafeBuffer), so   *)
(* that its contents are a sequence here.                                  *)
(***************************************************************************)
EXTENDS Integers, Sequences, FiniteSets

CONSTANTS Clients,   \* the threads that log and close
          Limit,     \* the limit of the queue, set by the constructor
          NewLimits, \* the limits given to set_buffer_limit()
          MaxLogged, \* bound: entries one client logs
          MaxBatch   \* bound: entries of one batch_log()

ASSUME LoggerAssumption == /\ IsFiniteSet(Clients)
                           /\ Limit \in Nat /\ NewLimits \subseteq Nat
                           /\ MaxLogged \in Nat /\ MaxBatch \in Nat

VARIABLES
  queue,            \* the entries in the io_threadsafe_buffer d
  limit,            \* its buffer_limit
  producer_count,   \* 1 until the producer guard unregisters
  producer_wait,    \* clients asleep in log()
  guard_open,       \* the producer guard's pointer is not null
  worker,           \* where the worker thread is: "new", "reading", "asleep",
                    \* "writing", "stopping" or "done"
  entries,          \* the worker's vector, without what it has written
  call,             \* what each client is doing
  logged,           \* how many entries each client has logged
  accepted,         \* history: the entries the queue accepted, in order
  written,          \* history: the entries handed to fn, in order
  due               \* history: at each client's first close(), Len(accepted)

vars == <<queue, limit, producer_count, producer_wait, guard_open, worker,
          entries, call, logged, accepted, written, due>>

-----------------------------------------------------------------------------
Idle == [op |-> "idle", items |-> <<>>]

Doing(op) == [op |-> op, items |-> <<>>]

NextEntries(t, n) == [i \in 1..n |-> <<t, logged[t] + i>>]

\* The worker registers its consumer guard first and unregisters it last.
consumers_available == worker # "done"

Init == /\ queue = <<>> /\ limit = Limit
        /\ producer_count = 1 /\ producer_wait = {} /\ guard_open = TRUE
        /\ worker = "new" /\ entries = <<>>
        /\ call = [t \in Clients |-> Idle]
        /\ logged = [t \in Clients |-> 0]
        /\ accepted = <<>> /\ written = <<>>
        /\ due = [t \in Clients |-> -1]

-----------------------------------------------------------------------------
(* log() and batch_log(): a waiting write on d, whether or not the logger  *)
(* was closed.                                                             *)

Fits(s) == limit = 0 \/ Len(s) <= limit - Len(queue)

Hopeless(kind, s) == kind = "batch" /\ limit < Len(s)

LogAccepted(t, s) ==
  /\ Fits(s)
  /\ queue' = queue \o s
  /\ accepted' = accepted \o s
  /\ worker' = IF worker = "asleep" THEN "reading" ELSE worker
  /\ call' = [call EXCEPT ![t] = Idle]
  /\ UNCHANGED producer_wait

\* The caller of log() is not told that its entry was dropped.
LogDropped(t, kind, s) ==
  /\ ~Fits(s)
  /\ ~consumers_available \/ Hopeless(kind, s)
  /\ call' = [call EXCEPT ![t] = Idle]
  /\ UNCHANGED <<queue, accepted, worker, producer_wait>>

LogBlocked(t, kind, s) ==
  /\ ~Fits(s)
  /\ consumers_available /\ ~Hopeless(kind, s)
  /\ call' = [call EXCEPT ![t] = [op |-> kind, items |-> s]]
  /\ producer_wait' = producer_wait \cup {t}
  /\ UNCHANGED <<queue, accepted, worker>>

LogPass(t, kind, s) == \/ LogAccepted(t, s)
                       \/ LogDropped(t, kind, s)
                       \/ LogBlocked(t, kind, s)

Log(t, kind, n) ==
  /\ call[t] = Idle
  /\ kind = "log" => n = 1
  /\ logged[t] + n <= MaxLogged
  /\ LogPass(t, kind, NextEntries(t, n))
  /\ logged' = [logged EXCEPT ![t] = @ + n]
  /\ UNCHANGED <<limit, producer_count, guard_open, entries, written, due>>

ResumeLog(t) ==
  /\ call[t].op \in {"log", "batch"} /\ t \notin producer_wait
  /\ LogPass(t, call[t].op, call[t].items)
  /\ UNCHANGED <<limit, producer_count, guard_open, entries, logged, written, due>>

SetBufferLimit(l) ==
  /\ limit' = l
  /\ UNCHANGED <<queue, producer_count, producer_wait, guard_open, worker,
                 entries, call, logged, accepted, written, due>>

-----------------------------------------------------------------------------
(* close(): whoever takes the guard's pointer unregisters and joins.       *)

\* A client calls it once (a bound): the second call of one client is like that
\* of another.
Close(t) ==
  /\ call[t] = Idle /\ due[t] < 0
  /\ due' = [due EXCEPT ![t] = Len(accepted)]
  /\ guard_open' = FALSE
  /\ call' = [call EXCEPT ![t] = Doing(IF guard_open THEN "hang up" ELSE "closed")]
  /\ UNCHANGED <<queue, limit, producer_count, producer_wait, worker, entries,
                 logged, accepted, written>>

\* Mutant: the worker is not notified.
HangUpSilently(t) ==
  /\ call[t].op = "hang up"
  /\ producer_count' = 0
  /\ call' = [call EXCEPT ![t] = Doing("join")]
  /\ UNCHANGED <<worker, queue, limit, producer_wait, guard_open, entries,
                 logged, accepted, written, due>>

HangUp(t) ==
  /\ call[t].op = "hang up"
  /\ producer_count' = 0
  /\ worker' = IF worker = "asleep" THEN "reading" ELSE worker
  /\ call' = [call EXCEPT ![t] = Doing("join")]
  /\ UNCHANGED <<queue, limit, producer_wait, guard_open, entries, logged,
                 accepted, written, due>>

\* Mutant: the worker is not waited for.
JoinDetaches(t) ==
  /\ call[t].op = "join"
  /\ call' = [call EXCEPT ![t] = Doing("joined")]
  /\ UNCHANGED <<queue, limit, producer_count, producer_wait, guard_open, worker,
                 entries, logged, accepted, written, due>>

Join(t) ==
  /\ call[t].op = "join" /\ worker = "done"
  /\ call' = [call EXCEPT ![t] = Doing("joined")]
  /\ UNCHANGED <<queue, limit, producer_count, producer_wait, guard_open, worker,
                 entries, logged, accepted, written, due>>

\* A thread that has closed the logger may go on to log.
Return(t) ==
  /\ call[t].op \in {"joined", "closed"}
  /\ call' = [call EXCEPT ![t] = Idle]
  /\ UNCHANGED <<queue, limit, producer_count, producer_wait, guard_open, worker,
                 entries, logged, accepted, written, due>>

-----------------------------------------------------------------------------
(* The worker's loop.                                                      *)

WorkerStarts ==
  /\ worker = "new"
  /\ worker' = "reading"
  /\ UNCHANGED <<queue, limit, producer_count, producer_wait, guard_open, entries,
                 call, logged, accepted, written, due>>

WorkerSleeps ==
  /\ worker = "reading" /\ queue = <<>> /\ producer_count > 0
  /\ worker' = "asleep"
  /\ UNCHANGED <<queue, limit, producer_count, producer_wait, guard_open, entries,
                 call, logged, accepted, written, due>>

\* Mutant: the waiting clients are not notified.
WorkerTakesSilently ==
  /\ worker = "reading" /\ queue # <<>>
  /\ entries' = queue /\ queue' = <<>>
  /\ worker' = "writing"
  /\ UNCHANGED <<producer_wait, limit, producer_count, guard_open, call, logged,
                 accepted, written, due>>

\* read_all_swap() returned some entries.
WorkerTakes ==
  /\ worker = "reading" /\ queue # <<>>
  /\ entries' = queue /\ queue' = <<>>
  /\ producer_wait' = {}
  /\ worker' = "writing"
  /\ UNCHANGED <<limit, producer_count, guard_open, call, logged, accepted,
                 written, due>>

\* Mutant: the entries are handed over from the back of the vector.
WorkerWritesBackwards ==
  /\ worker = "writing"
  /\ written' = Append(written, entries[Len(entries)])
  /\ entries' = SubSeq(entries, 1, Len(entries) - 1)
  /\ worker' = IF Len(entries) = 1 THEN "reading" ELSE "writing"
  /\ UNCHANGED <<queue, limit, producer_count, producer_wait, guard_open, call,
                 logged, accepted, due>>

WorkerWrites ==
  /\ worker = "writing"
  /\ written' = Append(written, Head(entries))
  /\ entries' = Tail(entries)
  /\ worker' = IF Len(entries) = 1 THEN "reading" ELSE "writing"
  /\ UNCHANGED <<queue, limit, producer_count, producer_wait, guard_open, call,
                 logged, accepted, due>>

\* read_all_swap() returned nothing, and notified the waiting clients.
WorkerStops ==
  /\ worker = "reading" /\ queue = <<>> /\ producer_count = 0
  /\ worker' = "stopping"
  /\ producer_wait' = {}
  /\ UNCHANGED <<queue, limit, producer_count, guard_open, entries, call, logged,
                 accepted, written, due>>

\* end() has been called, the consumer guard is destroyed.
WorkerEnds ==
  /\ worker = "stopping"
  /\ worker' = "done"
  /\ producer_wait' = {}
  /\ UNCHANGED <<queue, limit, producer_count, guard_open, entries, call, logged,
                 accepted, written, due>>

-----------------------------------------------------------------------------
WorkerStep == \/ WorkerStarts \/ WorkerSleeps \/ WorkerTakes \/ WorkerWrites
              \/ WorkerStops \/ WorkerEnds

ClientStep(t) == \/ \E kind \in {"log", "batch"}, n \in 1..MaxBatch : Log(t, kind, n)
                 \/ ResumeLog(t)
                 \/ Close(t) \/ HangUp(t) \/ Join(t) \/ Return(t)

Next == \/ \E t \in Clients : ClientStep(t)
        \/ \E l \in NewLimits : SetBufferLimit(l)
        \/ WorkerStep

Spec == Init /\ [][Next]_vars

\* Threads are scheduled; nobody has to log or to close.
Fairness ==
  /\ WF_vars(WorkerStep)
  /\ \A t \in Clients : WF_vars(ResumeLog(t) \/ HangUp(t) \/ Join(t) \/ Return(t))

FairSpec == Spec /\ Fairness

-----------------------------------------------------------------------------
(* Properties.                                                             *)

Entry == Clients \X (1..MaxLogged)

Calls == [op : {"idle", "log", "batch", "hang up", "join", "joined", "closed"},
          items : Seq(Entry)]

\* Type correctness.
TypeOK ==
  /\ queue \in Seq(Entry) /\ entries \in Seq(Entry)
  /\ limit \in {Limit} \cup NewLimits
  /\ producer_count \in {0, 1} /\ guard_open \in BOOLEAN
  /\ producer_wait \subseteq {t \in Clients : call[t].op \in {"log", "batch"}}
  /\ worker \in {"new", "reading", "asleep", "writing", "stopping", "done"}
  /\ worker = "writing" <=> entries # <<>>
  /\ call \in [Clients -> Calls]
  /\ logged \in [Clients -> 0..MaxLogged]
  /\ accepted \in Seq(Entry) /\ written \in Seq(Entry)
  /\ due \in [Clients -> {-1} \cup Nat]

\* The entries are written in the order in which they were accepted, and none
\* disappears between the queue, the worker's vector and the log.
WrittenInOrder == accepted = written \o entries \o queue

\* A client asleep in log() has a worker that will come by: it is not asleep
\* and not gone, or it has just notified everyone.
SleepersHaveAWorker == producer_wait # {} => worker \notin {"asleep", "done"}

\* close() "waits for all writing to complete" for the client that took the guard and
\* joined the worker: what was accepted before it called close() is written when the
\* call returns.  (A second close() does not wait, and may return before.)
FirstCloseWaits ==
  \A t \in Clients : call[t].op = "joined" => due[t] <= Len(written)

\* log() and close() return, although the limit changes, the queue is full and
\* others close the logger at the same time.
CallsReturn == \A t \in Clients : call[t] # Idle ~> call[t] = Idle

\* The queue, the worker and the clients that wait for it fit together.
Consistent == TypeOK /\ SleepersHaveAWorker

=============================================================================
