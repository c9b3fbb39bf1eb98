-------------------------- MODULE MessageHandlers --------------------------
(***************************************************************************)
(* MessageCallbackInterface and MessageBroadcaster (threadbuffer.h) over   *)
(* message buffers whose own protocol is that of the module MessageBuffer. *)
(* A handler is a callback, whose mutex is held for the whole of a call,   *)
(* waiting for its inner buffer included, or a plain buffer, whose mutex   *)
(* is released while a sender waits.  A broadcast is a list of calls of    *)
(* its handlers, made under the broadcaster's mutex.                       *)
(***************************************************************************)
EXTENDS Integers, Sequences, FiniteSets, SequencesExt

CONSTANTS Clients,  \* threads that use the broadcaster and its handlers
          Handlers,
          MaxCalls, \* bound: sending calls of one client
          Usages    \* the programs, see Usage

Nobody == "nobody"
Moved == <<>>
Types == {"BlockUntilDone", "BlockUntilSent", "Immediate", "ForceSend"}
ToOne == {"sendToOne", "sendMessagesAtomicallyToOne"}
Atomic == {"sendMessagesAtomically", "sendMessagesAtomicallyToOne"}
Broadcasts == {"send", "sendMessages", "sendMessagesAtomically"} \cup ToOne
Answers == {"Success", "SuccessLostData", "Unsupported", "Failed", "TryAgain",
            "AtomicImpossible"}

\* clients: those that call; writers: the handlers in the order they were added;
\* kind, limit, consume: of each handler; ops, types: the calls the clients make;
\* direct: the handlers that clients also call themselves; closes: the arguments of
\* close(); fails: the callbacks' functions may answer false.
Usage == [clients : SUBSET Clients, writers : Seq(Handlers), kind : [Handlers -> {"callback", "buffer"}],
          limit : [Handlers -> Nat],
          consume : [Handlers -> {"WithoutRemoving", "AndRemove"}],
          ops : SUBSET Broadcasts, types : SUBSET Types, direct : SUBSET Handlers,
          closes : SUBSET BOOLEAN, fails : BOOLEAN, close_on_exit : BOOLEAN]

ASSUME HandlersAssumption ==
  /\ IsFiniteSet(Clients) /\ IsFiniteSet(Handlers)
  /\ Nobody \notin Clients \cup Handlers
  /\ MaxCalls \in Nat /\ Usages \subseteq Usage

VARIABLES
  usage,         \* what this program does, chosen once
  mtx,           \* who holds the broadcaster's mutex
  holder,        \* who holds each callback's mutex
  closed,        \* MessageInterface::closed of each handler
  queue,         \* what waits in each buffer
  producer_wait, \* senders asleep on each buffer
  stale,         \* the first message of the queue has been read already
  worker,        \* where each worker or reader is: "idle" between two calls of
                 \* read(), "fetch" inside one, "busy" with a message, "ended"
  call,          \* the call of each client
  calls,         \* how many sending calls each client has made
  result,        \* the last answer to each client
  taken,         \* history: what each handler's queue accepted, in order
  handled,       \* history: what was handed to each worker, in order
  ran,           \* history: what the function ran for in a sender's thread
  dropped,       \* history: displaced, discarded as stale, or cancelled
  exiting,       \* the clients are done, the destructors run
  exit           \* the handlers still to be destroyed, in order

queues == <<closed, queue, producer_wait, stale, worker>>
history == <<taken, handled, ran, dropped>>
vars == <<usage, mtx, holder, queues, call, calls, result, history, exiting, exit>>

-----------------------------------------------------------------------------
Idle == [op |-> "idle"]
IsBroadcast(c) == c.op \in Broadcasts \cup {"closeAll"}

Sent(answer) == answer \in {"Success", "SuccessLostData"}
Count(answers, a) == Cardinality({i \in DOMAIN answers : answers[i] = a})

\* The messages client t offers next: two in the calls that take a vector.
Offered(t, op) ==
  LET n == IF op \in {"send", "sendToOne", "direct"} THEN 1 ELSE 2
  IN  [i \in 1..n |-> <<t, calls[t] + 1, i>>]

To(h, s) == [to |-> h, what |-> s]

\* The handler calls a call consists of, in order.
Todo(op, s, h) ==
  LET each(m) == [i \in DOMAIN usage.writers |-> To(usage.writers[i], m)]
  IN  CASE op = "sendMessages" -> each(<<s[1]>>) \o each(<<s[2]>>)
        [] op \in {"direct", "close"} -> <<To(h, s)>>
        [] OTHER -> each(s)

\* Mutant: one handler that refuses for now is reported although others took
\* the message.
AggregateAny(op, answers) ==
  IF Count(answers, "TryAgain") > 0 THEN "TryAgain"
  ELSE IF Count(answers, "Failed") > 0 THEN "Failed" ELSE "Success"

\* What a broadcast makes of its handlers' answers.  n is writers__.size(),
\* also in sendMessages(), which has an answer for every message and handler.
Aggregate(op, answers) ==
  LET n == Len(usage.writers)
      refusals(set) == Cardinality({i \in DOMAIN answers : answers[i] \in set})
      toOne == op \in ToOne
      sent == answers # <<>> /\ Sent(Last(answers))
  IN  IF toOne /\ sent THEN Last(answers)
      ELSE IF toOne /\ Count(answers, "TryAgain") > 0 THEN "TryAgain"
      ELSE IF ~toOne /\ Count(answers, "Failed") > 0 THEN "Failed"
      ELSE IF Count(answers, "Unsupported") = n THEN "Unsupported"
      ELSE IF op \in Atomic /\ refusals({"AtomicImpossible", "Unsupported"}) = n
      THEN "AtomicImpossible"
      ELSE IF toOne THEN "Failed"
      ELSE IF refusals({"TryAgain", "AtomicImpossible", "Unsupported"}) = n THEN "TryAgain"
      ELSE IF Count(answers, "SuccessLostData") > 0 THEN "SuccessLostData" ELSE "Success"

Init == /\ usage \in Usages
        /\ mtx = Nobody
        /\ holder = [h \in Handlers |-> Nobody]
        /\ closed = [h \in Handlers |-> FALSE]
        /\ queue = [h \in Handlers |-> <<>>]
        /\ producer_wait = [h \in Handlers |-> {}]
        /\ stale = [h \in Handlers |-> FALSE]
        /\ worker = [h \in Handlers |-> "idle"]
        /\ call = [t \in Clients |-> Idle]
        /\ calls = [t \in Clients |-> 0]
        /\ result = [t \in Clients |-> [op |-> "none"]]
        /\ taken = [h \in Handlers |-> <<>>]
        /\ handled = [h \in Handlers |-> <<>>]
        /\ ran = [h \in Handlers |-> <<>>]
        /\ dropped = [h \in Handlers |-> {}]
        /\ exiting = FALSE /\ exit = usage.writers

-----------------------------------------------------------------------------
(* A client's calls.                                                       *)

Begin(t, op, type, s, h, cancel) ==
  /\ t \in usage.clients /\ call[t] = Idle /\ ~exiting
  /\ call' = [call EXCEPT ![t] =
       [op |-> op, type |-> type, what |-> s, todo |-> Todo(op, s, h),
        answers |-> <<>>, cancel |-> cancel, at |-> "outside", done |-> 0]]
  /\ UNCHANGED <<usage, mtx, holder, queues, result, history, exiting, exit>>

CallSend(t) ==
  /\ calls[t] < MaxCalls
  /\ calls' = [calls EXCEPT ![t] = @ + 1]
  /\ \E type \in usage.types :
       \/ \E op \in usage.ops : Begin(t, op, type, Offered(t, op), Nobody, FALSE)
       \/ \E h \in usage.direct :
            Begin(t, "direct", type, Offered(t, "direct"), h, FALSE)

\* A client closes once.
CallClose(t) ==
  /\ calls[t] <= MaxCalls
  /\ calls' = [calls EXCEPT ![t] = MaxCalls + 1]
  /\ \E cancel \in usage.closes :
       \/ Begin(t, "closeAll", "none", <<>>, Nobody, cancel)
       \/ \E h \in usage.direct :
            Begin(t, "close", "none", <<>>, h, cancel)

Lock(t) ==
  /\ IsBroadcast(call[t]) /\ mtx = Nobody
  /\ mtx' = t
  /\ UNCHANGED <<usage, holder, queues, call, calls, result, history, exiting, exit>>

\* The handler that call c is at, and what is sent to it.
Now(c) == Head(c.todo)

\* Call c of client t is given answer a by its handler, whose mutex is released.
AnswerTo(t, c, a) ==
  LET stop == c.op \in ToOne /\ Sent(a)
  IN  /\ call' = [call EXCEPT ![t] =
           [c EXCEPT !.todo = IF stop THEN <<>> ELSE Tail(@), !.done = 0,
                     !.answers = Append(@, a), !.at = "outside"]]
      /\ holder' = [holder EXCEPT ![Now(c).to] = Nobody]

Answered(t, a) == AnswerTo(t, call[t], a)

Return(t) ==
  /\ call[t] # Idle /\ call[t].todo = <<>>
  /\ IsBroadcast(call[t]) => mtx = t
  /\ mtx' = IF mtx = t THEN Nobody ELSE mtx
  /\ result' = [result EXCEPT ![t] =
       [op |-> call[t].op, type |-> call[t].type, what |-> call[t].what,
        answers |-> call[t].answers,
        answer |-> CASE call[t].op = "direct" -> call[t].answers[1]
                     [] call[t].op \in Broadcasts -> Aggregate(call[t].op, call[t].answers)
                     [] OTHER -> "closed"]]
  /\ call' = [call EXCEPT ![t] = Idle]
  /\ UNCHANGED <<usage, holder, queues, calls, history, exiting, exit>>

-----------------------------------------------------------------------------
(* A handler's send(), sendMessagesAtomically() and close().               *)

Room(h, s) == usage.limit[h] = 0 \/ Len(queue[h]) + Len(s) <= usage.limit[h]

\* Mutant: the broadcaster's mutex covers the choice of a handler only.
EnteringUnlocked(t, h) ==
  /\ call[t] # Idle /\ call[t].todo # <<>> /\ call[t].at = "outside"
  /\ h = Now(call[t]).to /\ holder[h] = Nobody

\* The client may take the mutex of the handler its call is at.
Entering(t, h) ==
  /\ call[t] # Idle /\ call[t].todo # <<>> /\ call[t].at = "outside"
  /\ IsBroadcast(call[t]) => mtx = t
  /\ h = Now(call[t]).to /\ holder[h] = Nobody

Impossible(c, h) == /\ c.op \in Atomic
                    /\ usage.limit[h] # 0 /\ usage.limit[h] < Len(Now(c).what)

RunsFunction(c, h) == usage.kind[h] = "callback" /\ c.type = "BlockUntilDone"

Enqueue(h, kept, s) == /\ queue' = [queue EXCEPT ![h] = kept \o s]
                       /\ taken' = [taken EXCEPT ![h] = @ \o s]
                       /\ UNCHANGED <<closed, stale, worker>>

\* A full queue drops its oldest messages for QueueForceSend only.
SendAccepted(t, h) ==
  LET c == call[t]
      s == Now(c).what
      excess == IF Room(h, s) THEN 0 ELSE Len(queue[h]) + Len(s) - usage.limit[h]
  IN  /\ Entering(t, h) /\ s # <<>> /\ ~closed[h] /\ ~RunsFunction(c, h)
      /\ ~Impossible(c, h)
      /\ usage.limit[h] # 0 => c.type # "BlockUntilDone"
      /\ excess > 0 => c.type = "ForceSend"
      /\ Enqueue(h, SubSeq(queue[h], excess + 1, Len(queue[h])), s)
      /\ dropped' = [dropped EXCEPT ![h] = @ \cup Range(SubSeq(queue[h], 1, excess))]
      /\ Answered(t, IF excess > 0 THEN "SuccessLostData" ELSE "Success")
      /\ UNCHANGED <<usage, mtx, producer_wait, calls, result, handled, ran, exiting, exit>>

SendRefused(t, h) ==
  LET c == call[t]
      limited == usage.limit[h] # 0
  IN  /\ Entering(t, h) /\ Now(c).what # <<>>
      /\ \/ closed[h] /\ Answered(t, "Failed")
         \/ /\ ~closed[h] /\ ~RunsFunction(c, h)
            /\ \/ Impossible(c, h) /\ Answered(t, "AtomicImpossible")
               \/ /\ ~Impossible(c, h) /\ limited /\ c.type = "BlockUntilDone"
                  /\ Answered(t, "Unsupported")
               \/ /\ ~Impossible(c, h) /\ c.type = "Immediate"
                  /\ ~Room(h, Now(c).what) /\ Answered(t, "TryAgain")
      /\ UNCHANGED <<usage, mtx, queues, calls, result, history, exiting, exit>>

\* A callback's mutex stays locked while its sender waits for the buffer.
SendBlocks(t, h) ==
  LET c == call[t]
  IN  /\ Entering(t, h) /\ Now(c).what # <<>> /\ ~closed[h]
      /\ ~Impossible(c, h) /\ c.type = "BlockUntilSent" /\ ~Room(h, Now(c).what)
      /\ call' = [call EXCEPT ![t].at = "blocked"]
      /\ holder' = [holder EXCEPT ![h] = IF usage.kind[h] = "callback" THEN t ELSE @]
      /\ producer_wait' = [producer_wait EXCEPT ![h] = @ \cup {t}]
      /\ UNCHANGED <<usage, mtx, closed, queue, stale, worker, calls, result,
                     history, exiting, exit>>

\* A woken sender looks at the room left only; without room it sleeps again.
ResumeSend(t, h) ==
  LET s == Now(call[t]).what
  IN  /\ call[t] # Idle /\ call[t].at = "blocked" /\ h = Now(call[t]).to
      /\ t \notin producer_wait[h]
      /\ IF Room(h, s)
         THEN /\ Enqueue(h, queue[h], s)
              /\ Answered(t, "Success")
              /\ UNCHANGED producer_wait
         ELSE /\ producer_wait' = [producer_wait EXCEPT ![h] = @ \cup {t}]
              /\ UNCHANGED <<holder, closed, queue, stale, worker, call, taken>>
      /\ UNCHANGED <<usage, mtx, calls, result, handled, ran, dropped, exiting, exit>>

\* QueueBlockUntilDone runs a callback's function in the sender's thread,
\* with its mutex held; Function is the run for the first message left.
EnterFunction(t, h) ==
  /\ Entering(t, h) /\ Now(call[t]).what # <<>> /\ ~closed[h]
  /\ RunsFunction(call[t], h)
  /\ call' = [call EXCEPT ![t].at = "function"]
  /\ holder' = [holder EXCEPT ![h] = t]
  /\ UNCHANGED <<usage, mtx, queues, calls, result, history, exiting, exit>>

\* In a call of the ToOne kind the handlers that follow are offered the same
\* objects.  A function, whatever it answers, has moved from the one it was
\* given, or has left it as it was.
MovedFrom(c, m, gone) ==
  IF ~gone \/ c.op \notin ToOne THEN c.todo
  ELSE [i \in DOMAIN c.todo |->
          [c.todo[i] EXCEPT !.what = [j \in DOMAIN @ |-> IF @[j] = m THEN Moved ELSE @[j]]]]

Function(t, h) ==
  LET c == call[t]
      done == c.done
      m == Now(c).what[done + 1]
  IN  /\ c # Idle /\ c.at = "function" /\ h = Now(c).to
      /\ ran' = [ran EXCEPT ![h] = Append(@, m)]
      /\ \E ok \in IF usage.fails THEN BOOLEAN ELSE {TRUE}, gone \in BOOLEAN :
           LET last == ~ok \/ done + 1 = Len(Now(c).what)
               after == [c EXCEPT !.todo = MovedFrom(c, m, gone), !.done = @ + 1]
           IN  IF last
               THEN AnswerTo(t, after, IF ok THEN "Success" ELSE "Failed")
               ELSE call' = [call EXCEPT ![t] = after] /\ UNCHANGED holder
      /\ UNCHANGED <<usage, mtx, queues, calls, result, taken, handled, dropped, exiting, exit>>

\* close(): once per handler; the inner buffer of a callback is closed under
\* both mutexes, so that one flag stands for both.  Only readers are notified.
CloseHandler(t, h) ==
  /\ Entering(t, h) /\ Now(call[t]).what = <<>>
  /\ closed' = [closed EXCEPT ![h] = TRUE]
  /\ IF call[t].cancel /\ ~closed[h]
     THEN /\ queue' = [queue EXCEPT ![h] = <<>>]
          /\ dropped' = [dropped EXCEPT ![h] = @ \cup Range(queue[h])]
     ELSE UNCHANGED <<queue, dropped>>
  /\ Answered(t, "Success")
  /\ UNCHANGED <<usage, mtx, producer_wait, stale, worker, calls, result, taken,
                 handled, ran, exiting, exit>>

-----------------------------------------------------------------------------
(* A handler's reader: a callback's worker thread, or the application's    *)
(* reader of a plain buffer, which reads until it fails.                   *)


\* Mutant: a read notifies nobody.
NotifyNobody(h, n) == UNCHANGED producer_wait

\* n calls of notify_one().
NotifySenders(h, n) ==
  LET woken == Min({n, Cardinality(producer_wait[h])})
  IN  \E w \in SUBSET producer_wait[h] :
        /\ Cardinality(w) = woken
        /\ producer_wait' = [producer_wait EXCEPT ![h] = @ \ w]

\* read() with QueueBlockUntilDone: a stale message is discarded first.
WorkerReads(h) ==
  LET discards == worker[h] = "idle" /\ stale[h] /\ queue[h] # <<>>
      rest == IF discards THEN Tail(queue[h]) ELSE queue[h]
      keep == usage.consume[h] = "WithoutRemoving"
      discarded == IF discards THEN 1 ELSE 0
  IN  /\ worker[h] \in {"idle", "fetch"}
      /\ dropped' = [dropped EXCEPT ![h] = @ \cup Range(SubSeq(queue[h], 1, discarded))]
      /\ \/ /\ rest # <<>>
            /\ queue' = [queue EXCEPT ![h] = IF keep THEN rest ELSE Tail(rest)]
            /\ handled' = [handled EXCEPT ![h] = Append(@, Head(rest))]
            /\ worker' = [worker EXCEPT ![h] = "busy"]
            /\ stale' = [stale EXCEPT ![h] = keep]
            /\ NotifySenders(h, discarded + 1)
         \/ /\ rest = <<>> /\ (discards \/ closed[h])
            /\ queue' = [queue EXCEPT ![h] = rest]
            /\ worker' = [worker EXCEPT ![h] = IF closed[h] THEN "ended" ELSE "fetch"]
            /\ stale' = [stale EXCEPT ![h] = ~closed[h]]
            /\ NotifySenders(h, discarded)
            /\ UNCHANGED handled
      /\ UNCHANGED <<usage, mtx, holder, closed, call, calls, result, taken, ran, exiting, exit>>

\* The function, or the application, is done with the message.
WorkerHandles(h) ==
  /\ worker[h] = "busy"
  /\ worker' = [worker EXCEPT ![h] = "idle"]
  /\ UNCHANGED <<usage, mtx, holder, closed, queue, producer_wait, stale, call,
                 calls, result, history, exiting, exit>>

-----------------------------------------------------------------------------
(* The end of the program: the broadcaster is destroyed when its clients   *)
(* are done, then its handlers one by one.  A callback joins its worker.   *)

DestroyBroadcaster ==
  /\ ~exiting /\ \A t \in Clients : call[t] = Idle
  /\ exiting' = TRUE
  /\ closed' = [h \in Handlers |-> closed[h] \/ usage.close_on_exit]
  /\ UNCHANGED <<usage, mtx, holder, queue, producer_wait, stale, worker, call,
                 calls, result, history, exit>>

\* Mutant: the destructor does not join the worker.
DestroyDetached(h) ==
  /\ exiting /\ exit # <<>> /\ h = Head(exit)
  /\ closed' = [closed EXCEPT ![h] = TRUE]
  /\ exit' = Tail(exit)
  /\ UNCHANGED <<usage, mtx, holder, queue, producer_wait, stale, worker, call,
                 calls, result, history, exiting>>

DestroyHandler(h) ==
  /\ exiting /\ exit # <<>> /\ h = Head(exit)
  /\ closed' = [closed EXCEPT ![h] = @ \/ usage.kind[h] = "callback"]
  /\ exit' = IF usage.kind[h] = "buffer" \/ worker[h] = "ended" THEN Tail(exit) ELSE exit
  /\ UNCHANGED <<usage, mtx, holder, queue, producer_wait, stale, worker, call,
                 calls, result, history, exiting>>

ClientStep(t) ==
  \/ Lock(t) \/ Return(t)
  \/ \E h \in Handlers : \/ SendAccepted(t, h) \/ SendRefused(t, h) \/ SendBlocks(t, h)
                        \/ ResumeSend(t, h) \/ EnterFunction(t, h) \/ Function(t, h)
                        \/ CloseHandler(t, h)

WorkerStep(h) == WorkerReads(h) \/ WorkerHandles(h)

Next == \/ \E t \in Clients : CallSend(t) \/ CallClose(t) \/ ClientStep(t)
        \/ \E h \in Handlers : WorkerStep(h) \/ DestroyHandler(h)
        \/ DestroyBroadcaster

\* Threads that can go on do; nobody has to call anything.
Fairness == /\ \A t \in Clients : WF_vars(ClientStep(t))
            /\ \A h \in Handlers : WF_vars(WorkerStep(h)) /\ WF_vars(DestroyHandler(h))

Spec == Init /\ [][Next]_vars /\ Fairness

-----------------------------------------------------------------------------
(* Properties.                                                             *)

TypeOK ==
  /\ mtx \in Clients \cup {Nobody} /\ holder \in [Handlers -> Clients \cup {Nobody}]
  /\ closed \in [Handlers -> BOOLEAN] /\ stale \in [Handlers -> BOOLEAN]
  /\ producer_wait \in [Handlers -> SUBSET Clients]
  /\ worker \in [Handlers -> {"idle", "fetch", "busy", "ended"}]
  /\ calls \in [Clients -> 0..(MaxCalls + 1)]
  /\ \A h \in Handlers : usage.limit[h] # 0 => Len(queue[h]) <= usage.limit[h]
  /\ \A t \in Clients :
       IsBroadcast(call[t]) => Len(call[t].answers) <= 2 * Len(usage.writers)

\* Every handler that was added once gets the broadcasts it accepts in the same
\* order, whoever sends them and whatever handler is full: the mutex covers the
\* whole list.
HandlersAgreeOnOrder ==
  usage.direct = {} /\ IsInjective(usage.writers) =>
    \A g, h \in Handlers : \A i, j \in DOMAIN taken[g], k, l \in DOMAIN taken[h] :
      i < j /\ taken[g][i] = taken[h][k] /\ taken[g][j] = taken[h][l] =>
        k < l \/ Moved \in {taken[h][k], taken[h][l]}

\* The places in s, in their order, of the elements of r.
Places(r, s) == {p \in [DOMAIN r -> DOMAIN s] :
                   /\ \A i, j \in DOMAIN r : i < j => p[i] < p[j]
                   /\ \A i \in DOMAIN r : r[i] = s[p[i]]}

\* A handler's worker is given what its queue accepted, each message once and
\* in that order; what it is not given waits, or was reported as lost,
\* cancelled, or discarded after it was read.
HandledInOrder ==
  \A h \in Handlers :
    /\ Places(handled[h], taken[h]) # {}
    /\ Range(taken[h]) = Range(handled[h]) \cup Range(queue[h]) \cup dropped[h]

\* The handlers a message reached.
Reached(m) == {h \in Handlers : m \in Range(taken[h]) \cup Range(ran[h])}

\* The places of the handlers that kept what they were given, as answers to a
\* call of this type say: those that accepted it, and those whose function ran in
\* the sender's thread and failed, perhaps after it had handled a part.
Keepers(answers, type) ==
  {i \in DOMAIN answers : Sent(answers[i]) \/ (type = "BlockUntilDone" /\ answers[i] = "Failed")}

\* sendToOne() and sendMessagesAtomicallyToOne() hand their messages to one
\* handler, the last they tried, when they report success, and to none when they
\* do not; no other was given them but one whose function failed.  (That function
\* may have left the object intact, so that the next handler is given the same
\* message again, a part of a vector also when it was handled well.)
ToOneReachesOne ==
  \A t \in Clients : result[t].op \in ToOne =>
    LET answers == result[t].answers
    IN  /\ \A i \in DOMAIN answers : Sent(answers[i]) => i = Len(answers)
        /\ \A m \in Range(result[t].what) :
             /\ Reached(m) \subseteq {usage.writers[i] : i \in Keepers(answers, result[t].type)}
             /\ Sent(result[t].answer) => Reached(m) # {}

\* "The message could not be sent": a call that asks to be tried again has
\* reached nobody, so that trying again cannot send a message twice.
RetryIsSafe ==
  \A t \in Clients :
    result[t].op # "none" /\ result[t].op # "sendMessages" =>
      (result[t].answer \in {"TryAgain", "Unsupported", "AtomicImpossible"} =>
         \A m \in Range(result[t].what) : Reached(m) = {})

\* A function runs in one sender's thread at a time.
OneSenderInFunction ==
  \A h \in Handlers :
    Cardinality({t \in Clients : call[t] # Idle /\ call[t].at = "function" /\ Now(call[t]).to = h}) <= 1

\* When a callback has been destroyed, nothing it accepted is left.
DestroyedCallbacksAreDrained ==
  exiting =>
    \A h \in Range(usage.writers) \ Range(exit) : usage.kind[h] = "callback" =>
      Range(taken[h]) = Range(handled[h]) \cup dropped[h]

\* Senders asleep in a plain buffer whose reader has met its end: close() notifies
\* readers only, so that the last sender has nobody to wake it.
Stranded == \E h \in Handlers : /\ usage.kind[h] = "buffer" /\ closed[h]
                                /\ worker[h] = "ended" /\ producer_wait[h] # {}

\* No call of a client hangs: a sender that waits for room in one handler,
\* holding the broadcaster's mutex, is released by that handler's worker.  (Unless
\* a plain buffer was closed while more senders slept in it than it had messages
\* left: those, and who waits for them, wait for ever.)
CallsReturn == \A t \in Clients : call[t] # Idle ~> call[t] = Idle \/ Stranded

\* The destructors return.
DestructionEnds == exiting ~> exit = <<>>

\* One order for all: in the queues, and in the workers.
OrderIsShared == HandlersAgreeOnOrder /\ HandledInOrder

\* What a call answers is what happened to its messages.
AnswersAreTrue == ToOneReachesOne /\ RetryIsSafe

\* A callback's function and its queue, from construction to destruction.
CallbacksAreGuarded == TypeOK /\ OneSenderInFunction /\ DestroyedCallbacksAreDrained

\* Calls and destructors return.
EverythingReturns == CallsReturn /\ DestructionEnds

=============================================================================
