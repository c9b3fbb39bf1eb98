----------------------- MODULE MessageHandlersProofs -----------------------
(***************************************************************************)
(* Message handlers and their broadcaster for any number of clients and    *)
(* handlers and every program: the mutexes guard the functions, a call     *)
(* answers what happened to its messages, and all handlers agree on the    *)
(* order of what is broadcast.                                             *)
(***************************************************************************)
EXTENDS MessageHandlers, FiniteSetTheorems, SequenceTheorems, TLAPS

-----------------------------------------------------------------------------
(* Types.                                                                  *)

Messages == Clients \X (1..MaxCalls) \X (1..2)

\* A moved-from object may travel in the place of a message.
Things == Messages \cup {Moved}

Sends == [to : Handlers, what : Seq(Things)]

Calls == [op : Broadcasts \cup {"direct", "close", "closeAll"},
          type : Types \cup {"none"}, what : Seq(Messages), todo : Seq(Sends),
          answers : Seq(Answers), cancel : BOOLEAN,
          at : {"outside", "blocked", "function"}, done : Nat]

CallTypes == /\ call \in [Clients -> {Idle} \cup Calls]
             /\ calls \in [Clients -> 0..(MaxCalls + 1)]

LockTypes == /\ mtx \in Clients \cup {Nobody}
             /\ holder \in [Handlers -> Clients \cup {Nobody}]

QueueTypes == /\ closed \in [Handlers -> BOOLEAN] /\ stale \in [Handlers -> BOOLEAN]
              /\ queue \in [Handlers -> Seq(Things)]
              /\ producer_wait \in [Handlers -> SUBSET Clients]
              /\ worker \in [Handlers -> {"idle", "fetch", "busy", "ended"}]

HistoryTypes == /\ taken \in [Handlers -> Seq(Things)]
                /\ handled \in [Handlers -> Seq(Things)]
                /\ ran \in [Handlers -> Seq(Things)]
                /\ dropped \in [Handlers -> SUBSET Things]

ExitTypes == exiting \in BOOLEAN /\ exit \in Seq(Handlers)

\* How many messages a handler is given at a time.
Width(op) == IF op \in {"close", "closeAll"} THEN 0 ELSE IF op \in Atomic THEN 2 ELSE 1

\* Where a call can be: inside a handler only if there is one left to call and
\* something to send, and in a function only for a message of its vector.
Shape(c) == /\ c.at # "outside" => c.todo # <<>> /\ Width(c.op) > 0
            /\ c.at # "function" => c.done = 0
            /\ c.at = "function" => c.done < Width(c.op)
            /\ \A i \in 1..Len(c.todo) : Len(c.todo[i].what) = Width(c.op)

Shapes == \A t \in Clients : call[t] # Idle => Shape(call[t])

Typed == /\ usage \in Usage
         /\ CallTypes /\ LockTypes /\ QueueTypes /\ HistoryTypes /\ ExitTypes
         /\ Shapes

\* An idle client makes no call.
LEMMA IdleIsNoCall == Idle \notin Calls
  BY DEF Idle, Calls, Broadcasts, ToOne

\* A client that is not idle makes a call.
LEMMA BusyCalls ==
  ASSUME CallTypes, NEW t \in Clients, call[t] # Idle
  PROVE  call[t] \in Calls
  BY DEF CallTypes

\* The first of the handler calls left.
LEMMA NowIsThere ==
  ASSUME NEW c \in Calls, c.todo # <<>>
  PROVE  /\ Now(c) \in Sends /\ Now(c) = c.todo[1] /\ Now(c).to \in Handlers
         /\ Now(c).what \in Seq(Things)
         /\ Len(c.todo) \in Nat \ {0} /\ 1 \in DOMAIN c.todo
<1>1. c.todo \in Seq(Sends)
  BY DEF Calls
<1>2. Now(c) = c.todo[1] /\ Len(c.todo) \in Nat \ {0} /\ 1 \in DOMAIN c.todo
  BY <1>1, EmptySeq DEF Now
<1>3. Now(c) \in Sends
  BY <1>1, <1>2
<1> QED BY <1>2, <1>3 DEF Sends

\* The handlers' calls with the messages m, in the order of the writers.
Each(m) == [i \in DOMAIN usage.writers |-> To(usage.writers[i], m)]

\* Each handler is called once, with the same messages.
LEMMA EachWriter ==
  ASSUME usage \in Usage, NEW s \in Seq(Things)
  PROVE  /\ Each(s) \in Seq(Sends) /\ Len(Each(s)) = Len(usage.writers)
         /\ \A i \in 1..Len(Each(s)) : Each(s)[i].what = s /\ Each(s)[i].to = usage.writers[i]
<1> DEFINE n == Len(usage.writers)
<1>1. usage.writers \in Seq(Handlers) /\ n \in Nat /\ DOMAIN usage.writers = 1..n
  BY DEF Usage
<1>2. /\ Each(s) = [i \in 1..n |-> To(usage.writers[i], s)]
      /\ \A i \in 1..n : To(usage.writers[i], s) \in Sends
  BY <1>1 DEF Each, To, Sends
<1> HIDE DEF n
<1>3. Each(s) \in Seq(Sends) /\ Len(Each(s)) = n
  BY <1>1, <1>2
<1>4. \A i \in 1..n : Each(s)[i].what = s /\ Each(s)[i].to = usage.writers[i]
  BY <1>2 DEF To
<1> QED BY <1>3, <1>4 DEF n

\* How many handler calls a call makes at most, with n handlers.
SizeWith(n, op) == IF op \in {"direct", "close"} THEN 1
                   ELSE IF op = "sendMessages" THEN 2 * n ELSE n

Size(op) == SizeWith(Len(usage.writers), op)

\* The handler calls of a call: every handler is given all messages, one in
\* sendMessages().
LEMMA TodoIsSends ==
  ASSUME usage \in Usage, NEW s \in Seq(Things), NEW op, NEW h,
         op \in {"direct", "close"} => h \in Handlers,
         op = "sendMessages" => Len(s) = 2
  PROVE  /\ Todo(op, s, h) \in Seq(Sends) /\ Len(Todo(op, s, h)) = Size(op)
         /\ \A i \in 1..Size(op) :
              /\ op # "sendMessages" => Todo(op, s, h)[i].what = s
              /\ op = "sendMessages" =>
                   Todo(op, s, h)[i].what = IF i <= Len(usage.writers) THEN <<s[1]>> ELSE <<s[2]>>
              /\ op = "sendMessages" =>
                   Todo(op, s, h)[i].to = IF i <= Len(usage.writers) THEN usage.writers[i]
                                          ELSE usage.writers[i - Len(usage.writers)]
              /\ op \notin {"direct", "close", "sendMessages"} =>
                   Todo(op, s, h)[i].to = usage.writers[i]
<1>1. CASE op = "sendMessages"
  <2> DEFINE a == Each(<<s[1]>>)
             b == Each(<<s[2]>>)
             n == Len(usage.writers)
  <2>1. <<s[1]>> \in Seq(Things) /\ <<s[2]>> \in Seq(Things) /\ n \in Nat
    <3>1. usage.writers \in Seq(Handlers)
      BY DEF Usage
    <3>2. s[1] \in Things /\ s[2] \in Things
      BY <1>1
    <3> QED BY <3>1, <3>2
  <2>2. /\ a \in Seq(Sends) /\ Len(a) = n /\ b \in Seq(Sends) /\ Len(b) = n
        /\ \A i \in 1..n : /\ a[i].what = <<s[1]>> /\ a[i].to = usage.writers[i]
                           /\ b[i].what = <<s[2]>> /\ b[i].to = usage.writers[i]
    BY <2>1, EachWriter, ZenonT(60)
  <2>3. Todo(op, s, h) = a \o b
    BY <1>1 DEF Todo, Each
  <2>4. Size(op) = 2 * n
    BY <1>1 DEF Size, SizeWith
  <2> DEFINE x == a \o b
  <2> HIDE DEF a, b, n
  <2>5. /\ x \in Seq(Sends) /\ Len(x) = 2 * n
        /\ \A i \in 1..(2 * n) : x[i] = IF i <= n THEN a[i] ELSE b[i - n]
    <3>1. /\ x \in Seq(Sends) /\ Len(x) = Len(a) + Len(b)
          /\ \A i \in 1..Len(a) + Len(b) : x[i] = IF i <= Len(a) THEN a[i] ELSE b[i - Len(a)]
      BY <2>2, ConcatProperties, Zenon
    <3> HIDE DEF x
    <3> QED BY <2>1, <2>2, <3>1
  <2> HIDE DEF x
  <2>6. ASSUME NEW i \in 1..(2 * n)
        PROVE  /\ x[i].what = IF i <= n THEN <<s[1]>> ELSE <<s[2]>>
               /\ x[i].to = IF i <= n THEN usage.writers[i] ELSE usage.writers[i - n]
    <3>1. CASE i <= n
      BY <3>1, <2>1, <2>2, <2>5
    <3>2. CASE ~(i <= n)
      <4>1. i - n \in 1..n
        BY <3>2, <2>1
      <4> QED BY <3>2, <4>1, <2>2, <2>5
    <3> QED BY <3>1, <3>2
  <2> QED BY <1>1, <2>3, <2>4, <2>5, <2>6 DEF x, n
<1>2. CASE op \in {"direct", "close"}
  <2>1. Todo(op, s, h) = <<To(h, s)>> /\ To(h, s) \in Sends /\ To(h, s).what = s
    BY <1>2 DEF Todo, To, Sends
  <2> QED BY <1>2, <2>1 DEF Size, SizeWith
<1>3. CASE op \notin {"sendMessages", "direct", "close"}
  <2>1. Todo(op, s, h) = Each(s) /\ Size(op) = Len(usage.writers)
    BY <1>3 DEF Todo, Each, Size, SizeWith
  <2> QED BY <1>3, <2>1, EachWriter
<1> QED BY <1>1, <1>2, <1>3

\* The call a client begins.
NewCall(op, type, s, h, cancel) ==
  [op |-> op, type |-> type, what |-> s, todo |-> Todo(op, s, h),
   answers |-> <<>>, cancel |-> cancel, at |-> "outside", done |-> 0]

\* What CallSend and CallClose may begin.
Begins(t, op, type, s, h, cancel) ==
  /\ call[t] = Idle /\ ~exiting
  /\ call' = [call EXCEPT ![t] = NewCall(op, type, s, h, cancel)]
  /\ \/ /\ op \in usage.ops \/ (op = "direct" /\ h \in usage.direct)
        /\ type \in usage.types /\ s = Offered(t, op) /\ cancel = FALSE
        /\ calls[t] < MaxCalls /\ calls' = [calls EXCEPT ![t] = @ + 1]
     \/ /\ op = "closeAll" \/ (op = "close" /\ h \in usage.direct)
        /\ type = "none" /\ s = <<>> /\ cancel \in usage.closes
        /\ calls[t] <= MaxCalls /\ calls' = [calls EXCEPT ![t] = MaxCalls + 1]
  /\ UNCHANGED <<usage, mtx, holder, queues, result, history, exiting, exit>>

\* Every call begins so.
LEMMA CallsBegin ==
  ASSUME NEW t \in Clients, CallSend(t) \/ CallClose(t)
  PROVE  \E op, type, s, h, cancel : Begins(t, op, type, s, h, cancel)
<1>1. ASSUME CallSend(t)
      PROVE  \E op, type, s, h, cancel : Begins(t, op, type, s, h, cancel)
  <2>1. PICK type \in usage.types :
          \/ \E op \in usage.ops : Begin(t, op, type, Offered(t, op), Nobody, FALSE)
          \/ \E h \in usage.direct :
               Begin(t, "direct", type, Offered(t, "direct"), h, FALSE)
    BY <1>1 DEF CallSend
  <2>2. calls[t] < MaxCalls /\ calls' = [calls EXCEPT ![t] = @ + 1]
    BY <1>1 DEF CallSend
  <2>3. ASSUME NEW op \in usage.ops, Begin(t, op, type, Offered(t, op), Nobody, FALSE)
        PROVE  Begins(t, op, type, Offered(t, op), Nobody, FALSE)
    BY <2>2, <2>3 DEF Begin, Begins, NewCall
  <2>4. ASSUME NEW h \in usage.direct,
               Begin(t, "direct", type, Offered(t, "direct"), h, FALSE)
        PROVE  Begins(t, "direct", type, Offered(t, "direct"), h, FALSE)
    BY <2>2, <2>4 DEF Begin, Begins, NewCall
  <2> QED BY <2>1, <2>3, <2>4
<1>2. ASSUME CallClose(t)
      PROVE  \E op, type, s, h, cancel : Begins(t, op, type, s, h, cancel)
  <2>1. PICK cancel \in usage.closes :
          \/ Begin(t, "closeAll", "none", <<>>, Nobody, cancel)
          \/ \E h \in usage.direct : Begin(t, "close", "none", <<>>, h, cancel)
    BY <1>2 DEF CallClose
  <2>2. calls[t] <= MaxCalls /\ calls' = [calls EXCEPT ![t] = MaxCalls + 1]
    BY <1>2 DEF CallClose
  <2>3. ASSUME Begin(t, "closeAll", "none", <<>>, Nobody, cancel)
        PROVE  Begins(t, "closeAll", "none", <<>>, Nobody, cancel)
    BY <2>2, <2>3 DEF Begin, Begins, NewCall
  <2>4. ASSUME NEW h \in usage.direct, Begin(t, "close", "none", <<>>, h, cancel)
        PROVE  Begins(t, "close", "none", <<>>, h, cancel)
    BY <2>2, <2>4 DEF Begin, Begins, NewCall
  <2> QED BY <2>1, <2>3, <2>4
<1> QED BY <1>1, <1>2

\* Its messages are new.
LEMMA NewCallIsCall ==
  ASSUME usage \in Usage, CallTypes, NEW t \in Clients, NEW op, NEW type, NEW s, NEW h,
         NEW cancel, Begins(t, op, type, s, h, cancel)
  PROVE  /\ NewCall(op, type, s, h, cancel) \in Calls
         /\ Shape(NewCall(op, type, s, h, cancel))
         /\ calls' \in [Clients -> 0..(MaxCalls + 1)] /\ calls[t] < calls'[t]
         /\ \A i \in 1..Len(s) : s[i] = <<t, calls'[t], i>>
         /\ op \in Broadcasts \cup {"direct", "close", "closeAll"}
         /\ s \in Seq(Messages)
         /\ op \in {"direct", "close"} => h \in Handlers
         /\ op = "sendMessages" => Len(s) = 2
         /\ op # "sendMessages" => Len(s) = Width(op)
<1>1. /\ op \in Broadcasts \cup {"direct", "close", "closeAll"}
      /\ type \in Types \cup {"none"} /\ cancel \in BOOLEAN
      /\ op \in {"direct", "close"} => h \in Handlers
  <2>1. /\ usage.ops \subseteq Broadcasts /\ usage.types \subseteq Types
        /\ usage.closes \subseteq BOOLEAN /\ usage.direct \subseteq Handlers
    BY DEF Usage
  <2>2. op \in {"direct", "close"} /\ op \in usage.ops => FALSE
    BY <2>1 DEF Broadcasts, ToOne
  <2> QED BY <2>1, <2>2 DEF Begins
<1>2. calls[t] \in 0..(MaxCalls + 1) /\ MaxCalls \in Nat
  BY HandlersAssumption DEF CallTypes
<1>3. /\ calls' \in [Clients -> 0..(MaxCalls + 1)] /\ calls[t] < calls'[t]
  BY <1>2 DEF Begins, CallTypes
<1>4. /\ s \in Seq(Messages) /\ (op = "sendMessages" => Len(s) = 2)
      /\ (op # "sendMessages" => Len(s) = Width(op))
      /\ \A i \in 1..Len(s) : s[i] = <<t, calls'[t], i>>
  <2>1. CASE s = <<>> /\ op \in {"closeAll", "close"}
    BY <2>1 DEF Width
  <2>2. CASE /\ s = Offered(t, op) /\ calls[t] < MaxCalls
             /\ calls' = [calls EXCEPT ![t] = @ + 1]
             /\ op \in Broadcasts \cup {"direct"}
    <3> DEFINE n == IF op \in {"send", "sendToOne", "direct"} THEN 1 ELSE 2
    <3>1. s = [i \in 1..n |-> <<t, calls[t] + 1, i>>]
      BY <2>2 DEF Offered
    <3>2. /\ n \in {1, 2} /\ (op = "sendMessages" => n = 2)
          /\ (op # "sendMessages" => n = Width(op))
      BY <2>2 DEF Width, Broadcasts, ToOne, Atomic
    <3> HIDE DEF n
    <3>3. calls[t] + 1 \in 1..MaxCalls /\ calls'[t] = calls[t] + 1
      BY <1>2, <2>2 DEF CallTypes
    <3>4. \A i \in 1..n : <<t, calls[t] + 1, i>> \in Messages
      BY <3>2, <3>3 DEF Messages
    <3>5. s \in Seq(Messages) /\ Len(s) = n
      BY <3>1, <3>2, <3>4
    <3> QED BY <3>1, <3>2, <3>3, <3>5
  <2>3. usage.ops \subseteq Broadcasts
    BY DEF Usage
  <2> QED BY <2>1, <2>2, <2>3 DEF Begins
<1>5. /\ Todo(op, s, h) \in Seq(Sends) /\ Len(Todo(op, s, h)) = Size(op)
      /\ \A i \in 1..Len(Todo(op, s, h)) : Len(Todo(op, s, h)[i].what) = Width(op)
  <2> DEFINE x == Todo(op, s, h)
  <2>1. s \in Seq(Things)
    BY <1>4 DEF Things
  <2>2. /\ x \in Seq(Sends) /\ Len(x) = Size(op)
        /\ \A i \in 1..Size(op) :
             /\ op # "sendMessages" => x[i].what = s
             /\ op = "sendMessages" =>
                  x[i].what = IF i <= Len(usage.writers) THEN <<s[1]>> ELSE <<s[2]>>
    <3>1. op \in {"direct", "close"} => h \in Handlers
      BY <1>1
    <3>2. op = "sendMessages" => Len(s) = 2
      BY <1>4
    <3> QED BY <2>1, <3>1, <3>2, TodoIsSends
  <2> HIDE DEF x
  <2>3. ASSUME NEW i \in 1..Size(op) PROVE Len(x[i].what) = Width(op)
    <3>1. CASE op = "sendMessages"
      <4>1. x[i].what \in {<<s[1]>>, <<s[2]>>} /\ Width(op) = 1
        BY <2>2, <3>1 DEF Width, Atomic
      <4> QED BY <4>1
    <3>2. CASE op # "sendMessages"
      BY <1>4, <2>2, <3>2
    <3> QED BY <3>1, <3>2
  <2> QED BY <2>2, <2>3 DEF x
<1>6. NewCall(op, type, s, h, cancel) \in Calls
  <2> DEFINE x == Todo(op, s, h)
  <2> HIDE DEF x
  <2>1. x \in Seq(Sends)
    BY <1>5 DEF x
  <2>2. NewCall(op, type, s, h, cancel) =
          [op |-> op, type |-> type, what |-> s, todo |-> x,
           answers |-> <<>>, cancel |-> cancel, at |-> "outside", done |-> 0]
    BY DEF NewCall, x
  <2> QED BY <1>1, <1>4, <2>1, <2>2 DEF Calls
<1>7. Shape(NewCall(op, type, s, h, cancel))
  BY <1>5 DEF Shape, NewCall
<1> QED BY <1>1, <1>3, <1>4, <1>6, <1>7

\* The call c after its handler's answer a.
AnsweredCall(c, a) ==
  [c EXCEPT !.todo = IF c.op \in ToOne /\ Sent(a) THEN <<>> ELSE Tail(@), !.done = 0,
            !.answers = Append(@, a), !.at = "outside"]

\* An answer, by that name.
LEMMA AnswerToIs ==
  ASSUME NEW t, NEW c, NEW a, AnswerTo(t, c, a)
  PROVE  /\ call' = [call EXCEPT ![t] = AnsweredCall(c, a)]
         /\ holder' = [holder EXCEPT ![Now(c).to] = Nobody]
  BY DEF AnswerTo, AnsweredCall

\* What it leaves of the call.
LEMMA AnsweredCallParts ==
  ASSUME NEW c \in Calls, c.todo # <<>>, NEW a \in Answers,
         \A i \in 1..Len(c.todo) : Len(c.todo[i].what) = Width(c.op)
  PROVE  /\ AnsweredCall(c, a) \in Calls /\ Shape(AnsweredCall(c, a))
         /\ AnsweredCall(c, a).op = c.op /\ AnsweredCall(c, a).type = c.type
         /\ AnsweredCall(c, a).what = c.what /\ AnsweredCall(c, a).cancel = c.cancel
         /\ AnsweredCall(c, a).at = "outside"
         /\ AnsweredCall(c, a).answers = Append(c.answers, a)
         /\ AnsweredCall(c, a).todo = IF c.op \in ToOne /\ Sent(a) THEN <<>> ELSE Tail(c.todo)
         /\ Len(Tail(c.todo)) = Len(c.todo) - 1
         /\ \A i \in 1..Len(Tail(c.todo)) : Tail(c.todo)[i] = c.todo[i + 1]
<1> DEFINE rest == IF c.op \in ToOne /\ Sent(a) THEN <<>> ELSE Tail(c.todo)
           more == Append(c.answers, a)
<1>1. /\ rest \in Seq(Sends) /\ more \in Seq(Answers)
      /\ Len(Tail(c.todo)) = Len(c.todo) - 1
      /\ \A i \in 1..Len(Tail(c.todo)) : Tail(c.todo)[i] = c.todo[i + 1]
      /\ \A i \in 1..Len(rest) : Len(rest[i].what) = Width(c.op)
  <2>1. c.todo \in Seq(Sends) /\ c.answers \in Seq(Answers) /\ Len(c.todo) \in Nat
    BY DEF Calls
  <2>2. /\ Tail(c.todo) \in Seq(Sends) /\ Append(c.answers, a) \in Seq(Answers)
        /\ Len(Tail(c.todo)) = Len(c.todo) - 1
        /\ \A i \in 1..Len(Tail(c.todo)) : Tail(c.todo)[i] = c.todo[i + 1]
    BY <2>1
  <2>3. \A i \in 1..Len(Tail(c.todo)) : Len(Tail(c.todo)[i].what) = Width(c.op)
    BY <2>1, <2>2
  <2> QED BY <2>2, <2>3
<1>2. AnsweredCall(c, a) =
        [c EXCEPT !.todo = rest, !.done = 0, !.answers = more, !.at = "outside"]
  BY DEF AnsweredCall
<1> HIDE DEF rest, more
<1>3. AnsweredCall(c, a) =
        [op |-> c.op, type |-> c.type, what |-> c.what, todo |-> rest, answers |-> more,
         cancel |-> c.cancel, at |-> "outside", done |-> 0]
  BY <1>2 DEF Calls
<1>4. /\ c.op \in Broadcasts \cup {"direct", "close", "closeAll"}
      /\ c.type \in Types \cup {"none"} /\ c.what \in Seq(Messages)
      /\ c.cancel \in BOOLEAN
  BY DEF Calls
<1>5. /\ AnsweredCall(c, a) \in Calls
      /\ AnsweredCall(c, a).op = c.op /\ AnsweredCall(c, a).type = c.type
      /\ AnsweredCall(c, a).what = c.what /\ AnsweredCall(c, a).cancel = c.cancel
      /\ AnsweredCall(c, a).at = "outside" /\ AnsweredCall(c, a).done = 0
      /\ AnsweredCall(c, a).answers = more /\ AnsweredCall(c, a).todo = rest
  BY <1>1, <1>3, <1>4 DEF Calls
<1> QED BY <1>1, <1>5 DEF Shape, rest, more

\* The call c once its function ran for message m, and perhaps moved from it.
RanCall(c, m, gone) == [c EXCEPT !.todo = MovedFrom(c, m, gone), !.done = @ + 1]

\* The handlers left are the same, and so is what they are given but for m.
LEMMA RanCallParts ==
  ASSUME NEW c \in Calls, NEW m, NEW gone \in BOOLEAN
  PROVE  /\ RanCall(c, m, gone) \in Calls
         /\ RanCall(c, m, gone).op = c.op /\ RanCall(c, m, gone).type = c.type
         /\ RanCall(c, m, gone).what = c.what /\ RanCall(c, m, gone).cancel = c.cancel
         /\ RanCall(c, m, gone).at = c.at /\ RanCall(c, m, gone).answers = c.answers
         /\ RanCall(c, m, gone).done = c.done + 1 /\ RanCall(c, m, gone).todo = MovedFrom(c, m, gone)
         /\ Len(MovedFrom(c, m, gone)) = Len(c.todo)
         /\ \A i \in 1..Len(c.todo) :
              /\ MovedFrom(c, m, gone)[i].to = c.todo[i].to
              /\ Len(MovedFrom(c, m, gone)[i].what) = Len(c.todo[i].what)
              /\ \A j \in 1..Len(c.todo[i].what) :
                   MovedFrom(c, m, gone)[i].what[j] =
                     IF gone /\ c.op \in ToOne /\ c.todo[i].what[j] = m THEN Moved
                     ELSE c.todo[i].what[j]
         /\ ~gone \/ c.op \notin ToOne => MovedFrom(c, m, gone) = c.todo
<1> DEFINE x == MovedFrom(c, m, gone)
           w(i) == [j \in DOMAIN c.todo[i].what |->
                      IF c.todo[i].what[j] = m THEN Moved ELSE c.todo[i].what[j]]
<1>1. /\ c.todo \in Seq(Sends) /\ DOMAIN c.todo = 1..Len(c.todo) /\ Len(c.todo) \in Nat
      /\ c.done + 1 \in Nat
  BY DEF Calls
<1>2. \A i \in 1..Len(c.todo) :
        /\ c.todo[i] \in Sends /\ c.todo[i].to \in Handlers
        /\ c.todo[i].what \in Seq(Things)
        /\ DOMAIN c.todo[i].what = 1..Len(c.todo[i].what)
  <2>1. \A i \in 1..Len(c.todo) : c.todo[i] \in Sends
    BY <1>1
  <2>2. \A y \in Sends : /\ y.to \in Handlers /\ y.what \in Seq(Things)
                         /\ DOMAIN y.what = 1..Len(y.what)
    BY DEF Sends
  <2> QED BY <2>1, <2>2
<1>3. CASE gone /\ c.op \in ToOne
  <2>1. x = [i \in 1..Len(c.todo) |-> [c.todo[i] EXCEPT !.what = w(i)]]
    BY <1>1, <1>3 DEF MovedFrom
  <2>2. ASSUME NEW i \in 1..Len(c.todo)
        PROVE  /\ w(i) \in Seq(Things) /\ Len(w(i)) = Len(c.todo[i].what)
               /\ \A j \in 1..Len(c.todo[i].what) :
                    w(i)[j] = IF c.todo[i].what[j] = m THEN Moved ELSE c.todo[i].what[j]
    <3> DEFINE y == c.todo[i].what
               n == Len(y)
    <3>1. y \in Seq(Things) /\ DOMAIN y = 1..n /\ n \in Nat
      BY <1>2
    <3>2. Moved \in Things
      BY DEF Things
    <3>3. w(i) = [j \in 1..n |-> IF y[j] = m THEN Moved ELSE y[j]]
      BY <3>1
    <3> HIDE DEF y, n, w
    <3>4. \A j \in 1..n : (IF y[j] = m THEN Moved ELSE y[j]) \in Things
      BY <3>1, <3>2
    <3>5. w(i) \in Seq(Things) /\ Len(w(i)) = n
      BY <3>1, <3>3, <3>4
    <3> QED BY <3>3, <3>5 DEF y, n
  <2> HIDE DEF w
  <2>3. \A i \in 1..Len(c.todo) : /\ x[i] = [c.todo[i] EXCEPT !.what = w(i)]
                                  /\ x[i] \in Sends
                                  /\ x[i].to = c.todo[i].to /\ x[i].what = w(i)
    BY <1>2, <2>1, <2>2, ZenonT(60) DEF Sends
  <2>4. x \in Seq(Sends) /\ Len(x) = Len(c.todo)
    <3>1. \A i \in 1..Len(c.todo) : x[i] \in Sends
      BY <2>3
    <3>2. DOMAIN x = 1..Len(c.todo) /\ x = [i \in 1..Len(c.todo) |-> x[i]]
      BY <2>1
    <3> DEFINE n == Len(c.todo)
    <3>3. n \in Nat
      BY <1>1
    <3> HIDE DEF x, n
    <3>4. x \in [1..n -> Sends]
      BY <3>1, <3>2 DEF n
    <3>5. x \in Seq(Sends) /\ Len(x) = n
      BY <3>3, <3>4
    <3> QED BY <3>5 DEF n
  <2> HIDE DEF x
  <2>5. /\ RanCall(c, m, gone) = [c EXCEPT !.todo = x, !.done = c.done + 1]
    BY DEF RanCall, x
  <2>6. /\ RanCall(c, m, gone) \in Calls
        /\ RanCall(c, m, gone).op = c.op /\ RanCall(c, m, gone).type = c.type
        /\ RanCall(c, m, gone).what = c.what /\ RanCall(c, m, gone).cancel = c.cancel
        /\ RanCall(c, m, gone).at = c.at /\ RanCall(c, m, gone).answers = c.answers
        /\ RanCall(c, m, gone).done = c.done + 1 /\ RanCall(c, m, gone).todo = x
    BY <1>1, <2>4, <2>5 DEF Calls
  <2>7. ASSUME NEW i \in 1..Len(c.todo)
        PROVE  /\ x[i].to = c.todo[i].to /\ Len(x[i].what) = Len(c.todo[i].what)
               /\ \A j \in 1..Len(c.todo[i].what) :
                    x[i].what[j] = IF gone /\ c.op \in ToOne /\ c.todo[i].what[j] = m THEN Moved
                                   ELSE c.todo[i].what[j]
    <3>1. x[i].to = c.todo[i].to /\ x[i].what = w(i) /\ Len(w(i)) = Len(c.todo[i].what)
      BY <2>2, <2>3
    <3> DEFINE v == w(i)
    <3>2. x[i].what = v
      BY <3>1
    <3>3. \A j \in 1..Len(c.todo[i].what) :
            v[j] = IF c.todo[i].what[j] = m THEN Moved ELSE c.todo[i].what[j]
      BY <2>2
    <3> HIDE DEF v
    <3>4. \A j \in 1..Len(c.todo[i].what) :
            x[i].what[j] = IF c.todo[i].what[j] = m THEN Moved ELSE c.todo[i].what[j]
      BY <3>2, <3>3
    <3> QED BY <1>3, <3>1, <3>4
  <2>8. /\ Len(x) = Len(c.todo)
        /\ ~gone \/ c.op \notin ToOne => x = c.todo
    BY <1>3, <2>4
  <2> QED BY <2>6, <2>7, <2>8 DEF x
<1>4. CASE ~gone \/ c.op \notin ToOne
  <2>1. x = c.todo
    BY <1>4 DEF MovedFrom
  <2>2. RanCall(c, m, gone) = [c EXCEPT !.done = c.done + 1]
    BY <2>1 DEF RanCall, Calls
  <2>3. /\ RanCall(c, m, gone) \in Calls
        /\ RanCall(c, m, gone).op = c.op /\ RanCall(c, m, gone).type = c.type
        /\ RanCall(c, m, gone).what = c.what /\ RanCall(c, m, gone).cancel = c.cancel
        /\ RanCall(c, m, gone).at = c.at /\ RanCall(c, m, gone).answers = c.answers
        /\ RanCall(c, m, gone).done = c.done + 1 /\ RanCall(c, m, gone).todo = c.todo
    BY <1>1, <2>2 DEF Calls
  <2> QED BY <1>4, <2>1, <2>3
<1> QED BY <1>3, <1>4

\* It keeps the shape of the handler calls.
LEMMA MovedShape ==
  ASSUME NEW c \in Calls, NEW m, NEW gone \in BOOLEAN, NEW i \in 1..Len(c.todo)
  PROVE  /\ MovedFrom(c, m, gone)[i].to = c.todo[i].to
         /\ Len(MovedFrom(c, m, gone)[i].what) = Len(c.todo[i].what)
BY RanCallParts

\* A message the function moved from is so wherever it is still offered.
LEMMA MovedParts ==
  ASSUME NEW c \in Calls, NEW m, NEW gone \in BOOLEAN, NEW i \in 1..Len(c.todo),
         NEW j \in 1..Len(c.todo[i].what)
  PROVE  /\ gone /\ c.op \in ToOne /\ c.todo[i].what[j] = m =>
              MovedFrom(c, m, gone)[i].what[j] = Moved
         /\ ~(gone /\ c.op \in ToOne /\ c.todo[i].what[j] = m) =>
              MovedFrom(c, m, gone)[i].what[j] = c.todo[i].what[j]
<1> DEFINE w == c.todo[i].what
<1>1. /\ i \in DOMAIN c.todo /\ c.todo[i] \in Sends
  BY DEF Calls
<1>2. w \in Seq(Things) /\ j \in DOMAIN w /\ c.todo[i] = [to |-> c.todo[i].to, what |-> w]
  BY <1>1 DEF Sends
<1>3. CASE gone /\ c.op \in ToOne
  <2> DEFINE v == [a \in DOMAIN w |-> IF w[a] = m THEN Moved ELSE w[a]]
  <2>1. MovedFrom(c, m, gone)[i] = [c.todo[i] EXCEPT !.what = v]
    BY <1>1, <1>3 DEF MovedFrom
  <2> HIDE DEF w, v
  <2>2. MovedFrom(c, m, gone)[i].what = v
    BY <1>2, <2>1
  <2>3. v[j] = IF w[j] = m THEN Moved ELSE w[j]
    BY <1>2 DEF v
  <2> QED BY <1>3, <2>2, <2>3 DEF w
<1>4. CASE ~gone \/ c.op \notin ToOne
  BY <1>4 DEF MovedFrom
<1> QED BY <1>3, <1>4

\* The call c once it waits in its handler, or is in its handler's function.
PlacedCall(c, at) == [c EXCEPT !.at = at]

\* Nothing else of the call changes.
LEMMA PlacedCallParts ==
  ASSUME NEW c \in Calls, NEW at \in {"blocked", "function"}
  PROVE  /\ PlacedCall(c, at) \in Calls
         /\ PlacedCall(c, at).op = c.op /\ PlacedCall(c, at).type = c.type
         /\ PlacedCall(c, at).what = c.what /\ PlacedCall(c, at).cancel = c.cancel
         /\ PlacedCall(c, at).at = at /\ PlacedCall(c, at).answers = c.answers
         /\ PlacedCall(c, at).done = c.done /\ PlacedCall(c, at).todo = c.todo
  BY DEF PlacedCall, Calls

-----------------------------------------------------------------------------
(* The steps of the specification by what they do.                         *)

\* Client t's call is at handler h.
At(t, h) == call[t] # Idle /\ call[t].todo # <<>> /\ Now(call[t]).to = h

\* What is left of queue q, and what is lost, when it drops its n oldest.
Kept(q, n) == SubSeq(q, n + 1, Len(q))
Lost(q, n) == Range(SubSeq(q, 1, n))

\* The handler's buffer accepts what it is sent, and drops its n oldest.
Puts(t, h, n) ==
  /\ At(t, h) /\ Width(call[t].op) > 0
  /\ \/ Entering(t, h) /\ ~closed[h] /\ ~RunsFunction(call[t], h)
     \/ call[t].at = "blocked"
  /\ n \in 0..Len(queue[h])
  /\ n > 0 => call[t].type = "ForceSend"
  /\ usage.limit[h] # 0 => (Len(queue[h]) - n) + Len(Now(call[t]).what) <= usage.limit[h]
  /\ queue' = [queue EXCEPT ![h] = Kept(@, n) \o Now(call[t]).what]
  /\ taken' = [taken EXCEPT ![h] = @ \o Now(call[t]).what]
  /\ dropped' = [dropped EXCEPT ![h] = @ \cup Lost(queue[h], n)]
  /\ AnswerTo(t, call[t], IF n > 0 THEN "SuccessLostData" ELSE "Success")
  /\ UNCHANGED <<usage, mtx, closed, producer_wait, stale, worker, calls, result, handled,
                 ran, exiting, exit>>

\* The handler answers that it did not accept it.
Refuses(t, h, a) ==
  /\ At(t, h) /\ Entering(t, h) /\ Width(call[t].op) > 0
  /\ \/ closed[h] /\ a = "Failed"
     \/ /\ ~closed[h] /\ ~RunsFunction(call[t], h)
        /\ \/ a = "AtomicImpossible" /\ call[t].op \in Atomic
           \/ a = "Unsupported" /\ call[t].type = "BlockUntilDone"
           \/ a = "TryAgain" /\ call[t].type = "Immediate"
  /\ AnswerTo(t, call[t], a)
  /\ UNCHANGED <<usage, mtx, queues, calls, result, history, exiting, exit>>

\* The sender waits for room in the handler's buffer.
Blocks(t, h) ==
  /\ At(t, h) /\ Entering(t, h) /\ ~closed[h] /\ Width(call[t].op) > 0
  /\ call[t].type = "BlockUntilSent"
  /\ call' = [call EXCEPT ![t] = PlacedCall(@, "blocked")]
  /\ holder' = [holder EXCEPT ![h] = IF usage.kind[h] = "callback" THEN t ELSE @]
  /\ \E w \in SUBSET Clients : producer_wait' = [producer_wait EXCEPT ![h] = w]
  /\ UNCHANGED <<usage, mtx, closed, queue, stale, worker, calls, result, history,
                 exiting, exit>>

\* A sender that woke up finds no room.
SleepsAgain(t, h) ==
  /\ \E w \in SUBSET Clients : producer_wait' = [producer_wait EXCEPT ![h] = w]
  /\ UNCHANGED <<usage, mtx, holder, closed, queue, stale, worker, call, calls, result,
                 history, exiting, exit>>

\* The sender enters the handler's function.
Enters(t, h) ==
  /\ At(t, h) /\ Entering(t, h) /\ ~closed[h] /\ Width(call[t].op) > 0
  /\ RunsFunction(call[t], h)
  /\ call' = [call EXCEPT ![t] = PlacedCall(@, "function")]
  /\ holder' = [holder EXCEPT ![h] = t]
  /\ UNCHANGED <<usage, mtx, queues, calls, result, history, exiting, exit>>

\* The message that the function of client t's call is about to run for.
Running(t) == Now(call[t]).what[call[t].done + 1]

\* The function runs for a message, and goes on with the next one.
RunsOn(t, h, gone) ==
  /\ At(t, h) /\ call[t].at = "function" /\ call[t].done + 1 < Width(call[t].op)
  /\ ran' = [ran EXCEPT ![h] = Append(@, Running(t))]
  /\ call' = [call EXCEPT ![t] = RanCall(@, Running(t), gone)]
  /\ UNCHANGED <<usage, mtx, holder, queues, calls, result, taken, handled, dropped,
                 exiting, exit>>

\* The function runs for a message and was the last, or failed.
RunsLast(t, h, a, gone) ==
  /\ At(t, h) /\ call[t].at = "function"
  /\ a = "Failed" \/ (a = "Success" /\ call[t].done + 1 = Width(call[t].op))
  /\ ran' = [ran EXCEPT ![h] = Append(@, Running(t))]
  /\ AnswerTo(t, RanCall(call[t], Running(t), gone), a)
  /\ UNCHANGED <<usage, mtx, queues, calls, result, taken, handled, dropped, exiting, exit>>

\* The handler is closed, and perhaps cancelled.
Closes(t, h) ==
  /\ At(t, h) /\ Entering(t, h) /\ Width(call[t].op) = 0
  /\ closed' = [closed EXCEPT ![h] = TRUE]
  /\ \/ /\ queue' = [queue EXCEPT ![h] = <<>>]
        /\ dropped' = [dropped EXCEPT ![h] = @ \cup Range(queue[h])]
     \/ UNCHANGED <<queue, dropped>>
  /\ AnswerTo(t, call[t], "Success")
  /\ UNCHANGED <<usage, mtx, producer_wait, stale, worker, calls, result, taken, handled,
                 ran, exiting, exit>>

\* What the worker discards, and what it leaves.
Discards(h) == worker[h] = "idle" /\ stale[h] /\ queue[h] # <<>>
Rest(h) == IF Discards(h) THEN Tail(queue[h]) ELSE queue[h]
Discarded(h) == IF Discards(h) THEN {Head(queue[h])} ELSE {}

\* The worker takes a message, which may stay in the queue for now.
Takes(h) ==
  LET keep == usage.consume[h] = "WithoutRemoving"
  IN  /\ worker[h] \in {"idle", "fetch"} /\ Rest(h) # <<>>
      /\ dropped' = [dropped EXCEPT ![h] = @ \cup Discarded(h)]
      /\ queue' = [queue EXCEPT ![h] = IF keep THEN Rest(h) ELSE Tail(Rest(h))]
      /\ handled' = [handled EXCEPT ![h] = Append(@, Head(Rest(h)))]
      /\ worker' = [worker EXCEPT ![h] = "busy"]
      /\ stale' = [stale EXCEPT ![h] = keep]
      /\ \E w \in SUBSET Clients : producer_wait' = [producer_wait EXCEPT ![h] = w]
      /\ UNCHANGED <<usage, mtx, holder, closed, call, calls, result, taken, ran, exiting, exit>>

\* The worker finds nothing, and waits, or ends.
Misses(h) ==
  /\ worker[h] \in {"idle", "fetch"} /\ Rest(h) = <<>>
  /\ dropped' = [dropped EXCEPT ![h] = @ \cup Discarded(h)]
  /\ queue' = [queue EXCEPT ![h] = <<>>]
  /\ worker' = [worker EXCEPT ![h] = IF closed[h] THEN "ended" ELSE "fetch"]
  /\ stale' = [stale EXCEPT ![h] = ~closed[h]]
  /\ \E w \in SUBSET Clients : producer_wait' = [producer_wait EXCEPT ![h] = w]
  /\ UNCHANGED <<usage, mtx, holder, closed, call, calls, result, handled, taken, ran,
                 exiting, exit>>

\* An empty range, and the first of a sequence as one.
LEMMA FirstOf ==
  ASSUME NEW S, NEW q \in Seq(S)
  PROVE  /\ Range(SubSeq(q, 1, 0)) = {}
         /\ q # <<>> => Range(SubSeq(q, 1, 1)) = {Head(q)}
         /\ SubSeq(q, 1, Len(q)) = q
<1>1. SubSeq(q, 1, 0) = <<>>
  OBVIOUS
<1>2. ASSUME q # <<>> PROVE Range(SubSeq(q, 1, 1)) = {Head(q)}
  <2>1. Len(q) \in Nat /\ Len(q) > 0
    BY <1>2, EmptySeq
  <2> DEFINE s == SubSeq(q, 1, 1)
  <2>2. s \in Seq(S) /\ Len(s) = 1 /\ s[1] = q[1]
    BY <2>1, SubSeqProperties
  <2> HIDE DEF s
  <2>3. DOMAIN s = {1}
    BY <2>2
  <2> QED BY <1>2, <2>2, <2>3 DEF Range, s
<1> QED BY <1>1, <1>2 DEF Range

\* Dropping the oldest of a queue.
LEMMA KeptParts ==
  ASSUME NEW S, NEW q \in Seq(S), NEW n \in 0..Len(q)
  PROVE  /\ Kept(q, n) \in Seq(S) /\ Len(Kept(q, n)) = Len(q) - n
         /\ \A i \in 1..(Len(q) - n) : Kept(q, n)[i] = q[n + i]
         /\ Lost(q, n) = {q[i] : i \in 1..n} /\ Lost(q, n) \subseteq S
<1>1. Len(q) \in Nat /\ \A i \in 1..Len(q) : q[i] \in S
  OBVIOUS
<1>2. /\ Kept(q, n) \in Seq(S) /\ Len(Kept(q, n)) = Len(q) - n
      /\ \A i \in 1..(Len(q) - n) : Kept(q, n)[i] = q[n + i]
  <2> DEFINE k == SubSeq(q, n + 1, Len(q))
  <2>1. n + 1 \in Int /\ Len(q) \in Int /\ \A i \in (n + 1)..Len(q) : q[i] \in S
    BY <1>1
  <2>2. /\ k \in Seq(S) /\ Len(k) = IF n + 1 <= Len(q) THEN Len(q) - (n + 1) + 1 ELSE 0
        /\ \A i \in 1..(Len(q) - (n + 1) + 1) : k[i] = q[(n + 1) + i - 1]
    BY <2>1, SubSeqProperties
  <2> HIDE DEF k
  <2>3. k \in Seq(S) /\ Len(k) = Len(q) - n /\ \A i \in 1..(Len(q) - n) : k[i] = q[n + i]
    BY <1>1, <2>2
  <2> QED BY <2>3 DEF k, Kept
<1>3. Lost(q, n) = {q[i] : i \in 1..n}
  <2> DEFINE s == SubSeq(q, 1, n)
  <2>1. 1 \in Int /\ n \in Int /\ \A i \in 1..n : q[i] \in S
    BY <1>1
  <2>2. /\ s \in Seq(S) /\ Len(s) = IF 1 <= n THEN n - 1 + 1 ELSE 0
        /\ \A i \in 1..(n - 1 + 1) : s[i] = q[1 + i - 1]
    BY <2>1, SubSeqProperties
  <2> HIDE DEF s
  <2>3. s \in Seq(S) /\ DOMAIN s = 1..n /\ \A i \in 1..n : s[i] = q[i]
    BY <1>1, <2>2
  <2> QED BY <2>3 DEF s, Lost, Range
<1> QED BY <1>1, <1>2, <1>3

\* The parts of a typed state that the steps are about.
LEMMA HandlerParts ==
  ASSUME Typed, NEW t \in Clients, NEW h, At(t, h)
  PROVE  /\ h \in Handlers /\ call[t] \in Calls /\ Shape(call[t])
         /\ Now(call[t]).what \in Seq(Things) /\ Now(call[t]).what \in Seq(Things)
         /\ Len(Now(call[t]).what) = Width(call[t].op)
         /\ queue[h] \in Seq(Things) /\ Len(queue[h]) \in Nat /\ usage.limit[h] \in Nat
         /\ usage.kind[h] \in {"callback", "buffer"}
         /\ Now(call[t]).what = <<>> <=> Width(call[t].op) = 0
         /\ Now(call[t]) = call[t].todo[1] /\ Len(call[t].todo) \in Nat \ {0}
<1>1. call[t] \in Calls /\ Shape(call[t])
  BY BusyCalls DEF Typed, At, Shapes
<1>2. /\ Now(call[t]) = call[t].todo[1] /\ Now(call[t]).what \in Seq(Things)
      /\ h \in Handlers /\ 1 \in 1..Len(call[t].todo) /\ Len(call[t].todo) \in Nat \ {0}
  <2>1. call[t].todo # <<>> /\ Now(call[t]).to = h
    BY DEF At
  <2>2. call[t].todo \in Seq(Sends)
    BY <1>1 DEF Calls
  <2> QED BY <1>1, <2>1, <2>2, NowIsThere
<1>3. Len(Now(call[t]).what) = Width(call[t].op)
  BY <1>1, <1>2 DEF Shape
<1>4. Now(call[t]).what = <<>> <=> Len(Now(call[t]).what) = 0
  BY <1>2, EmptySeq
<1>5. /\ queue[h] \in Seq(Things) /\ Len(queue[h]) \in Nat
  BY <1>2 DEF Typed, QueueTypes
<1>6. usage.limit[h] \in Nat /\ usage.kind[h] \in {"callback", "buffer"}
  BY <1>2 DEF Typed, Usage
<1> QED BY <1>1, <1>2, <1>3, <1>4, <1>5, <1>6

\* A handler that is entered is the one the call is at.
LEMMA EnteringIsAt ==
  ASSUME Typed, NEW t \in Clients, NEW h, Entering(t, h)
  PROVE  At(t, h)
  BY DEF Entering, At

\* send*() that is taken at once puts its messages in the queue.
LEMMA AcceptedIsPuts ==
  ASSUME Typed, NEW t \in Clients, NEW h, SendAccepted(t, h)
  PROVE  \E n \in Nat : Puts(t, h, n)
<1> DEFINE c == call[t]
           s == Now(c).what
           excess == IF Room(h, s) THEN 0 ELSE Len(queue[h]) + Len(s) - usage.limit[h]
<1>1. At(t, h)
  BY EnteringIsAt DEF SendAccepted
<1>2. /\ s \in Seq(Things) /\ Len(s) = Width(c.op) /\ queue[h] \in Seq(Things)
      /\ Len(queue[h]) \in Nat /\ usage.limit[h] \in Nat /\ (s = <<>> <=> Width(c.op) = 0)
  BY <1>1, HandlerParts
<1>3. /\ Entering(t, h) /\ s # <<>> /\ ~closed[h] /\ ~RunsFunction(c, h)
      /\ ~Impossible(c, h) /\ (excess > 0 => c.type = "ForceSend")
      /\ Enqueue(h, SubSeq(queue[h], excess + 1, Len(queue[h])), s)
      /\ dropped' = [dropped EXCEPT ![h] = @ \cup Range(SubSeq(queue[h], 1, excess))]
      /\ Answered(t, IF excess > 0 THEN "SuccessLostData" ELSE "Success")
      /\ UNCHANGED <<usage, mtx, producer_wait, calls, result, handled, ran, exiting, exit>>
  BY DEF SendAccepted
<1>4. Width(c.op) \in {1, 2} /\ (Width(c.op) = 2 => c.op \in Atomic)
  BY <1>2, <1>3 DEF Width
<1>5. /\ excess \in 0..Len(queue[h])
      /\ usage.limit[h] # 0 => (Len(queue[h]) - excess) + Len(s) <= usage.limit[h]
  <2>1. usage.limit[h] # 0 => Len(s) <= usage.limit[h]
    BY <1>2, <1>3, <1>4 DEF Impossible
  <2> QED BY <1>2, <1>4, <2>1 DEF Room
<1> HIDE DEF excess
<1>6. Puts(t, h, excess)
  BY <1>1, <1>2, <1>3, <1>4, <1>5 DEF Puts, Enqueue, Kept, Lost, Answered
<1> QED BY <1>2, <1>5, <1>6

\* So does one that waited for room.
LEMMA ResumesIsPuts ==
  ASSUME Typed, NEW t \in Clients, NEW h \in Handlers, ResumeSend(t, h)
  PROVE  Puts(t, h, 0) \/ SleepsAgain(t, h)
<1> DEFINE c == call[t]
           s == Now(c).what
<1>1. At(t, h) /\ Width(c.op) > 0 /\ c.at = "blocked"
  BY DEF ResumeSend, At, Typed, Shapes, Shape
<1>2. /\ s \in Seq(Things) /\ Len(s) = Width(c.op) /\ queue[h] \in Seq(Things)
      /\ Len(queue[h]) \in Nat /\ usage.limit[h] \in Nat
  BY <1>1, HandlerParts
<1>3. CASE Room(h, s)
  <2>1. /\ Enqueue(h, queue[h], s) /\ Answered(t, "Success")
        /\ UNCHANGED <<usage, mtx, producer_wait, calls, result, handled, ran, dropped,
                       exiting, exit>>
    BY <1>3 DEF ResumeSend
  <2>2. Kept(queue[h], 0) = queue[h] /\ Lost(queue[h], 0) = {}
    BY <1>2, FirstOf DEF Kept, Lost
  <2>3. dropped' = [dropped EXCEPT ![h] = @ \cup Lost(queue[h], 0)]
    BY <2>1, <2>2 DEF Typed, HistoryTypes
  <2>4. usage.limit[h] # 0 => (Len(queue[h]) - 0) + Len(s) <= usage.limit[h]
    BY <1>2, <1>3 DEF Room
  <2>5. AnswerTo(t, call[t], IF 0 > 0 THEN "SuccessLostData" ELSE "Success")
    BY <2>1 DEF Answered
  <2>6. queue' = [queue EXCEPT ![h] = Kept(@, 0) \o s] /\ taken' = [taken EXCEPT ![h] = @ \o s]
    BY <2>1, <2>2 DEF Enqueue
  <2>7. 0 \in 0..Len(queue[h]) /\ (0 > 0 => call[t].type = "ForceSend")
    BY <1>2
  <2>8. UNCHANGED <<usage, mtx, closed, producer_wait, stale, worker, calls, result, handled,
                    ran, exiting, exit>>
    BY <2>1 DEF Enqueue
  <2> QED BY <1>1, <2>3, <2>4, <2>5, <2>6, <2>7, <2>8 DEF Puts
<1>4. CASE ~Room(h, s)
  <2>1. producer_wait[h] \cup {t} \in SUBSET Clients
    BY DEF Typed, QueueTypes
  <2>2. /\ producer_wait' = [producer_wait EXCEPT ![h] = producer_wait[h] \cup {t}]
        /\ UNCHANGED <<usage, mtx, holder, closed, queue, stale, worker, call, calls, result,
                       history, exiting, exit>>
    BY <1>4 DEF ResumeSend, history
  <2> QED BY <2>1, <2>2 DEF SleepsAgain
<1> QED BY <1>3, <1>4

\* send*() that is not taken answers at once.
LEMMA RefusedIsRefuses ==
  ASSUME Typed, NEW t \in Clients, NEW h, SendRefused(t, h)
  PROVE  \E a \in Answers : Refuses(t, h, a)
<1>1. /\ At(t, h) /\ Entering(t, h) /\ Width(call[t].op) > 0
  <2>1. Entering(t, h) /\ Now(call[t]).what # <<>>
    BY DEF SendRefused
  <2>2. At(t, h)
    BY <2>1, EnteringIsAt
  <2>3. Width(call[t].op) # 0
    BY <2>1, <2>2, HandlerParts
  <2> QED BY <2>1, <2>2, <2>3 DEF Width
<1>2. UNCHANGED <<usage, mtx, queues, calls, result, history, exiting, exit>>
  BY DEF SendRefused
<1>3. CASE closed[h] /\ Answered(t, "Failed")
  <2>1. "Failed" \in Answers
    BY DEF Answers
  <2>2. Refuses(t, h, "Failed")
    BY <1>1, <1>2, <1>3 DEF Refuses, Answered
  <2> QED BY <2>1, <2>2
<1>4. CASE /\ ~closed[h] /\ ~RunsFunction(call[t], h)
           /\ Impossible(call[t], h) /\ Answered(t, "AtomicImpossible")
  <2>1. "AtomicImpossible" \in Answers
    BY DEF Answers
  <2>2. Refuses(t, h, "AtomicImpossible")
    BY <1>1, <1>2, <1>4 DEF Refuses, Answered, Impossible
  <2> QED BY <2>1, <2>2
<1>5. CASE /\ ~closed[h] /\ ~RunsFunction(call[t], h)
           /\ call[t].type = "BlockUntilDone" /\ Answered(t, "Unsupported")
  <2>1. "Unsupported" \in Answers
    BY DEF Answers
  <2>2. Refuses(t, h, "Unsupported")
    BY <1>1, <1>2, <1>5 DEF Refuses, Answered
  <2> QED BY <2>1, <2>2
<1>6. CASE /\ ~closed[h] /\ ~RunsFunction(call[t], h)
           /\ call[t].type = "Immediate" /\ Answered(t, "TryAgain")
  <2>1. "TryAgain" \in Answers
    BY DEF Answers
  <2>2. Refuses(t, h, "TryAgain")
    BY <1>1, <1>2, <1>6 DEF Refuses, Answered
  <2> QED BY <2>1, <2>2
<1> QED BY <1>3, <1>4, <1>5, <1>6 DEF SendRefused

\* send*() that waits for room goes to sleep.
LEMMA BlocksIsBlocks ==
  ASSUME Typed, NEW t \in Clients, NEW h, SendBlocks(t, h)
  PROVE  Blocks(t, h)
<1>1. /\ Entering(t, h) /\ Now(call[t]).what # <<>>
      /\ producer_wait' = [producer_wait EXCEPT ![h] = @ \cup {t}]
      /\ call' = [call EXCEPT ![t].at = "blocked"]
  BY DEF SendBlocks
<1>2. At(t, h) /\ h \in Handlers /\ Width(call[t].op) > 0
  <2>1. At(t, h)
    BY <1>1, EnteringIsAt
  <2>2. h \in Handlers /\ Width(call[t].op) # 0
    BY <1>1, <2>1, HandlerParts
  <2> QED BY <2>1, <2>2 DEF Width
<1>3. producer_wait[h] \cup {t} \in SUBSET Clients
  BY <1>2 DEF Typed, QueueTypes
<1>4. \E w \in SUBSET Clients : producer_wait' = [producer_wait EXCEPT ![h] = w]
  BY <1>1, <1>3
<1>5. call' = [call EXCEPT ![t] = PlacedCall(@, "blocked")]
  BY <1>1 DEF PlacedCall
<1> QED BY <1>1, <1>2, <1>4, <1>5 DEF SendBlocks, Blocks

\* BlockUntilDone goes into the callback's function.
LEMMA EntersIsEnters ==
  ASSUME Typed, NEW t \in Clients, NEW h, EnterFunction(t, h)
  PROVE  Enters(t, h)
<1>1. /\ Entering(t, h) /\ Now(call[t]).what # <<>>
      /\ call' = [call EXCEPT ![t].at = "function"]
  BY DEF EnterFunction
<1>2. At(t, h) /\ Width(call[t].op) > 0
  <2>1. At(t, h)
    BY <1>1, EnteringIsAt
  <2>2. Width(call[t].op) # 0
    BY <1>1, <2>1, HandlerParts
  <2> QED BY <2>1, <2>2 DEF Width
<1>3. call' = [call EXCEPT ![t] = PlacedCall(@, "function")]
  BY <1>1 DEF PlacedCall
<1> QED BY <1>1, <1>2, <1>3 DEF EnterFunction, Enters

\* The function ran for one message, the last or one of more.
LEMMA FunctionIsRuns ==
  ASSUME Typed, NEW t \in Clients, NEW h, Function(t, h)
  PROVE  \E gone \in BOOLEAN :
           RunsOn(t, h, gone) \/ \E a \in {"Success", "Failed"} : RunsLast(t, h, a, gone)
<1> DEFINE m == Now(call[t]).what[call[t].done + 1]
<1>1. /\ call[t] # Idle /\ call[t].at = "function" /\ h = Now(call[t]).to
      /\ ran' = [ran EXCEPT ![h] = Append(@, m)]
      /\ UNCHANGED <<usage, mtx, queues, calls, result, taken, handled, dropped, exiting, exit>>
  BY DEF Function
<1>2. PICK ok \in BOOLEAN, gone \in BOOLEAN :
        IF ~ok \/ call[t].done + 1 = Len(Now(call[t]).what)
        THEN AnswerTo(t, RanCall(call[t], m, gone), IF ok THEN "Success" ELSE "Failed")
        ELSE call' = [call EXCEPT ![t] = RanCall(call[t], m, gone)] /\ UNCHANGED holder
  BY DEF Function, RanCall
<1>3. At(t, h) /\ call[t].done < Width(call[t].op) /\ call[t].done \in Nat
  <2>1. call[t] \in Calls /\ Shape(call[t])
    BY <1>1, BusyCalls DEF Typed, Shapes
  <2> QED BY <1>1, <2>1 DEF At, Shape, Calls
<1>4. Len(Now(call[t]).what) = Width(call[t].op) /\ Width(call[t].op) \in Nat
  BY <1>3, HandlerParts DEF Width
<1>5. m = Running(t)
  BY DEF Running
<1> HIDE DEF m
<1>6. CASE ~ok
  BY <1>1, <1>2, <1>3, <1>5, <1>6 DEF RunsLast
<1>7. CASE ok /\ call[t].done + 1 = Len(Now(call[t]).what)
  BY <1>1, <1>2, <1>3, <1>4, <1>5, <1>7 DEF RunsLast
<1>8. CASE ok /\ call[t].done + 1 # Len(Now(call[t]).what)
  <2>1. call[t].done + 1 < Width(call[t].op)
    BY <1>3, <1>4, <1>8
  <2> QED BY <1>1, <1>2, <1>3, <1>5, <1>8, <2>1 DEF RunsOn
<1> QED BY <1>6, <1>7, <1>8

\* close() of one handler.
LEMMA ClosesIsCloses ==
  ASSUME Typed, NEW t \in Clients, NEW h, CloseHandler(t, h)
  PROVE  Closes(t, h)
<1>1. Entering(t, h) /\ Now(call[t]).what = <<>> /\ Answered(t, "Success")
  BY DEF CloseHandler
<1>2. At(t, h) /\ Width(call[t].op) = 0
  BY <1>1, EnteringIsAt, HandlerParts
<1> QED BY <1>1, <1>2 DEF CloseHandler, Closes, Answered

\* read() takes a message, or finds none.
LEMMA ReadsIsTakes ==
  ASSUME Typed, NEW h \in Handlers, WorkerReads(h)
  PROVE  Takes(h) \/ Misses(h)
<1> DEFINE discards == worker[h] = "idle" /\ stale[h] /\ queue[h] # <<>>
           n == IF discards THEN 1 ELSE 0
<1>1. queue[h] \in Seq(Things) /\ producer_wait[h] \in SUBSET Clients
  BY DEF Typed, QueueTypes
<1>2. Range(SubSeq(queue[h], 1, n)) = Discarded(h)
  <2>1. CASE discards
    BY <1>1, <2>1, FirstOf DEF Discarded, Discards
  <2>2. CASE ~discards
    BY <1>1, <2>2, FirstOf DEF Discarded, Discards
  <2> QED BY <2>1, <2>2
<1>3. Rest(h) = IF discards THEN Tail(queue[h]) ELSE queue[h]
  BY DEF Rest, Discards
<1>4. /\ worker[h] \in {"idle", "fetch"}
      /\ dropped' = [dropped EXCEPT ![h] = @ \cup Discarded(h)]
      /\ UNCHANGED <<usage, mtx, holder, closed, call, calls, result, taken, ran, exiting, exit>>
  BY <1>2 DEF WorkerReads
<1>5. \A k : NotifySenders(h, k) =>
        \E w \in SUBSET Clients : producer_wait' = [producer_wait EXCEPT ![h] = w]
  <2> SUFFICES ASSUME NEW k, NotifySenders(h, k)
               PROVE  \E w \in SUBSET Clients : producer_wait' = [producer_wait EXCEPT ![h] = w]
    OBVIOUS
  <2>1. PICK w \in SUBSET producer_wait[h] :
          producer_wait' = [producer_wait EXCEPT ![h] = @ \ w]
    BY DEF NotifySenders
  <2>2. producer_wait[h] \ w \in SUBSET Clients
    BY <1>1
  <2> QED BY <2>1, <2>2
<1>6. CASE Rest(h) # <<>>
  <2>1. /\ queue' = [queue EXCEPT ![h] = IF usage.consume[h] = "WithoutRemoving" THEN Rest(h)
                                         ELSE Tail(Rest(h))]
        /\ handled' = [handled EXCEPT ![h] = Append(@, Head(Rest(h)))]
        /\ worker' = [worker EXCEPT ![h] = "busy"]
        /\ stale' = [stale EXCEPT ![h] = (usage.consume[h] = "WithoutRemoving")]
        /\ NotifySenders(h, n + 1)
    BY <1>3, <1>6, SMTT(30) DEF WorkerReads
  <2> HIDE DEF n
  <2>2. \E w \in SUBSET Clients : producer_wait' = [producer_wait EXCEPT ![h] = w]
    BY <1>5, <2>1
  <2> QED BY <1>4, <1>6, <2>1, <2>2 DEF Takes
<1>7. CASE Rest(h) = <<>>
  <2>1. /\ queue' = [queue EXCEPT ![h] = Rest(h)]
        /\ worker' = [worker EXCEPT ![h] = IF closed[h] THEN "ended" ELSE "fetch"]
        /\ stale' = [stale EXCEPT ![h] = ~closed[h]]
        /\ NotifySenders(h, n)
        /\ UNCHANGED handled
    BY <1>3, <1>7 DEF WorkerReads
  <2> HIDE DEF n
  <2>2. \E w \in SUBSET Clients : producer_wait' = [producer_wait EXCEPT ![h] = w]
    BY <1>5, <2>1
  <2> QED BY <1>4, <1>7, <2>1, <2>2 DEF Misses
<1> QED BY <1>6, <1>7

\* What a client does, at a handler and elsewhere.
AtHandler(t, h) ==
  \/ \E n \in Nat : Puts(t, h, n)
  \/ \E a \in Answers : Refuses(t, h, a)
  \/ Blocks(t, h) \/ SleepsAgain(t, h) \/ Enters(t, h)
  \/ \E gone \in BOOLEAN :
       RunsOn(t, h, gone) \/ \E a \in {"Success", "Failed"} : RunsLast(t, h, a, gone)
  \/ Closes(t, h)

Elsewhere(t) == \/ \E op, type, s, h, cancel : Begins(t, op, type, s, h, cancel)
                \/ Lock(t) \/ Return(t)

\* What happens to a handler without a client.
OfHandler(h) == Takes(h) \/ Misses(h) \/ WorkerHandles(h) \/ DestroyHandler(h)

\* All steps there are.
LEMMA StepIs ==
  ASSUME Typed, [Next]_vars
  PROVE  \/ \E t \in Clients : Elsewhere(t) \/ \E h \in Handlers : AtHandler(t, h)
         \/ \E h \in Handlers : OfHandler(h)
         \/ DestroyBroadcaster \/ UNCHANGED vars
<1>1. ASSUME NEW t \in Clients, CallSend(t) \/ CallClose(t) PROVE Elsewhere(t)
  BY <1>1, CallsBegin DEF Elsewhere
<1>2. ASSUME NEW t \in Clients, ClientStep(t)
      PROVE  Elsewhere(t) \/ \E h \in Handlers : AtHandler(t, h)
  <2>1. CASE Lock(t) \/ Return(t)
    BY <2>1 DEF Elsewhere
  <2>2. ASSUME NEW h \in Handlers, SendAccepted(t, h) PROVE AtHandler(t, h)
    BY <2>2, AcceptedIsPuts DEF AtHandler
  <2>3. ASSUME NEW h \in Handlers, SendRefused(t, h) PROVE AtHandler(t, h)
    BY <2>3, RefusedIsRefuses DEF AtHandler
  <2>4. ASSUME NEW h \in Handlers, SendBlocks(t, h) PROVE AtHandler(t, h)
    BY <2>4, BlocksIsBlocks DEF AtHandler
  <2>5. ASSUME NEW h \in Handlers, ResumeSend(t, h) PROVE AtHandler(t, h)
    <3>1. 0 \in Nat
      OBVIOUS
    <3> QED BY <2>5, <3>1, ResumesIsPuts DEF AtHandler
  <2>6. ASSUME NEW h \in Handlers, EnterFunction(t, h) PROVE AtHandler(t, h)
    BY <2>6, EntersIsEnters DEF AtHandler
  <2>7. ASSUME NEW h \in Handlers, Function(t, h) PROVE AtHandler(t, h)
    BY <2>7, FunctionIsRuns DEF AtHandler
  <2>8. ASSUME NEW h \in Handlers, CloseHandler(t, h) PROVE AtHandler(t, h)
    BY <2>8, ClosesIsCloses DEF AtHandler
  <2> QED BY <1>2, <2>1, <2>2, <2>3, <2>4, <2>5, <2>6, <2>7, <2>8 DEF ClientStep
<1>3. ASSUME NEW h \in Handlers, WorkerStep(h) \/ DestroyHandler(h) PROVE OfHandler(h)
  BY <1>3, ReadsIsTakes DEF WorkerStep, OfHandler
<1> QED BY <1>1, <1>2, <1>3 DEF Next

-----------------------------------------------------------------------------
(* Types are kept.                                                         *)

\* A call replaced by one of the same shape.
LEMMA CallReplaced ==
  ASSUME Typed, NEW t \in Clients, NEW c, c = Idle \/ (c \in Calls /\ Shape(c)),
         call' = [call EXCEPT ![t] = c]
  PROVE  call' \in [Clients -> {Idle} \cup Calls] /\ Shapes'
<1>1. call' \in [Clients -> {Idle} \cup Calls]
  BY DEF Typed, CallTypes
<1>2. ASSUME NEW u \in Clients, call'[u] # Idle PROVE Shape(call'[u])
  <2>1. CASE u = t
    BY <1>2, <2>1 DEF Typed, CallTypes
  <2>2. CASE u # t
    <3>1. call'[u] = call[u]
      BY <2>2 DEF Typed, CallTypes
    <3> QED BY <1>2, <3>1 DEF Typed, Shapes
  <2> QED BY <2>1, <2>2
<1> QED BY <1>1, <1>2 DEF Shapes, Shape, Now

\* The call after an answer, and the mutex released.
LEMMA AnswerTypes ==
  ASSUME Typed, NEW t \in Clients, NEW c \in Calls, c.todo # <<>>, NEW a \in Answers,
         \A i \in 1..Len(c.todo) : Len(c.todo[i].what) = Width(c.op), AnswerTo(t, c, a)
  PROVE  /\ call' \in [Clients -> {Idle} \cup Calls] /\ Shapes'
         /\ holder' \in [Handlers -> Clients \cup {Nobody}]
<1>1. AnsweredCall(c, a) \in Calls /\ Shape(AnsweredCall(c, a))
  BY AnsweredCallParts
<1>2. call' = [call EXCEPT ![t] = AnsweredCall(c, a)]
  BY AnswerToIs
<1>3. holder' \in [Handlers -> Clients \cup {Nobody}]
  BY AnswerToIs DEF Typed, LockTypes
<1> QED BY <1>1, <1>2, <1>3, CallReplaced

\* The message that the function runs for, and the call while it runs.
LEMMA RunningParts ==
  ASSUME Typed, NEW t \in Clients, NEW h, NEW gone \in BOOLEAN, At(t, h),
         call[t].at = "function"
  PROVE  /\ Running(t) \in Things /\ Running(t) = call[t].todo[1].what[call[t].done + 1]
         /\ call[t].done + 1 \in 1..Width(call[t].op)
         /\ RanCall(call[t], Running(t), gone) \in Calls
         /\ RanCall(call[t], Running(t), gone).todo # <<>>
         /\ Now(RanCall(call[t], Running(t), gone)).to = h
         /\ \A i \in 1..Len(RanCall(call[t], Running(t), gone).todo) :
              Len(RanCall(call[t], Running(t), gone).todo[i].what)
                = Width(RanCall(call[t], Running(t), gone).op)
<1> DEFINE c == call[t]
           d == RanCall(c, Running(t), gone)
<1>1. /\ c \in Calls /\ Shape(c) /\ Now(c).what \in Seq(Things) /\ Now(c) = c.todo[1]
      /\ Len(Now(c).what) = Width(c.op) /\ Len(c.todo) \in Nat \ {0} /\ c.todo[1].to = h
      /\ c.done \in Nat
  BY HandlerParts DEF At, Calls
<1>2. c.done + 1 \in 1..Width(c.op) /\ Width(c.op) \in Nat
  BY <1>1 DEF Shape, Width
<1>3. Running(t) \in Things /\ Running(t) = c.todo[1].what[c.done + 1]
  BY <1>1, <1>2 DEF Running
<1>4. /\ d \in Calls /\ d.op = c.op /\ Len(d.todo) = Len(c.todo)
      /\ \A i \in 1..Len(c.todo) : /\ d.todo[i].to = c.todo[i].to
                                   /\ Len(d.todo[i].what) = Len(c.todo[i].what)
  <2> DEFINE m == Running(t)
             x == MovedFrom(c, m, gone)
  <2>1. /\ d \in Calls /\ d.op = c.op /\ d.todo = x /\ Len(x) = Len(c.todo)
        /\ \A i \in 1..Len(c.todo) : /\ x[i].to = c.todo[i].to
                                     /\ Len(x[i].what) = Len(c.todo[i].what)
    <3>1. c \in Calls
      BY <1>1
    <3> HIDE DEF c, m
    <3>2. /\ RanCall(c, m, gone) \in Calls
          /\ RanCall(c, m, gone).op = c.op /\ RanCall(c, m, gone).todo = MovedFrom(c, m, gone)
          /\ Len(MovedFrom(c, m, gone)) = Len(c.todo)
      BY <3>1, RanCallParts
    <3>3. ASSUME NEW i \in 1..Len(c.todo)
          PROVE  /\ MovedFrom(c, m, gone)[i].to = c.todo[i].to
                 /\ Len(MovedFrom(c, m, gone)[i].what) = Len(c.todo[i].what)
      BY <3>1, MovedShape
    <3> QED BY <3>2, <3>3 DEF m
  <2> HIDE DEF x, d, m
  <2> QED BY <2>1
<1> HIDE DEF d
<1>5. d.todo # <<>> /\ d.todo \in Seq(Sends)
  BY <1>1, <1>4 DEF Calls
<1>6. Now(d).to = h
  BY <1>1, <1>4, <1>5, NowIsThere
<1>7. \A i \in 1..Len(d.todo) : Len(d.todo[i].what) = Width(d.op)
  BY <1>1, <1>4 DEF Shape
<1> QED BY <1>2, <1>3, <1>4, <1>5, <1>6, <1>7 DEF d

\* What a client's step at a handler leaves of the types.
LEMMA AtHandlerTypes ==
  ASSUME Typed, NEW t \in Clients, NEW h \in Handlers, AtHandler(t, h)
  PROVE  Typed'
<1> USE DEF queues, history
<1>1. ASSUME NEW n \in Nat, Puts(t, h, n) PROVE Typed'
  <2>1. At(t, h) /\ n \in 0..Len(queue[h])
    BY <1>1 DEF Puts
  <2>2. /\ call[t] \in Calls /\ Shape(call[t]) /\ Now(call[t]).what \in Seq(Things)
        /\ queue[h] \in Seq(Things)
    BY <2>1, HandlerParts
  <2>3. call[t].todo # <<>>
    BY <2>1 DEF At
  <2>4. /\ call' \in [Clients -> {Idle} \cup Calls] /\ Shapes'
        /\ holder' \in [Handlers -> Clients \cup {Nobody}]
    <3>1. "Success" \in Answers /\ "SuccessLostData" \in Answers
      BY DEF Answers
    <3> QED BY <1>1, <2>2, <2>3, <3>1, AnswerTypes DEF Puts, Shape
  <2>5. Kept(queue[h], n) \in Seq(Things) /\ Lost(queue[h], n) \subseteq Things
    BY <2>1, <2>2, KeptParts
  <2>6. /\ Kept(queue[h], n) \o Now(call[t]).what \in Seq(Things)
        /\ taken[h] \o Now(call[t]).what \in Seq(Things)
        /\ dropped[h] \cup Lost(queue[h], n) \in SUBSET Things
    BY <2>2, <2>5, ConcatProperties DEF Typed, HistoryTypes
  <2>7. queue' \in [Handlers -> Seq(Things)]
    BY <1>1, <2>6 DEF Puts, Typed, QueueTypes
  <2>8. taken' \in [Handlers -> Seq(Things)] /\ dropped' \in [Handlers -> SUBSET Things]
    BY <1>1, <2>6 DEF Puts, Typed, HistoryTypes
  <2> QED BY <1>1, <2>4, <2>7, <2>8
          DEF Puts, Typed, CallTypes, LockTypes, QueueTypes, HistoryTypes, ExitTypes
<1>2. ASSUME NEW a \in Answers, Refuses(t, h, a) PROVE Typed'
  <2>1. call[t] \in Calls /\ Shape(call[t]) /\ call[t].todo # <<>>
    BY <1>2, HandlerParts DEF Refuses, At
  <2>2. /\ call' \in [Clients -> {Idle} \cup Calls] /\ Shapes'
        /\ holder' \in [Handlers -> Clients \cup {Nobody}]
    BY <1>2, <2>1, AnswerTypes DEF Refuses, Shape
  <2> QED BY <1>2, <2>2
          DEF Refuses, Typed, CallTypes, LockTypes, QueueTypes, HistoryTypes, ExitTypes
<1>3. ASSUME Blocks(t, h) PROVE Typed'
  <2>1. call[t] \in Calls /\ Shape(call[t]) /\ call[t].todo # <<>>
    BY <1>3, HandlerParts DEF Blocks, At
  <2> DEFINE d == PlacedCall(call[t], "blocked")
  <2>2. d \in Calls /\ Shape(d)
    <3>1. call[t].at = "outside" /\ Width(call[t].op) > 0
      BY <1>3 DEF Blocks, Entering
    <3>2. /\ d \in Calls /\ d.at = "blocked" /\ d.todo = call[t].todo /\ d.op = call[t].op
          /\ d.done = call[t].done
      BY <2>1, PlacedCallParts
    <3> QED BY <2>1, <3>1, <3>2 DEF Shape
  <2>3. call' \in [Clients -> {Idle} \cup Calls] /\ Shapes'
    BY <1>3, <2>2, CallReplaced DEF Blocks
  <2>4. producer_wait' \in [Handlers -> SUBSET Clients]
    BY <1>3 DEF Blocks, Typed, QueueTypes
  <2>5. holder' \in [Handlers -> Clients \cup {Nobody}]
    BY <1>3 DEF Blocks, Typed, LockTypes
  <2> QED BY <1>3, <2>3, <2>4, <2>5
          DEF Blocks, Typed, CallTypes, LockTypes, QueueTypes, HistoryTypes, ExitTypes
<1>4. ASSUME SleepsAgain(t, h) PROVE Typed'
  <2>1. producer_wait' \in [Handlers -> SUBSET Clients]
    BY <1>4 DEF SleepsAgain, Typed, QueueTypes
  <2>2. Shapes'
    BY <1>4 DEF SleepsAgain, Typed, Shapes, Shape, Now
  <2> QED BY <1>4, <2>1, <2>2
          DEF SleepsAgain, Typed, CallTypes, LockTypes, QueueTypes, HistoryTypes, ExitTypes
<1>5. ASSUME Enters(t, h) PROVE Typed'
  <2>1. call[t] \in Calls /\ Shape(call[t]) /\ call[t].todo # <<>>
    BY <1>5, HandlerParts DEF Enters, At
  <2> DEFINE d == PlacedCall(call[t], "function")
  <2>2. d \in Calls /\ Shape(d)
    <3>1. call[t].at = "outside" /\ Width(call[t].op) > 0
      BY <1>5 DEF Enters, Entering
    <3>2. /\ d \in Calls /\ d.at = "function" /\ d.todo = call[t].todo /\ d.op = call[t].op
          /\ d.done = call[t].done
      BY <2>1, PlacedCallParts
    <3> QED BY <2>1, <3>1, <3>2 DEF Shape
  <2>3. call' \in [Clients -> {Idle} \cup Calls] /\ Shapes'
    BY <1>5, <2>2, CallReplaced DEF Enters
  <2>4. holder' \in [Handlers -> Clients \cup {Nobody}]
    BY <1>5 DEF Enters, Typed, LockTypes
  <2> QED BY <1>5, <2>3, <2>4
          DEF Enters, Typed, CallTypes, LockTypes, QueueTypes, HistoryTypes, ExitTypes
<1>6. ASSUME NEW gone \in BOOLEAN, RunsOn(t, h, gone) PROVE Typed'
  <2> DEFINE d == RanCall(call[t], Running(t), gone)
  <2>1. /\ At(t, h) /\ call[t].at = "function" /\ call[t].done + 1 < Width(call[t].op)
        /\ call[t] \in Calls
    BY <1>6, HandlerParts DEF RunsOn
  <2>2. /\ Running(t) \in Things /\ d \in Calls /\ d.todo # <<>>
        /\ \A i \in 1..Len(d.todo) : Len(d.todo[i].what) = Width(d.op)
    BY <2>1, RunningParts
  <2>3. d.op = call[t].op /\ d.at = call[t].at /\ d.done = call[t].done + 1
    BY <2>1, RanCallParts
  <2> HIDE DEF d
  <2>4. Shape(d)
    <3>1. call[t].done \in Nat /\ Width(d.op) \in Nat
      BY <2>1 DEF Calls, Width
    <3> QED BY <2>1, <2>2, <2>3, <3>1 DEF Shape
  <2>5. call' = [call EXCEPT ![t] = d]
    BY <1>6 DEF RunsOn, d
  <2>6. call' \in [Clients -> {Idle} \cup Calls] /\ Shapes'
    BY <2>2, <2>4, <2>5, CallReplaced
  <2>7. ran' \in [Handlers -> Seq(Things)]
    <3>1. Append(ran[h], Running(t)) \in Seq(Things)
      BY <2>2 DEF Typed, HistoryTypes
    <3> QED BY <1>6, <3>1 DEF RunsOn, Typed, HistoryTypes
  <2> QED BY <1>6, <2>6, <2>7
          DEF RunsOn, Typed, CallTypes, LockTypes, QueueTypes, HistoryTypes, ExitTypes
<1>7. ASSUME NEW a \in {"Success", "Failed"}, NEW gone \in BOOLEAN, RunsLast(t, h, a, gone)
      PROVE  Typed'
  <2> DEFINE d == RanCall(call[t], Running(t), gone)
  <2>1. At(t, h) /\ call[t].at = "function" /\ AnswerTo(t, d, a) /\ a \in Answers
    BY <1>7 DEF RunsLast, Answers
  <2>2. /\ Running(t) \in Things /\ d \in Calls /\ d.todo # <<>>
        /\ \A i \in 1..Len(d.todo) : Len(d.todo[i].what) = Width(d.op)
    BY <2>1, RunningParts
  <2> HIDE DEF d
  <2>3. /\ call' \in [Clients -> {Idle} \cup Calls] /\ Shapes'
        /\ holder' \in [Handlers -> Clients \cup {Nobody}]
    BY <2>1, <2>2, AnswerTypes
  <2>4. ran' \in [Handlers -> Seq(Things)]
    <3>1. Append(ran[h], Running(t)) \in Seq(Things)
      BY <2>2 DEF Typed, HistoryTypes
    <3> QED BY <1>7, <3>1 DEF RunsLast, Typed, HistoryTypes
  <2> QED BY <1>7, <2>3, <2>4
          DEF RunsLast, Typed, CallTypes, LockTypes, QueueTypes, HistoryTypes, ExitTypes
<1>8. ASSUME Closes(t, h) PROVE Typed'
  <2>1. call[t] \in Calls /\ Shape(call[t]) /\ call[t].todo # <<>> /\ queue[h] \in Seq(Things)
    BY <1>8, HandlerParts DEF Closes, At
  <2>2. /\ call' \in [Clients -> {Idle} \cup Calls] /\ Shapes'
        /\ holder' \in [Handlers -> Clients \cup {Nobody}]
    <3>1. "Success" \in Answers
      BY DEF Answers
    <3> QED BY <1>8, <2>1, <3>1, AnswerTypes DEF Closes, Shape
  <2>3. /\ queue' \in [Handlers -> Seq(Things)] /\ closed' \in [Handlers -> BOOLEAN]
    <3>1. <<>> \in Seq(Things)
      OBVIOUS
    <3> QED BY <1>8, <3>1 DEF Closes, Typed, QueueTypes
  <2>4. dropped' \in [Handlers -> SUBSET Things]
    <3>1. dropped[h] \cup Range(queue[h]) \in SUBSET Things
      BY <2>1 DEF Range, Typed, HistoryTypes
    <3> QED BY <1>8, <3>1 DEF Closes, Typed, HistoryTypes
  <2> QED BY <1>8, <2>2, <2>3, <2>4
          DEF Closes, Typed, CallTypes, LockTypes, QueueTypes, HistoryTypes, ExitTypes
<1> QED BY <1>1, <1>2, <1>3, <1>4, <1>5, <1>6, <1>7, <1>8 DEF AtHandler

\* A call begun, the broadcaster's mutex taken, a call ended.
LEMMA ElsewhereTypes ==
  ASSUME Typed, NEW t \in Clients, Elsewhere(t)
  PROVE  Typed'
<1> USE DEF queues, history
<1>1. ASSUME NEW op, NEW type, NEW s, NEW h, NEW cancel, Begins(t, op, type, s, h, cancel)
      PROVE  Typed'
  <2> DEFINE d == NewCall(op, type, s, h, cancel)
  <2>1. d \in Calls /\ Shape(d) /\ calls' \in [Clients -> 0..(MaxCalls + 1)]
    BY <1>1, NewCallIsCall DEF Typed
  <2>2. call' = [call EXCEPT ![t] = d]
    BY <1>1 DEF Begins
  <2> HIDE DEF d
  <2>3. call' \in [Clients -> {Idle} \cup Calls] /\ Shapes'
    BY <2>1, <2>2, CallReplaced
  <2> QED BY <1>1, <2>1, <2>3
          DEF Begins, Typed, CallTypes, LockTypes, QueueTypes, HistoryTypes, ExitTypes
<1>2. ASSUME Lock(t) PROVE Typed'
  <2>1. mtx' \in Clients \cup {Nobody} /\ UNCHANGED call
    BY <1>2 DEF Lock
  <2>2. Shapes'
    BY <2>1 DEF Typed, Shapes, Shape, Now
  <2> QED BY <1>2, <2>1, <2>2
          DEF Lock, Typed, CallTypes, LockTypes, QueueTypes, HistoryTypes, ExitTypes
<1>3. ASSUME Return(t) PROVE Typed'
  <2>1. /\ mtx' \in Clients \cup {Nobody} /\ call' = [call EXCEPT ![t] = Idle]
        /\ UNCHANGED <<usage, holder, queues, calls, history, exiting, exit>>
    BY <1>3 DEF Return, Typed, LockTypes
  <2>2. call' \in [Clients -> {Idle} \cup Calls] /\ Shapes'
    BY <2>1, CallReplaced
  <2> QED BY <2>1, <2>2 DEF Typed, CallTypes, LockTypes, QueueTypes, HistoryTypes, ExitTypes
<1> QED BY <1>1, <1>2, <1>3 DEF Elsewhere

\* What a worker leaves when it discards a stale message.
LEMMA RestParts ==
  ASSUME Typed, NEW h \in Handlers
  PROVE  /\ queue[h] \in Seq(Things) /\ Len(queue[h]) \in Nat
         /\ Rest(h) \in Seq(Things) /\ Discarded(h) \subseteq Things
         /\ Len(Rest(h)) = Len(queue[h]) - (IF Discards(h) THEN 1 ELSE 0)
         /\ Len(Rest(h)) \in Nat
         /\ \A i \in 1..Len(Rest(h)) : Rest(h)[i] = queue[h][i + (IF Discards(h) THEN 1 ELSE 0)]
         /\ Range(queue[h]) = Discarded(h) \cup Range(Rest(h))
<1> DEFINE q == queue[h]
<1>1. q \in Seq(Things) /\ Len(q) \in Nat
  BY DEF Typed, QueueTypes
<1>2. CASE Discards(h)
  <2>1. q # <<>> /\ Rest(h) = Tail(q) /\ Discarded(h) = {Head(q)}
    BY <1>2 DEF Discards, Rest, Discarded
  <2> DEFINE r == Tail(q)
  <2>2. /\ r \in Seq(Things) /\ Len(r) = Len(q) - 1 /\ Head(q) = q[1] /\ q[1] \in Things
        /\ Len(q) > 0 /\ \A i \in 1..Len(r) : r[i] = q[i + 1]
    BY <1>1, <2>1, HeadTailProperties, EmptySeq
  <2> HIDE DEF r, q
  <2>3. Len(r) \in Nat
    BY <2>2
  <2>4. Range(q) = {q[1]} \cup Range(r)
    <3>1. \A i \in 1..Len(q) : i = 1 \/ (i - 1 \in 1..Len(r) /\ r[i - 1] = q[i])
      BY <1>1, <2>2
    <3>2. \A i \in 1..Len(r) : i + 1 \in 1..Len(q)
      BY <1>1, <2>2
    <3>3. DOMAIN q = 1..Len(q) /\ DOMAIN r = 1..Len(r) /\ 1 \in 1..Len(q)
      BY <1>1, <2>2
    <3>4. ASSUME NEW x \in Range(q) PROVE x \in {q[1]} \cup Range(r)
      <4>1. PICK i \in 1..Len(q) : x = q[i]
        BY <3>3, <3>4 DEF Range
      <4>2. i = 1 \/ (i - 1 \in DOMAIN r /\ r[i - 1] = x)
        BY <3>1, <3>3, <4>1
      <4> QED BY <4>1, <4>2 DEF Range
    <3>5. ASSUME NEW x \in {q[1]} \cup Range(r) PROVE x \in Range(q)
      <4>1. CASE x = q[1]
        BY <3>3, <4>1 DEF Range
      <4>2. CASE x \in Range(r)
        <5>1. PICK i \in 1..Len(r) : x = r[i]
          BY <3>3, <4>2 DEF Range
        <5>2. i + 1 \in DOMAIN q /\ q[i + 1] = x
          BY <2>2, <3>2, <3>3, <5>1
        <5> QED BY <5>2 DEF Range
      <4> QED BY <3>5, <4>1, <4>2
    <3> QED BY <3>4, <3>5
  <2> QED BY <1>1, <1>2, <2>1, <2>2, <2>3, <2>4 DEF r, q
<1>3. CASE ~Discards(h)
  BY <1>1, <1>3 DEF Rest, Discarded
<1> QED BY <1>2, <1>3

\* Workers and destructors.
LEMMA OfHandlerTypes ==
  ASSUME Typed, NEW h \in Handlers, OfHandler(h)
  PROVE  Typed'
<1> USE DEF queues, history
<1>1. ASSUME Takes(h) PROVE Typed'
  <2>1. /\ Rest(h) \in Seq(Things) /\ Discarded(h) \subseteq Things /\ Rest(h) # <<>>
    BY <1>1, RestParts DEF Takes
  <2>2. /\ Head(Rest(h)) \in Things /\ Tail(Rest(h)) \in Seq(Things)
    BY <2>1, HeadTailProperties
  <2>3. /\ handled[h] \in Seq(Things) /\ Append(handled[h], Head(Rest(h))) \in Seq(Things)
        /\ dropped[h] \cup Discarded(h) \in SUBSET Things
    BY <2>1, <2>2, AppendProperties DEF Typed, HistoryTypes
  <2>4. /\ queue' \in [Handlers -> Seq(Things)]
        /\ worker' \in [Handlers -> {"idle", "fetch", "busy", "ended"}]
        /\ stale' \in [Handlers -> BOOLEAN]
        /\ producer_wait' \in [Handlers -> SUBSET Clients]
    BY <1>1, <2>1, <2>2 DEF Takes, Typed, QueueTypes
  <2>5. handled' \in [Handlers -> Seq(Things)] /\ dropped' \in [Handlers -> SUBSET Things]
    BY <1>1, <2>3 DEF Takes, Typed, HistoryTypes
  <2>6. Shapes'
    BY <1>1 DEF Takes, Typed, Shapes, Shape, Now
  <2> QED BY <1>1, <2>4, <2>5, <2>6
          DEF Takes, Typed, CallTypes, LockTypes, QueueTypes, HistoryTypes, ExitTypes
<1>2. ASSUME Misses(h) PROVE Typed'
  <2>1. Discarded(h) \subseteq Things
    BY RestParts
  <2>2. /\ queue' \in [Handlers -> Seq(Things)]
        /\ worker' \in [Handlers -> {"idle", "fetch", "busy", "ended"}]
        /\ stale' \in [Handlers -> BOOLEAN]
        /\ producer_wait' \in [Handlers -> SUBSET Clients]
    <3>1. <<>> \in Seq(Things)
      OBVIOUS
    <3> QED BY <1>2, <3>1 DEF Misses, Typed, QueueTypes
  <2>3. dropped' \in [Handlers -> SUBSET Things]
    BY <1>2, <2>1 DEF Misses, Typed, HistoryTypes
  <2>4. Shapes'
    BY <1>2 DEF Misses, Typed, Shapes, Shape, Now
  <2> QED BY <1>2, <2>2, <2>3, <2>4
          DEF Misses, Typed, CallTypes, LockTypes, QueueTypes, HistoryTypes, ExitTypes
<1>3. ASSUME WorkerHandles(h) PROVE Typed'
  <2>1. worker' \in [Handlers -> {"idle", "fetch", "busy", "ended"}]
    BY <1>3 DEF WorkerHandles, Typed, QueueTypes
  <2>2. Shapes'
    BY <1>3 DEF WorkerHandles, Typed, Shapes, Shape, Now
  <2> QED BY <1>3, <2>1, <2>2
          DEF WorkerHandles, Typed, CallTypes, LockTypes, QueueTypes, HistoryTypes, ExitTypes
<1>4. ASSUME DestroyHandler(h) PROVE Typed'
  <2>1. closed' \in [Handlers -> BOOLEAN]
    BY <1>4 DEF DestroyHandler, Typed, QueueTypes
  <2>2. exit' \in Seq(Handlers)
    <3>1. exit \in Seq(Handlers) /\ exit # <<>>
      BY <1>4 DEF DestroyHandler, Typed, ExitTypes
    <3>2. Tail(exit) \in Seq(Handlers)
      BY <3>1, HeadTailProperties
    <3> QED BY <1>4, <3>1, <3>2 DEF DestroyHandler
  <2>3. Shapes'
    BY <1>4 DEF DestroyHandler, Typed, Shapes, Shape, Now
  <2> QED BY <1>4, <2>1, <2>2, <2>3
          DEF DestroyHandler, Typed, CallTypes, LockTypes, QueueTypes, HistoryTypes, ExitTypes
<1> QED BY <1>1, <1>2, <1>3, <1>4 DEF OfHandler

\* Every step keeps the types.
LEMMA TypesKept == Typed /\ [Next]_vars => Typed'
<1> SUFFICES ASSUME Typed, [Next]_vars PROVE Typed'
  OBVIOUS
<1>1. ASSUME DestroyBroadcaster PROVE Typed'
  <2>1. closed' \in [Handlers -> BOOLEAN] /\ exiting' \in BOOLEAN
    BY <1>1 DEF DestroyBroadcaster, Typed, QueueTypes, Usage
  <2>2. Shapes'
    BY <1>1 DEF DestroyBroadcaster, Typed, Shapes, Shape, Now
  <2> QED BY <1>1, <2>1, <2>2 DEF DestroyBroadcaster, Typed, CallTypes, LockTypes, QueueTypes,
             HistoryTypes, ExitTypes, history
<1>2. ASSUME UNCHANGED vars PROVE Typed'
  <2>1. Shapes'
    BY <1>2 DEF vars, Typed, Shapes, Shape, Now
  <2> QED BY <1>2, <2>1 DEF vars, queues, history, Typed, CallTypes, LockTypes, QueueTypes,
             HistoryTypes, ExitTypes
<1> QED BY <1>1, <1>2, StepIs, ElsewhereTypes, AtHandlerTypes, OfHandlerTypes

\* The program begins so.
LEMMA TypesAtFirst == Init => Typed
<1> SUFFICES ASSUME Init PROVE Typed
  OBVIOUS
<1>1. usage \in Usage
  BY HandlersAssumption DEF Init
<1>2. CallTypes /\ LockTypes /\ Shapes
  BY HandlersAssumption DEF Init, CallTypes, LockTypes, Shapes
<1>3. QueueTypes /\ HistoryTypes
  <2>1. <<>> \in Seq(Things)
    OBVIOUS
  <2> QED BY <2>1 DEF Init, QueueTypes, HistoryTypes
<1>4. ExitTypes
  BY <1>1 DEF Init, ExitTypes, Usage
<1> QED BY <1>1, <1>2, <1>3, <1>4 DEF Typed

-----------------------------------------------------------------------------
(* The mutexes.  A callback's mutex is held by the client inside it, that   *)
(* is, waiting or in its function; whoever is inside a handler for a        *)
(* broadcast holds the broadcaster's.                                       *)

\* Call c is inside handler h.
Inside(c, h) == c # Idle /\ c.todo # <<>> /\ Now(c).to = h /\ c.at # "outside"

Guarded ==
  /\ \A h \in Handlers : usage.kind[h] = "buffer" => holder[h] = Nobody
  /\ \A h \in Handlers, t \in Clients :
       usage.kind[h] = "callback" => (holder[h] = t <=> Inside(call[t], h))
  /\ \A t \in Clients :
       /\ call[t] # Idle /\ call[t].at = "function" =>
            usage.kind[Now(call[t]).to] = "callback" /\ call[t].type = "BlockUntilDone"
       /\ call[t] # Idle /\ call[t].at = "blocked" => call[t].type = "BlockUntilSent"
       /\ mtx = t => IsBroadcast(call[t])
       /\ IsBroadcast(call[t]) /\ mtx # t => call[t].at = "outside" /\ call[t].answers = <<>>

\* A call that is no broadcast.
LEMMA IdleIsNoBroadcast == ~IsBroadcast(Idle)
  BY DEF IsBroadcast, Idle, Broadcasts, ToOne

\* A client that may go on at a handler is alone inside it, and has the
\* broadcaster's mutex if it broadcasts.
LEMMA AloneInside ==
  ASSUME Typed, Guarded, NEW t \in Clients, NEW h \in Handlers, At(t, h),
         Entering(t, h) \/ call[t].at # "outside"
  PROVE  /\ \A u \in Clients : u # t /\ usage.kind[h] = "callback" => ~Inside(call[u], h)
         /\ IsBroadcast(call[t]) => mtx = t
         /\ \A g \in Handlers : g # h => ~Inside(call[t], g)
<1>1. \A g \in Handlers : g # h => ~Inside(call[t], g)
  BY DEF Inside, At
<1>2. IsBroadcast(call[t]) => mtx = t
  BY DEF Guarded, Entering, At
<1>3. CASE Entering(t, h)
  <2>1. holder[h] = Nobody
    BY <1>3 DEF Entering
  <2>2. \A u \in Clients : u # Nobody
    BY HandlersAssumption
  <2> QED BY <1>1, <1>2, <2>1, <2>2 DEF Guarded
<1>4. CASE call[t].at # "outside"
  <2>1. Inside(call[t], h)
    BY <1>4 DEF At, Inside
  <2> QED BY <1>1, <1>2, <2>1 DEF Guarded
<1> QED BY <1>3, <1>4

\* An answer releases the handler's mutex.
LEMMA AnswerGuards ==
  ASSUME Typed, Guarded, NEW t \in Clients, NEW h \in Handlers, At(t, h),
         Entering(t, h) \/ call[t].at # "outside",
         NEW c \in Calls, c.todo # <<>>, c.op = call[t].op, Now(c).to = h,
         \A i \in 1..Len(c.todo) : Len(c.todo[i].what) = Width(c.op),
         NEW a \in Answers, AnswerTo(t, c, a), UNCHANGED <<usage, mtx>>
  PROVE  Guarded'
<1> DEFINE d == AnsweredCall(c, a)
<1>1. d \in Calls /\ d.op = c.op /\ d.at = "outside" /\ d # Idle
  BY AnsweredCallParts, IdleIsNoCall
<1>2. call' = [call EXCEPT ![t] = d] /\ holder' = [holder EXCEPT ![h] = Nobody]
  BY AnswerToIs
<1> HIDE DEF d
<1>3. /\ call'[t] = d /\ \A u \in Clients : u # t => call'[u] = call[u]
      /\ holder'[h] = Nobody /\ \A g \in Handlers : g # h => holder'[g] = holder[g]
  BY <1>2 DEF Typed, CallTypes, LockTypes
<1>4. IsBroadcast(d) <=> IsBroadcast(call[t])
  BY <1>1 DEF IsBroadcast
<1>5. ASSUME NEW g \in Handlers, NEW u \in Clients, usage.kind[g] = "callback"
      PROVE  holder'[g] = u <=> Inside(call'[u], g)
  <2>1. u # Nobody
    BY HandlersAssumption
  <2>2. CASE u = t
    <3>1. ~Inside(call'[u], g)
      BY <1>1, <1>3, <2>2 DEF Inside
    <3>2. holder'[g] # u
      BY <1>3, <1>5, <2>1, <2>2, AloneInside DEF Guarded
    <3> QED BY <3>1, <3>2
  <2>3. CASE u # t /\ g # h
    BY <1>3, <1>5, <2>3 DEF Guarded
  <2>4. CASE u # t /\ g = h
    <3>1. ~Inside(call[u], h)
      BY <1>5, <2>4, AloneInside
    <3> QED BY <1>3, <2>1, <2>4, <3>1
  <2> QED BY <2>2, <2>3, <2>4
<1>6. ASSUME NEW g \in Handlers, usage.kind[g] = "buffer" PROVE holder'[g] = Nobody
  BY <1>3, <1>6 DEF Guarded
<1>7. ASSUME NEW u \in Clients
      PROVE  /\ call'[u] # Idle /\ call'[u].at = "function" =>
                  /\ usage.kind[Now(call'[u]).to] = "callback"
                  /\ call'[u].type = "BlockUntilDone"
             /\ call'[u] # Idle /\ call'[u].at = "blocked" => call'[u].type = "BlockUntilSent"
             /\ mtx = u => IsBroadcast(call'[u])
             /\ IsBroadcast(call'[u]) /\ mtx # u =>
                  call'[u].at = "outside" /\ call'[u].answers = <<>>
  <2>1. CASE u = t
    <3>1. call'[u] = d /\ (IsBroadcast(call[t]) => mtx = t)
      BY <1>3, <2>1, AloneInside
    <3> QED BY <1>1, <1>4, <2>1, <3>1 DEF Guarded
  <2>2. CASE u # t
    <3>1. call'[u] = call[u]
      BY <1>3, <2>2
    <3> QED BY <3>1 DEF Guarded
  <2> QED BY <2>1, <2>2
<1>8. usage' = usage /\ mtx' = mtx
  OBVIOUS
<1> HIDE DEF Inside, IsBroadcast, Now
<1> QED BY <1>5, <1>6, <1>7, <1>8 DEF Guarded, Inside, IsBroadcast, Now

\* A client that goes inside a handler for the call c takes a callback's mutex.
LEMMA EnterGuards ==
  ASSUME Typed, Guarded, NEW t \in Clients, NEW h \in Handlers, At(t, h), Entering(t, h),
         NEW c \in Calls, Inside(c, h), c.op = call[t].op,
         c.at = "function" => usage.kind[h] = "callback" /\ c.type = "BlockUntilDone",
         c.at = "blocked" => c.type = "BlockUntilSent",
         call' = [call EXCEPT ![t] = c], UNCHANGED <<usage, mtx>>,
         holder' = [holder EXCEPT ![h] = IF usage.kind[h] = "callback" THEN t ELSE @]
  PROVE  Guarded'
<1>1. /\ call'[t] = c /\ \A u \in Clients : u # t => call'[u] = call[u]
      /\ \A g \in Handlers : g # h => holder'[g] = holder[g]
      /\ holder'[h] = IF usage.kind[h] = "callback" THEN t ELSE holder[h]
  BY DEF Typed, CallTypes, LockTypes
<1>2. IsBroadcast(c) <=> IsBroadcast(call[t])
  BY DEF IsBroadcast
<1>3. Now(c).to = h /\ c # Idle
  BY DEF Inside
<1>4. ASSUME NEW g \in Handlers, NEW u \in Clients, usage.kind[g] = "callback"
      PROVE  holder'[g] = u <=> Inside(call'[u], g)
  <2>1. CASE u = t /\ g = h
    BY <1>1, <1>4, <2>1
  <2>2. CASE u = t /\ g # h
    <3>1. ~Inside(c, g) /\ ~Inside(call[t], g)
      BY <1>3, <2>2, AloneInside DEF Inside
    <3>2. holder'[g] = holder[g] /\ call'[u] = c
      BY <1>1, <2>2
    <3> QED BY <1>4, <2>2, <3>1, <3>2 DEF Guarded
  <2>3. CASE u # t /\ g # h
    <3>1. holder'[g] = holder[g] /\ call'[u] = call[u]
      BY <1>1, <2>3
    <3> QED BY <1>4, <3>1 DEF Guarded
  <2>4. CASE u # t /\ g = h
    <3>1. ~Inside(call[u], h)
      BY <1>4, <2>4, AloneInside
    <3>2. holder'[h] = t /\ call'[u] = call[u]
      BY <1>1, <1>4, <2>4
    <3> QED BY <2>4, <3>1, <3>2
  <2> QED BY <2>1, <2>2, <2>3, <2>4
<1>5. ASSUME NEW g \in Handlers, usage.kind[g] = "buffer" PROVE holder'[g] = Nobody
  BY <1>1, <1>5 DEF Guarded
<1>6. ASSUME NEW u \in Clients
      PROVE  /\ call'[u] # Idle /\ call'[u].at = "function" =>
                  /\ usage.kind[Now(call'[u]).to] = "callback"
                  /\ call'[u].type = "BlockUntilDone"
             /\ call'[u] # Idle /\ call'[u].at = "blocked" => call'[u].type = "BlockUntilSent"
             /\ mtx = u => IsBroadcast(call'[u])
             /\ IsBroadcast(call'[u]) /\ mtx # u =>
                  call'[u].at = "outside" /\ call'[u].answers = <<>>
  <2>1. CASE u = t
    <3>1. call'[u] = c /\ (IsBroadcast(call[t]) => mtx = t)
      BY <1>1, <2>1, AloneInside
    <3> QED BY <1>2, <1>3, <2>1, <3>1 DEF Guarded
  <2>2. CASE u # t
    <3>1. call'[u] = call[u]
      BY <1>1, <2>2
    <3> QED BY <3>1 DEF Guarded
  <2> QED BY <2>1, <2>2
<1>7. usage' = usage /\ mtx' = mtx
  OBVIOUS
<1> QED BY <1>4, <1>5, <1>6, <1>7 DEF Guarded, Inside, IsBroadcast, Now

\* A call that changes but stays where it is.
LEMMA StaysGuards ==
  ASSUME Typed, Guarded, NEW t \in Clients, NEW c,
         c # Idle => c.at = call[t].at /\ c.type = call[t].type /\ c.answers = call[t].answers,
         call[t] = Idle <=> c = Idle, IsBroadcast(c) <=> IsBroadcast(call[t]),
         \A g \in Handlers : Inside(c, g) <=> Inside(call[t], g),
         c # Idle /\ c.at = "function" => Now(c).to = Now(call[t]).to,
         call' = [call EXCEPT ![t] = c], UNCHANGED <<usage, mtx, holder>>
  PROVE  Guarded'
<1>1. call'[t] = c /\ \A u \in Clients : u # t => call'[u] = call[u]
  BY DEF Typed, CallTypes
<1>2. ASSUME NEW g \in Handlers, NEW u \in Clients, usage.kind[g] = "callback"
      PROVE  holder'[g] = u <=> Inside(call'[u], g)
  BY <1>1, <1>2 DEF Guarded
<1>3. ASSUME NEW u \in Clients
      PROVE  /\ call'[u] # Idle /\ call'[u].at = "function" =>
                  /\ usage.kind[Now(call'[u]).to] = "callback"
                  /\ call'[u].type = "BlockUntilDone"
             /\ call'[u] # Idle /\ call'[u].at = "blocked" => call'[u].type = "BlockUntilSent"
             /\ mtx = u => IsBroadcast(call'[u])
             /\ IsBroadcast(call'[u]) /\ mtx # u =>
                  call'[u].at = "outside" /\ call'[u].answers = <<>>
  <2>1. CASE u = t
    BY <1>1, <2>1, IdleIsNoBroadcast DEF Guarded
  <2>2. CASE u # t
    <3>1. call'[u] = call[u]
      BY <1>1, <2>2
    <3> QED BY <3>1 DEF Guarded
  <2> QED BY <2>1, <2>2
<1>4. usage' = usage /\ mtx' = mtx /\ holder' = holder
  OBVIOUS
<1>5. \A g \in Handlers : usage.kind[g] = "buffer" => holder'[g] = Nobody
  BY DEF Guarded
<1> QED BY <1>2, <1>3, <1>4, <1>5 DEF Guarded, Inside, IsBroadcast, Now

\* A call that begins, or ends, is outside of the handlers.
LEMMA OutsideGuards ==
  ASSUME Typed, Guarded, NEW t \in Clients, NEW c,
         call[t] = Idle \/ call[t].at = "outside",
         c # Idle => c.at = "outside" /\ c.answers = <<>>, mtx' = t => IsBroadcast(c),
         \A u \in Clients : u # t => (mtx' = u <=> mtx = u),
         call' = [call EXCEPT ![t] = c], UNCHANGED <<usage, holder>>
  PROVE  Guarded'
<1>1. call'[t] = c /\ \A u \in Clients : u # t => call'[u] = call[u]
  BY DEF Typed, CallTypes
<1>2. ASSUME NEW g \in Handlers, NEW u \in Clients, usage.kind[g] = "callback"
      PROVE  holder'[g] = u <=> Inside(call'[u], g)
  <2>1. ~Inside(call[t], g) /\ ~Inside(c, g)
    BY DEF Inside
  <2> QED BY <1>1, <1>2, <2>1 DEF Guarded
<1>3. ASSUME NEW u \in Clients
      PROVE  /\ call'[u] # Idle /\ call'[u].at = "function" =>
                  /\ usage.kind[Now(call'[u]).to] = "callback"
                  /\ call'[u].type = "BlockUntilDone"
             /\ call'[u] # Idle /\ call'[u].at = "blocked" => call'[u].type = "BlockUntilSent"
             /\ mtx' = u => IsBroadcast(call'[u])
             /\ IsBroadcast(call'[u]) /\ mtx' # u =>
                  call'[u].at = "outside" /\ call'[u].answers = <<>>
  <2>1. CASE u = t
    BY <1>1, <2>1, IdleIsNoBroadcast
  <2>2. CASE u # t
    <3>1. call'[u] = call[u] /\ (mtx' = u <=> mtx = u)
      BY <1>1, <2>2
    <3> QED BY <3>1 DEF Guarded
  <2> QED BY <2>1, <2>2
<1>4. usage' = usage /\ holder' = holder
  OBVIOUS
<1>5. \A g \in Handlers : usage.kind[g] = "buffer" => holder'[g] = Nobody
  BY DEF Guarded
<1> QED BY <1>2, <1>3, <1>4, <1>5 DEF Guarded, Inside, IsBroadcast, Now

\* Every client's step keeps the mutexes.
LEMMA ClientGuards ==
  ASSUME Typed, Guarded, NEW t \in Clients,
         Elsewhere(t) \/ \E h \in Handlers : AtHandler(t, h)
  PROVE  Guarded'
<1>1. ASSUME NEW op, NEW type, NEW s, NEW h, NEW cancel, Begins(t, op, type, s, h, cancel)
      PROVE  Guarded'
  <2> DEFINE c == NewCall(op, type, s, h, cancel)
  <2>1. call' = [call EXCEPT ![t] = c] /\ call[t] = Idle /\ UNCHANGED <<usage, mtx, holder>>
    BY <1>1 DEF Begins
  <2>2. c.at = "outside" /\ c.answers = <<>>
    BY DEF NewCall
  <2>3. mtx # t
    BY <2>1, IdleIsNoBroadcast DEF Guarded
  <2> HIDE DEF c
  <2> QED BY <2>1, <2>2, <2>3, OutsideGuards
<1>2. ASSUME Lock(t) PROVE Guarded'
  <2>1. IsBroadcast(call[t]) /\ mtx = Nobody /\ mtx' = t /\ UNCHANGED <<usage, call, holder>>
    BY <1>2 DEF Lock
  <2>2. call[t] # Idle /\ call[t].at = "outside" /\ call[t].answers = <<>>
    <3>1. mtx # t
      BY <2>1, HandlersAssumption
    <3> QED BY <2>1, <3>1, IdleIsNoBroadcast DEF Guarded
  <2>3. call' = [call EXCEPT ![t] = call[t]]
    BY <2>1 DEF Typed, CallTypes
  <2>4. \A u \in Clients : u # t => (mtx' = u <=> mtx = u)
    BY <2>1, HandlersAssumption
  <2> QED BY <2>1, <2>2, <2>3, <2>4, OutsideGuards
<1>3. ASSUME Return(t) PROVE Guarded'
  <2>1. /\ call[t] # Idle /\ call[t].todo = <<>> /\ mtx' = IF mtx = t THEN Nobody ELSE mtx
        /\ call' = [call EXCEPT ![t] = Idle] /\ UNCHANGED <<usage, holder>>
    BY <1>3 DEF Return
  <2>2. call[t].at = "outside"
    BY <2>1 DEF Typed, Shapes, Shape
  <2>3. mtx' # t /\ \A u \in Clients : u # t => (mtx' = u <=> mtx = u)
    BY <2>1, HandlersAssumption
  <2> QED BY <2>1, <2>2, <2>3, OutsideGuards
<1>4. ASSUME NEW h \in Handlers, NEW c \in Calls, c.todo # <<>>, At(t, h),
             Entering(t, h) \/ call[t].at # "outside", c.op = call[t].op, Now(c).to = h,
             \A i \in 1..Len(c.todo) : Len(c.todo[i].what) = Width(c.op),
             NEW a \in Answers, AnswerTo(t, c, a), UNCHANGED <<usage, mtx>>
      PROVE  Guarded'
  BY <1>4, AnswerGuards
<1>5. ASSUME NEW h \in Handlers, At(t, h)
      PROVE  /\ call[t] \in Calls /\ call[t].todo # <<>> /\ Now(call[t]).to = h
             /\ \A i \in 1..Len(call[t].todo) : Len(call[t].todo[i].what) = Width(call[t].op)
  BY <1>5, HandlerParts DEF At, Shape
<1>6. {"Success", "SuccessLostData", "Failed"} \subseteq Answers
  BY DEF Answers
<1>7. ASSUME NEW h \in Handlers, NEW n \in Nat, Puts(t, h, n) PROVE Guarded'
  <2>1. /\ At(t, h) /\ (Entering(t, h) \/ call[t].at # "outside") /\ UNCHANGED <<usage, mtx>>
        /\ \E a \in Answers : AnswerTo(t, call[t], a)
    BY <1>6, <1>7 DEF Puts
  <2> QED BY <1>4, <1>5, <2>1
<1>8. ASSUME NEW h \in Handlers, NEW a \in Answers, Refuses(t, h, a) PROVE Guarded'
  BY <1>4, <1>5, <1>8 DEF Refuses
<1>9. ASSUME NEW h \in Handlers, Closes(t, h) PROVE Guarded'
  BY <1>4, <1>5, <1>6, <1>9 DEF Closes
<1>10. ASSUME NEW h \in Handlers, Blocks(t, h) PROVE Guarded'
  <2> DEFINE c == PlacedCall(call[t], "blocked")
  <2>1. /\ c \in Calls /\ c.op = call[t].op /\ c.at = "blocked" /\ c.type = call[t].type
        /\ c.todo = call[t].todo
    BY <1>5, <1>10, PlacedCallParts DEF Blocks
  <2>2. /\ At(t, h) /\ Entering(t, h) /\ call' = [call EXCEPT ![t] = c]
        /\ UNCHANGED <<usage, mtx>> /\ call[t].type = "BlockUntilSent"
        /\ holder' = [holder EXCEPT ![h] = IF usage.kind[h] = "callback" THEN t ELSE @]
    BY <1>10 DEF Blocks
  <2> HIDE DEF c
  <2>3. Inside(c, h)
    BY <1>5, <2>1, <2>2, IdleIsNoCall DEF Inside, Now
  <2> QED BY <2>1, <2>2, <2>3, EnterGuards
<1>11. ASSUME NEW h \in Handlers, Enters(t, h) PROVE Guarded'
  <2> DEFINE c == PlacedCall(call[t], "function")
  <2>1. /\ c \in Calls /\ c.op = call[t].op /\ c.at = "function" /\ c.type = call[t].type
        /\ c.todo = call[t].todo
    BY <1>5, <1>11, PlacedCallParts DEF Enters
  <2>2. /\ At(t, h) /\ Entering(t, h) /\ call' = [call EXCEPT ![t] = c]
        /\ UNCHANGED <<usage, mtx>> /\ call[t].type = "BlockUntilDone"
        /\ usage.kind[h] = "callback" /\ holder' = [holder EXCEPT ![h] = t]
    BY <1>11 DEF Enters, RunsFunction
  <2> HIDE DEF c
  <2>3. Inside(c, h)
    BY <1>5, <2>1, <2>2, IdleIsNoCall DEF Inside, Now
  <2>4. holder' = [holder EXCEPT ![h] = IF usage.kind[h] = "callback" THEN t ELSE @]
    BY <2>2
  <2> QED BY <2>1, <2>2, <2>3, <2>4, EnterGuards
<1>12. ASSUME NEW h \in Handlers, SleepsAgain(t, h) PROVE Guarded'
  <2>1. UNCHANGED <<usage, mtx, holder, call>>
    BY <1>12 DEF SleepsAgain
  <2> QED BY <2>1 DEF Guarded, Inside, IsBroadcast, Now
<1>13. ASSUME NEW h \in Handlers, NEW gone \in BOOLEAN, RunsOn(t, h, gone) PROVE Guarded'
  <2> DEFINE c == RanCall(call[t], Running(t), gone)
  <2>1. /\ At(t, h) /\ call[t].at = "function" /\ call' = [call EXCEPT ![t] = c]
        /\ UNCHANGED <<usage, mtx, holder>>
    BY <1>13 DEF RunsOn
  <2>2. c \in Calls /\ c.todo # <<>> /\ Now(c).to = h
    BY <2>1, RunningParts
  <2>3. /\ c.at = call[t].at /\ c.type = call[t].type /\ c.answers = call[t].answers
        /\ c.op = call[t].op
    BY <1>5, <2>1, RanCallParts
  <2> HIDE DEF c
  <2>4. c # Idle /\ call[t] # Idle /\ \A g \in Handlers : Inside(c, g) <=> Inside(call[t], g)
    BY <2>1, <2>2, <2>3, IdleIsNoCall DEF Inside, At
  <2>5. IsBroadcast(c) <=> IsBroadcast(call[t])
    BY <2>3 DEF IsBroadcast
  <2>6. Now(c).to = Now(call[t]).to
    BY <2>1, <2>2 DEF At
  <2> QED BY <2>1, <2>3, <2>4, <2>5, <2>6, StaysGuards
<1>14. ASSUME NEW h \in Handlers, NEW a \in {"Success", "Failed"}, NEW gone \in BOOLEAN,
              RunsLast(t, h, a, gone)
       PROVE  Guarded'
  <2> DEFINE c == RanCall(call[t], Running(t), gone)
  <2>1. /\ At(t, h) /\ call[t].at = "function" /\ AnswerTo(t, c, a) /\ UNCHANGED <<usage, mtx>>
    BY <1>14 DEF RunsLast
  <2>2. /\ c \in Calls /\ c.todo # <<>> /\ Now(c).to = h
        /\ \A i \in 1..Len(c.todo) : Len(c.todo[i].what) = Width(c.op)
    BY <2>1, RunningParts
  <2>3. c.op = call[t].op
    BY <1>5, <2>1, RanCallParts
  <2> HIDE DEF c
  <2> QED BY <1>4, <1>6, <2>1, <2>2, <2>3
<1>15. ASSUME NEW h \in Handlers, AtHandler(t, h) PROVE Guarded'
  BY <1>7, <1>8, <1>9, <1>10, <1>11, <1>12, <1>13, <1>14, <1>15 DEF AtHandler
<1> QED BY <1>1, <1>2, <1>3, <1>15 DEF Elsewhere

\* Every step does.
LEMMA GuardsKept == Typed /\ Guarded /\ [Next]_vars => Guarded'
<1> SUFFICES ASSUME Typed, Guarded, [Next]_vars PROVE Guarded'
  OBVIOUS
<1>1. ASSUME UNCHANGED <<usage, mtx, holder, call>> PROVE Guarded'
  BY <1>1 DEF Guarded, Inside, IsBroadcast, Now
<1>2. ASSUME NEW h \in Handlers, OfHandler(h) PROVE UNCHANGED <<usage, mtx, holder, call>>
  BY <1>2 DEF OfHandler, Takes, Misses, WorkerHandles, DestroyHandler
<1>3. DestroyBroadcaster \/ UNCHANGED vars => UNCHANGED <<usage, mtx, holder, call>>
  BY DEF DestroyBroadcaster, vars
<1> QED BY <1>1, <1>2, <1>3, StepIs, ClientGuards

\* Nobody is inside a handler at first.
LEMMA GuardsAtFirst == Init => Guarded
<1> SUFFICES ASSUME Init PROVE Guarded
  OBVIOUS
<1>1. Nobody \notin Clients
  BY HandlersAssumption
<1> QED BY <1>1, IdleIsNoBroadcast DEF Init, Guarded, Inside

-----------------------------------------------------------------------------
(* The queues, and the end of the program.  A worker ends only when its     *)
(* handler is closed and its queue empty; nobody can be waiting inside a    *)
(* closed callback, so that nothing is accepted after that.                 *)

Limited == \A h \in Handlers : usage.limit[h] # 0 => Len(queue[h]) <= usage.limit[h]

Ends ==
  /\ \A h \in Handlers : usage.kind[h] = "callback" =>
       /\ worker[h] = "ended" => closed[h] /\ queue[h] = <<>>
       /\ closed[h] => holder[h] = Nobody
  /\ exiting => \A t \in Clients : call[t] = Idle
  /\ \A h \in Range(usage.writers) \ Range(exit) :
       usage.kind[h] = "callback" => worker[h] = "ended"

\* A buffer is filled up to its limit.
LEMMA LimitsKept == Typed /\ Limited /\ [Next]_vars => Limited'
<1> SUFFICES ASSUME Typed, Limited, [Next]_vars PROVE Limited'
  OBVIOUS
<1>1. ASSUME UNCHANGED <<usage, queue>> PROVE Limited'
  BY <1>1 DEF Limited
<1>2. ASSUME NEW h \in Handlers, NEW q \in Seq(Things), UNCHANGED usage,
             queue' = [queue EXCEPT ![h] = q],
             usage.limit[h] # 0 => Len(q) <= usage.limit[h]
      PROVE  Limited'
  BY <1>2 DEF Limited, Typed, QueueTypes
<1>3. ASSUME NEW t \in Clients, Elsewhere(t) PROVE Limited'
  <2>1. UNCHANGED <<usage, queue>>
    BY <1>3 DEF Elsewhere, Begins, Lock, Return, queues
  <2> QED BY <1>1, <2>1
<1>4. ASSUME NEW t \in Clients, NEW h \in Handlers, AtHandler(t, h) PROVE Limited'
  <2>1. ASSUME NEW n \in Nat, Puts(t, h, n) PROVE Limited'
    <3> DEFINE k == Kept(queue[h], n)
               s == Now(call[t]).what
    <3>1. At(t, h) /\ n \in 0..Len(queue[h])
      BY <2>1 DEF Puts
    <3>2. s \in Seq(Things) /\ k \in Seq(Things) /\ Len(k) = Len(queue[h]) - n
      BY <3>1, HandlerParts, KeptParts
    <3>3. /\ queue' = [queue EXCEPT ![h] = k \o s] /\ UNCHANGED usage
          /\ usage.limit[h] # 0 => (Len(queue[h]) - n) + Len(s) <= usage.limit[h]
      BY <2>1 DEF Puts
    <3> HIDE DEF k, s
    <3>4. k \o s \in Seq(Things) /\ Len(k \o s) = Len(k) + Len(s)
      BY <3>2, ConcatProperties
    <3> QED BY <1>2, <3>2, <3>3, <3>4
  <2>2. ASSUME Closes(t, h) PROVE Limited'
    <3>1. CASE queue' = [queue EXCEPT ![h] = <<>>]
      <4> DEFINE q == <<>>
      <4>1. q \in Seq(Things) /\ Len(q) = 0 /\ usage.limit[h] \in Nat
        BY DEF Typed, Usage
      <4>2. UNCHANGED usage /\ queue' = [queue EXCEPT ![h] = q]
        BY <2>2, <3>1 DEF Closes
      <4> HIDE DEF q
      <4>3. usage.limit[h] # 0 => Len(q) <= usage.limit[h]
        BY <4>1
      <4> QED BY <1>2, <4>1, <4>2, <4>3
    <3>2. CASE UNCHANGED queue
      BY <1>1, <2>2, <3>2 DEF Closes
    <3> QED BY <2>2, <3>1, <3>2 DEF Closes
  <2>3. CASE ~(Closes(t, h) \/ \E n \in Nat : Puts(t, h, n))
    <3>1. UNCHANGED <<usage, queue>>
      BY <1>4, <2>3
         DEF AtHandler, Refuses, Blocks, SleepsAgain, Enters, RunsOn, RunsLast, queues
    <3> QED BY <1>1, <3>1
  <2> QED BY <2>1, <2>2, <2>3
<1>5. ASSUME NEW h \in Handlers, OfHandler(h) PROVE Limited'
  <2> DEFINE r == Rest(h)
  <2>1. /\ r \in Seq(Things) /\ Len(r) \in Nat /\ Len(r) <= Len(queue[h])
        /\ Len(queue[h]) \in Nat /\ usage.limit[h] \in Nat
    <3>1. usage.limit[h] \in Nat
      BY DEF Typed, Usage
    <3>2. /\ r \in Seq(Things) /\ Len(r) \in Nat /\ Len(queue[h]) \in Nat
          /\ Len(r) = Len(queue[h]) - (IF Discards(h) THEN 1 ELSE 0)
      BY RestParts
    <3> HIDE DEF r
    <3>3. CASE Discards(h)
      BY <3>1, <3>2, <3>3
    <3>4. CASE ~Discards(h)
      BY <3>1, <3>2, <3>4
    <3> QED BY <3>3, <3>4
  <2>2. ASSUME Takes(h) PROVE Limited'
    <3>1. /\ queue' = [queue EXCEPT ![h] = IF usage.consume[h] = "WithoutRemoving" THEN r
                                           ELSE Tail(r)]
          /\ r # <<>> /\ UNCHANGED usage
      BY <2>2 DEF Takes
    <3> HIDE DEF r
    <3>2. Tail(r) \in Seq(Things) /\ Len(Tail(r)) = Len(r) - 1
      BY <2>1, <3>1, HeadTailProperties
    <3>3. CASE usage.consume[h] = "WithoutRemoving"
      BY <1>2, <2>1, <3>1, <3>3 DEF Limited
    <3>4. CASE usage.consume[h] # "WithoutRemoving"
      <4>1. usage.limit[h] # 0 => Len(Tail(r)) <= usage.limit[h]
        BY <2>1, <3>2 DEF Limited
      <4> QED BY <1>2, <3>1, <3>2, <3>4, <4>1
    <3> QED BY <3>3, <3>4
  <2>3. ASSUME Misses(h) PROVE Limited'
    <3> DEFINE q == <<>>
    <3>1. q \in Seq(Things) /\ Len(q) = 0
      OBVIOUS
    <3>2. queue' = [queue EXCEPT ![h] = q] /\ UNCHANGED usage
      BY <2>3 DEF Misses
    <3> HIDE DEF q
    <3>3. usage.limit[h] # 0 => Len(q) <= usage.limit[h]
      BY <2>1, <3>1
    <3> QED BY <1>2, <3>1, <3>2, <3>3
  <2>4. ASSUME WorkerHandles(h) \/ DestroyHandler(h) PROVE Limited'
    BY <1>1, <2>4 DEF WorkerHandles, DestroyHandler
  <2> QED BY <1>5, <2>2, <2>3, <2>4 DEF OfHandler
<1>6. ASSUME DestroyBroadcaster \/ UNCHANGED vars PROVE Limited'
  BY <1>1, <1>6 DEF DestroyBroadcaster, vars, queues
<1> QED BY <1>3, <1>4, <1>5, <1>6, StepIs

\* Nobody is inside a callback when all clients are idle.
LEMMA NobodyInside ==
  ASSUME Typed, Guarded, \A t \in Clients : call[t] = Idle, NEW h \in Handlers
  PROVE  holder[h] = Nobody
<1>1. holder[h] \in Clients \cup {Nobody}
  BY DEF Typed, LockTypes
<1>2. CASE usage.kind[h] = "callback"
  BY <1>1, <1>2 DEF Guarded, Inside
<1>3. CASE usage.kind[h] = "buffer"
  BY <1>3 DEF Guarded
<1> QED BY <1>2, <1>3 DEF Typed, Usage

\* A client inside a callback, or entering one to send, finds it open.
LEMMA OpenInside ==
  ASSUME Typed, Guarded, Ends, NEW t \in Clients, NEW h \in Handlers, At(t, h),
         (Entering(t, h) /\ ~closed[h]) \/ call[t].at # "outside", usage.kind[h] = "callback"
  PROVE  ~closed[h] /\ worker[h] # "ended"
<1>1. ~closed[h]
  <2>1. CASE call[t].at # "outside"
    <3>1. holder[h] = t /\ t # Nobody
      BY <2>1, HandlersAssumption DEF Guarded, Inside, At
    <3> QED BY <3>1 DEF Ends
  <2> QED BY <2>1
<1> QED BY <1>1 DEF Ends

\* What the steps that are of one handler leave of the end.
LEMMA EndsOne ==
  ASSUME Typed, Ends, NEW h \in Handlers,
         \A g \in Handlers : g # h => /\ worker'[g] = worker[g] /\ closed'[g] = closed[g]
                                      /\ queue'[g] = queue[g] /\ holder'[g] = holder[g],
         usage.kind[h] = "callback" =>
           /\ worker'[h] = "ended" => closed'[h] /\ queue'[h] = <<>>
           /\ closed'[h] => holder'[h] = Nobody
           /\ worker[h] = "ended" => worker'[h] = "ended",
         exiting => \A t \in Clients : call'[t] = Idle, UNCHANGED <<usage, exiting, exit>>
  PROVE  Ends'
<1>1. usage.writers \in Seq(Handlers) /\ Range(usage.writers) \subseteq Handlers
  BY DEF Typed, Usage, Range
<1> QED BY <1>1 DEF Ends

\* What a client's step changes of its handler.
LEMMA HandlerChanges ==
  ASSUME Typed, NEW t \in Clients, NEW h \in Handlers, NEW c, NEW a, AnswerTo(t, c, a),
         Now(c).to = h
  PROVE  holder'[h] = Nobody /\ \A g \in Handlers : g # h => holder'[g] = holder[g]
  BY AnswerToIs DEF Typed, LockTypes

\* A step at a handler keeps what a destructor relies on.
LEMMA EndsAtHandler ==
  ASSUME Typed, Guarded, Ends, NEW t \in Clients, NEW h \in Handlers, AtHandler(t, h)
  PROVE  Ends'
<1>1. At(t, h) => ~exiting
  BY DEF At, Ends
<1>2. ASSUME NEW n \in Nat, Puts(t, h, n) PROVE Ends'
  <2>1. /\ At(t, h) /\ ((Entering(t, h) /\ ~closed[h]) \/ call[t].at # "outside")
        /\ UNCHANGED <<worker, closed, usage, exiting, exit>>
        /\ \E a : AnswerTo(t, call[t], a)
        /\ \E q : queue' = [queue EXCEPT ![h] = q]
    BY <1>2 DEF Puts
  <2>2. holder'[h] = Nobody /\ \A g \in Handlers : g # h => holder'[g] = holder[g]
    BY <2>1, HandlerChanges DEF At
  <2>3. usage.kind[h] = "callback" => worker'[h] # "ended"
    BY <2>1, OpenInside
  <2>4. \A g \in Handlers : g # h => queue'[g] = queue[g]
    BY <2>1 DEF Typed, QueueTypes
  <2> QED BY <1>1, <2>1, <2>2, <2>3, <2>4, EndsOne
<1>3. ASSUME NEW a \in Answers, Refuses(t, h, a) PROVE Ends'
  <2>1. /\ At(t, h) /\ AnswerTo(t, call[t], a)
        /\ UNCHANGED <<worker, closed, queue, usage, exiting, exit>>
    BY <1>3 DEF Refuses, queues
  <2>2. holder'[h] = Nobody /\ \A g \in Handlers : g # h => holder'[g] = holder[g]
    BY <2>1, HandlerChanges DEF At
  <2> QED BY <1>1, <2>1, <2>2, EndsOne DEF Ends
<1>4. ASSUME Blocks(t, h) \/ Enters(t, h) PROVE Ends'
  <2>1. /\ At(t, h) /\ ~closed[h] /\ UNCHANGED <<worker, closed, queue, usage, exiting, exit>>
        /\ \E x : holder' = [holder EXCEPT ![h] = x]
    BY <1>4 DEF Blocks, Enters, queues
  <2>2. \A g \in Handlers : g # h => holder'[g] = holder[g]
    BY <2>1 DEF Typed, LockTypes
  <2> QED BY <1>1, <2>1, <2>2, EndsOne DEF Ends
<1>5. ASSUME SleepsAgain(t, h) PROVE Ends'
  BY <1>5 DEF SleepsAgain, Ends
<1>6. ASSUME NEW gone \in BOOLEAN, RunsOn(t, h, gone) PROVE Ends'
  <2>1. At(t, h) /\ UNCHANGED <<worker, closed, queue, holder, usage, exiting, exit>>
    BY <1>6 DEF RunsOn, queues
  <2> QED BY <1>1, <2>1, EndsOne DEF Ends
<1>7. ASSUME NEW a \in {"Success", "Failed"}, NEW gone \in BOOLEAN, RunsLast(t, h, a, gone)
      PROVE  Ends'
  <2>1. /\ At(t, h) /\ call[t].at = "function" /\ AnswerTo(t, RanCall(call[t], Running(t), gone), a)
        /\ UNCHANGED <<worker, closed, queue, usage, exiting, exit>>
    BY <1>7 DEF RunsLast, queues
  <2>2. Now(RanCall(call[t], Running(t), gone)).to = h
    BY <2>1, RunningParts
  <2>3. holder'[h] = Nobody /\ \A g \in Handlers : g # h => holder'[g] = holder[g]
    BY <2>1, <2>2, HandlerChanges
  <2> QED BY <1>1, <2>1, <2>3, EndsOne DEF Ends
<1>8. ASSUME Closes(t, h) PROVE Ends'
  <2>1. /\ At(t, h) /\ closed' = [closed EXCEPT ![h] = TRUE] /\ AnswerTo(t, call[t], "Success")
        /\ queue' = [queue EXCEPT ![h] = <<>>] \/ UNCHANGED queue
        /\ UNCHANGED <<worker, usage, exiting, exit>>
    BY <1>8 DEF Closes
  <2>2. holder'[h] = Nobody /\ \A g \in Handlers : g # h => holder'[g] = holder[g]
    BY <2>1, HandlerChanges DEF At
  <2>3. /\ closed'[h] /\ \A g \in Handlers : g # h => closed'[g] = closed[g] /\ queue'[g] = queue[g]
        /\ queue'[h] = <<>> \/ queue'[h] = queue[h]
    BY <2>1 DEF Typed, QueueTypes
  <2> QED BY <1>1, <2>1, <2>2, <2>3, EndsOne DEF Ends
<1> QED BY <1>2, <1>3, <1>4, <1>5, <1>6, <1>7, <1>8 DEF AtHandler

\* Every step keeps the end in order.
LEMMA EndsKept == Typed /\ Guarded /\ Ends /\ [Next]_vars => Ends'
<1> SUFFICES ASSUME Typed, Guarded, Ends, [Next]_vars PROVE Ends'
  OBVIOUS
<1>1. ASSUME NEW t \in Clients, Elsewhere(t) PROVE Ends'
  <2>1. /\ UNCHANGED <<worker, closed, queue, holder, usage, exiting, exit>>
        /\ exiting => call' = call \/ call' = [call EXCEPT ![t] = Idle]
    BY <1>1 DEF Elsewhere, Begins, Lock, Return, queues
  <2>2. exiting => \A u \in Clients : call'[u] = Idle
    BY <2>1 DEF Ends, Typed, CallTypes
  <2> QED BY <2>1, <2>2 DEF Ends
<1>2. ASSUME NEW h \in Handlers, OfHandler(h) PROVE Ends'
  <2>1. UNCHANGED <<usage, holder, call, exiting>>
    BY <1>2 DEF OfHandler, Takes, Misses, WorkerHandles, DestroyHandler
  <2>2. ASSUME Takes(h) PROVE Ends'
    <3>1. /\ worker[h] \in {"idle", "fetch"} /\ worker' = [worker EXCEPT ![h] = "busy"]
          /\ UNCHANGED <<closed, exit>> /\ \E q : queue' = [queue EXCEPT ![h] = q]
      BY <2>2 DEF Takes
    <3>2. /\ worker'[h] = "busy" /\ worker[h] # "ended"
          /\ \A g \in Handlers : g # h => worker'[g] = worker[g] /\ queue'[g] = queue[g]
      BY <3>1 DEF Typed, QueueTypes
    <3> QED BY <2>1, <3>1, <3>2, EndsOne DEF Ends
  <2>3. ASSUME Misses(h) PROVE Ends'
    <3>1. /\ worker[h] \in {"idle", "fetch"} /\ UNCHANGED <<closed, exit>>
          /\ worker' = [worker EXCEPT ![h] = IF closed[h] THEN "ended" ELSE "fetch"]
          /\ queue' = [queue EXCEPT ![h] = <<>>]
      BY <2>3 DEF Misses
    <3>2. /\ worker'[h] = "ended" => closed[h]
          /\ worker[h] # "ended" /\ queue'[h] = <<>>
          /\ \A g \in Handlers : g # h => worker'[g] = worker[g] /\ queue'[g] = queue[g]
      BY <3>1 DEF Typed, QueueTypes
    <3> QED BY <2>1, <3>1, <3>2, EndsOne DEF Ends
  <2>4. ASSUME WorkerHandles(h) PROVE Ends'
    <3>1. /\ worker[h] = "busy" /\ UNCHANGED <<closed, exit, queue>>
          /\ worker' = [worker EXCEPT ![h] = "idle"]
      BY <2>4 DEF WorkerHandles
    <3>2. /\ worker'[h] = "idle" /\ worker[h] # "ended"
          /\ \A g \in Handlers : g # h => worker'[g] = worker[g]
      BY <3>1 DEF Typed, QueueTypes
    <3> QED BY <2>1, <3>1, <3>2, EndsOne DEF Ends
  <2>5. ASSUME DestroyHandler(h) PROVE Ends'
    <3>1. /\ exiting /\ exit # <<>> /\ h = Head(exit) /\ UNCHANGED <<worker, queue>>
          /\ closed' = [closed EXCEPT ![h] = @ \/ usage.kind[h] = "callback"]
          /\ exit' = IF usage.kind[h] = "buffer" \/ worker[h] = "ended" THEN Tail(exit) ELSE exit
      BY <2>5 DEF DestroyHandler
    <3>2. \A g \in Handlers : holder[g] = Nobody
      BY <3>1, NobodyInside DEF Ends
    <3>3. \A g \in Handlers : closed[g] => closed'[g]
      BY <3>1 DEF Typed, QueueTypes
    <3>4. \A g \in Handlers : g \in Range(exit) => g \in Range(exit') \/ g = h
      <4>1. exit \in Seq(Handlers) /\ Len(exit) \in Nat /\ DOMAIN exit = 1..Len(exit)
        BY DEF Typed, ExitTypes
      <4>2. /\ Tail(exit) \in Seq(Handlers) /\ Len(Tail(exit)) = Len(exit) - 1 /\ h = exit[1]
            /\ \A i \in 1..Len(Tail(exit)) : Tail(exit)[i] = exit[i + 1]
        BY <3>1, <4>1, HeadTailProperties
      <4> SUFFICES ASSUME NEW g \in Range(exit), g # h PROVE g \in Range(Tail(exit))
        BY <3>1
      <4>3. PICK i \in 1..Len(exit) : exit[i] = g
        BY <4>1 DEF Range
      <4>4. i - 1 \in 1..Len(Tail(exit)) /\ Tail(exit)[i - 1] = g
        BY <4>1, <4>2, <4>3
      <4>5. i - 1 \in DOMAIN Tail(exit)
        BY <4>2, <4>4
      <4> QED BY <4>4, <4>5 DEF Range
    <3>5. \A g \in Range(usage.writers) \ Range(exit') :
            usage.kind[g] = "callback" => worker[g] = "ended"
      <4> SUFFICES ASSUME NEW g \in Range(usage.writers) \ Range(exit'),
                          usage.kind[g] = "callback"
                   PROVE  worker[g] = "ended"
        OBVIOUS
      <4>1. g \in Handlers
        BY DEF Typed, Usage, Range
      <4>2. CASE g \notin Range(exit)
        BY <4>2 DEF Ends
      <4>3. CASE g \in Range(exit)
        <5>1. g = h /\ exit' # exit
          BY <3>4, <4>1, <4>3
        <5> QED BY <3>1, <5>1
      <4> QED BY <4>2, <4>3
    <3> QED BY <2>1, <3>1, <3>2, <3>3, <3>5 DEF Ends
  <2> QED BY <1>2, <2>2, <2>3, <2>4, <2>5 DEF OfHandler
<1>3. ASSUME DestroyBroadcaster PROVE Ends'
  <2>1. /\ \A t \in Clients : call[t] = Idle
        /\ closed' = [h \in Handlers |-> closed[h] \/ usage.close_on_exit]
        /\ UNCHANGED <<usage, worker, queue, holder, call, exit>>
    BY <1>3 DEF DestroyBroadcaster
  <2>2. \A g \in Handlers : holder[g] = Nobody
    BY <2>1, NobodyInside
  <2> QED BY <2>1, <2>2 DEF Ends
<1>4. ASSUME UNCHANGED vars PROVE Ends'
  BY <1>4 DEF vars, queues, Ends
<1> QED BY <1>1, <1>2, <1>3, <1>4, StepIs, EndsAtHandler

\* Queues are empty, handlers open, and all to be destroyed at first.
LEMMA EndsAtFirst == Init => Limited /\ Ends
<1> SUFFICES ASSUME Init PROVE Limited /\ Ends
  OBVIOUS
<1>1. usage \in Usage
  BY HandlersAssumption DEF Init
<1>2. Limited
  BY <1>1 DEF Init, Limited, Usage
<1>3. Ends
  BY DEF Init, Ends
<1> QED BY <1>2, <1>3

-----------------------------------------------------------------------------
(* What a worker is given.  The queue is the end of what was accepted, and  *)
(* what was handed over lies before it, or is its first, when the worker    *)
(* leaves the message it works on in the queue.                             *)

\* tk accepted, hd handed over, q waiting, dr dropped; e is 1 while the first
\* of q may have been handed over.
Handed(tk, hd, q, dr, e) ==
  /\ Range(tk) = Range(hd) \cup Range(q) \cup dr
  /\ Len(q) <= Len(tk)
  /\ \A i \in 1..Len(q) : q[i] = tk[(Len(tk) - Len(q)) + i]
  /\ \E p \in Places(hd, tk) : \A i \in 1..Len(hd) : p[i] <= (Len(tk) - Len(q)) + e

\* The range of a concatenation.
LEMMA ConcatRange ==
  ASSUME NEW S, NEW q \in Seq(S), NEW s \in Seq(S)
  PROVE  Range(q \o s) = Range(q) \cup Range(s)
<1> DEFINE r == q \o s
<1>1. /\ r \in Seq(S) /\ Len(r) = Len(q) + Len(s) /\ Len(q) \in Nat /\ Len(s) \in Nat
      /\ \A i \in 1..(Len(q) + Len(s)) : r[i] = IF i <= Len(q) THEN q[i] ELSE s[i - Len(q)]
  BY ConcatProperties
<1> HIDE DEF r
<1>2. DOMAIN r = 1..(Len(q) + Len(s)) /\ DOMAIN q = 1..Len(q) /\ DOMAIN s = 1..Len(s)
  BY <1>1
<1>3. ASSUME NEW x \in Range(r) PROVE x \in Range(q) \cup Range(s)
  <2>1. PICK i \in 1..(Len(q) + Len(s)) : x = r[i]
    BY <1>2, <1>3 DEF Range
  <2>2. CASE i <= Len(q)
    <3>1. i \in DOMAIN q /\ x = q[i]
      BY <1>1, <1>2, <2>1, <2>2
    <3> QED BY <3>1 DEF Range
  <2>3. CASE ~(i <= Len(q))
    <3>1. i - Len(q) \in DOMAIN s /\ x = s[i - Len(q)]
      BY <1>1, <1>2, <2>1, <2>3
    <3> QED BY <3>1 DEF Range
  <2> QED BY <2>2, <2>3
<1>4. ASSUME NEW x \in Range(q) PROVE x \in Range(r)
  <2>1. PICK i \in 1..Len(q) : x = q[i]
    BY <1>2, <1>4 DEF Range
  <2>2. i \in DOMAIN r /\ r[i] = x
    BY <1>1, <1>2, <2>1
  <2> QED BY <2>2 DEF Range
<1>5. ASSUME NEW x \in Range(s) PROVE x \in Range(r)
  <2>1. PICK i \in 1..Len(s) : x = s[i]
    BY <1>2, <1>5 DEF Range
  <2> DEFINE j == i + Len(q)
  <2>2. j \in 1..(Len(q) + Len(s)) /\ ~(j <= Len(q)) /\ j - Len(q) = i
    BY <1>1
  <2> HIDE DEF j
  <2>3. j \in DOMAIN r /\ r[j] = x
    BY <1>1, <1>2, <2>1, <2>2
  <2> QED BY <2>3 DEF Range
<1> QED BY <1>3, <1>4, <1>5 DEF r

\* The oldest n and the others are all of a queue.
LEMMA KeptRange ==
  ASSUME NEW S, NEW q \in Seq(S), NEW n \in 0..Len(q)
  PROVE  Range(q) = Range(Kept(q, n)) \cup Lost(q, n)
<1> DEFINE k == Kept(q, n)
<1>1. /\ k \in Seq(S) /\ Len(k) = Len(q) - n /\ Len(q) \in Nat
      /\ \A i \in 1..(Len(q) - n) : k[i] = q[n + i]
      /\ Lost(q, n) = {q[i] : i \in 1..n}
  <2>1. Kept(q, n) \in Seq(S) /\ Len(Kept(q, n)) = Len(q) - n
    BY KeptParts
  <2>2. ASSUME NEW i \in 1..(Len(q) - n) PROVE Kept(q, n)[i] = q[n + i]
    BY KeptParts
  <2>3. Lost(q, n) = {q[i] : i \in 1..n}
    BY KeptParts
  <2> QED BY <2>1, <2>2, <2>3
<1> HIDE DEF k
<1>2. DOMAIN k = 1..(Len(q) - n) /\ DOMAIN q = 1..Len(q)
  BY <1>1
<1>3. ASSUME NEW x \in Range(q) PROVE x \in Range(k) \cup Lost(q, n)
  <2>1. PICK i \in 1..Len(q) : x = q[i]
    BY <1>2, <1>3 DEF Range
  <2>2. CASE i <= n
    BY <1>1, <2>1, <2>2
  <2>3. CASE ~(i <= n)
    <3>1. i - n \in DOMAIN k /\ k[i - n] = x
      BY <1>1, <1>2, <2>1, <2>3
    <3> QED BY <3>1 DEF Range
  <2> QED BY <2>2, <2>3
<1>4. ASSUME NEW x \in Range(k) PROVE x \in Range(q)
  <2>1. PICK i \in 1..(Len(q) - n) : x = k[i]
    BY <1>2, <1>4 DEF Range
  <2>2. n + i \in DOMAIN q /\ q[n + i] = x
    BY <1>1, <1>2, <2>1
  <2> QED BY <2>2 DEF Range
<1>5. Lost(q, n) \subseteq Range(q)
  BY <1>1, <1>2 DEF Range
<1> QED BY <1>3, <1>4, <1>5 DEF k

\* Messages accepted.
LEMMA PutHanded ==
  ASSUME NEW S, NEW tk \in Seq(S), NEW hd \in Seq(S), NEW q \in Seq(S), NEW s \in Seq(S), NEW dr,
         NEW e \in {0, 1}, NEW n \in 0..Len(q), Handed(tk, hd, q, dr, e)
  PROVE  Handed(tk \o s, hd, Kept(q, n) \o s, dr \cup Lost(q, n), e)
<1> DEFINE k == Kept(q, n)
           x == k \o s
           y == tk \o s
           d == dr \cup Lost(q, n)
<1>1. /\ Len(tk) \in Nat /\ Len(hd) \in Nat /\ Len(q) \in Nat /\ Len(s) \in Nat
      /\ DOMAIN tk = 1..Len(tk) /\ DOMAIN hd = 1..Len(hd)
  OBVIOUS
<1>2. /\ k \in Seq(S) /\ Len(k) = Len(q) - n
      /\ \A i \in 1..(Len(q) - n) : k[i] = q[n + i]
  <2>1. Kept(q, n) \in Seq(S) /\ Len(Kept(q, n)) = Len(q) - n
    BY KeptParts
  <2>2. ASSUME NEW i \in 1..(Len(q) - n) PROVE Kept(q, n)[i] = q[n + i]
    BY KeptParts
  <2> QED BY <2>1, <2>2
<1>3. /\ Range(y) = Range(tk) \cup Range(s) /\ Range(x) = Range(k) \cup Range(s)
      /\ Range(q) = Range(k) \cup Lost(q, n)
  BY <1>2, ConcatRange, KeptRange
<1>4. /\ x \in Seq(S) /\ Len(x) = Len(k) + Len(s)
      /\ \A i \in 1..(Len(k) + Len(s)) : x[i] = IF i <= Len(k) THEN k[i] ELSE s[i - Len(k)]
  BY <1>2, ConcatProperties
<1>5. /\ y \in Seq(S) /\ Len(y) = Len(tk) + Len(s)
      /\ \A i \in 1..(Len(tk) + Len(s)) : y[i] = IF i <= Len(tk) THEN tk[i] ELSE s[i - Len(tk)]
  BY ConcatProperties
<1> HIDE DEF k, x, y
<1>6. Range(y) = Range(hd) \cup Range(x) \cup d
  BY <1>3 DEF Handed
<1>7. Len(x) <= Len(y) /\ Len(y) - Len(x) = (Len(tk) - Len(q)) + n
  BY <1>1, <1>2, <1>4, <1>5 DEF Handed
<1>8. ASSUME NEW i \in 1..Len(x) PROVE x[i] = y[(Len(y) - Len(x)) + i]
  <2>1. CASE i <= Len(k)
    <3>1. x[i] = q[n + i] /\ n + i \in 1..Len(q)
      <4>1. i \in 1..(Len(k) + Len(s)) /\ i \in 1..(Len(q) - n)
        BY <1>1, <1>2, <1>4, <2>1
      <4>2. x[i] = k[i] /\ k[i] = q[n + i]
        BY <1>2, <1>4, <2>1, <4>1
      <4> QED BY <1>1, <4>1, <4>2
    <3>2. x[i] = tk[(Len(tk) - Len(q)) + (n + i)]
      BY <3>1 DEF Handed
    <3>3. (Len(y) - Len(x)) + i = (Len(tk) - Len(q)) + (n + i)
      <4>1. n \in Nat /\ i \in Nat
        BY <1>1, <1>4
      <4> DEFINE lx == Len(x)
                 ly == Len(y)
                 lt == Len(tk)
                 lq == Len(q)
      <4>2. lx \in Nat /\ ly \in Nat /\ lt \in Nat /\ lq \in Nat /\ ly - lx = (lt - lq) + n
        BY <1>1, <1>4, <1>5, <1>7
      <4>3. (ly - lx) + i = (lt - lq) + (n + i)
        <5> HIDE DEF lx, ly, lt, lq
        <5> QED BY <4>1, <4>2
      <4> QED BY <4>3
    <3>4. /\ (Len(tk) - Len(q)) + (n + i) \in 1..(Len(tk) + Len(s))
          /\ (Len(tk) - Len(q)) + (n + i) <= Len(tk)
      BY <1>1, <3>1 DEF Handed
    <3> QED BY <1>5, <3>2, <3>3, <3>4
  <2>2. CASE ~(i <= Len(k))
    <3>1. x[i] = s[i - Len(k)]
      BY <1>4, <2>2
    <3>2. /\ (Len(y) - Len(x)) + i \in 1..(Len(tk) + Len(s))
          /\ (Len(y) - Len(x)) + i > Len(tk) /\ ((Len(y) - Len(x)) + i) - Len(tk) = i - Len(k)
      BY <1>1, <1>2, <1>4, <1>5, <2>2 DEF Handed
    <3> QED BY <1>1, <1>5, <3>1, <3>2, SMTT(30)
  <2> QED BY <2>1, <2>2
<1>9. \E p \in Places(hd, y) : \A i \in 1..Len(hd) : p[i] <= (Len(y) - Len(x)) + e
  <2>1. PICK p \in Places(hd, tk) : \A i \in 1..Len(hd) : p[i] <= (Len(tk) - Len(q)) + e
    BY DEF Handed
  <2>2. \A i \in 1..Len(hd) : p[i] \in 1..Len(tk) /\ hd[i] = tk[p[i]]
    BY <1>1, <2>1 DEF Places
  <2>3. \A i \in 1..Len(hd) : p[i] \in 1..Len(y) /\ hd[i] = y[p[i]]
    BY <1>1, <1>5, <2>2
  <2>4. p \in Places(hd, y)
    <3>1. DOMAIN y = 1..Len(y)
      BY <1>5
    <3> QED BY <1>1, <2>1, <2>3, <3>1 DEF Places
  <2>5. \A i \in 1..Len(hd) : p[i] <= (Len(y) - Len(x)) + e
    BY <1>1, <1>7, <2>1, <2>2 DEF Handed
  <2> QED BY <2>4, <2>5
<1> HIDE DEF d
<1>10. Handed(y, hd, x, d, e)
  BY <1>6, <1>7, <1>8, <1>9 DEF Handed
<1> QED BY <1>10 DEF k, x, y, d

\* All that waits is dropped.
LEMMA CancelHanded ==
  ASSUME NEW S, NEW tk \in Seq(S), NEW hd \in Seq(S), NEW q \in Seq(S), NEW dr,
         NEW e \in {0, 1}, Handed(tk, hd, q, dr, e)
  PROVE  Handed(tk, hd, <<>>, dr \cup Range(q), 0)
<1>1. /\ Len(tk) \in Nat /\ Len(hd) \in Nat /\ Len(q) \in Nat /\ Len(<<>>) = 0
      /\ DOMAIN tk = 1..Len(tk) /\ DOMAIN hd = 1..Len(hd)
  OBVIOUS
<1>2. Range(<<>>) = {}
  BY DEF Range
<1>3. PICK p \in Places(hd, tk) : \A i \in 1..Len(hd) : p[i] <= (Len(tk) - Len(q)) + e
  BY DEF Handed
<1>4. \A i \in 1..Len(hd) : p[i] <= (Len(tk) - 0) + 0
  BY <1>1, <1>3 DEF Places
<1> DEFINE z == <<>>
<1>5. Range(z) = {} /\ Len(z) = 0
  BY <1>2
<1> HIDE DEF z
<1>6. Handed(tk, hd, z, dr \cup Range(q), 0)
  BY <1>1, <1>3, <1>4, <1>5 DEF Handed
<1> QED BY <1>6 DEF z

\* The first that waits is dropped, or is removed once it was handed over.
LEMMA DropHanded ==
  ASSUME NEW S, NEW tk \in Seq(S), NEW hd \in Seq(S), NEW q \in Seq(S), NEW dr, NEW d,
         NEW e \in {0, 1}, Handed(tk, hd, q, dr, e), q # <<>>, dr \subseteq d,
         d \subseteq dr \cup {Head(q)}, Head(q) \in Range(hd) \cup d
  PROVE  Handed(tk, hd, Tail(q), d, 0)
<1> DEFINE r == Tail(q)
<1>1. /\ Len(tk) \in Nat /\ Len(hd) \in Nat /\ Len(q) \in Nat
      /\ DOMAIN tk = 1..Len(tk) /\ DOMAIN hd = 1..Len(hd) /\ DOMAIN q = 1..Len(q)
  OBVIOUS
<1>2. /\ r \in Seq(S) /\ Len(r) = Len(q) - 1 /\ Head(q) = q[1] /\ Len(q) > 0
      /\ \A i \in 1..Len(r) : r[i] = q[i + 1]
  BY HeadTailProperties, EmptySeq
<1> HIDE DEF r
<1>3. DOMAIN r = 1..Len(r)
  BY <1>2
<1>4. Range(q) = {q[1]} \cup Range(r)
  <2>1. ASSUME NEW x \in Range(q) PROVE x \in {q[1]} \cup Range(r)
    <3>1. PICK i \in 1..Len(q) : x = q[i]
      BY <1>1, <2>1 DEF Range
    <3>2. i = 1 \/ (i - 1 \in DOMAIN r /\ r[i - 1] = x)
      BY <1>1, <1>2, <1>3, <3>1
    <3> QED BY <3>1, <3>2 DEF Range
  <2>2. ASSUME NEW x \in Range(r) PROVE x \in Range(q)
    <3>1. PICK i \in 1..Len(r) : x = r[i]
      BY <1>3, <2>2 DEF Range
    <3>2. i + 1 \in DOMAIN q /\ q[i + 1] = x
      BY <1>1, <1>2, <3>1
    <3> QED BY <3>2 DEF Range
  <2>3. q[1] \in Range(q)
    BY <1>1, <1>2 DEF Range
  <2> QED BY <2>1, <2>2, <2>3
<1>5. Range(tk) = Range(hd) \cup Range(r) \cup d
  BY <1>2, <1>4 DEF Handed
<1>6. Len(r) <= Len(tk) /\ Len(tk) - Len(r) = (Len(tk) - Len(q)) + 1
  BY <1>1, <1>2 DEF Handed
<1>7. ASSUME NEW i \in 1..Len(r) PROVE r[i] = tk[(Len(tk) - Len(r)) + i]
  <2>1. r[i] = q[i + 1] /\ i + 1 \in 1..Len(q)
    BY <1>1, <1>2
  <2>2. q[i + 1] = tk[(Len(tk) - Len(q)) + (i + 1)]
    BY <2>1 DEF Handed
  <2>3. (Len(tk) - Len(q)) + (i + 1) = (Len(tk) - Len(r)) + i
    BY <1>1, <1>2
  <2> QED BY <2>1, <2>2, <2>3
<1>8. \E p \in Places(hd, tk) : \A i \in 1..Len(hd) : p[i] <= (Len(tk) - Len(r)) + 0
  <2>1. PICK p \in Places(hd, tk) : \A i \in 1..Len(hd) : p[i] <= (Len(tk) - Len(q)) + e
    BY DEF Handed
  <2>2. \A i \in 1..Len(hd) : p[i] \in 1..Len(tk)
    BY <1>1, <2>1 DEF Places
  <2>3. \A i \in 1..Len(hd) : p[i] <= (Len(tk) - Len(r)) + 0
    BY <1>1, <1>2, <2>1, <2>2
  <2> QED BY <2>3
<1>9. Handed(tk, hd, r, d, 0)
  BY <1>5, <1>6, <1>7, <1>8 DEF Handed
<1> QED BY <1>9 DEF r

\* The first that waits is handed over.
LEMMA TakeHanded ==
  ASSUME NEW S, NEW tk \in Seq(S), NEW hd \in Seq(S), NEW q \in Seq(S), NEW dr,
         Handed(tk, hd, q, dr, 0), q # <<>>
  PROVE  Handed(tk, Append(hd, Head(q)), q, dr, 1)
<1> DEFINE a == Append(hd, Head(q))
           b == Len(tk) - Len(q)
<1>1. /\ Len(tk) \in Nat /\ Len(hd) \in Nat /\ Len(q) \in Nat
      /\ DOMAIN tk = 1..Len(tk) /\ DOMAIN hd = 1..Len(hd) /\ DOMAIN q = 1..Len(q)
  OBVIOUS
<1>2. Head(q) = q[1] /\ Len(q) > 0 /\ q[1] \in S /\ q[1] \in Range(q)
  <2>1. Head(q) = q[1] /\ Len(q) > 0
    BY EmptySeq
  <2> QED BY <1>1, <2>1 DEF Range
<1>3. /\ a \in Seq(S) /\ Len(a) = Len(hd) + 1 /\ a[Len(hd) + 1] = q[1]
      /\ \A i \in 1..Len(hd) : a[i] = hd[i]
  BY <1>2, AppendProperties
<1> HIDE DEF a
<1>4. DOMAIN a = 1..(Len(hd) + 1)
  BY <1>3
<1>5. Range(a) = Range(hd) \cup {q[1]}
  <2>1. ASSUME NEW x \in Range(a) PROVE x \in Range(hd) \cup {q[1]}
    <3>1. PICK i \in 1..(Len(hd) + 1) : x = a[i]
      BY <1>4, <2>1 DEF Range
    <3>2. i = Len(hd) + 1 \/ i \in 1..Len(hd)
      BY <1>1
    <3> QED BY <1>1, <1>3, <3>1, <3>2 DEF Range
  <2>2. ASSUME NEW x \in Range(hd) PROVE x \in Range(a)
    <3>1. PICK i \in 1..Len(hd) : x = hd[i]
      BY <1>1, <2>2 DEF Range
    <3>2. i \in DOMAIN a /\ a[i] = x
      BY <1>1, <1>3, <1>4, <3>1
    <3> QED BY <3>2 DEF Range
  <2>3. q[1] \in Range(a)
    <3>1. Len(hd) + 1 \in DOMAIN a /\ a[Len(hd) + 1] = q[1]
      BY <1>1, <1>3, <1>4
    <3> QED BY <3>1 DEF Range
  <2> QED BY <2>1, <2>2, <2>3
<1>6. b + 1 \in 1..Len(tk) /\ tk[b + 1] = q[1]
  <2>1. 1 \in 1..Len(q)
    BY <1>1, <1>2
  <2> QED BY <1>1, <2>1 DEF Handed
<1>7. PICK p \in Places(hd, tk) : \A i \in 1..Len(hd) : p[i] <= b + 0
  BY DEF Handed
<1> DEFINE r == [i \in 1..(Len(hd) + 1) |-> IF i \in 1..Len(hd) THEN p[i] ELSE b + 1]
<1>8. \A i \in 1..Len(hd) : p[i] \in 1..Len(tk) /\ hd[i] = tk[p[i]] /\ p[i] <= b /\ r[i] = p[i]
  BY <1>1, <1>6, <1>7 DEF Places
<1>9. r[Len(hd) + 1] = b + 1
  BY <1>1
<1>10. r \in [1..(Len(hd) + 1) -> 1..Len(tk)]
  BY <1>6, <1>8
<1> HIDE DEF r
<1>11. r \in Places(a, tk)
  <2>1. ASSUME NEW i \in 1..(Len(hd) + 1) PROVE a[i] = tk[r[i]]
    <3>1. i = Len(hd) + 1 \/ i \in 1..Len(hd)
      BY <1>1
    <3> QED BY <1>3, <1>6, <1>8, <1>9, <3>1
  <2>2. ASSUME NEW i \in 1..(Len(hd) + 1), NEW j \in 1..(Len(hd) + 1), i < j
        PROVE  r[i] < r[j]
    <3>1. i \in 1..Len(hd) /\ (j = Len(hd) + 1 \/ j \in 1..Len(hd))
      BY <1>1, <2>2
    <3>2. CASE j = Len(hd) + 1
      BY <1>1, <1>6, <1>8, <1>9, <3>1, <3>2
    <3>3. CASE j \in 1..Len(hd)
      <4>1. p[i] < p[j]
        BY <1>1, <1>7, <2>2, <3>1, <3>3 DEF Places
      <4> QED BY <1>8, <3>1, <3>3, <4>1
    <3> QED BY <3>1, <3>2, <3>3
  <2> QED BY <1>1, <1>4, <1>10, <2>1, <2>2 DEF Places
<1>12. ASSUME NEW i \in 1..Len(a) PROVE r[i] <= b + 1
  <2>1. i = Len(hd) + 1 \/ i \in 1..Len(hd)
    BY <1>1, <1>3
  <2> QED BY <1>1, <1>6, <1>8, <1>9, <2>1
<1>13. Handed(tk, a, q, dr, 1)
  <2>1. Range(tk) = Range(a) \cup Range(q) \cup dr
    BY <1>2, <1>5 DEF Handed
  <2>2. \E p2 \in Places(a, tk) : \A i \in 1..Len(a) : p2[i] <= (Len(tk) - Len(q)) + 1
    BY <1>11, <1>12
  <2> QED BY <2>1, <2>2 DEF Handed
<1> QED BY <1>13 DEF a

\* Nothing waits that was handed over: no exception is needed.
LEMMA EmptyHanded ==
  ASSUME NEW S, NEW tk \in Seq(S), NEW hd \in Seq(S), NEW dr, NEW e \in {0, 1},
         Handed(tk, hd, <<>>, dr, e)
  PROVE  Handed(tk, hd, <<>>, dr, 0)
<1>1. Range(<<>>) = {} /\ <<>> \in Seq(S)
  BY DEF Range
<1>2. Handed(tk, hd, <<>>, dr \cup Range(<<>>), 0)
  BY <1>1, CancelHanded
<1> QED BY <1>1, <1>2

\* Whether the first that waits may have been handed over.
Held(h) == IF stale[h] /\ worker[h] \in {"idle", "busy"} THEN 1 ELSE 0

HandedOver ==
  \A h \in Handlers : Handed(taken[h], handled[h], queue[h], dropped[h], Held(h))

\* A step of one handler.
LEMMA HandedOne ==
  ASSUME Typed, HandedOver, NEW h \in Handlers,
         \A g \in Handlers : g # h =>
           /\ taken'[g] = taken[g] /\ handled'[g] = handled[g] /\ queue'[g] = queue[g]
           /\ dropped'[g] = dropped[g] /\ stale'[g] = stale[g] /\ worker'[g] = worker[g],
         Handed(taken'[h], handled'[h], queue'[h], dropped'[h], Held(h)')
  PROVE  HandedOver'
<1> SUFFICES ASSUME NEW g \in Handlers, g # h
             PROVE  Handed(taken'[g], handled'[g], queue'[g], dropped'[g], Held(g)')
  BY DEF HandedOver, Handed
<1>1. Held(g)' = Held(g)
  BY DEF Held
<1>2. Handed(taken[g], handled[g], queue[g], dropped[g], Held(g))
  BY DEF HandedOver
<1> QED BY <1>1, <1>2

\* A queue's history.
LEMMA HandedTypes ==
  ASSUME Typed, HandedOver, NEW h \in Handlers
  PROVE  /\ taken[h] \in Seq(Things) /\ handled[h] \in Seq(Things) /\ queue[h] \in Seq(Things)
         /\ Held(h) \in {0, 1} /\ ((~stale[h] \/ worker[h] = "fetch") => Held(h) = 0)
         /\ Handed(taken[h], handled[h], queue[h], dropped[h], Held(h))
  BY DEF Typed, HistoryTypes, QueueTypes, HandedOver, Held

\* What a worker has discarded, if it did.
LEMMA RestHanded ==
  ASSUME Typed, HandedOver, NEW h \in Handlers, worker[h] \in {"idle", "fetch"},
         Rest(h) # <<>> \/ Discards(h)
  PROVE  /\ Rest(h) \in Seq(Things)
         /\ Handed(taken[h], handled[h], Rest(h), dropped[h] \cup Discarded(h), 0)
<1>1. Rest(h) \in Seq(Things)
  BY RestParts
<1>2. CASE Discards(h)
  <2>1. Rest(h) = Tail(queue[h]) /\ queue[h] # <<>> /\ Discarded(h) = {Head(queue[h])}
    BY <1>2 DEF Discards, Rest, Discarded
  <2>2. Handed(taken[h], handled[h], Tail(queue[h]), dropped[h] \cup {Head(queue[h])}, 0)
    BY <2>1, HandedTypes, DropHanded
  <2> QED BY <1>1, <2>1, <2>2
<1>3. CASE ~Discards(h)
  <2>1. Rest(h) = queue[h] /\ Discarded(h) = {} /\ queue[h] # <<>>
    BY <1>3 DEF Rest, Discarded
  <2>2. Held(h) = 0
    BY <1>3, <2>1 DEF Discards, Held
  <2>3. dropped[h] \cup {} = dropped[h]
    OBVIOUS
  <2> QED BY <1>1, <2>1, <2>2, <2>3, HandedTypes
<1> QED BY <1>2, <1>3

\* Every step keeps it.
LEMMA HandedKept == Typed /\ HandedOver /\ [Next]_vars => HandedOver'
<1> SUFFICES ASSUME Typed, HandedOver, [Next]_vars PROVE HandedOver'
  OBVIOUS
<1>1. ASSUME UNCHANGED <<taken, handled, queue, dropped, stale, worker>> PROVE HandedOver'
  BY <1>1 DEF HandedOver, Handed, Held
<1>2. ASSUME NEW t \in Clients, Elsewhere(t) PROVE HandedOver'
  <2>1. UNCHANGED <<taken, handled, queue, dropped, stale, worker>>
    BY <1>2 DEF Elsewhere, Begins, Lock, Return, queues, history
  <2> QED BY <1>1, <2>1
<1>3. ASSUME NEW t \in Clients, NEW h \in Handlers, AtHandler(t, h) PROVE HandedOver'
  <2>1. ASSUME NEW n \in Nat, Puts(t, h, n) PROVE HandedOver'
    <3> DEFINE s == Now(call[t]).what
    <3>1. At(t, h) /\ n \in 0..Len(queue[h]) /\ UNCHANGED <<handled, stale, worker>>
      BY <2>1 DEF Puts
    <3>2. s \in Seq(Things)
      BY <3>1, HandlerParts
    <3>3. /\ queue' = [queue EXCEPT ![h] = Kept(@, n) \o s]
          /\ taken' = [taken EXCEPT ![h] = @ \o s]
          /\ dropped' = [dropped EXCEPT ![h] = @ \cup Lost(queue[h], n)]
      BY <2>1 DEF Puts
    <3> HIDE DEF s
    <3>4. /\ queue'[h] = Kept(queue[h], n) \o s /\ taken'[h] = taken[h] \o s
          /\ dropped'[h] = dropped[h] \cup Lost(queue[h], n) /\ handled'[h] = handled[h]
          /\ \A g \in Handlers : g # h => /\ taken'[g] = taken[g] /\ queue'[g] = queue[g]
                                          /\ dropped'[g] = dropped[g]
      BY <3>1, <3>3 DEF Typed, QueueTypes, HistoryTypes
    <3>5. Held(h)' = Held(h)
      BY <3>1 DEF Held
    <3>6. Handed(taken[h] \o s, handled[h], Kept(queue[h], n) \o s,
                 dropped[h] \cup Lost(queue[h], n), Held(h))
      <4>1. /\ taken[h] \in Seq(Things) /\ handled[h] \in Seq(Things)
            /\ queue[h] \in Seq(Things) /\ Held(h) \in {0, 1}
            /\ Handed(taken[h], handled[h], queue[h], dropped[h], Held(h))
        BY HandedTypes
      <4>2. n \in 0..Len(queue[h])
        BY <3>1
      <4> QED BY <3>2, <4>1, <4>2, PutHanded
    <3>7. Handed(taken'[h], handled'[h], queue'[h], dropped'[h], Held(h)')
      BY <3>4, <3>5, <3>6
    <3> QED BY <3>1, <3>4, <3>7, HandedOne
  <2>2. ASSUME Closes(t, h) PROVE HandedOver'
    <3>1. UNCHANGED <<handled, taken, stale, worker>>
      BY <2>2 DEF Closes
    <3>2. CASE UNCHANGED <<queue, dropped>>
      BY <1>1, <3>1, <3>2
    <3>3. CASE /\ queue' = [queue EXCEPT ![h] = <<>>]
               /\ dropped' = [dropped EXCEPT ![h] = @ \cup Range(queue[h])]
      <4>1. /\ queue'[h] = <<>> /\ dropped'[h] = dropped[h] \cup Range(queue[h])
            /\ \A g \in Handlers : g # h => queue'[g] = queue[g] /\ dropped'[g] = dropped[g]
        BY <3>3 DEF Typed, QueueTypes, HistoryTypes
      <4>2. Handed(taken[h], handled[h], <<>>, dropped[h] \cup Range(queue[h]), 0)
        BY HandedTypes, CancelHanded
      <4>3. Handed(taken[h], handled[h], <<>>, dropped[h] \cup Range(queue[h]), Held(h))
        <5>1. CASE Held(h) = 0
          BY <4>2, <5>1
        <5>2. CASE Held(h) = 1
          <6> DEFINE z == <<>>
          <6>1. Handed(taken[h], handled[h], z, dropped[h] \cup Range(queue[h]), 0)
            BY <4>2
          <6>2. Len(taken[h]) - Len(z) \in Int /\ DOMAIN handled[h] = 1..Len(handled[h])
            BY HandedTypes
          <6>3. DOMAIN taken[h] = 1..Len(taken[h]) /\ Len(taken[h]) \in Nat
            BY HandedTypes
          <6> HIDE DEF z
          <6>4. PICK p \in Places(handled[h], taken[h]) :
                  \A i \in 1..Len(handled[h]) : p[i] <= (Len(taken[h]) - Len(z)) + 0
            BY <6>1 DEF Handed
          <6>5. \A i \in 1..Len(handled[h]) : p[i] <= (Len(taken[h]) - Len(z)) + 1
            BY <6>2, <6>3, <6>4 DEF Places
          <6>6. Handed(taken[h], handled[h], z, dropped[h] \cup Range(queue[h]), 1)
            BY <6>1, <6>5 DEF Handed
          <6> QED BY <5>2, <6>6 DEF z
        <5> QED BY <5>1, <5>2, HandedTypes
      <4>4. Held(h)' = Held(h) /\ taken' = taken /\ handled' = handled
        BY <3>1 DEF Held
      <4>5. Handed(taken'[h], handled'[h], queue'[h], dropped'[h], Held(h)')
        BY <4>1, <4>3, <4>4
      <4> QED BY <3>1, <4>1, <4>5, HandedOne
    <3> QED BY <2>2, <3>2, <3>3 DEF Closes
  <2>3. CASE ~(Closes(t, h) \/ \E n \in Nat : Puts(t, h, n))
    <3>1. UNCHANGED <<taken, handled, queue, dropped, stale, worker>>
      BY <1>3, <2>3
         DEF AtHandler, Refuses, Blocks, SleepsAgain, Enters, RunsOn, RunsLast, queues, history
    <3> QED BY <1>1, <3>1
  <2> QED BY <2>1, <2>2, <2>3
<1>4. ASSUME NEW h \in Handlers, OfHandler(h) PROVE HandedOver'
  <2> DEFINE r == Rest(h)
             d == dropped[h] \cup Discarded(h)
             keep == usage.consume[h] = "WithoutRemoving"
  <2>1. ASSUME Takes(h) PROVE HandedOver'
    <3>1. /\ worker[h] \in {"idle", "fetch"} /\ r # <<>>
          /\ dropped' = [dropped EXCEPT ![h] = d]
          /\ queue' = [queue EXCEPT ![h] = IF keep THEN r ELSE Tail(r)]
          /\ handled' = [handled EXCEPT ![h] = Append(@, Head(r))]
          /\ worker' = [worker EXCEPT ![h] = "busy"]
          /\ stale' = [stale EXCEPT ![h] = keep]
          /\ UNCHANGED taken
      BY <2>1 DEF Takes
    <3>2. r \in Seq(Things) /\ Handed(taken[h], handled[h], r, d, 0)
      BY <3>1, RestHanded
    <3> HIDE DEF r, d, keep
    <3>3. /\ dropped'[h] = d /\ queue'[h] = (IF keep THEN r ELSE Tail(r))
          /\ handled'[h] = Append(handled[h], Head(r)) /\ worker'[h] = "busy"
          /\ stale'[h] = keep /\ taken'[h] = taken[h]
          /\ \A g \in Handlers : g # h =>
               /\ taken'[g] = taken[g] /\ handled'[g] = handled[g] /\ queue'[g] = queue[g]
               /\ dropped'[g] = dropped[g] /\ stale'[g] = stale[g] /\ worker'[g] = worker[g]
      BY <3>1 DEF Typed, QueueTypes, HistoryTypes
    <3>4. Handed(taken[h], Append(handled[h], Head(r)), r, d, 1)
      BY <3>1, <3>2, HandedTypes, TakeHanded
    <3>5. CASE keep
      <4>1. Held(h)' = 1
        BY <3>3, <3>5 DEF Held
      <4>2. Handed(taken'[h], handled'[h], queue'[h], dropped'[h], Held(h)')
        BY <3>3, <3>4, <3>5, <4>1
      <4> QED BY <3>3, <4>2, HandedOne
    <3>6. CASE ~keep
      <4>1. Held(h)' = 0
        BY <3>3, <3>6 DEF Held
      <4>2. Head(r) \in Things
        BY <3>1, <3>2, HeadTailProperties
      <4>3. /\ Append(handled[h], Head(r)) \in Seq(Things)
            /\ Head(r) \in Range(Append(handled[h], Head(r)))
        <5> DEFINE a == Append(handled[h], Head(r))
        <5>1. /\ a \in Seq(Things) /\ Len(a) = Len(handled[h]) + 1
              /\ a[Len(handled[h]) + 1] = Head(r) /\ Len(handled[h]) \in Nat
          BY <4>2, HandedTypes, AppendProperties
        <5> HIDE DEF a
        <5>2. Len(handled[h]) + 1 \in DOMAIN a
          BY <5>1
        <5>3. a \in Seq(Things) /\ Head(r) \in Range(a)
          BY <5>1, <5>2 DEF Range
        <5> QED BY <5>3 DEF a
      <4>4. Handed(taken[h], Append(handled[h], Head(r)), Tail(r), d, 0)
        <5> DEFINE a == Append(handled[h], Head(r))
        <5>1. a \in Seq(Things) /\ Head(r) \in Range(a) \cup d /\ Handed(taken[h], a, r, d, 1)
          BY <3>4, <4>3
        <5>2. d \subseteq d /\ d \subseteq d \cup {Head(r)} /\ 1 \in {0, 1}
          OBVIOUS
        <5> HIDE DEF a
        <5>3. Handed(taken[h], a, Tail(r), d, 0)
          BY <3>1, <3>2, <5>1, <5>2, HandedTypes, DropHanded
        <5> QED BY <5>3 DEF a
      <4>5. Handed(taken'[h], handled'[h], queue'[h], dropped'[h], Held(h)')
        BY <3>3, <3>6, <4>1, <4>4
      <4> QED BY <3>3, <4>5, HandedOne
    <3> QED BY <3>5, <3>6
  <2>2. ASSUME Misses(h) PROVE HandedOver'
    <3>1. /\ worker[h] \in {"idle", "fetch"} /\ r = <<>>
          /\ dropped' = [dropped EXCEPT ![h] = d] /\ queue' = [queue EXCEPT ![h] = <<>>]
          /\ worker' = [worker EXCEPT ![h] = IF closed[h] THEN "ended" ELSE "fetch"]
          /\ stale' = [stale EXCEPT ![h] = ~closed[h]]
          /\ UNCHANGED <<taken, handled>>
      BY <2>2 DEF Misses
    <3>2. Handed(taken[h], handled[h], <<>>, d, 0)
      <4>1. CASE Discards(h)
        BY <3>1, <4>1, RestHanded
      <4>2. CASE ~Discards(h)
        <5>1. queue[h] = <<>> /\ Discarded(h) = {}
          BY <3>1, <4>2 DEF Rest, Discarded
        <5>2. d = dropped[h]
          BY <5>1
        <5>3. Handed(taken[h], handled[h], <<>>, dropped[h], Held(h))
          BY <5>1, HandedTypes
        <5> QED BY <5>2, <5>3, HandedTypes, EmptyHanded
      <4> QED BY <4>1, <4>2
    <3> HIDE DEF d, r
    <3>3. /\ dropped'[h] = d /\ queue'[h] = <<>>
          /\ handled'[h] = handled[h] /\ worker'[h] \in {"ended", "fetch"} /\ taken'[h] = taken[h]
          /\ \A g \in Handlers : g # h =>
               /\ taken'[g] = taken[g] /\ handled'[g] = handled[g] /\ queue'[g] = queue[g]
               /\ dropped'[g] = dropped[g] /\ stale'[g] = stale[g] /\ worker'[g] = worker[g]
      BY <3>1 DEF Typed, QueueTypes, HistoryTypes
    <3>4. Held(h)' = 0
      BY <3>3 DEF Held
    <3>5. Handed(taken'[h], handled'[h], queue'[h], dropped'[h], Held(h)')
      BY <3>2, <3>3, <3>4
    <3> QED BY <3>3, <3>5, HandedOne
  <2>3. ASSUME WorkerHandles(h) PROVE HandedOver'
    <3>1. /\ worker[h] = "busy" /\ worker' = [worker EXCEPT ![h] = "idle"]
          /\ UNCHANGED <<taken, handled, queue, dropped, stale>>
      BY <2>3 DEF WorkerHandles, history
    <3>2. /\ worker'[h] = "idle" /\ \A g \in Handlers : g # h => worker'[g] = worker[g]
      BY <3>1 DEF Typed, QueueTypes
    <3>3. Held(h)' = Held(h)
      BY <3>1, <3>2 DEF Held
    <3>4. Handed(taken'[h], handled'[h], queue'[h], dropped'[h], Held(h)')
      BY <3>1, <3>3, HandedTypes
    <3> QED BY <3>1, <3>2, <3>4, HandedOne
  <2>4. ASSUME DestroyHandler(h) PROVE HandedOver'
    BY <1>1, <2>4 DEF DestroyHandler, history
  <2> QED BY <1>4, <2>1, <2>2, <2>3, <2>4 DEF OfHandler
<1>5. ASSUME DestroyBroadcaster \/ UNCHANGED vars PROVE HandedOver'
  BY <1>1, <1>5 DEF DestroyBroadcaster, vars, queues, history
<1> QED BY <1>2, <1>3, <1>4, <1>5, StepIs

\* Nothing was accepted at first.
LEMMA HandedAtFirst == Init => HandedOver
<1> SUFFICES ASSUME Init, NEW h \in Handlers
             PROVE  Handed(taken[h], handled[h], queue[h], dropped[h], Held(h))
  BY DEF HandedOver
<1> DEFINE z == <<>>
<1>1. taken[h] = z /\ handled[h] = z /\ queue[h] = z /\ dropped[h] = {}
  BY DEF Init
<1>2. Range(z) = {} /\ Len(z) = 0 /\ z \in Places(z, z)
  BY DEF Range, Places
<1> HIDE DEF z
<1> QED BY <1>1, <1>2 DEF Handed

-----------------------------------------------------------------------------
(* What a call answers.  A call knows its messages, which are of its own,   *)
(* and nobody was given any of them unless a handler said so; those a call  *)
(* of the ToOne kind has handed over went to handlers that kept them by     *)
(* their answers, and what reached nobody is still offered to all.          *)

\* The k-th call of client t, c, is about its own messages.
Own(t, k, c) ==
  /\ Len(c.what) = IF c.op = "sendMessages" THEN 2 ELSE Width(c.op)
  /\ \A i \in 1..Len(c.what) : c.what[i] = <<t, k, i>>
  /\ \A j \in 1..Len(c.todo) : Range(c.todo[j].what) \subseteq Range(c.what) \cup {Moved}

HasSent(c) == \E i \in 1..Len(c.answers) : Sent(c.answers[i])

\* Its n handlers answer one by one; a call of the ToOne kind stops at the first
\* success.
Counted(n, c) ==
  /\ Len(c.answers) + Len(c.todo) <= SizeWith(n, c.op)
  /\ \/ Len(c.answers) + Len(c.todo) = SizeWith(n, c.op)
     \/ c.op \in ToOne /\ c.todo = <<>> /\ HasSent(c)
  /\ c.op \in ToOne /\ HasSent(c) => c.todo = <<>> /\ Sent(c.answers[Len(c.answers)])
  /\ \A i \in 1..Len(c.answers) :
       c.op \in ToOne /\ Sent(c.answers[i]) => i = Len(c.answers)
  /\ \A i \in 1..Len(c.answers) : c.answers[i] = "TryAgain" => c.type = "Immediate"

\* No handler has accepted a message, and no function was given one.
Quiet(c) == /\ ~HasSent(c) /\ c.done = 0
            /\ \A i \in 1..Len(c.answers) : c.answers[i] = "Failed" => c.type # "BlockUntilDone"

\* Whom each message reached.
Reach == [m \in Messages |-> Reached(m)]

\* Those of the handlers w of call c that have kept something, and the one whose
\* function has run for a part of what it was given.
Took(w, c) == {w[i] : i \in Keepers(c.answers, c.type)}
                \cup {c.todo[j].to : j \in {i \in {1} : c.at = "function" /\ c.done > 0}}

\* With r as Reach: the i-th message of call c reached somebody, or is offered to
\* all that are left.
Placed(r, c, i) == \/ r[c.what[i]] # {}
                   \/ \A j \in 1..Len(c.todo) : c.todo[j].what[i] = c.what[i]

Reaching(w, r, c) ==
  /\ \A i \in 1..Len(c.what) : Placed(r, c, i) /\ r[c.what[i]] \subseteq Took(w, c)
  /\ \A i \in 1..Len(c.what) :
       HasSent(c) \/ (c.at = "function" /\ i <= c.done) => r[c.what[i]] # {}
  /\ \A j \in 1..Len(c.todo) : c.todo[j].to = w[Len(c.answers) + j]

Told(w, t, k, c, r) ==
  /\ Own(t, k, c) /\ Counted(Len(w), c)
  /\ Quiet(c) => \A i \in 1..Len(c.what) : r[c.what[i]] = {}
  /\ c.op \in ToOne => Reaching(w, r, c)

AllTold == \A t \in Clients : call[t] # Idle =>
             Told(usage.writers, t, calls[t], call[t], Reach)

\* Messages come from calls made, and an answer is about an earlier call than
\* the one that runs.
Made == \A h \in Handlers : \A m \in (Range(taken[h]) \cup Range(ran[h])) \ {Moved} :
          m[2] <= calls[m[1]]

Results == \A t \in Clients : result[t].op # "none" =>
             \A m \in Range(result[t].what) :
               /\ m \in Messages /\ m[1] = t /\ m[2] <= calls[t]
               /\ call[t] # Idle => m[2] < calls[t]

ResultTypes == result \in [Clients -> {[op |-> "none"]} \cup
                 [op : Broadcasts \cup {"direct", "close", "closeAll"},
                  type : Types \cup {"none"}, what : Seq(Messages), answers : Seq(Answers),
                  answer : Answers \cup {"closed"}]]

\* With w as the writers and r as Reach: what the answer x to a call of the ToOne
\* kind says.
Kept1(w, x, r) ==
  /\ \A i \in 1..Len(x.answers) : Sent(x.answers[i]) => i = Len(x.answers)
  /\ \A m \in Range(x.what) : /\ r[m] \subseteq {w[i] : i \in Keepers(x.answers, x.type)}
                              /\ Sent(x.answer) => r[m] # {}

AllKept == \A t \in Clients : result[t].op \in ToOne => Kept1(usage.writers, result[t], Reach)

Answering == AllTold /\ Made /\ Results /\ ResultTypes /\ AllKept /\ RetryIsSafe

\* The operators of constants, applied to the state after a step.
LEMMA ToldAfter ==
  ASSUME \A t \in Clients : call'[t] # Idle =>
           Told(usage'.writers, t, calls'[t], call'[t], Reach')
  PROVE  AllTold'
  BY DEF AllTold, Told, Own, Counted, Quiet, Reaching, Placed, Took, Keepers, HasSent,
         Width, SizeWith, Sent, Range

\* A moved-from object is no message.
LEMMA MovedIsNoMessage == Moved \notin Messages
  BY DEF Moved, Messages

\* The messages of a call.
LEMMA OwnParts ==
  ASSUME NEW t \in Clients, NEW k, NEW c \in Calls, Own(t, k, c)
  PROVE  /\ Len(c.what) \in Nat /\ DOMAIN c.what = 1..Len(c.what)
         /\ \A i \in 1..Len(c.what) : /\ c.what[i] \in Messages /\ c.what[i] # Moved
                                      /\ c.what[i] = <<t, k, i>>
         /\ \A i, j \in 1..Len(c.what) : c.what[i] = c.what[j] => i = j
         /\ \A m \in Range(c.what) : /\ m \in Messages /\ m # Moved /\ m[1] = t /\ m[2] = k
                                     /\ \E i \in 1..Len(c.what) : m = c.what[i]
<1>1. c.what \in Seq(Messages) /\ Len(c.what) \in Nat /\ DOMAIN c.what = 1..Len(c.what)
  BY DEF Calls
<1>2. \A i \in 1..Len(c.what) : /\ c.what[i] \in Messages /\ c.what[i] # Moved
                                /\ c.what[i] = <<t, k, i>>
  BY <1>1, MovedIsNoMessage DEF Own
<1>3. \A i, j \in 1..Len(c.what) : c.what[i] = c.what[j] => i = j
  BY <1>2
<1>4. ASSUME NEW m \in Range(c.what)
      PROVE  /\ m \in Messages /\ m # Moved /\ m[1] = t /\ m[2] = k
             /\ \E i \in 1..Len(c.what) : m = c.what[i]
  <2>1. PICK i \in 1..Len(c.what) : m = c.what[i]
    BY <1>1 DEF Range
  <2> QED BY <1>2, <2>1
<1> QED BY <1>1, <1>2, <1>3, <1>4

\* An answer leaves the messages to the handlers that follow.
LEMMA OwnAnswered ==
  ASSUME NEW t, NEW k, NEW c \in Calls, c.todo # <<>>, NEW a \in Answers, Own(t, k, c),
         \A i \in 1..Len(c.todo) : Len(c.todo[i].what) = Width(c.op)
  PROVE  Own(t, k, AnsweredCall(c, a))
<1> DEFINE d == AnsweredCall(c, a)
           r == Tail(c.todo)
<1>1. /\ d.op = c.op /\ d.what = c.what
      /\ d.todo = (IF c.op \in ToOne /\ Sent(a) THEN <<>> ELSE r)
      /\ Len(r) = Len(c.todo) - 1 /\ \A i \in 1..Len(r) : r[i] = c.todo[i + 1]
  BY AnsweredCallParts
<1>2. Len(c.todo) \in Nat
  BY DEF Calls
<1> HIDE DEF d, r
<1>3. \A j \in 1..Len(d.todo) : Range(d.todo[j].what) \subseteq Range(c.what) \cup {Moved}
  <2>1. CASE d.todo = <<>>
    BY <2>1
  <2>2. CASE d.todo = r
    <3>1. ASSUME NEW j \in 1..Len(r) PROVE Range(r[j].what) \subseteq Range(c.what) \cup {Moved}
      <4>1. r[j] = c.todo[j + 1] /\ j + 1 \in 1..Len(c.todo)
        BY <1>1, <1>2
      <4> QED BY <4>1 DEF Own
    <3> QED BY <2>2, <3>1
  <2> QED BY <1>1, <2>1, <2>2
<1>4. Own(t, k, d)
  BY <1>1, <1>3 DEF Own
<1> QED BY <1>4 DEF d

\* The function leaves them, or moved-from objects.
LEMMA OwnRan ==
  ASSUME NEW t, NEW k, NEW c \in Calls, NEW m, NEW gone \in BOOLEAN, Own(t, k, c)
  PROVE  Own(t, k, RanCall(c, m, gone))
<1> DEFINE d == RanCall(c, m, gone)
           x == MovedFrom(c, m, gone)
<1>1. /\ d \in Calls /\ d.op = c.op /\ d.what = c.what /\ d.todo = x /\ Len(x) = Len(c.todo)
      /\ \A i \in 1..Len(c.todo) :
           /\ Len(x[i].what) = Len(c.todo[i].what)
           /\ \A j \in 1..Len(c.todo[i].what) : x[i].what[j] \in {Moved, c.todo[i].what[j]}
  <2>1. /\ d \in Calls /\ d.op = c.op /\ d.what = c.what /\ d.todo = x
        /\ Len(x) = Len(c.todo)
    BY RanCallParts
  <2>2. ASSUME NEW i \in 1..Len(c.todo)
        PROVE  /\ Len(x[i].what) = Len(c.todo[i].what)
               /\ \A j \in 1..Len(c.todo[i].what) : x[i].what[j] \in {Moved, c.todo[i].what[j]}
    <3>1. Len(x[i].what) = Len(c.todo[i].what)
      BY MovedShape
    <3>2. ASSUME NEW j \in 1..Len(c.todo[i].what)
          PROVE  x[i].what[j] \in {Moved, c.todo[i].what[j]}
      BY MovedParts
    <3> QED BY <3>1, <3>2
  <2> HIDE DEF d, x
  <2> QED BY <2>1, <2>2
<1> HIDE DEF d, x
<1>2. ASSUME NEW i \in 1..Len(d.todo) PROVE Range(d.todo[i].what) \subseteq Range(c.what) \cup {Moved}
  <2>1. /\ x[i].what \in Seq(Things) /\ c.todo[i].what \in Seq(Things)
    <3>1. x[i] \in Sends /\ c.todo[i] \in Sends
      BY <1>1, <1>2 DEF Calls
    <3> QED BY <3>1 DEF Sends
  <2>2. DOMAIN x[i].what = DOMAIN c.todo[i].what /\ DOMAIN c.todo[i].what = 1..Len(c.todo[i].what)
    BY <1>1, <2>1
  <2>3. Range(c.todo[i].what) \subseteq Range(c.what) \cup {Moved}
    BY <1>1 DEF Own
  <2>4. ASSUME NEW y \in Range(x[i].what) PROVE y \in Range(c.what) \cup {Moved}
    <3>1. PICK j \in 1..Len(c.todo[i].what) : y = x[i].what[j]
      BY <2>2, <2>4 DEF Range
    <3>2. y = Moved \/ y = c.todo[i].what[j]
      BY <1>1, <3>1
    <3>3. c.todo[i].what[j] \in Range(c.todo[i].what)
      BY <2>2 DEF Range
    <3> QED BY <2>3, <3>2, <3>3
  <2> QED BY <1>1, <2>4
<1>3. Own(t, k, d)
  BY <1>1, <1>2 DEF Own
<1> QED BY <1>3 DEF d

\* One answer more, one handler less.
LEMMA CountedAnswered ==
  ASSUME NEW n \in Nat, NEW c \in Calls, c.todo # <<>>, NEW a \in Answers, Counted(n, c),
         a = "TryAgain" => c.type = "Immediate",
         \A i \in 1..Len(c.todo) : Len(c.todo[i].what) = Width(c.op)
  PROVE  Counted(n, AnsweredCall(c, a))
<1> DEFINE d == AnsweredCall(c, a)
           r == Tail(c.todo)
           b == Append(c.answers, a)
<1>1. /\ d.op = c.op /\ d.type = c.type /\ d.answers = b
      /\ d.todo = (IF c.op \in ToOne /\ Sent(a) THEN <<>> ELSE r)
      /\ Len(r) = Len(c.todo) - 1
  BY AnsweredCallParts
<1>2. /\ Len(c.todo) \in Nat \ {0} /\ c.answers \in Seq(Answers) /\ Len(c.answers) \in Nat
  BY NowIsThere DEF Calls
<1>3. /\ b \in Seq(Answers) /\ Len(b) = Len(c.answers) + 1 /\ b[Len(c.answers) + 1] = a
      /\ \A i \in 1..Len(c.answers) : b[i] = c.answers[i]
  BY <1>2, AppendProperties
<1> HIDE DEF d, r, b
<1>4. /\ Len(c.answers) + Len(c.todo) = SizeWith(n, c.op) /\ SizeWith(n, c.op) \in Nat
      /\ \A i \in 1..Len(c.answers) : c.answers[i] = "TryAgain" => c.type = "Immediate"
  <2>1. SizeWith(n, c.op) \in Nat
    BY DEF SizeWith
  <2> QED BY <2>1 DEF Counted
<1>5. \A i \in 1..Len(b) : b[i] = "TryAgain" => c.type = "Immediate"
  <2>1. \A i \in 1..Len(b) : i = Len(c.answers) + 1 \/ i \in 1..Len(c.answers)
    BY <1>2, <1>3
  <2> QED BY <1>3, <1>4, <2>1
<1>6. c.op \in ToOne /\ HasSent(d) => Sent(a)
  <2> SUFFICES ASSUME c.op \in ToOne, HasSent(d) PROVE Sent(a)
    OBVIOUS
  <2>1. c.todo # <<>> /\ ~HasSent(c)
    BY DEF Counted
  <2>2. PICK i \in 1..Len(b) : Sent(b[i])
    BY <1>1 DEF HasSent
  <2>3. i \notin 1..Len(c.answers)
    BY <1>3, <2>1, <2>2 DEF HasSent
  <2>4. i = Len(c.answers) + 1
    BY <1>2, <1>3, <2>3
  <2> QED BY <1>3, <2>2, <2>4
<1>7. Len(b) = Len(c.answers) + 1 /\ b[Len(b)] = a
  BY <1>3
<1>10. \A i \in 1..Len(b) : c.op \in ToOne /\ Sent(b[i]) => i = Len(b)
  <2> SUFFICES ASSUME NEW i \in 1..Len(b), c.op \in ToOne, Sent(b[i]) PROVE i = Len(b)
    OBVIOUS
  <2>1. ~HasSent(c)
    BY DEF Counted
  <2>2. i \notin 1..Len(c.answers)
    BY <1>3, <2>1 DEF HasSent
  <2> QED BY <1>2, <1>3, <2>2
<1>8. CASE c.op \in ToOne /\ Sent(a)
  <2>1. d.todo = <<>> /\ Len(d.todo) = 0
    BY <1>1, <1>8
  <2>2. HasSent(d)
    <3>1. Len(c.answers) + 1 \in 1..Len(d.answers)
      BY <1>1, <1>2, <1>3
    <3> QED BY <1>1, <1>3, <1>8, <3>1 DEF HasSent
  <2>3. Len(d.answers) + Len(d.todo) <= SizeWith(n, d.op)
    <3> DEFINE z == Len(d.todo)
               y == Len(d.answers)
               x == Len(c.answers)
               e == Len(c.todo)
               S == SizeWith(n, c.op)
    <3>1. /\ z = 0 /\ y = x + 1 /\ SizeWith(n, d.op) = S
          /\ x \in Nat /\ e \in Nat \ {0} /\ x + e = S
      BY <1>1, <1>2, <1>3, <1>4, <2>1
    <3> HIDE DEF z, y, x, e, S
    <3>2. y + z <= S
      BY <3>1
    <3> QED BY <3>1, <3>2 DEF y, z
  <2>4. Counted(n, d)
    BY <1>1, <1>5, <1>8, <1>7, <1>10, <2>1, <2>2, <2>3 DEF Counted
  <2> QED BY <2>4 DEF d
<1>9. CASE ~(c.op \in ToOne /\ Sent(a))
  <2>1. d.todo = r /\ Len(d.answers) + Len(d.todo) = SizeWith(n, d.op)
    <3> DEFINE z == Len(d.todo)
               y == Len(d.answers)
               x == Len(c.answers)
               e == Len(c.todo)
               S == SizeWith(n, c.op)
    <3>1. /\ d.todo = r /\ z = e - 1 /\ y = x + 1 /\ SizeWith(n, d.op) = S
          /\ x \in Nat /\ e \in Nat \ {0} /\ x + e = S
      BY <1>1, <1>2, <1>3, <1>4, <1>9
    <3> HIDE DEF z, y, x, e, S
    <3>2. y + z = S
      BY <3>1
    <3> QED BY <3>1, <3>2 DEF y, z
  <2>2. Len(d.answers) + Len(d.todo) <= SizeWith(n, d.op)
    BY <1>1, <1>4, <2>1
  <2>3. Counted(n, d)
    BY <1>1, <1>5, <1>9, <1>6, <1>10, <2>1, <2>2 DEF Counted
  <2> QED BY <2>3 DEF d
<1> QED BY <1>8, <1>9

\* Whether a handler accepted something, with one answer more.
LEMMA SentAnswered ==
  ASSUME NEW c \in Calls, c.todo # <<>>, NEW a \in Answers,
         \A i \in 1..Len(c.todo) : Len(c.todo[i].what) = Width(c.op)
  PROVE  /\ HasSent(AnsweredCall(c, a)) <=> HasSent(c) \/ Sent(a)
         /\ Quiet(AnsweredCall(c, a)) =>
              /\ ~Sent(a) /\ ~(a = "Failed" /\ c.type = "BlockUntilDone")
              /\ c.done = 0 => Quiet(c)
<1> DEFINE d == AnsweredCall(c, a)
           b == Append(c.answers, a)
<1>1. d.answers = b /\ d.type = c.type
  BY AnsweredCallParts
<1>2. c.answers \in Seq(Answers) /\ Len(c.answers) \in Nat
  BY DEF Calls
<1>3. /\ b \in Seq(Answers) /\ Len(b) = Len(c.answers) + 1 /\ b[Len(c.answers) + 1] = a
      /\ \A i \in 1..Len(c.answers) : b[i] = c.answers[i]
  BY <1>2, AppendProperties
<1> HIDE DEF d, b
<1>4. /\ \A i \in 1..Len(b) : i = Len(c.answers) + 1 \/ i \in 1..Len(c.answers)
      /\ Len(c.answers) + 1 \in 1..Len(b)
      /\ \A i \in 1..Len(c.answers) : i \in 1..Len(b)
  BY <1>2, <1>3
<1>5. HasSent(d) <=> HasSent(c) \/ Sent(a)
  BY <1>1, <1>3, <1>4 DEF HasSent
<1>6. ASSUME Quiet(d)
      PROVE  /\ ~Sent(a) /\ ~(a = "Failed" /\ c.type = "BlockUntilDone")
             /\ c.done = 0 => Quiet(c)
  <2>1. ~HasSent(c) /\ ~Sent(a)
    BY <1>5, <1>6 DEF Quiet
  <2>2. \A i \in 1..Len(b) : b[i] = "Failed" => c.type # "BlockUntilDone"
    BY <1>1, <1>6 DEF Quiet
  <2>3. \A i \in 1..Len(c.answers) : c.answers[i] = "Failed" => c.type # "BlockUntilDone"
    BY <1>3, <1>4, <2>2
  <2>4. ~(a = "Failed" /\ c.type = "BlockUntilDone")
    BY <1>3, <1>4, <2>2
  <2> QED BY <2>1, <2>3, <2>4 DEF Quiet
<1> QED BY <1>5, <1>6 DEF d

\* What is true of a call stays so when its messages reach nobody else.
LEMMA ToldOthers ==
  ASSUME NEW w, NEW t, NEW k, NEW c, NEW r, NEW r2, Told(w, t, k, c, r),
         \A i \in 1..Len(c.what) : r2[c.what[i]] = r[c.what[i]]
  PROVE  Told(w, t, k, c, r2)
<1>1. \A i \in 1..Len(c.what) : Placed(r, c, i) => Placed(r2, c, i)
  BY DEF Placed
<1>2. Reaching(w, r, c) => Reaching(w, r2, c)
  BY <1>1 DEF Reaching
<1> QED BY <1>2 DEF Told

\* One answer more: its handler is a keeper if it is one that keeps.
LEMMA TookAnswered ==
  ASSUME NEW w, NEW c \in Calls, c.todo # <<>>, NEW a \in Answers,
         \A i \in 1..Len(c.todo) : Len(c.todo[i].what) = Width(c.op),
         \A j \in 1..Len(c.todo) : c.todo[j].to = w[Len(c.answers) + j]
  PROVE  /\ \A j \in 1..Len(AnsweredCall(c, a).todo) :
              AnsweredCall(c, a).todo[j].to = w[Len(AnsweredCall(c, a).answers) + j]
         /\ c.at # "function" \/ c.done = 0 => Took(w, c) \subseteq Took(w, AnsweredCall(c, a))
         /\ Sent(a) \/ (c.type = "BlockUntilDone" /\ a = "Failed") =>
              Took(w, c) \cup {c.todo[1].to} \subseteq Took(w, AnsweredCall(c, a))
<1> DEFINE d == AnsweredCall(c, a)
           b == Append(c.answers, a)
           r == Tail(c.todo)
           l == Len(c.answers)
           e == Len(c.todo)
<1>1. /\ d.type = c.type /\ d.answers = b /\ d.at = "outside"
      /\ d.todo = (IF c.op \in ToOne /\ Sent(a) THEN <<>> ELSE r)
      /\ Len(r) = e - 1 /\ \A i \in 1..Len(r) : r[i] = c.todo[i + 1]
  BY AnsweredCallParts
<1>2. /\ e \in Nat \ {0} /\ c.answers \in Seq(Answers) /\ l \in Nat
      /\ DOMAIN c.answers = 1..l
  BY NowIsThere DEF Calls
<1>3. /\ b \in Seq(Answers) /\ Len(b) = l + 1 /\ b[l + 1] = a
      /\ DOMAIN b = 1..(l + 1) /\ \A i \in 1..l : b[i] = c.answers[i]
  <2>1. /\ b \in Seq(Answers) /\ Len(b) = l + 1 /\ b[l + 1] = a
        /\ \A i \in 1..l : b[i] = c.answers[i]
    BY <1>2, AppendProperties
  <2> HIDE DEF b
  <2> QED BY <2>1
<1>4. \A j \in 1..e : c.todo[j].to = w[l + j]
  OBVIOUS
<1> HIDE DEF d, b, r, l, e
<1>5. ASSUME NEW j \in 1..Len(d.todo) PROVE d.todo[j].to = w[Len(d.answers) + j]
  <2>1. d.todo = r \/ Len(d.todo) = 0
    BY <1>1
  <2>2. Len(d.todo) = 0 => FALSE
    OBVIOUS
  <2>3. j \in 1..(e - 1) /\ d.todo[j] = c.todo[j + 1]
    BY <1>1, <2>1, <2>2
  <2>4. j + 1 \in 1..e /\ l + (j + 1) = (l + 1) + j
    BY <1>2, <2>3
  <2>5. c.todo[j + 1].to = w[l + (j + 1)]
    BY <1>4, <2>4
  <2> QED BY <1>1, <1>3, <2>3, <2>4, <2>5
<1>6. Keepers(c.answers, c.type) \subseteq Keepers(d.answers, d.type)
  <2>1. 1..l \subseteq 1..(l + 1)
    BY <1>2
  <2> QED BY <1>1, <1>2, <1>3, <2>1 DEF Keepers
<1>7. c.at # "function" \/ c.done = 0 => Took(w, c) \subseteq Took(w, d)
  <2>1. c.at # "function" \/ c.done = 0 => Took(w, c) = {w[i] : i \in Keepers(c.answers, c.type)}
    BY DEF Took
  <2>2. {w[i] : i \in Keepers(d.answers, d.type)} \subseteq Took(w, d)
    BY DEF Took
  <2> QED BY <1>6, <2>1, <2>2
<1>8. ASSUME Sent(a) \/ (c.type = "BlockUntilDone" /\ a = "Failed")
      PROVE  Took(w, c) \cup {c.todo[1].to} \subseteq Took(w, d)
  <2>1. l + 1 \in Keepers(d.answers, d.type)
    <3>1. l + 1 \in 1..(l + 1)
      BY <1>2
    <3> QED BY <1>1, <1>3, <1>8, <3>1 DEF Keepers
  <2>2. c.todo[1].to = w[l + 1]
    BY <1>2, <1>4
  <2>3. Took(w, c) \subseteq {w[i] : i \in Keepers(c.answers, c.type)} \cup {c.todo[1].to}
    BY DEF Took
  <2>4. {w[i] : i \in Keepers(d.answers, d.type)} \subseteq Took(w, d)
    BY DEF Took
  <2> QED BY <1>6, <2>1, <2>2, <2>3, <2>4
<1> QED BY <1>5, <1>7, <1>8 DEF d

\* A refusal, or a function that failed: whom the messages reached is the same.
LEMMA ToldRefused ==
  ASSUME NEW w \in Seq(Handlers), NEW t, NEW k, NEW c \in Calls, NEW r, NEW a \in Answers,
         c.todo # <<>>, \A i \in 1..Len(c.todo) : Len(c.todo[i].what) = Width(c.op),
         Told(w, t, k, c, r), ~Sent(a), a = "TryAgain" => c.type = "Immediate",
         c.done = 0 \/ (a = "Failed" /\ c.type = "BlockUntilDone")
  PROVE  Told(w, t, k, AnsweredCall(c, a), r)
<1> DEFINE d == AnsweredCall(c, a)
           n == Len(w)
<1>9. n \in Nat
  OBVIOUS
<1> HIDE DEF n
<1>1. /\ d.op = c.op /\ d.what = c.what /\ d.todo = Tail(c.todo) /\ d.at = "outside"
      /\ Len(Tail(c.todo)) = Len(c.todo) - 1
      /\ \A i \in 1..Len(Tail(c.todo)) : Tail(c.todo)[i] = c.todo[i + 1]
  BY AnsweredCallParts
<1>2. Own(t, k, d)
  <2>1. Own(t, k, c)
    BY DEF Told
  <2> QED BY <2>1, OwnAnswered
<1>3. Counted(n, d)
  <2>1. Counted(n, c)
    BY DEF Told, n
  <2> QED BY <1>9, <2>1, CountedAnswered
<1>4. /\ HasSent(d) <=> HasSent(c)
      /\ Quiet(d) => Quiet(c)
  <2>1. /\ HasSent(d) <=> HasSent(c) \/ Sent(a)
        /\ Quiet(d) => /\ ~Sent(a) /\ ~(a = "Failed" /\ c.type = "BlockUntilDone")
                       /\ c.done = 0 => Quiet(c)
    BY SentAnswered
  <2> HIDE DEF d
  <2> QED BY <2>1
<1>10. c.op \in ToOne =>
         /\ \A j \in 1..Len(d.todo) : d.todo[j].to = w[Len(d.answers) + j]
         /\ Took(w, c) \subseteq Took(w, d)
  <2> SUFFICES ASSUME c.op \in ToOne
               PROVE  /\ \A j \in 1..Len(d.todo) : d.todo[j].to = w[Len(d.answers) + j]
                      /\ Took(w, c) \subseteq Took(w, d)
    OBVIOUS
  <2>1. \A j \in 1..Len(c.todo) : c.todo[j].to = w[Len(c.answers) + j]
    BY DEF Told, Reaching
  <2> QED BY <2>1, TookAnswered
<1> HIDE DEF d
<1>5. Len(c.todo) \in Nat \ {0}
  BY NowIsThere
<1>6. \A i \in 1..Len(d.todo) : i + 1 \in 1..Len(c.todo) /\ d.todo[i] = c.todo[i + 1]
  BY <1>1, <1>5
<1>7. c.op \in ToOne => Reaching(w, r, d)
  <2> SUFFICES ASSUME c.op \in ToOne PROVE Reaching(w, r, d)
    OBVIOUS
  <2>1. Reaching(w, r, c)
    BY DEF Told
  <2>2. \A i \in 1..Len(c.what) : Placed(r, c, i) => Placed(r, d, i)
    BY <1>1, <1>6 DEF Placed
  <2>3. ~HasSent(c)
    BY DEF Told, Counted
  <2>4. d.at # "function" /\ ~HasSent(d)
    BY <1>1, <1>4, <2>3
  <2> QED BY <1>1, <1>10, <2>1, <2>2, <2>4 DEF Reaching
<1>8. Told(w, t, k, d, r)
  BY <1>1, <1>2, <1>3, <1>4, <1>7 DEF Told, n
<1> QED BY <1>8 DEF d

\* A handler that accepted what it was sent.
LEMMA ToldSent ==
  ASSUME NEW w \in Seq(Handlers), NEW t, NEW k, NEW c \in Calls, NEW r, NEW a \in Answers,
         c.todo # <<>>, \A i \in 1..Len(c.todo) : Len(c.todo[i].what) = Width(c.op),
         Own(t, k, c), Counted(Len(w), c), Sent(a),
         c.op \in ToOne =>
           /\ \A i \in 1..Len(c.what) :
                r[c.what[i]] # {} /\ r[c.what[i]] \subseteq Took(w, c) \cup {c.todo[1].to}
           /\ \A j \in 1..Len(c.todo) : c.todo[j].to = w[Len(c.answers) + j]
  PROVE  Told(w, t, k, AnsweredCall(c, a), r)
<1> DEFINE d == AnsweredCall(c, a)
           n == Len(w)
<1>7. n \in Nat /\ Counted(n, c)
  OBVIOUS
<1> HIDE DEF n
<1>1. /\ d.op = c.op /\ d.what = c.what /\ d.at = "outside"
      /\ c.op \in ToOne => d.todo = <<>>
  BY AnsweredCallParts
<1>2. Own(t, k, d)
  BY OwnAnswered
<1>3. Counted(n, d)
  <2>1. a # "TryAgain"
    BY DEF Sent
  <2> QED BY <1>7, <2>1, CountedAnswered
<1>4. HasSent(d) /\ ~Quiet(d)
  BY SentAnswered
<1>8. c.op \in ToOne =>
         /\ \A j \in 1..Len(d.todo) : d.todo[j].to = w[Len(d.answers) + j]
         /\ Took(w, c) \cup {c.todo[1].to} \subseteq Took(w, d)
  BY TookAnswered
<1> HIDE DEF d
<1>5. c.op \in ToOne => Reaching(w, r, d)
  <2> SUFFICES ASSUME c.op \in ToOne PROVE Reaching(w, r, d)
    OBVIOUS
  <2>1. \A i \in 1..Len(d.what) : r[d.what[i]] # {} /\ r[d.what[i]] \subseteq Took(w, d)
    BY <1>1, <1>8
  <2>2. \A i \in 1..Len(d.what) : Placed(r, d, i)
    BY <2>1 DEF Placed
  <2> QED BY <1>8, <2>1, <2>2 DEF Reaching
<1>6. Told(w, t, k, d, r)
  BY <1>1, <1>2, <1>3, <1>4, <1>5 DEF Told, n
<1> QED BY <1>6 DEF d

\* A call that waits in its handler, or is in its function.
LEMMA ToldPlaced ==
  ASSUME NEW w, NEW t, NEW k, NEW c \in Calls, NEW r, NEW at \in {"blocked", "function"},
         c.done = 0, Told(w, t, k, c, r)
  PROVE  Told(w, t, k, PlacedCall(c, at), r)
<1> DEFINE d == PlacedCall(c, at)
<1>1. /\ d.op = c.op /\ d.type = c.type /\ d.what = c.what /\ d.answers = c.answers
      /\ d.done = 0 /\ d.todo = c.todo
  BY PlacedCallParts
<1> HIDE DEF d
<1>2. Own(t, k, d) /\ Counted(Len(w), d)
  BY <1>1 DEF Told, Own, Counted, HasSent
<1>3. (HasSent(d) <=> HasSent(c)) /\ (Quiet(d) => Quiet(c))
  BY <1>1 DEF HasSent, Quiet
<1>4. c.op \in ToOne => Reaching(w, r, d)
  <2> SUFFICES ASSUME c.op \in ToOne PROVE Reaching(w, r, d)
    OBVIOUS
  <2>1. Reaching(w, r, c)
    BY DEF Told
  <2>2. \A i \in 1..Len(c.what) : Placed(r, c, i) => Placed(r, d, i)
    BY <1>1 DEF Placed
  <2>3. \A i \in 1..Len(c.what) : ~(i <= d.done)
    BY <1>1
  <2>4. Took(w, d) = Took(w, c)
    BY <1>1 DEF Took
  <2> QED BY <1>1, <1>3, <2>1, <2>2, <2>3, <2>4 DEF Reaching
<1>5. Told(w, t, k, d, r)
  BY <1>1, <1>2, <1>3, <1>4 DEF Told
<1> QED BY <1>5 DEF d

\* Message m reached h as well, if it is one of those in M.
Grown(r, r2, M, h) == \A m \in Messages : /\ m \in M => r2[m] = r[m] \cup {h}
                                          /\ m \notin M => r2[m] = r[m]

\* A call of the ToOne kind is given to a handler whole.
LEMMA GivenToOne ==
  ASSUME NEW w, NEW t \in Clients, NEW k, NEW c \in Calls, NEW r, NEW r2,
         c.todo # <<>>, \A i \in 1..Len(c.todo) : Len(c.todo[i].what) = Width(c.op),
         Own(t, k, c), c.op \in ToOne, Reaching(w, r, c),
         Grown(r, r2, Range(c.todo[1].what), c.todo[1].to)
  PROVE  \A i \in 1..Len(c.what) :
           r2[c.what[i]] # {} /\ r2[c.what[i]] \subseteq Took(w, c) \cup {c.todo[1].to}
<1> SUFFICES ASSUME NEW i \in 1..Len(c.what)
             PROVE  r2[c.what[i]] # {} /\ r2[c.what[i]] \subseteq Took(w, c) \cup {c.todo[1].to}
  OBVIOUS
<1> DEFINE v == c.todo[1].what
<1>1. /\ Len(c.what) = Width(c.op) /\ 1 \in 1..Len(c.todo) /\ Len(v) = Width(c.op)
      /\ v \in Seq(Things)
  <2>1. c.op # "sendMessages"
    BY DEF ToOne
  <2> QED BY <2>1, NowIsThere DEF Own
<1>2. DOMAIN v = 1..Len(c.what)
  BY <1>1
<1>3. /\ c.what[i] \in Messages /\ Placed(r, c, i) /\ r[c.what[i]] \subseteq Took(w, c)
  BY OwnParts DEF Reaching
<1>4. \/ r2[c.what[i]] = r[c.what[i]]
      \/ r2[c.what[i]] = r[c.what[i]] \cup {c.todo[1].to}
  BY <1>3 DEF Grown
<1>5. r2[c.what[i]] # {}
  <2>1. CASE r[c.what[i]] # {}
    BY <1>4, <2>1
  <2>2. CASE v[i] = c.what[i]
    <3>1. c.what[i] \in Range(v)
      BY <1>2, <2>2 DEF Range
    <3>2. r2[c.what[i]] = r[c.what[i]] \cup {c.todo[1].to}
      BY <1>3, <3>1 DEF Grown
    <3> QED BY <3>2
  <2> QED BY <1>1, <1>3, <2>1, <2>2 DEF Placed
<1> QED BY <1>3, <1>4, <1>5

\* Once the function ran for message m, the next of its vector.
LEMMA ToldRan ==
  ASSUME NEW w, NEW t \in Clients, NEW k, NEW c \in Calls, NEW r, NEW r2,
         NEW m, NEW gone \in BOOLEAN, Shape(c), c.at = "function",
         m = c.todo[1].what[c.done + 1], Told(w, t, k, c, r),
         Grown(r, r2, {m}, c.todo[1].to)
  PROVE  Told(w, t, k, RanCall(c, m, gone), r2)
<1> DEFINE d == RanCall(c, m, gone)
           x == MovedFrom(c, m, gone)
           h == c.todo[1].to
<1>1. /\ d.op = c.op /\ d.type = c.type /\ d.what = c.what /\ d.answers = c.answers
      /\ d.at = c.at /\ d.done = c.done + 1 /\ d.todo = x /\ Len(x) = Len(c.todo)
  BY RanCallParts
<1>2. ASSUME NEW i \in 1..Len(c.todo), NEW j \in 1..Len(c.todo[i].what)
      PROVE  c.todo[i].what[j] # m => x[i].what[j] = c.todo[i].what[j]
  <2>1. ~(gone /\ c.op \in ToOne /\ c.todo[i].what[j] = m) => x[i].what[j] = c.todo[i].what[j]
    <3>1. ~(gone /\ c.op \in ToOne /\ c.todo[i].what[j] = m) =>
            MovedFrom(c, m, gone)[i].what[j] = c.todo[i].what[j]
      BY MovedParts, ZenonT(40)
    <3> QED BY <3>1
  <2> QED BY <2>1
<1>3. Own(t, k, c) /\ Own(t, k, d)
  BY OwnRan DEF Told
<1>10. \A i \in 1..Len(c.todo) : x[i].to = c.todo[i].to
  BY MovedShape
<1> HIDE DEF d, x, h
<1>4. x = <<>> <=> c.todo = <<>>
  <2>1. x \in Seq(Sends) /\ c.todo \in Seq(Sends)
    <3>1. d \in Calls
      BY RanCallParts DEF d
    <3> QED BY <1>1, <3>1 DEF Calls
  <2> QED BY <1>1, <2>1, EmptySeq
<1>5. Counted(Len(w), d)
  BY <1>1, <1>4 DEF Told, Counted, HasSent
<1>6. c.done \in Nat /\ c.done < Width(c.op) /\ c.todo # <<>> /\ 1 \in 1..Len(c.todo)
      /\ \A i \in 1..Len(c.todo) : Len(c.todo[i].what) = Width(c.op)
  BY NowIsThere DEF Shape, Calls
<1>7. ~Quiet(d)
  BY <1>1, <1>6 DEF Quiet
<1>8. c.op \in ToOne => Reaching(w, r2, d)
  <2> SUFFICES ASSUME c.op \in ToOne PROVE Reaching(w, r2, d)
    OBVIOUS
  <2> DEFINE p == c.done + 1
  <2>1. /\ Len(c.what) = Width(c.op) /\ p \in 1..Len(c.what)
    <3>1. c.op # "sendMessages"
      BY DEF ToOne
    <3>2. Width(c.op) \in Nat
      BY DEF Width
    <3> QED BY <1>3, <1>6, <3>1, <3>2 DEF Own
  <2>2. /\ \A i \in 1..Len(c.what) : Placed(r, c, i) /\ r[c.what[i]] \subseteq Took(w, c)
        /\ \A i \in 1..Len(c.what) : i <= c.done => r[c.what[i]] # {}
        /\ \A j \in 1..Len(c.todo) : c.todo[j].to = w[Len(c.answers) + j]
        /\ ~HasSent(c)
    BY <1>6 DEF Told, Reaching, Counted
  <2>3. /\ \A j \in 1..Len(c.what) : c.what[j] \in Messages
    BY <1>3, OwnParts
  <2>4. m = c.todo[1].what[p]
    OBVIOUS
  <2>5. Took(w, c) \cup {h} \subseteq Took(w, d)
    <3>1. d.at = "function" /\ d.done > 0 /\ d.todo[1].to = h
      BY <1>1, <1>6, <1>10 DEF h
    <3>2. Took(w, d) = {w[i] : i \in Keepers(d.answers, d.type)} \cup {h}
      BY <3>1 DEF Took
    <3>3. Took(w, c) \subseteq {w[i] : i \in Keepers(c.answers, c.type)} \cup {h}
      BY DEF Took, h
    <3> QED BY <1>1, <3>2, <3>3
  <2>6. \A i \in 1..Len(c.what) : \/ r2[c.what[i]] = r[c.what[i]]
                                  \/ r2[c.what[i]] = r[c.what[i]] \cup {h}
    BY <2>3 DEF Grown, h
  <2>7. \A i \in 1..Len(c.what) : c.what[i] = m => r2[c.what[i]] # {}
    <3> SUFFICES ASSUME NEW i \in 1..Len(c.what), c.what[i] = m PROVE r2[c.what[i]] # {}
      OBVIOUS
    <3>1. r2[m] = r[m] \cup {h}
      BY <2>3 DEF Grown, h
    <3> QED BY <3>1
  <2> HIDE DEF p
  <2>8. ASSUME NEW i \in 1..Len(c.what) PROVE Placed(r2, d, i)
    <3>1. CASE r[c.what[i]] # {}
      BY <1>1, <2>6, <3>1 DEF Placed
    <3>2. CASE c.what[i] = m
      BY <1>1, <2>7, <3>2 DEF Placed
    <3>3. CASE c.what[i] # m /\ \A j \in 1..Len(c.todo) : c.todo[j].what[i] = c.what[i]
      <4> SUFFICES ASSUME NEW j \in 1..Len(c.todo) PROVE x[j].what[i] = c.what[i]
        BY <1>1 DEF Placed
      <4>1. c.todo[j].what[i] = c.what[i] /\ i \in 1..Len(c.todo[j].what)
        BY <1>6, <2>1, <3>3
      <4> QED BY <1>2, <3>3, <4>1
    <3> QED BY <2>2, <3>1, <3>2, <3>3 DEF Placed
  <2>9. ASSUME NEW i \in 1..Len(c.what), i <= d.done PROVE r2[c.what[i]] # {}
    <3>1. i = p \/ i <= c.done
      BY <1>1, <1>6, <2>9 DEF p
    <3>2. CASE r[c.what[i]] # {}
      BY <2>6, <3>2
    <3>3. CASE i = p /\ r[c.what[i]] = {}
      <4>1. c.todo[1].what[i] = c.what[i]
        BY <1>6, <2>2, <3>3 DEF Placed
      <4> QED BY <2>4, <2>7, <3>3, <4>1
    <3> QED BY <2>2, <3>1, <3>2, <3>3
  <2>10. \A i \in 1..Len(c.what) : r2[c.what[i]] \subseteq Took(w, d)
    BY <2>2, <2>5, <2>6
  <2>11. ~HasSent(d)
    BY <1>1, <2>2 DEF HasSent
  <2>12. \A j \in 1..Len(d.todo) : d.todo[j].to = w[Len(d.answers) + j]
    BY <1>1, <1>10, <2>2
  <2> QED BY <1>1, <2>8, <2>9, <2>10, <2>11, <2>12 DEF Reaching
<1>9. Told(w, t, k, d, r2)
  BY <1>1, <1>3, <1>5, <1>7, <1>8 DEF Told
<1> QED BY <1>9 DEF d

\* A function that ran for a whole vector handed it over whole.
LEMMA RanForAll ==
  ASSUME NEW w, NEW c \in Calls, NEW r, NEW t, NEW k, Own(t, k, c), c.todo # <<>>,
         c.op \in ToOne, Reaching(w, r, c), c.at = "function", c.done = Width(c.op)
  PROVE  \A i \in 1..Len(c.what) :
           r[c.what[i]] # {} /\ r[c.what[i]] \subseteq Took(w, c) \cup {c.todo[1].to}
<1>1. c.op # "sendMessages" /\ Width(c.op) \in Nat
  BY DEF ToOne, Width
<1>2. \A i \in 1..Len(c.what) : i <= c.done
  BY <1>1 DEF Own
<1> QED BY <1>2 DEF Reaching

\* All that handler h was given, in its queue or in its function.
Got(h) == Range(taken[h]) \cup Range(ran[h])

\* The messages M reach h.
LEMMA GrownBy ==
  ASSUME CallTypes, Made, NEW t \in Clients, NEW h \in Handlers, NEW M, UNCHANGED calls,
         \A m \in M : m = Moved \/ (m \in Messages /\ m[1] = t /\ m[2] = calls[t]),
         Got(h)' = Got(h) \cup M,
         \A g \in Handlers : g # h => Got(g)' = Got(g)
  PROVE  Grown(Reach, Reach', M, h) /\ Made'
<1>1. ASSUME NEW m \in Messages
      PROVE  /\ m \in M => Reach'[m] = Reach[m] \cup {h}
             /\ m \notin M => Reach'[m] = Reach[m]
  <2>1. Reach[m] = {g \in Handlers : m \in Got(g)} /\ Reach'[m] = {g \in Handlers : m \in Got(g)'}
    BY DEF Reach, Reached, Got
  <2>2. \A g \in Handlers : m \in Got(g)' <=> m \in Got(g) \/ (g = h /\ m \in M)
    OBVIOUS
  <2> HIDE DEF Got
  <2>3. ASSUME m \in M PROVE Reach'[m] = Reach[m] \cup {h}
    BY <2>1, <2>2, <2>3
  <2>4. ASSUME m \notin M PROVE Reach'[m] = Reach[m]
    BY <2>1, <2>2, <2>4
  <2> QED BY <2>3, <2>4
<1>2. Made'
  <2>1. \A g \in Handlers : \A m \in Got(g) \ {Moved} : m[2] <= calls[m[1]]
    BY DEF Made, Got
  <2>2. calls[t] <= calls[t]
    BY HandlersAssumption DEF CallTypes
  <2>3. ASSUME NEW g \in Handlers, NEW m \in Got(g)', m # Moved PROVE m[2] <= calls'[m[1]]
    <3>1. m \in Got(g) \/ m \in M
      BY <2>3
    <3>2. calls' = calls
      OBVIOUS
    <3> QED BY <2>1, <2>2, <2>3, <3>1, <3>2
  <2> QED BY <2>3 DEF Made, Got
<1> QED BY <1>1, <1>2 DEF Grown

\* What clients were answered stays true when the messages M of a call that
\* runs reach somebody.
LEMMA AnswersStay ==
  ASSUME Typed, Answering, NEW t \in Clients, NEW h \in Handlers, NEW M, call[t] # Idle,
         \A m \in M : m = Moved \/ (m \in Messages /\ m[1] = t /\ m[2] = calls[t]),
         Grown(Reach, Reach', M, h), UNCHANGED <<usage, result, calls>>,
         \A u \in Clients : call'[u] # Idle => call[u] # Idle
  PROVE  Results' /\ ResultTypes' /\ AllKept' /\ RetryIsSafe'
<1>1. Results'
  BY DEF Answering, Results
<1>2. ResultTypes'
  BY DEF Answering, ResultTypes
<1>3. ASSUME NEW u \in Clients, result[u].op # "none", NEW m \in Range(result[u].what)
      PROVE  Reached(m)' = Reached(m) /\ Reach'[m] = Reach[m]
  <2>1. /\ m \in Messages /\ m[1] = u /\ (call[u] # Idle => m[2] < calls[u])
    BY <1>3 DEF Answering, Results
  <2>2. calls[t] \in Int
    BY HandlersAssumption DEF Typed, CallTypes
  <2>3. m \notin M
    BY <2>1, <2>2, MovedIsNoMessage
  <2>4. Reach'[m] = Reach[m]
    BY <2>1, <2>3 DEF Grown
  <2> QED BY <2>1, <2>4 DEF Reach
<1>4. \A u \in Clients : result[u].op \in ToOne => result[u].op # "none"
  BY DEF ToOne
<1>5. AllKept'
  <2>1. ASSUME NEW u \in Clients, result[u].op \in ToOne
        PROVE  Kept1(usage.writers, result[u], Reach')
    <3>1. \A m \in Range(result[u].what) : Reach'[m] = Reach[m]
      BY <1>3, <1>4, <2>1
    <3>2. Kept1(usage.writers, result[u], Reach)
      BY <2>1 DEF Answering, AllKept
    <3> QED BY <3>1, <3>2 DEF Kept1
  <2> QED BY <2>1 DEF AllKept, Kept1, Keepers, Sent, Range
<1>6. RetryIsSafe'
  <2> SUFFICES ASSUME NEW u \in Clients, result[u].op # "none", result[u].op # "sendMessages",
                      result[u].answer \in {"TryAgain", "Unsupported", "AtomicImpossible"},
                      NEW m \in Range(result[u].what)
               PROVE  Reached(m)' = {}
    BY DEF RetryIsSafe, Range
  <2>1. Reached(m) = {}
    BY DEF Answering, RetryIsSafe
  <2> QED BY <1>3, <2>1
<1> QED BY <1>1, <1>2, <1>5, <1>6

\* A step of a call that gives the messages M to handler h.
LEMMA AnsweringGiven ==
  ASSUME Typed, Answering, NEW t \in Clients, NEW h \in Handlers, NEW M, NEW d \in Calls,
         call[t] # Idle, call' = [call EXCEPT ![t] = d], UNCHANGED <<usage, result, calls>>,
         \A m \in M : m = Moved \/ (m \in Messages /\ m[1] = t /\ m[2] = calls[t]),
         Got(h)' = Got(h) \cup M,
         \A g \in Handlers : g # h => Got(g)' = Got(g),
         Grown(Reach, Reach', M, h) =>
           Told(usage.writers, t, calls[t], d, Reach')
  PROVE  Answering'
<1>1. Grown(Reach, Reach', M, h) /\ Made'
  BY GrownBy DEF Typed, Answering
<1>2. ASSUME NEW u \in Clients, call'[u] # Idle
      PROVE  Told(usage'.writers, u, calls'[u], call'[u], Reach')
  <2>1. CASE u = t
    <3>1. call'[u] = d
      BY <2>1 DEF Typed, CallTypes
    <3> QED BY <1>1, <2>1, <3>1
  <2>2. CASE u # t
    <3> DEFINE c == call[u]
    <3>1. call'[u] = c /\ c # Idle
      BY <1>2, <2>2 DEF Typed, CallTypes
    <3>2. c \in Calls /\ Told(usage.writers, u, calls[u], c, Reach)
      BY <3>1, BusyCalls DEF Typed, Answering, AllTold
    <3> HIDE DEF c
    <3>3. \A i \in 1..Len(c.what) : c.what[i] \in Messages /\ c.what[i] # Moved
                                    /\ c.what[i][1] = u
      BY <3>2, OwnParts DEF Told
    <3>4. \A i \in 1..Len(c.what) : Reach'[c.what[i]] = Reach[c.what[i]]
      BY <1>1, <2>2, <3>3 DEF Grown
    <3>5. Told(usage.writers, u, calls[u], c, Reach')
      BY <3>2, <3>4, ToldOthers
    <3> QED BY <3>1, <3>5
  <2> QED BY <2>1, <2>2
<1>3. AllTold'
  BY <1>2, ToldAfter
<1>4. \A u \in Clients : call'[u] # Idle => call[u] # Idle
  BY DEF Typed, CallTypes
<1>5. Results' /\ ResultTypes' /\ AllKept' /\ RetryIsSafe'
  BY <1>1, <1>4, AnswersStay
<1> QED BY <1>1, <1>3, <1>5 DEF Answering

\* A step of a call that gives nothing to anybody.
LEMMA AnsweringSame ==
  ASSUME Typed, Answering, NEW t \in Clients, NEW d \in Calls, NEW h \in Handlers,
         call[t] # Idle, call' = [call EXCEPT ![t] = d],
         UNCHANGED <<usage, result, calls, taken, ran>>,
         Told(usage.writers, t, calls[t], d, Reach)
  PROVE  Answering'
<1> DEFINE M == {}
<1>1. Got(h)' = Got(h) \cup M /\ \A g \in Handlers : g # h => Got(g)' = Got(g)
  BY DEF Got
<1>2. Reach' = Reach
  BY DEF Reach, Reached
<1>3. Told(usage.writers, t, calls[t], d, Reach')
  BY <1>2
<1>4. \A m \in M : m = Moved \/ (m \in Messages /\ m[1] = t /\ m[2] = calls[t])
  OBVIOUS
<1> HIDE DEF M
<1> QED BY <1>1, <1>3, <1>4, AnsweringGiven

\* Nothing that answers are about changes.
LEMMA AnsweringUnchanged ==
  ASSUME Answering, UNCHANGED <<usage, call, calls, result, taken, ran>>
  PROVE  Answering'
<1>1. Reach' = Reach
  BY DEF Reach, Reached
<1>2. AllTold'
  <2>1. \A t \in Clients : call'[t] # Idle =>
          Told(usage'.writers, t, calls'[t], call'[t], Reach')
    BY <1>1 DEF Answering, AllTold
  <2> QED BY <2>1, ToldAfter
<1>3. Made' /\ Results' /\ ResultTypes'
  BY DEF Answering, Made, Results, ResultTypes
<1>4. RetryIsSafe'
  BY DEF Answering, RetryIsSafe, Reached
<1>5. AllKept'
  <2>1. \A t \in Clients : result[t].op \in ToOne => Kept1(usage.writers, result[t], Reach')
    BY <1>1 DEF Answering, AllKept
  <2> QED BY <2>1 DEF AllKept, Kept1, Keepers, Sent, Range
<1> QED BY <1>2, <1>3, <1>4, <1>5 DEF Answering

\* The call at a handler, and what is known of it.
LEMMA AnsweringParts ==
  ASSUME Typed, Answering, NEW t \in Clients, NEW h, At(t, h)
  PROVE  /\ call[t] # Idle /\ call[t] \in Calls /\ Shape(call[t]) /\ h \in Handlers
         /\ call[t].todo # <<>> /\ Now(call[t]) = call[t].todo[1] /\ 1 \in 1..Len(call[t].todo)
         /\ \A i \in 1..Len(call[t].todo) : Len(call[t].todo[i].what) = Width(call[t].op)
         /\ call[t].at # "function" => call[t].done = 0
         /\ Told(usage.writers, t, calls[t], call[t], Reach)
         /\ Own(t, calls[t], call[t]) /\ Counted(Len(usage.writers), call[t])
         /\ usage.writers \in Seq(Handlers) /\ call[t].todo[1].to = h
         /\ \A m \in Range(call[t].todo[1].what) :
              m = Moved \/ (m \in Messages /\ m[1] = t /\ m[2] = calls[t])
<1> DEFINE c == call[t]
<1>1. /\ c # Idle /\ c \in Calls /\ Shape(c) /\ h \in Handlers /\ c.todo # <<>>
      /\ Now(c) = c.todo[1] /\ 1 \in 1..Len(c.todo)
  BY HandlerParts, NowIsThere DEF At
<1>2. Told(usage.writers, t, calls[t], c, Reach)
  BY <1>1 DEF Answering, AllTold
<1>3. usage.writers \in Seq(Handlers)
  BY DEF Typed, Usage
<1>8. c.todo[1].to = h
  BY <1>1 DEF At
<1> HIDE DEF c
<1>4. Own(t, calls[t], c) /\ Counted(Len(usage.writers), c)
  BY <1>2 DEF Told
<1>5. /\ \A i \in 1..Len(c.todo) : Len(c.todo[i].what) = Width(c.op)
      /\ c.at # "function" => c.done = 0
  BY <1>1 DEF Shape
<1>6. \A m \in Range(c.what) : m \in Messages /\ m[1] = t /\ m[2] = calls[t]
  BY <1>1, <1>4, OwnParts
<1>7. Range(c.todo[1].what) \subseteq Range(c.what) \cup {Moved}
  BY <1>1, <1>4 DEF Own
<1> QED BY <1>1, <1>2, <1>3, <1>4, <1>5, <1>6, <1>7, <1>8 DEF c

\* A handler accepts.
LEMMA PutsAnswering ==
  ASSUME Typed, Answering, NEW t \in Clients, NEW h \in Handlers, NEW n \in Nat, Puts(t, h, n)
  PROVE  Answering'
<1> DEFINE c == call[t]
           s == Now(c).what
           M == Range(s)
           a == IF n > 0 THEN "SuccessLostData" ELSE "Success"
           d == AnsweredCall(c, a)
<1>1. At(t, h) /\ AnswerTo(t, c, a) /\ UNCHANGED <<usage, result, calls, ran>>
  BY DEF Puts
<1>2. a \in Answers /\ Sent(a)
  BY DEF Answers, Sent
<1>3. taken' = [taken EXCEPT ![h] = @ \o s]
  BY DEF Puts
<1>4. /\ c # Idle /\ c \in Calls /\ c.todo # <<>> /\ Now(c) = c.todo[1]
      /\ \A i \in 1..Len(c.todo) : Len(c.todo[i].what) = Width(c.op)
      /\ Told(usage.writers, t, calls[t], c, Reach)
      /\ Own(t, calls[t], c) /\ Counted(Len(usage.writers), c)
      /\ usage.writers \in Seq(Handlers) /\ c.todo[1].to = h
      /\ \A m \in Range(c.todo[1].what) :
           m = Moved \/ (m \in Messages /\ m[1] = t /\ m[2] = calls[t])
  BY <1>1, AnsweringParts
<1>5. s \in Seq(Things) /\ taken[h] \in Seq(Things)
  BY <1>1, HandlerParts DEF Typed, HistoryTypes
<1>6. call' = [call EXCEPT ![t] = d]
  BY <1>1, AnswerToIs
<1> HIDE DEF a, s
<1>7. d \in Calls
  BY <1>2, <1>4, AnsweredCallParts
<1>8. /\ Range(taken'[h]) = Range(taken[h]) \cup Range(s)
      /\ \A g \in Handlers : g # h => taken'[g] = taken[g]
  <2>1. /\ taken'[h] = taken[h] \o s /\ \A g \in Handlers : g # h => taken'[g] = taken[g]
    BY <1>3 DEF Typed, HistoryTypes
  <2> QED BY <1>5, <2>1, ConcatRange
<1>9. Got(h)' = Got(h) \cup M /\ \A g \in Handlers : g # h => Got(g)' = Got(g)
  BY <1>1, <1>8 DEF Got
<1>10. ASSUME Grown(Reach, Reach', M, h)
       PROVE  Told(usage.writers, t, calls[t], d, Reach')
  <2> DEFINE W == usage.writers
  <2>1. c.op \in ToOne =>
          /\ \A i \in 1..Len(c.what) : /\ Reach'[c.what[i]] # {}
                                       /\ Reach'[c.what[i]] \subseteq Took(W, c) \cup {c.todo[1].to}
          /\ \A j \in 1..Len(c.todo) : c.todo[j].to = W[Len(c.answers) + j]
    <3> SUFFICES ASSUME c.op \in ToOne
                 PROVE  /\ \A i \in 1..Len(c.what) :
                             /\ Reach'[c.what[i]] # {}
                             /\ Reach'[c.what[i]] \subseteq Took(W, c) \cup {c.todo[1].to}
                        /\ \A j \in 1..Len(c.todo) : c.todo[j].to = W[Len(c.answers) + j]
      OBVIOUS
    <3>1. Reaching(W, Reach, c)
      BY <1>4 DEF Told
    <3>2. Grown(Reach, Reach', Range(c.todo[1].what), c.todo[1].to)
      BY <1>4, <1>10 DEF s
    <3>3. /\ c \in Calls /\ c.todo # <<>> /\ Own(t, calls[t], c)
          /\ \A i \in 1..Len(c.todo) : Len(c.todo[i].what) = Width(c.op)
      BY <1>4
    <3> DEFINE k == calls[t]
    <3> HIDE DEF c, k
    <3>4. Own(t, k, c)
      BY <3>3 DEF k
    <3> DEFINE r == Reach
               r2 == Reach'
    <3> HIDE DEF r, r2, W
    <3>5. Reaching(W, r, c) /\ Grown(r, r2, Range(c.todo[1].what), c.todo[1].to)
      BY <3>1, <3>2 DEF r, r2
    <3>6. \A i \in 1..Len(c.what) :
            r2[c.what[i]] # {} /\ r2[c.what[i]] \subseteq Took(W, c) \cup {c.todo[1].to}
      <4>1. \A v, y, z : Reaching(v, y, c) /\ Grown(y, z, Range(c.todo[1].what), c.todo[1].to) =>
              \A i \in 1..Len(c.what) :
                z[c.what[i]] # {} /\ z[c.what[i]] \subseteq Took(v, c) \cup {c.todo[1].to}
        BY <3>3, <3>4, GivenToOne
      <4> QED BY <3>5, <4>1, ZenonT(60)
    <3>7. \A j \in 1..Len(c.todo) : c.todo[j].to = W[Len(c.answers) + j]
      BY <3>5 DEF Reaching
    <3> QED BY <3>6, <3>7 DEF r2
  <2> HIDE DEF c
  <2>2. W \in Seq(Handlers) /\ Counted(Len(W), c)
    BY <1>4
  <2>3. Told(W, t, calls[t], d, Reach')
    <3> DEFINE r2 == Reach'
               k == calls[t]
    <3> HIDE DEF r2, W, k
    <3>1. \A v \in Seq(Handlers) : \A z, k2 :
            /\ Own(t, k2, c) /\ Counted(Len(v), c)
            /\ c.op \in ToOne =>
                 /\ \A i \in 1..Len(c.what) :
                      z[c.what[i]] # {} /\ z[c.what[i]] \subseteq Took(v, c) \cup {c.todo[1].to}
                 /\ \A j \in 1..Len(c.todo) : c.todo[j].to = v[Len(c.answers) + j]
            => Told(v, t, k2, AnsweredCall(c, a), z)
      BY <1>2, <1>4, ToldSent
    <3> QED BY <1>4, <2>1, <2>2, <3>1, ZenonT(60) DEF r2, k
  <2> QED BY <2>3
<1>11. \A m \in M : m = Moved \/ (m \in Messages /\ m[1] = t /\ m[2] = calls[t])
  BY <1>4 DEF s
<1> HIDE DEF d, M
<1> QED BY <1>1, <1>4, <1>6, <1>7, <1>9, <1>10, <1>11, AnsweringGiven

\* A handler refuses.
LEMMA RefusesAnswering ==
  ASSUME Typed, Answering, NEW t \in Clients, NEW h \in Handlers, NEW a \in Answers,
         Refuses(t, h, a)
  PROVE  Answering'
<1> DEFINE c == call[t]
           d == AnsweredCall(c, a)
<1>1. /\ At(t, h) /\ AnswerTo(t, c, a) /\ UNCHANGED <<usage, result, calls, taken, ran>>
      /\ c.at = "outside" /\ ~Sent(a) /\ (a = "TryAgain" => c.type = "Immediate")
  BY DEF Refuses, history, Entering, Sent
<1>2. /\ c # Idle /\ c \in Calls /\ c.todo # <<>>
      /\ \A i \in 1..Len(c.todo) : Len(c.todo[i].what) = Width(c.op)
      /\ c.done = 0 /\ Told(usage.writers, t, calls[t], c, Reach)
      /\ usage.writers \in Seq(Handlers)
  BY <1>1, AnsweringParts
<1>3. call' = [call EXCEPT ![t] = d]
  BY <1>1, AnswerToIs
<1>4. d \in Calls
  BY <1>2, AnsweredCallParts
<1>5. Told(usage.writers, t, calls[t], d, Reach)
  <2> HIDE DEF c
  <2> QED BY <1>1, <1>2, ToldRefused
<1> HIDE DEF d
<1> QED BY <1>1, <1>2, <1>3, <1>4, <1>5, AnsweringSame

\* A sender waits in a handler, or enters its function.
LEMMA PlacedAnswering ==
  ASSUME Typed, Answering, NEW t \in Clients, NEW h \in Handlers, Blocks(t, h) \/ Enters(t, h)
  PROVE  Answering'
<1> DEFINE c == call[t]
<1>1. PICK at \in {"blocked", "function"} :
        /\ At(t, h) /\ Entering(t, h) /\ call' = [call EXCEPT ![t] = PlacedCall(c, at)]
        /\ UNCHANGED <<usage, result, calls, taken, ran>>
  BY DEF Blocks, Enters, history
<1> DEFINE d == PlacedCall(c, at)
<1>2. c # Idle /\ c \in Calls /\ c.done = 0 /\ Told(usage.writers, t, calls[t], c, Reach)
  BY <1>1, AnsweringParts DEF Entering
<1>3. d \in Calls /\ call' = [call EXCEPT ![t] = d]
  BY <1>1, <1>2, PlacedCallParts
<1>4. Told(usage.writers, t, calls[t], d, Reach)
  <2> HIDE DEF c
  <2> QED BY <1>2, ToldPlaced
<1> HIDE DEF d
<1> QED BY <1>1, <1>2, <1>3, <1>4, AnsweringSame

\* A handler is closed.
LEMMA ClosesAnswering ==
  ASSUME Typed, Answering, NEW t \in Clients, NEW h \in Handlers, Closes(t, h)
  PROVE  Answering'
<1> DEFINE c == call[t]
           d == AnsweredCall(c, "Success")
<1>1. /\ At(t, h) /\ AnswerTo(t, c, "Success") /\ UNCHANGED <<usage, result, calls, taken, ran>>
      /\ Width(c.op) = 0
  BY DEF Closes
<1>2. /\ c # Idle /\ c \in Calls /\ c.todo # <<>>
      /\ \A i \in 1..Len(c.todo) : Len(c.todo[i].what) = Width(c.op)
      /\ Own(t, calls[t], c) /\ Counted(Len(usage.writers), c)
      /\ usage.writers \in Seq(Handlers)
  BY <1>1, AnsweringParts
<1>3. call' = [call EXCEPT ![t] = d]
  BY <1>1, AnswerToIs
<1>4. c.op \notin ToOne /\ "Success" \in Answers /\ Sent("Success")
  BY <1>1 DEF Width, Atomic, ToOne, Answers, Sent
<1>5. d \in Calls
  BY <1>2, <1>4, AnsweredCallParts
<1>6. Told(usage.writers, t, calls[t], d, Reach)
  <2> HIDE DEF c
  <2> QED BY <1>2, <1>4, ToldSent
<1> HIDE DEF d
<1> QED BY <1>1, <1>2, <1>3, <1>5, <1>6, AnsweringSame

\* The function ran for one message.
LEMMA RanGiven ==
  ASSUME Typed, Answering, NEW t \in Clients, NEW h \in Handlers, NEW gone \in BOOLEAN, At(t, h),
         call[t].at = "function", ran' = [ran EXCEPT ![h] = Append(@, Running(t))],
         UNCHANGED <<taken, calls>>
  PROVE  /\ Got(h)' = Got(h) \cup {Running(t)}
         /\ \A g \in Handlers : g # h => Got(g)' = Got(g)
         /\ Running(t) = Moved \/
              (Running(t) \in Messages /\ Running(t)[1] = t /\ Running(t)[2] = calls[t])
         /\ Grown(Reach, Reach', {Running(t)}, h) =>
              Told(usage.writers, t, calls[t], RanCall(call[t], Running(t), gone), Reach')
<1> DEFINE c == call[t]
           m == Running(t)
<1>1. /\ c \in Calls /\ Shape(c) /\ 1 \in 1..Len(c.todo) /\ Now(c) = c.todo[1]
      /\ Told(usage.writers, t, calls[t], c, Reach) /\ c.todo[1].to = h
      /\ \A x \in Range(c.todo[1].what) :
           x = Moved \/ (x \in Messages /\ x[1] = t /\ x[2] = calls[t])
  BY AnsweringParts
<1>2. /\ m \in Things /\ m = c.todo[1].what[c.done + 1] /\ c.done + 1 \in 1..Width(c.op)
  BY RunningParts
<1>3. m \in Range(c.todo[1].what)
  <2>1. c.todo[1].what \in Seq(Things) /\ Len(c.todo[1].what) = Width(c.op)
    BY <1>1, HandlerParts
  <2> QED BY <1>2, <2>1 DEF Range
<1>4. ran[h] \in Seq(Things) /\ ran'[h] = Append(ran[h], m)
      /\ \A g \in Handlers : g # h => ran'[g] = ran[g]
  BY DEF Typed, HistoryTypes
<1>5. Range(Append(ran[h], m)) = Range(ran[h]) \cup {m}
  <2> DEFINE q == ran[h]
             o == <<m>>
  <2>1. m \in Things /\ q \in Seq(Things)
    BY <1>2, <1>4
  <2> HIDE DEF m, q
  <2>2. Append(q, m) = q \o o /\ o \in Seq(Things) /\ Range(o) = {m}
    BY <2>1 DEF Range
  <2> HIDE DEF o
  <2>3. Range(q \o o) = Range(q) \cup Range(o)
    BY <2>1, <2>2, ConcatRange
  <2>4. Range(Append(q, m)) = Range(q) \cup {m}
    BY <2>2, <2>3
  <2> QED BY <2>4 DEF q
<1>6. Got(h)' = Got(h) \cup {m} /\ \A g \in Handlers : g # h => Got(g)' = Got(g)
  BY <1>4, <1>5 DEF Got
<1>7. ASSUME Grown(Reach, Reach', {m}, h)
      PROVE  Told(usage.writers, t, calls[t], RanCall(c, m, gone), Reach')
  <2> HIDE DEF c, m
  <2>1. c.at = "function"
    BY DEF c
  <2>2. Grown(Reach, Reach', {m}, c.todo[1].to)
    BY <1>1, <1>7
  <2> QED BY <1>1, <1>2, <2>1, <2>2, ToldRan
<1> QED BY <1>1, <1>3, <1>6, <1>7

\* It goes on with the next message.
LEMMA RunsOnAnswering ==
  ASSUME Typed, Answering, NEW t \in Clients, NEW h \in Handlers, NEW gone \in BOOLEAN,
         RunsOn(t, h, gone)
  PROVE  Answering'
<1> DEFINE M == {Running(t)}
           d == RanCall(call[t], Running(t), gone)
<1>1. /\ At(t, h) /\ call[t].at = "function" /\ call[t] # Idle
      /\ ran' = [ran EXCEPT ![h] = Append(@, Running(t))]
      /\ call' = [call EXCEPT ![t] = d] /\ UNCHANGED <<usage, result, calls, taken>>
  BY DEF RunsOn, At
<1>2. d \in Calls
  BY <1>1, RunningParts
<1>3. /\ Got(h)' = Got(h) \cup M /\ \A g \in Handlers : g # h => Got(g)' = Got(g)
      /\ \A m \in M : m = Moved \/ (m \in Messages /\ m[1] = t /\ m[2] = calls[t])
      /\ Grown(Reach, Reach', M, h) => Told(usage.writers, t, calls[t], d, Reach')
  BY <1>1, RanGiven
<1> HIDE DEF M, d
<1> QED BY <1>1, <1>2, <1>3, AnsweringGiven

\* It ran for the last message, or failed.
LEMMA RunsLastAnswering ==
  ASSUME Typed, Guarded, Answering, NEW t \in Clients, NEW h \in Handlers,
         NEW a \in {"Success", "Failed"}, NEW gone \in BOOLEAN, RunsLast(t, h, a, gone)
  PROVE  Answering'
<1> DEFINE c == call[t]
           M == {Running(t)}
           b == RanCall(c, Running(t), gone)
           d == AnsweredCall(b, a)
<1>1. /\ At(t, h) /\ c.at = "function" /\ c # Idle
      /\ a = "Failed" \/ (a = "Success" /\ c.done + 1 = Width(c.op))
      /\ ran' = [ran EXCEPT ![h] = Append(@, Running(t))]
      /\ AnswerTo(t, b, a) /\ UNCHANGED <<usage, result, calls, taken>>
  BY DEF RunsLast, At
<1>2. call' = [call EXCEPT ![t] = d]
  BY <1>1, AnswerToIs
<1>3. c.type = "BlockUntilDone" /\ c \in Calls /\ usage.writers \in Seq(Handlers)
  BY <1>1, AnsweringParts DEF Guarded
<1>4. /\ b \in Calls /\ b.todo # <<>>
      /\ \A i \in 1..Len(b.todo) : Len(b.todo[i].what) = Width(b.op)
  BY <1>1, RunningParts
<1>5. b.type = c.type /\ b.op = c.op /\ b.at = c.at /\ b.done = c.done + 1
  BY <1>3, RanCallParts
<1>6. /\ Got(h)' = Got(h) \cup M /\ \A g \in Handlers : g # h => Got(g)' = Got(g)
      /\ \A m \in M : m = Moved \/ (m \in Messages /\ m[1] = t /\ m[2] = calls[t])
      /\ Grown(Reach, Reach', M, h) => Told(usage.writers, t, calls[t], b, Reach')
  BY <1>1, RanGiven
<1>7. a \in Answers
  BY DEF Answers
<1> HIDE DEF M, b
<1>8. d \in Calls
  BY <1>4, <1>7, AnsweredCallParts
<1>9. ASSUME Grown(Reach, Reach', M, h)
      PROVE  Told(usage.writers, t, calls[t], d, Reach')
  <2>1. Told(usage.writers, t, calls[t], b, Reach')
    BY <1>6, <1>9
  <2>2. Own(t, calls[t], b) /\ Counted(Len(usage.writers), b)
    BY <2>1 DEF Told
  <2>3. CASE a = "Failed"
    <3>1. ~Sent(a) /\ a # "TryAgain" /\ b.type = "BlockUntilDone"
      BY <1>3, <1>5, <2>3 DEF Sent
    <3> QED BY <1>3, <1>4, <1>7, <2>1, <2>3, <3>1, ToldRefused
  <2>4. CASE a = "Success"
    <3>1. Sent(a) /\ b.done = Width(b.op) /\ b.at = "function"
      BY <1>1, <1>5, <2>4 DEF Sent
    <3> DEFINE W == usage.writers
               r2 == Reach'
               k == calls[t]
    <3> HIDE DEF W, r2, k, d
    <3>2. /\ b.op \in ToOne => Reaching(W, r2, b)
          /\ Own(t, k, b) /\ Counted(Len(W), b) /\ W \in Seq(Handlers)
      BY <1>3, <2>1, <2>2 DEF Told, W, r2, k
    <3>3. b.op \in ToOne =>
            /\ \A i \in 1..Len(b.what) :
                 r2[b.what[i]] # {} /\ r2[b.what[i]] \subseteq Took(W, b) \cup {b.todo[1].to}
            /\ \A j \in 1..Len(b.todo) : b.todo[j].to = W[Len(b.answers) + j]
      <4> SUFFICES ASSUME b.op \in ToOne
                   PROVE  /\ \A i \in 1..Len(b.what) :
                               /\ r2[b.what[i]] # {}
                               /\ r2[b.what[i]] \subseteq Took(W, b) \cup {b.todo[1].to}
                          /\ \A j \in 1..Len(b.todo) : b.todo[j].to = W[Len(b.answers) + j]
        OBVIOUS
      <4>1. Reaching(W, r2, b)
        BY <3>2
      <4>2. \A j \in 1..Len(b.todo) : b.todo[j].to = W[Len(b.answers) + j]
        BY <4>1 DEF Reaching
      <4> QED BY <1>4, <3>1, <3>2, <4>1, <4>2, RanForAll
    <3>4. Told(W, t, k, d, r2)
      BY <1>4, <1>7, <3>1, <3>2, <3>3, ToldSent DEF d
    <3> QED BY <3>4 DEF W, r2, k
  <2> QED BY <2>3, <2>4
<1> HIDE DEF d
<1> QED BY <1>1, <1>2, <1>6, <1>8, <1>9, AnsweringGiven

\* A new call: its messages are new, and offered to everybody.
LEMMA ToldNew ==
  ASSUME Typed, Made, NEW t \in Clients, NEW op, NEW type, NEW s, NEW h, NEW cancel,
         Begins(t, op, type, s, h, cancel)
  PROVE  Told(usage.writers, t, calls'[t], NewCall(op, type, s, h, cancel), Reach)
<1> DEFINE c == NewCall(op, type, s, h, cancel)
           x == Todo(op, s, h)
           n == Len(usage.writers)
           w == usage.writers
           k == calls'[t]
<1>1. /\ calls[t] < k /\ \A i \in 1..Len(s) : s[i] = <<t, k, i>>
      /\ s \in Seq(Messages) /\ (op \in {"direct", "close"} => h \in Handlers)
      /\ op = "sendMessages" => Len(s) = 2
      /\ op # "sendMessages" => Len(s) = Width(op)
      /\ op \in Broadcasts \cup {"direct", "close", "closeAll"}
  BY NewCallIsCall DEF Typed
<1>2. /\ x \in Seq(Sends) /\ Len(x) = SizeWith(n, op)
      /\ \A i \in 1..Len(x) :
           /\ op # "sendMessages" => x[i].what = s
           /\ op = "sendMessages" => x[i].what \in {<<s[1]>>, <<s[2]>>}
           /\ op \in ToOne => x[i].to = w[i]
  <2>1. s \in Seq(Things) /\ usage \in Usage
    BY <1>1 DEF Things, Typed
  <2>2. /\ x \in Seq(Sends) /\ Len(x) = Size(op)
        /\ \A i \in 1..Size(op) :
             /\ op # "sendMessages" => x[i].what = s
             /\ op = "sendMessages" =>
                  x[i].what = IF i <= Len(usage.writers) THEN <<s[1]>> ELSE <<s[2]>>
             /\ op \notin {"direct", "close", "sendMessages"} => x[i].to = w[i]
    <3>1. op \in {"direct", "close"} => h \in Handlers
      BY <1>1
    <3>2. op = "sendMessages" => Len(s) = 2
      BY <1>1
    <3>3. \A z \in Seq(Things) : (op = "sendMessages" => Len(z) = 2) =>
            /\ Todo(op, z, h) \in Seq(Sends) /\ Len(Todo(op, z, h)) = Size(op)
            /\ \A i \in 1..Size(op) :
                 /\ op # "sendMessages" => Todo(op, z, h)[i].what = z
                 /\ op = "sendMessages" =>
                      Todo(op, z, h)[i].what
                        = IF i <= Len(usage.writers) THEN <<z[1]>> ELSE <<z[2]>>
                 /\ op \notin {"direct", "close", "sendMessages"} =>
                      Todo(op, z, h)[i].to = usage.writers[i]
      BY <2>1, <3>1, TodoIsSends
    <3> HIDE DEF c, n, k
    <3> QED BY <2>1, <3>2, <3>3
  <2>3. op \in ToOne => op \notin {"direct", "close", "sendMessages"}
    BY DEF ToOne
  <2> HIDE DEF x, w
  <2> QED BY <2>2, <2>3 DEF Size
<1>3. /\ c.op = op /\ c.what = s /\ c.todo = x /\ c.answers = <<>> /\ c.at = "outside"
      /\ c.done = 0
  BY DEF NewCall
<1> DEFINE z == <<>>
<1>4. c.answers = z /\ Len(z) = 0
  BY <1>3
<1> HIDE DEF c, x, z, k, w
<1>5. Own(t, k, c)
  <2>1. ASSUME NEW j \in 1..Len(x) PROVE Range(x[j].what) \subseteq Range(s) \cup {Moved}
    <3>1. CASE op # "sendMessages"
      BY <1>2, <3>1
    <3>2. CASE op = "sendMessages"
      <4>1. x[j].what \in {<<s[1]>>, <<s[2]>>} /\ Len(s) = 2
        BY <1>1, <1>2, <3>2
      <4>2. Range(<<s[1]>>) = {s[1]} /\ Range(<<s[2]>>) = {s[2]}
        BY DEF Range
      <4>3. s[1] \in Range(s) /\ s[2] \in Range(s)
        BY <1>1, <4>1 DEF Range
      <4> QED BY <4>1, <4>2, <4>3
    <3> QED BY <3>1, <3>2
  <2>2. Len(s) = IF op = "sendMessages" THEN 2 ELSE Width(op)
    BY <1>1
  <2> QED BY <1>1, <1>3, <2>1, <2>2 DEF Own
<1>6. ~HasSent(c) /\ \A i \in 1..Len(c.answers) : FALSE
  BY <1>4 DEF HasSent
<1>7. Counted(n, c)
  <2>1. n \in Nat
    BY DEF Typed, Usage, w
  <2> HIDE DEF n
  <2>2. SizeWith(n, op) \in Nat
    BY <2>1 DEF SizeWith
  <2>3. Len(c.answers) + Len(c.todo) = SizeWith(n, c.op)
    BY <1>2, <1>3, <1>4, <2>2
  <2>4. Len(c.answers) + Len(c.todo) <= SizeWith(n, c.op)
    BY <1>3, <2>2, <2>3
  <2> QED BY <1>6, <2>3, <2>4 DEF Counted
<1>8. ASSUME NEW i \in 1..Len(s) PROVE Reach[s[i]] = {}
  <2>1. s[i] \in Messages /\ s[i] = <<t, k, i>> /\ s[i] # Moved
    BY <1>1, MovedIsNoMessage
  <2>2. calls[t] \in Int /\ k \in Int
    <3>1. calls' \in [Clients -> 0..(MaxCalls + 1)]
      BY NewCallIsCall DEF Typed
    <3> QED BY <3>1, HandlersAssumption DEF Typed, CallTypes, k
  <2>3. ASSUME NEW g \in Handlers, s[i] \in Got(g) PROVE FALSE
    <3>1. s[i][2] <= calls[s[i][1]]
      BY <2>1, <2>3 DEF Made, Got
    <3>2. k <= calls[t]
      BY <2>1, <3>1
    <3> QED BY <1>1, <2>2, <3>2
  <2>4. Reached(s[i]) = {}
    BY <2>3 DEF Reached, Got
  <2> QED BY <2>1, <2>4 DEF Reach
<1>9. op \in ToOne => Reaching(w, Reach, c)
  <2> SUFFICES ASSUME op \in ToOne PROVE Reaching(w, Reach, c)
    OBVIOUS
  <2>1. \A j \in 1..Len(x) : x[j].what = s /\ x[j].to = w[j]
    BY <1>2 DEF ToOne
  <2>2. \A i \in 1..Len(s) : Placed(Reach, c, i)
    BY <1>3, <2>1 DEF Placed
  <2>3. \A i \in 1..Len(s) : Reach[s[i]] \subseteq Took(w, c)
    BY <1>8
  <2>4. \A j \in 1..Len(x) : x[j].to = w[Len(c.answers) + j]
    <3>1. \A j \in 1..Len(x) : 0 + j = j
      OBVIOUS
    <3> QED BY <1>4, <2>1, <3>1
  <2> QED BY <1>3, <1>6, <2>2, <2>3, <2>4 DEF Reaching
<1>10. Told(w, t, k, c, Reach)
  BY <1>3, <1>5, <1>7, <1>8, <1>9 DEF Told, w
<1> QED BY <1>10 DEF c, k, w

\* A client begins a call.
LEMMA BeginsAnswering ==
  ASSUME Typed, Answering, NEW t \in Clients, NEW op, NEW type, NEW s, NEW h, NEW cancel,
         Begins(t, op, type, s, h, cancel)
  PROVE  Answering'
<1> DEFINE c == NewCall(op, type, s, h, cancel)
<1>1. /\ call' = [call EXCEPT ![t] = c] /\ UNCHANGED <<usage, result, taken, ran>>
  BY DEF Begins, history
<1>2. Reach' = Reach /\ \A m : Reached(m)' = Reached(m)
  BY <1>1 DEF Reach, Reached
<1>3. Told(usage.writers, t, calls'[t], c, Reach)
  BY ToldNew DEF Answering
<1>4. \A u \in Clients : /\ calls[u] \in Int /\ calls'[u] \in Int /\ calls[u] <= calls'[u]
                         /\ u # t => calls'[u] = calls[u]
  <2>1. calls' \in [Clients -> 0..(MaxCalls + 1)] /\ calls[t] < calls'[t]
    BY NewCallIsCall DEF Typed
  <2>2. \A u \in Clients : u # t => calls'[u] = calls[u]
    BY DEF Begins, Typed, CallTypes
  <2> QED BY <2>1, <2>2, HandlersAssumption DEF Typed, CallTypes
<1>5. calls[t] < calls'[t]
  BY NewCallIsCall DEF Typed
<1> HIDE DEF c
<1>6. AllTold'
  <2>1. ASSUME NEW u \in Clients, call'[u] # Idle
        PROVE  Told(usage'.writers, u, calls'[u], call'[u], Reach')
    <3>1. CASE u = t
      BY <1>1, <1>2, <1>3, <3>1 DEF Typed, CallTypes
    <3>2. CASE u # t
      <4>1. call'[u] = call[u] /\ calls'[u] = calls[u]
        BY <1>1, <1>4, <3>2 DEF Typed, CallTypes
      <4> QED BY <1>1, <1>2, <2>1, <4>1 DEF Answering, AllTold
    <3> QED BY <3>1, <3>2
  <2> QED BY <2>1, ToldAfter
<1>7. Made'
  <2>1. ASSUME NEW g \in Handlers, NEW m \in Got(g), m # Moved PROVE m[2] <= calls'[m[1]]
    <3>1. m[2] <= calls[m[1]]
      BY <2>1 DEF Answering, Made, Got
    <3>2. m \in Messages
      BY <2>1 DEF Got, Typed, HistoryTypes, Things, Range
    <3>3. m[1] \in Clients /\ m[2] \in Int
      BY <3>2, HandlersAssumption DEF Messages
    <3> QED BY <1>4, <3>1, <3>3
  <2> QED BY <1>1, <2>1 DEF Made, Got
<1>8. Results'
  <2>1. ASSUME NEW u \in Clients, result[u].op # "none", NEW m \in Range(result[u].what)
        PROVE  /\ m \in Messages /\ m[1] = u /\ m[2] <= calls'[u]
               /\ call'[u] # Idle => m[2] < calls'[u]
    <3>1. /\ m \in Messages /\ m[1] = u /\ m[2] <= calls[u] /\ m[2] \in Int
          /\ call[u] # Idle => m[2] < calls[u]
      BY <2>1, HandlersAssumption DEF Answering, Results, Messages
    <3>2. CASE u = t
      BY <1>4, <1>5, <3>1, <3>2
    <3>3. CASE u # t
      <4>1. call'[u] = call[u] /\ calls'[u] = calls[u]
        BY <1>1, <1>4, <3>3 DEF Typed, CallTypes
      <4> QED BY <3>1, <4>1
    <3> QED BY <3>2, <3>3
  <2> QED BY <1>1, <2>1 DEF Results
<1>9. ResultTypes'
  BY <1>1 DEF Answering, ResultTypes
<1>10. RetryIsSafe'
  BY <1>1, SMTT(30) DEF Answering, RetryIsSafe, Reached
<1>11. AllKept'
  <2>1. \A u \in Clients : result[u].op \in ToOne => Kept1(usage.writers, result[u], Reach)
    BY DEF Answering, AllKept
  <2> QED BY <1>1, <1>2, <2>1 DEF AllKept, Kept1, Keepers, Sent, Range
<1> QED BY <1>6, <1>7, <1>8, <1>9, <1>10, <1>11 DEF Answering

\* When as many answers are of a kind as there are, all are.
LEMMA AllAnswers ==
  ASSUME NEW s \in Seq(Answers), NEW S,
         Cardinality({i \in DOMAIN s : s[i] \in S}) = Len(s)
  PROVE  \A i \in 1..Len(s) : s[i] \in S
<1> DEFINE n == Len(s)
           A == {i \in DOMAIN s : s[i] \in S}
<1>1. n \in Nat /\ DOMAIN s = 1..n
  BY SMTT(30)
<1>2. A \subseteq 1..n
  BY <1>1
<1>3. IsFiniteSet(1..n) /\ Cardinality(1..n) = n
  <2>1. n \in Nat
    BY <1>1
  <2> HIDE DEF n
  <2>2. 1 \in Int /\ n \in Int
    BY <2>1
  <2>3. IsFiniteSet(1..n) /\ Cardinality(1..n) = IF 1 > n THEN 0 ELSE n - 1 + 1
    BY <2>2, FS_Interval, Zenon
  <2> DEFINE k == Cardinality(1..n)
  <2> HIDE DEF k
  <2>4. k = IF 1 > n THEN 0 ELSE n - 1 + 1
    BY <2>3 DEF k
  <2>5. k = n
    BY <2>1, <2>4
  <2> QED BY <2>3, <2>5, SMTT(30) DEF k
<1>4. Cardinality(A) = Cardinality(1..n)
  BY <1>3
<1> HIDE DEF A
<1>5. A = 1..n
  BY <1>2, <1>3, <1>4, FS_Subset
<1> QED BY <1>5 DEF A

\* A kind of answer that was counted was given.
LEMMA CountedIsThere ==
  ASSUME NEW s, NEW a, Count(s, a) > 0
  PROVE  \E i \in DOMAIN s : s[i] = a
<1> SUFFICES ASSUME \A i \in DOMAIN s : s[i] # a PROVE FALSE
  OBVIOUS
<1>1. {i \in DOMAIN s : s[i] = a} = {}
  OBVIOUS
<1>2. Cardinality({}) = 0
  BY FS_EmptySet
<1> QED BY <1>1, <1>2 DEF Count

\* What a broadcast makes of the answers: it reports success for one handler
\* only if one accepted, and a refusal only if nobody accepted anything.
LEMMA AggregateIsTrue ==
  ASSUME Typed, NEW c \in Calls, c.op \in Broadcasts, c.todo = <<>>, c.done = 0,
         Counted(Len(usage.writers), c)
  PROVE  /\ Aggregate(c.op, c.answers) \in Answers
         /\ c.op \in ToOne /\ Sent(Aggregate(c.op, c.answers)) => HasSent(c)
         /\ /\ c.op # "sendMessages"
            /\ Aggregate(c.op, c.answers) \in {"TryAgain", "Unsupported", "AtomicImpossible"}
            => Quiet(c)
<1> DEFINE s == c.answers
           n == Len(usage.writers)
           a == Aggregate(c.op, s)
           refusals(S) == Cardinality({i \in DOMAIN s : s[i] \in S})
           sent == s # <<>> /\ Sent(s[Len(s)])
           toOne == c.op \in ToOne
<1>1. a = IF toOne /\ sent THEN s[Len(s)]
          ELSE IF toOne /\ Count(s, "TryAgain") > 0 THEN "TryAgain"
          ELSE IF ~toOne /\ Count(s, "Failed") > 0 THEN "Failed"
          ELSE IF Count(s, "Unsupported") = n THEN "Unsupported"
          ELSE IF c.op \in Atomic /\ refusals({"AtomicImpossible", "Unsupported"}) = n
          THEN "AtomicImpossible"
          ELSE IF toOne THEN "Failed"
          ELSE IF refusals({"TryAgain", "AtomicImpossible", "Unsupported"}) = n THEN "TryAgain"
          ELSE IF Count(s, "SuccessLostData") > 0 THEN "SuccessLostData" ELSE "Success"
  BY DEF Aggregate, Last
<1>2. s \in Seq(Answers) /\ Len(s) \in Nat /\ DOMAIN s = 1..Len(s)
  BY DEF Calls
<1>3. s # <<>> => Len(s) \in 1..Len(s)
  BY <1>2, EmptySeq
<1>4. Count(s, "Unsupported") = refusals({"Unsupported"})
  BY DEF Count
<1>5. /\ toOne /\ HasSent(c) => sent
      /\ \A i \in 1..Len(s) : s[i] = "TryAgain" => c.type = "Immediate"
  <2>1. HasSent(c) => s # <<>>
    BY DEF HasSent
  <2> QED BY <2>1 DEF Counted
<1>6. ASSUME c.op # "sendMessages", ~(toOne /\ HasSent(c)) PROVE Len(s) = n
  <2>1. Len(s) + Len(c.todo) = SizeWith(n, c.op)
    BY <1>6 DEF Counted
  <2>2. SizeWith(n, c.op) = n
    BY <1>6 DEF SizeWith, Broadcasts, ToOne
  <2>3. Len(c.todo) = 0
    OBVIOUS
  <2> QED BY <1>2, <2>1, <2>2, <2>3
<1>7. ASSUME NEW S, S \subseteq {"TryAgain", "AtomicImpossible", "Unsupported"},
             Len(s) = n, refusals(S) = n
      PROVE  Quiet(c)
  <2>1. \A i \in 1..Len(s) : s[i] \in S
    BY <1>2, <1>7, AllAnswers
  <2> QED BY <1>7, <2>1 DEF Quiet, HasSent, Sent
<1>8. ASSUME Count(s, "TryAgain") > 0, ~HasSent(c) PROVE Quiet(c)
  <2>1. c.type = "Immediate"
    BY <1>2, <1>5, <1>8, CountedIsThere
  <2> QED BY <1>8, <2>1 DEF Quiet
<1> HIDE DEF refusals, n
<1>9. a \in Answers
  <2>1. s # <<>> => s[Len(s)] \in Answers
    BY <1>2, <1>3
  <2> HIDE DEF a, s
  <2> QED BY <1>1, <2>1 DEF Answers
<1>10. toOne /\ Sent(a) => HasSent(c)
  <2>1. sent => HasSent(c)
    BY <1>3 DEF HasSent
  <2> HIDE DEF a, s
  <2> QED BY <1>1, <2>1 DEF Sent
<1>11. ASSUME c.op # "sendMessages", a \in {"TryAgain", "Unsupported", "AtomicImpossible"}
       PROVE  Quiet(c)
  <2> HIDE DEF a
  <2>1. ~(toOne /\ sent)
    <3>1. CASE toOne /\ sent
      BY <1>1, <1>11, <3>1 DEF Sent
    <3> QED BY <3>1
  <2>2. ~(toOne /\ HasSent(c)) /\ Len(s) = n
    BY <1>5, <1>6, <1>11, <2>1
  <2> HIDE DEF s
  <2>3. CASE toOne /\ Count(s, "TryAgain") > 0
    BY <1>8, <2>2, <2>3
  <2>4. CASE Count(s, "Unsupported") = n
    BY <1>4, <1>7, <2>2, <2>4
  <2>5. CASE refusals({"AtomicImpossible", "Unsupported"}) = n
    BY <1>7, <2>2, <2>5
  <2>6. CASE refusals({"TryAgain", "AtomicImpossible", "Unsupported"}) = n
    BY <1>7, <2>2, <2>6
  <2> QED BY <1>1, <1>11, <2>1, <2>3, <2>4, <2>5, <2>6
<1> QED BY <1>9, <1>10, <1>11

\* The answer of a call that returns.
Answer(c) == CASE c.op = "direct" -> c.answers[1]
               [] c.op \in Broadcasts -> Aggregate(c.op, c.answers)
               [] OTHER -> "closed"

\* It is true.
LEMMA AnswerIsTrue ==
  ASSUME Typed, Answering, NEW t \in Clients, call[t] # Idle, call[t].todo = <<>>
  PROVE  /\ call[t] \in Calls /\ Answer(call[t]) \in Answers \cup {"closed"}
         /\ \A m \in Range(call[t].what) : m \in Messages /\ m[1] = t /\ m[2] = calls[t]
         /\ call[t].op \in ToOne =>
              /\ \A i \in 1..Len(call[t].answers) :
                   Sent(call[t].answers[i]) => i = Len(call[t].answers)
              /\ \A m \in Range(call[t].what) :
                   /\ Reach[m] \subseteq
                        {usage.writers[i] : i \in Keepers(call[t].answers, call[t].type)}
                   /\ Sent(Answer(call[t])) => Reach[m] # {}
         /\ /\ call[t].op # "sendMessages"
            /\ Answer(call[t]) \in {"TryAgain", "Unsupported", "AtomicImpossible"}
            => \A m \in Range(call[t].what) : Reached(m) = {}
<1> DEFINE c == call[t]
           n == Len(usage.writers)
           w == usage.writers
           a == Answer(c)
<1>1. c \in Calls /\ Shape(c) /\ c.todo = <<>> /\ Told(w, t, calls[t], c, Reach)
  BY BusyCalls DEF Typed, Shapes, Answering, AllTold
<1> HIDE DEF c
<1>2. c.done = 0 /\ Own(t, calls[t], c) /\ Counted(n, c)
  BY <1>1 DEF Shape, Told
<1>3. /\ Len(c.what) \in Nat /\ DOMAIN c.what = 1..Len(c.what)
      /\ \A i \in 1..Len(c.what) : c.what[i] \in Messages
      /\ \A m \in Range(c.what) : /\ m \in Messages /\ m # Moved /\ m[1] = t /\ m[2] = calls[t]
                                  /\ \E i \in 1..Len(c.what) : m = c.what[i]
  BY <1>1, <1>2, OwnParts
<1>4. /\ a \in Answers \cup {"closed"}
      /\ c.op \in ToOne /\ Sent(a) => HasSent(c)
      /\ /\ c.op # "sendMessages" /\ a \in {"TryAgain", "Unsupported", "AtomicImpossible"}
         => Quiet(c)
  <2>1. CASE c.op = "direct"
    <3>1. n \in Nat
      BY DEF Typed, Usage
    <3> DEFINE s == c.answers
    <3>2. Len(s) = 1 /\ s \in Seq(Answers)
      <4>1. SizeWith(n, c.op) = 1 /\ c.op \notin ToOne /\ Len(c.todo) = 0
        BY <1>1, <2>1 DEF SizeWith, ToOne
      <4>2. Len(s) + Len(c.todo) = 1 /\ s \in Seq(Answers)
        BY <1>1, <1>2, <4>1 DEF Counted, Calls
      <4> QED BY <4>1, <4>2
    <3> HIDE DEF s
    <3>3. a = s[1] /\ s[1] \in Answers /\ c.op \notin ToOne
      BY <2>1, <3>2 DEF Answer, s, ToOne, Broadcasts
    <3>4. ASSUME a \in {"TryAgain", "Unsupported", "AtomicImpossible"} PROVE Quiet(c)
      <4>1. \A i \in 1..Len(s) : s[i] = a
        BY <3>2, <3>3
      <4>2. ~Sent(a) /\ a # "Failed"
        BY <3>4 DEF Sent
      <4> QED BY <1>2, <4>1, <4>2 DEF Quiet, HasSent, s
    <3> QED BY <3>3, <3>4
  <2>2. CASE c.op \in Broadcasts
    <3>1. a = Aggregate(c.op, c.answers)
      BY <2>2 DEF Answer, Broadcasts, ToOne
    <3> HIDE DEF a
    <3> QED BY <1>1, <1>2, <2>2, <3>1, AggregateIsTrue
  <2>3. CASE c.op \notin Broadcasts \cup {"direct"}
    <3>1. a = "closed" /\ c.op \notin ToOne
      BY <2>3 DEF Answer, Broadcasts
    <3> QED BY <3>1
  <2> QED BY <2>1, <2>2, <2>3
<1> HIDE DEF a
<1>5. ASSUME c.op \in ToOne
      PROVE  /\ \A i \in 1..Len(c.answers) : Sent(c.answers[i]) => i = Len(c.answers)
             /\ \A m \in Range(c.what) :
                  /\ Reach[m] \subseteq {w[i] : i \in Keepers(c.answers, c.type)}
                  /\ Sent(a) => Reach[m] # {}
  <2>1. Reaching(w, Reach, c)
    BY <1>1, <1>5 DEF Told
  <2> HIDE DEF w
  <2>2. Took(w, c) = {w[i] : i \in Keepers(c.answers, c.type)}
    BY <1>2 DEF Took
  <2>3. ASSUME NEW m \in Range(c.what)
        PROVE  /\ Reach[m] \subseteq {w[i] : i \in Keepers(c.answers, c.type)}
               /\ Sent(a) => Reach[m] # {}
    <3>1. PICK i \in 1..Len(c.what) : m = c.what[i]
      BY <1>3
    <3> QED BY <1>4, <1>5, <2>1, <2>2, <3>1 DEF Reaching
  <2>4. \A i \in 1..Len(c.answers) : Sent(c.answers[i]) => i = Len(c.answers)
    BY <1>2, <1>5 DEF Counted
  <2> QED BY <2>3, <2>4
<1>6. ASSUME c.op # "sendMessages", a \in {"TryAgain", "Unsupported", "AtomicImpossible"},
             NEW m \in Range(c.what)
      PROVE  Reached(m) = {}
  <2>1. PICK i \in 1..Len(c.what) : m = c.what[i]
    BY <1>3
  <2>2. Reach[m] = {}
    BY <1>1, <1>4, <1>6, <2>1 DEF Told
  <2>3. Reached(m) = Reach[m]
    BY <1>3, <2>1 DEF Reach
  <2> QED BY <2>2, <2>3
<1> QED BY <1>1, <1>3, <1>4, <1>5, <1>6 DEF c, a

\* A client's call returns.
LEMMA ReturnAnswering ==
  ASSUME Typed, Answering, NEW t \in Clients, Return(t)
  PROVE  Answering'
<1> DEFINE c == call[t]
           r == [op |-> c.op, type |-> c.type, what |-> c.what, answers |-> c.answers,
                 answer |-> Answer(c)]
           w == usage.writers
<1>1. /\ c # Idle /\ c.todo = <<>> /\ call' = [call EXCEPT ![t] = Idle]
      /\ UNCHANGED <<usage, calls, taken, ran>>
  BY DEF Return, history
<1>2. result' = [result EXCEPT ![t] = r]
  BY DEF Return, Answer
<1>3. Reach' = Reach /\ \A m : Reached(m)' = Reached(m)
  BY <1>1 DEF Reach, Reached
<1>4. /\ c \in Calls /\ Answer(c) \in Answers \cup {"closed"}
      /\ \A m \in Range(c.what) : m \in Messages /\ m[1] = t /\ m[2] = calls[t]
      /\ c.op \in ToOne =>
           /\ \A i \in 1..Len(c.answers) : Sent(c.answers[i]) => i = Len(c.answers)
           /\ \A m \in Range(c.what) :
                /\ Reach[m] \subseteq {w[i] : i \in Keepers(c.answers, c.type)}
                /\ Sent(Answer(c)) => Reach[m] # {}
      /\ c.op # "sendMessages" /\ Answer(c) \in {"TryAgain", "Unsupported", "AtomicImpossible"} =>
           \A m \in Range(c.what) : Reached(m) = {}
  BY <1>1, AnswerIsTrue
<1> HIDE DEF c
<1>5. /\ call'[t] = Idle /\ result'[t] = r
      /\ \A u \in Clients : u # t => call'[u] = call[u] /\ result'[u] = result[u]
  BY <1>1, <1>2 DEF Typed, CallTypes, Answering, ResultTypes
<1>6. /\ r.op = c.op /\ r.type = c.type /\ r.what = c.what /\ r.answers = c.answers
      /\ r.answer = Answer(c)
  OBVIOUS
<1>7. r \in [op : Broadcasts \cup {"direct", "close", "closeAll"},
             type : Types \cup {"none"}, what : Seq(Messages), answers : Seq(Answers),
             answer : Answers \cup {"closed"}]
  BY <1>4 DEF Calls
<1> HIDE DEF r
<1>8. AllTold'
  <2>1. ASSUME NEW u \in Clients, call'[u] # Idle
        PROVE  Told(usage'.writers, u, calls'[u], call'[u], Reach')
    <3>1. u # t /\ call'[u] = call[u]
      BY <1>5, <2>1
    <3> QED BY <1>1, <1>3, <2>1, <3>1 DEF Answering, AllTold
  <2> QED BY <2>1, ToldAfter
<1>9. Made'
  BY <1>1 DEF Answering, Made
<1>10. Results'
  <2>1. ASSUME NEW u \in Clients, result'[u].op # "none", NEW m \in Range(result'[u].what)
        PROVE  /\ m \in Messages /\ m[1] = u /\ m[2] <= calls[u]
               /\ call'[u] # Idle => m[2] < calls[u]
    <3>1. CASE u = t
      <4>1. m \in Messages /\ m[1] = u /\ m[2] = calls[u] /\ call'[u] = Idle
        BY <1>4, <1>5, <1>6, <2>1, <3>1
      <4>2. calls[u] <= calls[u]
        BY HandlersAssumption DEF Typed, CallTypes
      <4> QED BY <4>1, <4>2
    <3>2. CASE u # t
      BY <1>5, <2>1, <3>2 DEF Answering, Results
    <3> QED BY <3>1, <3>2
  <2> QED BY <1>1, <2>1 DEF Results
<1>11. ResultTypes'
  BY <1>2, <1>7 DEF Answering, ResultTypes
<1>12. AllKept'
  <2>1. ASSUME NEW u \in Clients, result'[u].op \in ToOne PROVE Kept1(w, result'[u], Reach)
    <3>1. CASE u = t
      <4>1. c.op \in ToOne /\ Kept1(w, r, Reach)
        BY <1>4, <1>5, <1>6, <2>1, <3>1 DEF Kept1
      <4> QED BY <1>5, <3>1, <4>1
    <3>2. CASE u # t
      BY <1>5, <2>1, <3>2 DEF Answering, AllKept
    <3> QED BY <3>1, <3>2
  <2> QED BY <1>1, <1>3, <2>1 DEF AllKept, Kept1, Keepers, Sent, Range
<1>13. RetryIsSafe'
  <2> SUFFICES ASSUME NEW u \in Clients, result'[u].op # "none", result'[u].op # "sendMessages",
                      result'[u].answer \in {"TryAgain", "Unsupported", "AtomicImpossible"},
                      NEW m \in Range(result'[u].what)
               PROVE  Reached(m)' = {}
    BY DEF RetryIsSafe, Range
  <2>1. Reached(m) = {}
    <3>1. CASE u = t
      BY <1>4, <1>5, <1>6, <3>1
    <3>2. CASE u # t
      BY <1>5, <3>2 DEF Answering, RetryIsSafe
    <3> QED BY <3>1, <3>2
  <2> QED BY <1>3, <2>1
<1> QED BY <1>8, <1>9, <1>10, <1>11, <1>12, <1>13 DEF Answering

\* Every step keeps the answers true.
LEMMA AnsweringKept == Typed /\ Guarded /\ Answering /\ [Next]_vars => Answering'
<1> SUFFICES ASSUME Typed, Guarded, Answering, [Next]_vars PROVE Answering'
  OBVIOUS
<1>1. ASSUME NEW t \in Clients, Elsewhere(t) PROVE Answering'
  <2>1. ASSUME Lock(t) PROVE UNCHANGED <<usage, call, calls, result, taken, ran>>
    BY <2>1 DEF Lock, history
  <2> QED BY <1>1, <2>1, BeginsAnswering, ReturnAnswering, AnsweringUnchanged DEF Elsewhere
<1>2. ASSUME NEW t \in Clients, NEW h \in Handlers, AtHandler(t, h) PROVE Answering'
  <2>1. ASSUME SleepsAgain(t, h) PROVE UNCHANGED <<usage, call, calls, result, taken, ran>>
    BY <2>1 DEF SleepsAgain, history
  <2> QED BY <1>2, <2>1, PutsAnswering, RefusesAnswering, PlacedAnswering, ClosesAnswering,
             RunsOnAnswering, RunsLastAnswering, AnsweringUnchanged DEF AtHandler
<1>3. ASSUME NEW h \in Handlers, OfHandler(h)
      PROVE  UNCHANGED <<usage, call, calls, result, taken, ran>>
  BY <1>3 DEF OfHandler, Takes, Misses, WorkerHandles, DestroyHandler, history
<1>4. DestroyBroadcaster \/ UNCHANGED vars =>
        UNCHANGED <<usage, call, calls, result, taken, ran>>
  BY DEF DestroyBroadcaster, vars, history
<1> QED BY <1>1, <1>2, <1>3, <1>4, StepIs, AnsweringUnchanged

\* Nobody was answered anything at first.
LEMMA AnsweringAtFirst == Init => Answering
<1> SUFFICES ASSUME Init PROVE Answering
  OBVIOUS
<1> DEFINE z == <<>>
<1>1. Range(z) = {}
  BY DEF Range
<1>2. \A h \in Handlers : taken[h] = z /\ ran[h] = z
  BY DEF Init
<1> HIDE DEF z
<1>3. Made
  BY <1>1, <1>2 DEF Made
<1>4. AllTold
  BY DEF Init, AllTold
<1>5. result = [t \in Clients |-> [op |-> "none"]]
  BY DEF Init
<1>6. Results /\ ResultTypes /\ AllKept /\ RetryIsSafe
  BY <1>5 DEF Results, ResultTypes, AllKept, RetryIsSafe, ToOne
<1> QED BY <1>3, <1>4, <1>6 DEF Answering

-----------------------------------------------------------------------------
(* One order.  The messages of a call reach a handler in their order; those *)
(* of the call that holds the broadcaster's mutex are the last everywhere,  *)
(* so that no handler can have any of them before a message that another    *)
(* handler has after them.                                                  *)

\* Message m is of the k-th call of client t.
Of(m, t, k) == m # Moved /\ m[1] = t /\ m[2] = k

\* In s the messages of each call are in their order.
Sorted(s) == \A i, j \in DOMAIN s :
               i < j /\ s[i] # Moved /\ s[j] # Moved /\ s[i][1] = s[j][1] /\ s[i][2] = s[j][2]
                 => s[i][3] < s[j][3]

\* In s the messages of this call are the last.
EndsWith(s, t, k) == \A i, j \in DOMAIN s :
                       i < j /\ Of(s[i], t, k) => s[j] = Moved \/ Of(s[j], t, k)

\* No two messages are in p in one order and in q in the other.
Agree(p, q) == \A i, j \in DOMAIN p, k, l \in DOMAIN q :
                 i < j /\ p[i] = q[k] /\ p[j] = q[l] => k < l \/ Moved \in {q[k], q[l]}

\* The handlers of a call get its messages in their order.
Ordered(c) ==
  /\ \A i \in 1..Len(c.todo) : Sorted(c.todo[i].what)
  /\ \A i, j \in 1..Len(c.todo) : i < j /\ c.todo[i].to = c.todo[j].to =>
       \A x \in Range(c.todo[i].what) \ {Moved}, y \in Range(c.todo[j].what) \ {Moved} :
         x[3] < y[3]

\* What call c still offers a handler comes after what it gave it, tk.
Later(c, t, k, tk) ==
  \A i \in 1..Len(c.todo) : \A x \in Range(c.todo[i].what) \ {Moved} :
    \A m \in Range(tk[c.todo[i].to]) : Of(m, t, k) => m[3] < x[3]

InTurn ==
  /\ \A t \in Clients : call[t] # Idle =>
       /\ IsBroadcast(call[t]) /\ Ordered(call[t])
       /\ Later(call[t], t, calls[t], taken)
       /\ mtx # t => \A h \in Handlers : \A m \in Range(taken[h]) : ~Of(m, t, calls[t])
  /\ \A h \in Handlers : /\ Sorted(taken[h])
                         /\ mtx # Nobody => EndsWith(taken[h], mtx, calls[mtx])
  /\ \A g, h \in Handlers : Agree(taken[g], taken[h])

OneOrder == usage.direct = {} /\ IsInjective(usage.writers) => InTurn

\* The numbers of a message.
LEMMA NumberedThings ==
  ASSUME NEW m \in Things, m # Moved
  PROVE  m[2] \in Int /\ m[3] \in Int
  BY HandlersAssumption DEF Things, Messages

\* What a sequence looks like with more messages of a call at its end.
LEMMA AppendedParts ==
  ASSUME NEW q \in Seq(Things), NEW s \in Seq(Things)
  PROVE  /\ q \o s \in Seq(Things) /\ DOMAIN (q \o s) = 1..(Len(q) + Len(s))
         /\ DOMAIN q = 1..Len(q) /\ DOMAIN s = 1..Len(s)
         /\ Len(q) \in Nat /\ Len(s) \in Nat
         /\ \A i \in 1..Len(q) : (q \o s)[i] = q[i] /\ (q \o s)[i] \in Range(q)
         /\ \A i \in 1..(Len(q) + Len(s)) : i > Len(q) =>
              /\ i - Len(q) \in 1..Len(s) /\ (q \o s)[i] = s[i - Len(q)]
              /\ (q \o s)[i] \in Range(s)
<1> DEFINE r == q \o s
<1>1. /\ r \in Seq(Things) /\ Len(r) = Len(q) + Len(s) /\ Len(q) \in Nat /\ Len(s) \in Nat
      /\ \A i \in 1..(Len(q) + Len(s)) : r[i] = IF i <= Len(q) THEN q[i] ELSE s[i - Len(q)]
  BY ConcatProperties
<1> HIDE DEF r
<1>2. DOMAIN r = 1..(Len(q) + Len(s)) /\ DOMAIN q = 1..Len(q) /\ DOMAIN s = 1..Len(s)
  BY <1>1
<1>3. ASSUME NEW i \in 1..Len(q) PROVE r[i] = q[i] /\ r[i] \in Range(q)
  <2>1. i \in 1..(Len(q) + Len(s)) /\ i <= Len(q)
    BY <1>1
  <2>2. r[i] = q[i] /\ i \in DOMAIN q
    BY <1>1, <1>2, <2>1
  <2> QED BY <2>2 DEF Range
<1>4. ASSUME NEW i \in 1..(Len(q) + Len(s)), i > Len(q)
      PROVE  /\ i - Len(q) \in 1..Len(s) /\ r[i] = s[i - Len(q)] /\ r[i] \in Range(s)
  <2>1. i - Len(q) \in 1..Len(s) /\ ~(i <= Len(q))
    BY <1>1, <1>4
  <2>2. r[i] = s[i - Len(q)] /\ i - Len(q) \in DOMAIN s
    BY <1>1, <1>2, <2>1
  <2> QED BY <2>1, <2>2 DEF Range
<1> QED BY <1>1, <1>2, <1>3, <1>4 DEF r

\* More messages of the call that has the mutex.
LEMMA AppendedSorted ==
  ASSUME NEW q \in Seq(Things), NEW s \in Seq(Things), NEW t, NEW k,
         \A x \in Range(s) : x = Moved \/ Of(x, t, k), Sorted(q), Sorted(s),
         EndsWith(q, t, k),
         \A m \in Range(q) : \A x \in Range(s) \ {Moved} : Of(m, t, k) => m[3] < x[3]
  PROVE  Sorted(q \o s) /\ EndsWith(q \o s, t, k)
<1> DEFINE r == q \o s
           a == Len(q)
           b == Len(s)
<1>1. /\ DOMAIN r = 1..(a + b) /\ DOMAIN q = 1..a /\ DOMAIN s = 1..b /\ a \in Nat /\ b \in Nat
      /\ \A i \in 1..a : r[i] = q[i] /\ r[i] \in Range(q)
      /\ \A i \in 1..(a + b) : i > a => /\ i - a \in 1..b /\ r[i] = s[i - a]
                                        /\ r[i] \in Range(s)
  BY AppendedParts
<1> HIDE DEF r, a, b
<1>2. ASSUME NEW i \in 1..(a + b), NEW j \in 1..(a + b), i < j, r[i] # Moved, r[j] # Moved,
             r[i][1] = r[j][1], r[i][2] = r[j][2]
      PROVE  r[i][3] < r[j][3]
  <2>1. CASE j <= a
    <3>1. i \in 1..a /\ j \in 1..a
      BY <1>1, <1>2, <2>1
    <3>2. r[i] = q[i] /\ r[j] = q[j] /\ i \in DOMAIN q /\ j \in DOMAIN q
      BY <1>1, <3>1
    <3> QED BY <1>2, <3>2 DEF Sorted
  <2>2. CASE i > a
    <3>1. j > a /\ i - a < j - a
      BY <1>1, <1>2, <2>2
    <3>2. r[i] = s[i - a] /\ r[j] = s[j - a] /\ i - a \in DOMAIN s /\ j - a \in DOMAIN s
      BY <1>1, <2>2, <3>1
    <3> QED BY <1>2, <3>1, <3>2 DEF Sorted
  <2>3. CASE i <= a /\ j > a
    <3>1. i \in 1..a /\ r[i] \in Range(q) /\ r[j] \in Range(s)
      BY <1>1, <2>3
    <3>2. Of(r[i], t, k)
      BY <1>2, <3>1 DEF Of
    <3> QED BY <1>2, <3>1, <3>2
  <2> QED BY <1>1, <2>1, <2>2, <2>3
<1>3. ASSUME NEW i \in 1..(a + b), NEW j \in 1..(a + b), i < j, Of(r[i], t, k)
      PROVE  r[j] = Moved \/ Of(r[j], t, k)
  <2>1. CASE j <= a
    <3>1. i \in 1..a /\ j \in 1..a
      BY <1>1, <1>3, <2>1
    <3>2. r[i] = q[i] /\ r[j] = q[j] /\ i \in DOMAIN q /\ j \in DOMAIN q
      BY <1>1, <3>1
    <3> QED BY <1>3, <3>2 DEF EndsWith
  <2>2. CASE j > a
    BY <1>1, <2>2
  <2> QED BY <1>1, <2>1, <2>2
<1>4. Sorted(r) /\ EndsWith(r, t, k)
  BY <1>1, <1>2, <1>3 DEF Sorted, EndsWith
<1> QED BY <1>4 DEF r

\* A handler agrees with itself.
LEMMA AgreesWithItself ==
  ASSUME NEW q \in Seq(Things), Sorted(q)
  PROVE  Agree(q, q)
<1> SUFFICES ASSUME NEW i \in DOMAIN q, NEW j \in DOMAIN q, NEW k \in DOMAIN q,
                    NEW l \in DOMAIN q, i < j, q[i] = q[k], q[j] = q[l],
                    q[k] # Moved, q[l] # Moved, ~(k < l)
             PROVE  FALSE
  BY DEF Agree
<1>1. i \in Int /\ j \in Int /\ k \in Int /\ l \in Int /\ q[i] \in Things /\ q[j] \in Things
  OBVIOUS
<1>2. q[i][3] \in Int /\ q[j][3] \in Int
  BY <1>1, NumberedThings
<1>3. \A a, b \in DOMAIN q : q[a] = q[b] /\ q[a] # Moved => ~(a < b)
  <2> SUFFICES ASSUME NEW a \in DOMAIN q, NEW b \in DOMAIN q, q[a] = q[b], q[a] # Moved, a < b
               PROVE  FALSE
    OBVIOUS
  <2>1. q[a][3] < q[a][3]
    BY DEF Sorted
  <2>2. q[a][3] \in Int
    BY NumberedThings
  <2> QED BY <2>1, <2>2
<1>4. i = k /\ j = l
  BY <1>1, <1>3
<1> QED BY <1>1, <1>4

\* Handlers go on agreeing when one is given more of the call that has the
\* mutex: whatever the others have after that call's messages is of it too.
LEMMA AgreeAppended ==
  ASSUME NEW p \in Seq(Things), NEW q \in Seq(Things), NEW s \in Seq(Things), NEW t, NEW k,
         \A x \in Range(s) : x = Moved \/ Of(x, t, k), Sorted(p), EndsWith(p, t, k),
         Sorted(q \o s), Agree(p, q), Agree(q, p)
  PROVE  Agree(p, q \o s) /\ Agree(q \o s, p)
<1> DEFINE r == q \o s
           a == Len(q)
           b == Len(s)
<1>1. /\ DOMAIN r = 1..(a + b) /\ DOMAIN q = 1..a /\ a \in Nat /\ b \in Nat /\ r \in Seq(Things)
      /\ \A i \in 1..a : r[i] = q[i]
      /\ \A i \in 1..(a + b) : i > a => r[i] \in Range(s)
  BY AppendedParts
<1> HIDE DEF r, a, b
<1>2. \A i \in DOMAIN p : i \in Int /\ (p[i] # Moved => p[i][3] \in Int)
  <2>1. \A i \in DOMAIN p : p[i] \in Things /\ i \in Int
    OBVIOUS
  <2> QED BY <2>1, NumberedThings
<1>3. ASSUME NEW i \in DOMAIN p, NEW j \in DOMAIN p, NEW x \in DOMAIN r, NEW y \in DOMAIN r,
             p[i] = r[x], p[j] = r[y], r[x] # Moved, r[y] # Moved, x < y, ~(i < j), y > a
      PROVE  FALSE
  <2>1. Of(r[y], t, k)
    BY <1>1, <1>3
  <2>2. CASE j < i
    <3>1. Of(p[i], t, k)
      BY <1>3, <2>1, <2>2 DEF EndsWith
    <3>2. p[j][3] < p[i][3]
      BY <1>3, <2>1, <2>2, <3>1 DEF Sorted, Of
    <3>3. r[x][3] < r[y][3]
      BY <1>3, <2>1, <3>1 DEF Sorted, Of, r
    <3> QED BY <1>2, <1>3, <3>2, <3>3
  <2>3. CASE i = j
    <3>1. r[x][3] < r[y][3]
      BY <1>3, <2>3 DEF Sorted, r
    <3> QED BY <1>2, <1>3, <2>3, <3>1
  <2> QED BY <1>2, <1>3, <2>2, <2>3
<1>4. ASSUME NEW i \in DOMAIN p, NEW j \in DOMAIN p, NEW x \in DOMAIN r, NEW y \in DOMAIN r,
             p[i] = r[x], p[j] = r[y], r[x] # Moved, r[y] # Moved, i < j, ~(x < y), x > a
      PROVE  FALSE
  <2>1. Of(p[i], t, k)
    BY <1>1, <1>4
  <2>2. Of(p[j], t, k)
    BY <1>4, <2>1 DEF EndsWith
  <2>3. p[i][3] < p[j][3]
    BY <1>4, <2>1, <2>2 DEF Sorted, Of
  <2>4. CASE y < x
    <3>1. r[y][3] < r[x][3]
      BY <1>4, <2>1, <2>2, <2>4 DEF Sorted, Of, r
    <3> QED BY <1>2, <1>4, <2>3, <3>1
  <2>5. CASE x = y
    BY <1>2, <1>4, <2>3, <2>5
  <2> QED BY <1>1, <1>4, <2>4, <2>5
<1>5. Agree(p, r)
  <2> SUFFICES ASSUME NEW i \in DOMAIN p, NEW j \in DOMAIN p, NEW x \in DOMAIN r,
                      NEW y \in DOMAIN r, i < j, p[i] = r[x], p[j] = r[y],
                      r[x] # Moved, r[y] # Moved, ~(x < y)
               PROVE  FALSE
    BY DEF Agree
  <2>1. CASE x > a
    BY <1>4, <2>1
  <2>2. CASE x <= a
    <3>1. x \in 1..a /\ y \in 1..a
      BY <1>1, <2>2
    <3>2. x \in DOMAIN q /\ y \in DOMAIN q /\ r[x] = q[x] /\ r[y] = q[y]
      BY <1>1, <3>1
    <3> QED BY <3>2 DEF Agree
  <2> QED BY <1>1, <2>1, <2>2
<1>6. Agree(r, p)
  <2> SUFFICES ASSUME NEW i \in DOMAIN p, NEW j \in DOMAIN p, NEW x \in DOMAIN r,
                      NEW y \in DOMAIN r, x < y, r[x] = p[i], r[y] = p[j],
                      p[i] # Moved, p[j] # Moved, ~(i < j)
               PROVE  FALSE
    BY DEF Agree
  <2>1. CASE y > a
    BY <1>3, <2>1
  <2>2. CASE y <= a
    <3>1. x \in 1..a /\ y \in 1..a
      BY <1>1, <2>2
    <3>2. x \in DOMAIN q /\ y \in DOMAIN q /\ r[x] = q[x] /\ r[y] = q[y]
      BY <1>1, <3>1
    <3> QED BY <3>2 DEF Agree
  <2> QED BY <1>1, <2>1, <2>2
<1> QED BY <1>5, <1>6 DEF r

\* An answer leaves the order of what is still offered.
LEMMA AnsweredOrder ==
  ASSUME NEW c \in Calls, c.todo # <<>>, NEW a \in Answers, NEW t, NEW k, NEW tk, NEW tk2,
         \A i \in 1..Len(c.todo) : Len(c.todo[i].what) = Width(c.op),
         Ordered(c), Later(c, t, k, tk),
         \A g \in Handlers : \A m \in Range(tk2[g]) :
           m \in Range(tk[g]) \/ (g = c.todo[1].to /\ m \in Range(c.todo[1].what))
  PROVE  Ordered(AnsweredCall(c, a)) /\ Later(AnsweredCall(c, a), t, k, tk2)
<1> DEFINE d == AnsweredCall(c, a)
<1>1. /\ d.todo = (IF c.op \in ToOne /\ Sent(a) THEN <<>> ELSE Tail(c.todo))
      /\ Len(Tail(c.todo)) = Len(c.todo) - 1
      /\ \A i \in 1..Len(Tail(c.todo)) : Tail(c.todo)[i] = c.todo[i + 1]
  BY AnsweredCallParts
<1>2. Len(c.todo) \in Nat \ {0} /\ c.todo \in Seq(Sends)
  BY NowIsThere DEF Calls
<1> HIDE DEF d
<1>3. \A i \in 1..Len(d.todo) : i + 1 \in 2..Len(c.todo) /\ d.todo[i] = c.todo[i + 1]
  <2>1. CASE d.todo = <<>>
    BY <2>1
  <2>2. CASE d.todo = Tail(c.todo)
    BY <1>1, <1>2, <2>2
  <2> QED BY <1>1, <2>1, <2>2
<1>4. Ordered(d)
  <2>1. \A i \in 1..Len(d.todo) : Sorted(d.todo[i].what)
    BY <1>2, <1>3 DEF Ordered
  <2>2. ASSUME NEW i \in 1..Len(d.todo), NEW j \in 1..Len(d.todo), i < j,
               d.todo[i].to = d.todo[j].to,
               NEW x \in Range(d.todo[i].what) \ {Moved},
               NEW y \in Range(d.todo[j].what) \ {Moved}
        PROVE  x[3] < y[3]
    <3>1. /\ i + 1 \in 1..Len(c.todo) /\ j + 1 \in 1..Len(c.todo) /\ i + 1 < j + 1
          /\ d.todo[i] = c.todo[i + 1] /\ d.todo[j] = c.todo[j + 1]
      BY <1>2, <1>3, <2>2
    <3> QED BY <2>2, <3>1 DEF Ordered
  <2> QED BY <2>1, <2>2 DEF Ordered
<1>5. Later(d, t, k, tk2)
  <2> SUFFICES ASSUME NEW i \in 1..Len(d.todo), NEW x \in Range(d.todo[i].what) \ {Moved},
                      NEW m \in Range(tk2[d.todo[i].to]), Of(m, t, k)
               PROVE  m[3] < x[3]
    BY DEF Later
  <2>1. i + 1 \in 1..Len(c.todo) /\ 1 < i + 1 /\ d.todo[i] = c.todo[i + 1]
    BY <1>2, <1>3
  <2>2. d.todo[i].to \in Handlers /\ 1 \in 1..Len(c.todo)
    <3>1. d.todo[i] \in Sends /\ 1 \in 1..Len(c.todo)
      BY <1>2, <2>1
    <3> QED BY <3>1 DEF Sends
  <2>3. CASE m \in Range(tk[d.todo[i].to])
    BY <2>1, <2>3 DEF Later
  <2>4. CASE d.todo[i].to = c.todo[1].to /\ m \in Range(c.todo[1].what)
    BY <2>1, <2>2, <2>4 DEF Ordered, Of
  <2> QED BY <2>2, <2>3, <2>4
<1> QED BY <1>4, <1>5 DEF d

\* So does a function.
LEMMA RanOrder ==
  ASSUME NEW c \in Calls, NEW m, NEW gone \in BOOLEAN, NEW t, NEW k, NEW tk, Ordered(c),
         Later(c, t, k, tk)
  PROVE  Ordered(RanCall(c, m, gone)) /\ Later(RanCall(c, m, gone), t, k, tk)
<1> DEFINE d == RanCall(c, m, gone)
           x == MovedFrom(c, m, gone)
<1>1. d \in Calls /\ d.todo = x /\ Len(x) = Len(c.todo)
  BY RanCallParts
<1>2. \A i \in 1..Len(c.todo) : x[i].to = c.todo[i].to /\ Len(x[i].what) = Len(c.todo[i].what)
  <2>1. ASSUME NEW i \in 1..Len(c.todo)
        PROVE  x[i].to = c.todo[i].to /\ Len(x[i].what) = Len(c.todo[i].what)
    BY MovedShape
  <2> QED BY <2>1
<1>3. ASSUME NEW i \in 1..Len(c.todo), NEW j \in 1..Len(c.todo[i].what)
      PROVE  x[i].what[j] = Moved \/ x[i].what[j] = c.todo[i].what[j]
  BY MovedParts
<1> HIDE DEF d, x
<1>4. ASSUME NEW i \in 1..Len(c.todo)
      PROVE  /\ DOMAIN x[i].what = 1..Len(c.todo[i].what)
             /\ DOMAIN c.todo[i].what = 1..Len(c.todo[i].what)
             /\ Range(x[i].what) \subseteq Range(c.todo[i].what) \cup {Moved}
  <2>1. x[i] \in Sends /\ c.todo[i] \in Sends
    BY <1>1 DEF Calls
  <2>2. x[i].what \in Seq(Things) /\ c.todo[i].what \in Seq(Things)
    BY <2>1 DEF Sends
  <2>3. /\ DOMAIN x[i].what = 1..Len(c.todo[i].what)
        /\ DOMAIN c.todo[i].what = 1..Len(c.todo[i].what)
    BY <1>2, <2>2
  <2> QED BY <1>3, <2>3 DEF Range
<1>5. Ordered(d)
  <2>1. ASSUME NEW i \in 1..Len(c.todo) PROVE Sorted(x[i].what)
    <3>1. Sorted(c.todo[i].what)
      BY DEF Ordered
    <3> QED BY <1>3, <1>4, <3>1, ZenonT(60) DEF Sorted
  <2>2. ASSUME NEW i \in 1..Len(c.todo), NEW j \in 1..Len(c.todo), i < j,
               c.todo[i].to = c.todo[j].to,
               NEW v \in Range(x[i].what) \ {Moved}, NEW y \in Range(x[j].what) \ {Moved}
        PROVE  v[3] < y[3]
    <3>1. v \in Range(c.todo[i].what) \ {Moved} /\ y \in Range(c.todo[j].what) \ {Moved}
      BY <1>4
    <3> QED BY <2>2, <3>1 DEF Ordered
  <2> QED BY <1>1, <1>2, <2>1, <2>2 DEF Ordered
<1>6. Later(d, t, k, tk)
  BY <1>1, <1>2, <1>4 DEF Later
<1> QED BY <1>5, <1>6 DEF d

\* The operators of constants, applied to the state after a step.
LEMMA InTurnAfter ==
  ASSUME \A t \in Clients : call'[t] # Idle =>
           /\ IsBroadcast(call'[t]) /\ Ordered(call'[t])
           /\ Later(call'[t], t, calls'[t], taken')
           /\ mtx' # t => \A h \in Handlers : \A m \in Range(taken'[h]) : ~Of(m, t, calls'[t]),
         \A h \in Handlers : /\ Sorted(taken'[h])
                             /\ mtx' # Nobody => EndsWith(taken'[h], mtx', calls'[mtx']),
         \A g, h \in Handlers : Agree(taken'[g], taken'[h])
  PROVE  InTurn'
  BY DEF InTurn, IsBroadcast, Ordered, Later, Of, Sorted, EndsWith, Agree, Range

\* A step of a call that gives nothing to a queue.
LEMMA SameOrder ==
  ASSUME Typed, InTurn, NEW t \in Clients, NEW d \in Calls, call[t] # Idle,
         call' = [call EXCEPT ![t] = d], UNCHANGED <<mtx, calls, taken>>,
         d.op = call[t].op, Ordered(d), Later(d, t, calls[t], taken)
  PROVE  InTurn'
<1>1. ASSUME NEW u \in Clients, call'[u] # Idle
      PROVE  /\ IsBroadcast(call'[u]) /\ Ordered(call'[u])
             /\ Later(call'[u], u, calls'[u], taken')
             /\ mtx' # u => \A h \in Handlers : \A m \in Range(taken'[h]) : ~Of(m, u, calls'[u])
  <2>1. CASE u = t
    <3>1. call'[u] = d
      BY <2>1 DEF Typed, CallTypes
    <3>2. IsBroadcast(d)
      BY DEF InTurn, IsBroadcast
    <3>3. mtx # t => \A h \in Handlers : \A m \in Range(taken[h]) : ~Of(m, t, calls[t])
      BY DEF InTurn
    <3> QED BY <2>1, <3>1, <3>2, <3>3
  <2>2. CASE u # t
    <3>1. call'[u] = call[u]
      BY <2>2 DEF Typed, CallTypes
    <3>2. /\ IsBroadcast(call[u]) /\ Ordered(call[u]) /\ Later(call[u], u, calls[u], taken)
          /\ mtx # u => \A h \in Handlers : \A m \in Range(taken[h]) : ~Of(m, u, calls[u])
      BY <1>1, <3>1 DEF InTurn
    <3> QED BY <3>1, <3>2
  <2> QED BY <2>1, <2>2
<1>2. /\ \A h \in Handlers : /\ Sorted(taken'[h])
                             /\ mtx' # Nobody => EndsWith(taken'[h], mtx', calls'[mtx'])
      /\ \A g, h \in Handlers : Agree(taken'[g], taken'[h])
  BY DEF InTurn
<1> QED BY <1>1, <1>2, InTurnAfter

\* A handler accepts what the client with the broadcaster's mutex sends.
LEMMA PutsOrder ==
  ASSUME Typed, Guarded, Answering, InTurn, NEW t \in Clients, NEW h \in Handlers,
         NEW n \in Nat, Puts(t, h, n)
  PROVE  InTurn'
<1> DEFINE c == call[t]
           s == c.todo[1].what
           k == calls[t]
           a == IF n > 0 THEN "SuccessLostData" ELSE "Success"
           d == AnsweredCall(c, a)
<1>1. At(t, h) /\ AnswerTo(t, c, a) /\ UNCHANGED <<mtx, calls>>
  BY DEF Puts
<1>2. a \in Answers
  BY DEF Answers
<1>3. /\ c # Idle /\ c \in Calls /\ c.todo # <<>> /\ Now(c) = c.todo[1]
      /\ \A i \in 1..Len(c.todo) : Len(c.todo[i].what) = Width(c.op)
      /\ 1 \in 1..Len(c.todo) /\ c.todo[1].to = h
      /\ \A x \in Range(s) : x = Moved \/ (x \in Messages /\ x[1] = t /\ x[2] = k)
  BY <1>1, AnsweringParts DEF At
<1>4. IsBroadcast(c) /\ Ordered(c) /\ Later(c, t, k, taken)
  BY <1>3 DEF InTurn
<1>5. mtx = t
  <2>1. Entering(t, h) \/ call[t].at # "outside"
    BY DEF Puts
  <2> QED BY <1>1, <1>4, <2>1, AloneInside
<1>6. call' = [call EXCEPT ![t] = d]
  BY <1>1, AnswerToIs
<1>7. taken' = [taken EXCEPT ![h] = @ \o s]
  BY <1>3 DEF Puts
<1>8. s \in Seq(Things) /\ \A g \in Handlers : taken[g] \in Seq(Things)
  BY <1>1, <1>3, HandlerParts DEF Typed, HistoryTypes
<1>9. taken'[h] = taken[h] \o s /\ \A g \in Handlers : g # h => taken'[g] = taken[g]
  BY <1>7 DEF Typed, HistoryTypes
<1>10. d.op = c.op
  BY <1>2, <1>3, AnsweredCallParts
<1> HIDE DEF a, s, c, k
<1>11. \A x \in Range(s) : x = Moved \/ Of(x, t, k)
  BY <1>3, MovedIsNoMessage DEF Of
<1>12. Range(taken'[h]) = Range(taken[h]) \cup Range(s)
  BY <1>8, <1>9, ConcatRange
<1>13. Ordered(d) /\ Later(d, t, k, taken')
  <2>1. \A g \in Handlers : \A m \in Range(taken'[g]) :
          m \in Range(taken[g]) \/ (g = c.todo[1].to /\ m \in Range(c.todo[1].what))
    BY <1>3, <1>9, <1>12 DEF s
  <2> DEFINE tk2 == taken'
  <2> HIDE DEF tk2
  <2>2. \A g \in Handlers : \A m \in Range(tk2[g]) :
          m \in Range(taken[g]) \/ (g = c.todo[1].to /\ m \in Range(c.todo[1].what))
    BY <2>1 DEF tk2
  <2>3. Ordered(d) /\ Later(d, t, k, tk2)
    BY <1>2, <1>3, <1>4, <2>2, AnsweredOrder
  <2> QED BY <2>3 DEF tk2
<1>14. /\ \A g \in Handlers : Sorted(taken[g]) /\ EndsWith(taken[g], t, k)
       /\ \A f, g \in Handlers : Agree(taken[f], taken[g])
       /\ Sorted(s)
  <2>1. mtx # Nobody
    BY <1>5, HandlersAssumption
  <2>2. Sorted(s)
    BY <1>3, <1>4 DEF Ordered, s
  <2> QED BY <1>5, <2>1, <2>2 DEF InTurn, k
<1>15. Sorted(taken'[h]) /\ EndsWith(taken'[h], t, k)
  <2>1. \A m \in Range(taken[h]) : \A x \in Range(s) \ {Moved} : Of(m, t, k) => m[3] < x[3]
    BY <1>3, <1>4 DEF Later, s
  <2> DEFINE q == taken[h]
  <2>2. q \in Seq(Things) /\ Sorted(q) /\ EndsWith(q, t, k)
    BY <1>8, <1>14
  <2>3. \A m \in Range(q) : \A x \in Range(s) \ {Moved} : Of(m, t, k) => m[3] < x[3]
    BY <2>1
  <2> HIDE DEF q
  <2>4. Sorted(q \o s) /\ EndsWith(q \o s, t, k)
    BY <1>8, <1>11, <1>14, <2>2, <2>3, AppendedSorted
  <2> QED BY <1>9, <2>4 DEF q
<1>16. ASSUME NEW f \in Handlers, NEW g \in Handlers PROVE Agree(taken'[f], taken'[g])
  <2> DEFINE q == taken[h]
  <2>1. q \in Seq(Things) /\ Sorted(q \o s) /\ taken'[h] = q \o s /\ q \o s \in Seq(Things)
    BY <1>8, <1>9, <1>15, AppendedParts
  <2>2. ASSUME NEW e \in Handlers, e # h
        PROVE  Agree(taken'[e], taken'[h]) /\ Agree(taken'[h], taken'[e])
    <3> DEFINE p == taken[e]
    <3>1. /\ p \in Seq(Things) /\ Sorted(p) /\ EndsWith(p, t, k) /\ Agree(p, q) /\ Agree(q, p)
          /\ taken'[e] = p
      BY <1>8, <1>9, <1>14, <2>2
    <3> HIDE DEF p, q
    <3>2. Agree(p, q \o s) /\ Agree(q \o s, p)
      BY <1>8, <1>11, <2>1, <3>1, AgreeAppended
    <3> QED BY <2>1, <3>1, <3>2
  <2>3. CASE f = h /\ g = h
    <3> HIDE DEF q
    <3> QED BY <2>1, <2>3, AgreesWithItself
  <2>4. CASE f # h /\ g # h
    BY <1>9, <1>14, <2>4
  <2> QED BY <2>2, <2>3, <2>4
<1>17. ASSUME NEW u \in Clients, call'[u] # Idle
       PROVE  /\ IsBroadcast(call'[u]) /\ Ordered(call'[u])
              /\ Later(call'[u], u, calls'[u], taken')
              /\ mtx' # u => \A g \in Handlers : \A m \in Range(taken'[g]) : ~Of(m, u, calls'[u])
  <2>1. CASE u = t
    <3>1. call'[u] = d /\ mtx' = u /\ calls'[u] = k
      BY <1>1, <1>5, <1>6, <2>1 DEF Typed, CallTypes, k
    <3>2. IsBroadcast(d)
      BY <1>4, <1>10 DEF IsBroadcast
    <3> QED BY <1>13, <2>1, <3>1, <3>2
  <2>2. CASE u # t
    <3> DEFINE e == call[u]
    <3>1. call'[u] = e /\ calls'[u] = calls[u] /\ mtx # u /\ mtx' # u
      BY <1>1, <1>5, <1>6, <2>2 DEF Typed, CallTypes
    <3>2. /\ IsBroadcast(e) /\ Ordered(e) /\ Later(e, u, calls[u], taken)
          /\ \A g \in Handlers : \A m \in Range(taken[g]) : ~Of(m, u, calls[u])
      BY <1>17, <3>1 DEF InTurn
    <3> HIDE DEF e
    <3>3. \A x \in Range(s) : ~Of(x, u, calls[u])
      BY <1>11, <2>2 DEF Of
    <3>4. \A g \in Handlers : \A m \in Range(taken'[g]) : ~Of(m, u, calls[u])
      BY <1>9, <1>12, <3>2, <3>3
    <3>5. Later(e, u, calls[u], taken')
      <4>1. e \in Calls
        BY <1>17, <3>1, BusyCalls DEF Typed, e
      <4>2. \A i \in 1..Len(e.todo) : e.todo[i].to \in Handlers
        <5>1. e.todo \in Seq(Sends)
          BY <4>1 DEF Calls
        <5>2. \A i \in 1..Len(e.todo) : e.todo[i] \in Sends
          BY <5>1
        <5> QED BY <5>2 DEF Sends
      <4> QED BY <3>4, <4>2 DEF Later
    <3> QED BY <3>1, <3>2, <3>4, <3>5
  <2> QED BY <2>1, <2>2
<1>18. \A g \in Handlers : /\ Sorted(taken'[g])
                           /\ mtx' # Nobody => EndsWith(taken'[g], mtx', calls'[mtx'])
  <2>1. mtx' = t /\ calls'[mtx'] = k
    BY <1>1, <1>5 DEF k
  <2> QED BY <1>9, <1>14, <1>15, <2>1
<1> QED BY <1>16, <1>17, <1>18, InTurnAfter

\* Nobody has a message of a call that is yet to begin.
LEMMA NewIsNowhere ==
  ASSUME Typed, Made, NEW t \in Clients, NEW k \in Int, calls[t] < k,
         NEW h \in Handlers, NEW m \in Range(taken[h])
  PROVE  ~Of(m, t, k)
<1> SUFFICES ASSUME m # Moved, m[1] = t, m[2] = k PROVE FALSE
  BY DEF Of
<1>1. m[2] <= calls[m[1]]
  BY DEF Made
<1>2. calls[t] \in Int
  BY HandlersAssumption DEF Typed, CallTypes
<1> QED BY <1>1, <1>2

\* A new broadcast offers its messages in order, to each handler once.
LEMMA NewOrder ==
  ASSUME Typed, NEW t \in Clients, NEW op, NEW type, NEW s, NEW h, NEW cancel,
         Begins(t, op, type, s, h, cancel), usage.direct = {}, IsInjective(usage.writers)
  PROVE  /\ IsBroadcast(NewCall(op, type, s, h, cancel))
         /\ Ordered(NewCall(op, type, s, h, cancel))
<1> DEFINE c == NewCall(op, type, s, h, cancel)
           x == Todo(op, s, h)
           n == Len(usage.writers)
           w == usage.writers
<1>1. /\ \A i \in 1..Len(s) : s[i] = <<t, calls'[t], i>>
      /\ s \in Seq(Messages)
      /\ op = "sendMessages" => Len(s) = 2
      /\ op \in {"direct", "close"} => h \in Handlers
  BY NewCallIsCall DEF Typed
<1>2. op \in Broadcasts \cup {"closeAll"}
  BY DEF Begins, Typed, Usage
<1>3. op \notin {"direct", "close"}
  BY <1>2 DEF Broadcasts, ToOne
<1>4. c.op = op /\ c.todo = x
  BY DEF NewCall
<1>5. w \in Seq(Handlers) /\ n \in Nat /\ DOMAIN w = 1..n
  BY DEF Typed, Usage
<1>6. /\ x \in Seq(Sends) /\ Len(x) = SizeWith(n, op)
      /\ \A i \in 1..Len(x) :
           /\ op # "sendMessages" => x[i].what = s /\ x[i].to = w[i]
           /\ op = "sendMessages" =>
                /\ x[i].what = IF i <= n THEN <<s[1]>> ELSE <<s[2]>>
                /\ x[i].to = IF i <= n THEN w[i] ELSE w[i - n]
  <2>1. s \in Seq(Things) /\ usage \in Usage
    BY <1>1 DEF Things, Typed
  <2>2. op \in {"direct", "close"} => h \in Handlers
    BY <1>1
  <2>3. op = "sendMessages" => Len(s) = 2
    BY <1>1
  <2>4. /\ x \in Seq(Sends) /\ Len(x) = Size(op)
        /\ \A i \in 1..Size(op) :
             /\ op # "sendMessages" => x[i].what = s
             /\ op = "sendMessages" => x[i].what = IF i <= n THEN <<s[1]>> ELSE <<s[2]>>
             /\ op = "sendMessages" => x[i].to = IF i <= n THEN w[i] ELSE w[i - n]
             /\ op \notin {"direct", "close", "sendMessages"} => x[i].to = w[i]
    BY <2>1, <2>2, <2>3, TodoIsSends
  <2> HIDE DEF x, w, n
  <2>5. Len(x) = SizeWith(n, op)
    BY <2>4 DEF Size, n
  <2> QED BY <1>3, <2>4, <2>5
<1>7. \A i, j \in 1..n : w[i] = w[j] => i = j
  BY <1>5 DEF IsInjective
<1> HIDE DEF c, x, w, n
<1>8. Sorted(s)
  <2>1. DOMAIN s = 1..Len(s) /\ \A i \in 1..Len(s) : s[i][3] = i
    BY <1>1
  <2> QED BY <2>1 DEF Sorted
<1>9. ASSUME op # "sendMessages" PROVE Ordered(c)
  <2>1. Len(x) = n /\ \A i \in 1..n : x[i].what = s /\ x[i].to = w[i]
    BY <1>3, <1>6, <1>9 DEF SizeWith
  <2>2. \A i, j \in 1..n : i < j => x[i].to # x[j].to
    BY <1>5, <1>7, <2>1
  <2> QED BY <1>4, <1>8, <2>1, <2>2 DEF Ordered
<1>10. ASSUME op = "sendMessages" PROVE Ordered(c)
  <2> DEFINE a == <<s[1]>>
             b == <<s[2]>>
  <2>1. s[1][3] = 1 /\ s[2][3] = 2 /\ DOMAIN a = {1} /\ DOMAIN b = {1}
    BY <1>1, <1>10
  <2>2. Range(a) = {s[1]} /\ Range(b) = {s[2]} /\ Sorted(a) /\ Sorted(b)
    BY DEF Range, Sorted
  <2>3. /\ Len(x) = 2 * n
        /\ \A i \in 1..Len(x) : /\ i <= n => x[i].what = a /\ x[i].to = w[i]
                                /\ ~(i <= n) => x[i].what = b /\ x[i].to = w[i - n]
    BY <1>6, <1>10 DEF SizeWith
  <2> HIDE DEF a, b
  <2>4. \A i \in 1..Len(x) : Sorted(x[i].what)
    BY <2>2, <2>3
  <2>5. ASSUME NEW i \in 1..Len(x), NEW j \in 1..Len(x), i < j, x[i].to = x[j].to
        PROVE  i <= n /\ ~(j <= n)
    <3>1. CASE j <= n
      <4>1. i \in 1..n /\ j \in 1..n /\ i # j /\ w[i] = w[j]
        BY <1>5, <2>3, <2>5, <3>1
      <4> QED BY <1>7, <4>1
    <3>2. CASE ~(i <= n)
      <4>1. i - n \in 1..n /\ j - n \in 1..n /\ i - n # j - n /\ ~(j <= n)
        BY <1>5, <2>3, <2>5, <3>2
      <4>2. w[i - n] = w[j - n]
        BY <2>3, <2>5, <3>2, <4>1
      <4> QED BY <1>7, <4>1, <4>2
    <3> QED BY <3>1, <3>2
  <2>6. ASSUME NEW i \in 1..Len(x), NEW j \in 1..Len(x), i < j, x[i].to = x[j].to,
               NEW u \in Range(x[i].what) \ {Moved}, NEW v \in Range(x[j].what) \ {Moved}
        PROVE  u[3] < v[3]
    <3>1. u = s[1] /\ v = s[2]
      BY <2>2, <2>3, <2>5, <2>6
    <3> QED BY <2>1, <3>1
  <2> QED BY <1>4, <2>4, <2>6 DEF Ordered
<1>11. IsBroadcast(c)
  BY <1>2, <1>4 DEF IsBroadcast
<1> QED BY <1>9, <1>10, <1>11 DEF c

\* A client begins a call, takes the broadcaster's mutex, or returns.
LEMMA ElsewhereOrder ==
  ASSUME Typed, Guarded, Answering, InTurn, usage.direct = {}, IsInjective(usage.writers),
         NEW t \in Clients, Elsewhere(t)
  PROVE  InTurn'
<1>1. UNCHANGED taken
  BY DEF Elsewhere, Begins, Lock, Return, history
<1>2. \A u \in Clients : u # t => call'[u] = call[u] /\ calls'[u] = calls[u]
  BY DEF Elsewhere, Begins, Lock, Return, Typed, CallTypes
<1>3. /\ \A h \in Handlers : Sorted(taken'[h])
      /\ \A g, h \in Handlers : Agree(taken'[g], taken'[h])
  BY <1>1 DEF InTurn
<1>4. ASSUME NEW u \in Clients, u # t, call'[u] # Idle, mtx' # u => mtx # u
      PROVE  /\ IsBroadcast(call'[u]) /\ Ordered(call'[u])
             /\ Later(call'[u], u, calls'[u], taken')
             /\ mtx' # u => \A h \in Handlers : \A m \in Range(taken'[h]) : ~Of(m, u, calls'[u])
  <2>1. /\ IsBroadcast(call[u]) /\ Ordered(call[u]) /\ Later(call[u], u, calls[u], taken)
        /\ mtx # u => \A h \in Handlers : \A m \in Range(taken[h]) : ~Of(m, u, calls[u])
    BY <1>2, <1>4 DEF InTurn
  <2>2. call'[u] = call[u] /\ calls'[u] = calls[u] /\ taken' = taken
    BY <1>1, <1>2, <1>4
  <2> QED BY <1>4, <2>1, <2>2
<1>5. ASSUME NEW op, NEW type, NEW s, NEW h, NEW cancel, Begins(t, op, type, s, h, cancel)
      PROVE  InTurn'
  <2> DEFINE c == NewCall(op, type, s, h, cancel)
             k == calls'[t]
  <2>1. /\ call[t] = Idle /\ call' = [call EXCEPT ![t] = c] /\ mtx' = mtx
    BY <1>5 DEF Begins
  <2>2. mtx # t
    BY <2>1, IdleIsNoBroadcast DEF Guarded
  <2>3. IsBroadcast(c) /\ Ordered(c) /\ c \in Calls
    BY <1>5, NewOrder, NewCallIsCall DEF Typed
  <2>4. calls[t] < k /\ k \in Int
    <3>1. calls' \in [Clients -> 0..(MaxCalls + 1)] /\ calls[t] < k
      BY <1>5, NewCallIsCall DEF Typed
    <3> QED BY <3>1, HandlersAssumption
  <2> HIDE DEF c, k
  <2>5. \A g \in Handlers : \A m \in Range(taken[g]) : ~Of(m, t, k)
    BY <2>4, NewIsNowhere DEF Answering
  <2>6. Later(c, t, k, taken)
    <3>1. c.todo \in Seq(Sends)
      BY <2>3 DEF Calls
    <3>2. \A i \in 1..Len(c.todo) : c.todo[i] \in Sends
      BY <3>1
    <3>3. \A i \in 1..Len(c.todo) : c.todo[i].to \in Handlers
      BY <3>2 DEF Sends
    <3> QED BY <2>5, <3>3 DEF Later
  <2>7. call'[t] = c /\ calls'[t] = k
    BY <2>1 DEF Typed, CallTypes, k
  <2>8. ASSUME NEW u \in Clients, call'[u] # Idle
        PROVE  /\ IsBroadcast(call'[u]) /\ Ordered(call'[u])
               /\ Later(call'[u], u, calls'[u], taken')
               /\ mtx' # u =>
                    \A g \in Handlers : \A m \in Range(taken'[g]) : ~Of(m, u, calls'[u])
    <3>1. CASE u = t
      BY <1>1, <2>3, <2>5, <2>6, <2>7, <3>1
    <3>2. CASE u # t
      BY <1>4, <2>1, <2>8, <3>2
    <3> QED BY <3>1, <3>2
  <2>9. \A g \in Handlers : mtx' # Nobody => EndsWith(taken'[g], mtx', calls'[mtx'])
    <3>1. mtx # Nobody => calls'[mtx] = calls[mtx]
      BY <1>2, <2>2 DEF Typed, LockTypes
    <3> QED BY <1>1, <2>1, <3>1 DEF InTurn
  <2> QED BY <1>3, <2>8, <2>9, InTurnAfter
<1>6. ASSUME Lock(t) PROVE InTurn'
  <2>1. mtx = Nobody /\ mtx' = t /\ call' = call /\ calls' = calls /\ IsBroadcast(call[t])
    BY <1>6 DEF Lock
  <2>2. mtx # t /\ call[t] # Idle
    BY <2>1, HandlersAssumption, IdleIsNoBroadcast
  <2>3. \A g \in Handlers : \A m \in Range(taken[g]) : ~Of(m, t, calls[t])
    BY <2>2 DEF InTurn
  <2>4. \A g \in Handlers : EndsWith(taken[g], t, calls[t])
    BY <2>3 DEF EndsWith, Range
  <2>5. ASSUME NEW u \in Clients, call'[u] # Idle
        PROVE  /\ IsBroadcast(call'[u]) /\ Ordered(call'[u])
               /\ Later(call'[u], u, calls'[u], taken')
               /\ mtx' # u =>
                    \A g \in Handlers : \A m \in Range(taken'[g]) : ~Of(m, u, calls'[u])
    <3>1. CASE u = t
      <4>1. IsBroadcast(call[t]) /\ Ordered(call[t]) /\ Later(call[t], t, calls[t], taken)
        BY <2>2 DEF InTurn
      <4> QED BY <1>1, <2>1, <3>1, <4>1
    <3>2. CASE u # t
      <4>1. mtx # u
        BY <2>1, HandlersAssumption
      <4> QED BY <1>4, <2>5, <3>2, <4>1
    <3> QED BY <3>1, <3>2
  <2>6. \A g \in Handlers : mtx' # Nobody => EndsWith(taken'[g], mtx', calls'[mtx'])
    BY <1>1, <2>1, <2>4
  <2> QED BY <1>3, <2>5, <2>6, InTurnAfter
<1>7. ASSUME Return(t) PROVE InTurn'
  <2>1. /\ mtx' = (IF mtx = t THEN Nobody ELSE mtx) /\ calls' = calls /\ call'[t] = Idle
    BY <1>7 DEF Return, Typed, CallTypes
  <2>2. ASSUME NEW u \in Clients, call'[u] # Idle
        PROVE  /\ IsBroadcast(call'[u]) /\ Ordered(call'[u])
               /\ Later(call'[u], u, calls'[u], taken')
               /\ mtx' # u =>
                    \A g \in Handlers : \A m \in Range(taken'[g]) : ~Of(m, u, calls'[u])
    <3>1. u # t /\ (mtx' # u => mtx # u)
      BY <2>1, <2>2, HandlersAssumption
    <3> QED BY <1>4, <2>2, <3>1
  <2>3. \A g \in Handlers : mtx' # Nobody => EndsWith(taken'[g], mtx', calls'[mtx'])
    BY <1>1, <2>1 DEF InTurn
  <2> QED BY <1>3, <2>2, <2>3, InTurnAfter
<1> QED BY <1>5, <1>6, <1>7 DEF Elsewhere

\* Nothing that the order is about changes.
LEMMA OrderUnchanged ==
  ASSUME InTurn, UNCHANGED <<mtx, call, calls, taken>>
  PROVE  InTurn'
<1>1. /\ \A t \in Clients : call[t] # Idle =>
           /\ IsBroadcast(call[t]) /\ Ordered(call[t])
           /\ Later(call[t], t, calls[t], taken)
           /\ mtx # t => \A h \in Handlers : \A m \in Range(taken[h]) : ~Of(m, t, calls[t])
      /\ \A h \in Handlers : /\ Sorted(taken[h])
                             /\ mtx # Nobody => EndsWith(taken[h], mtx, calls[mtx])
      /\ \A g, h \in Handlers : Agree(taken[g], taken[h])
  BY DEF InTurn
<1> QED BY <1>1, InTurnAfter

\* A client's step at a handler.
LEMMA AtHandlerOrder ==
  ASSUME Typed, Guarded, Answering, InTurn, NEW t \in Clients, NEW h \in Handlers,
         AtHandler(t, h)
  PROVE  InTurn'
<1>1. ASSUME At(t, h)
      PROVE  /\ call[t] # Idle /\ call[t] \in Calls /\ call[t].todo # <<>>
             /\ \A i \in 1..Len(call[t].todo) : Len(call[t].todo[i].what) = Width(call[t].op)
             /\ Ordered(call[t]) /\ Later(call[t], t, calls[t], taken)
  BY <1>1, AnsweringParts DEF InTurn
<1>2. ASSUME NEW c \in Calls, c.todo # <<>>, NEW a \in Answers, At(t, h), c.op = call[t].op,
             \A i \in 1..Len(c.todo) : Len(c.todo[i].what) = Width(c.op),
             Ordered(c), Later(c, t, calls[t], taken), AnswerTo(t, c, a),
             UNCHANGED <<mtx, calls, taken>>
      PROVE  InTurn'
  <2> DEFINE d == AnsweredCall(c, a)
  <2>1. call' = [call EXCEPT ![t] = d]
    BY <1>2, AnswerToIs
  <2>2. d \in Calls /\ d.op = call[t].op
    BY <1>2, AnsweredCallParts
  <2>3. Ordered(d) /\ Later(d, t, calls[t], taken)
    <3> DEFINE k == calls[t]
    <3> HIDE DEF k
    <3>1. Later(c, t, k, taken)
      BY <1>2 DEF k
    <3>2. Ordered(d) /\ Later(d, t, k, taken)
      BY <1>2, <3>1, AnsweredOrder
    <3> QED BY <3>2 DEF k
  <2> HIDE DEF d
  <2> QED BY <1>1, <1>2, <2>1, <2>2, <2>3, SameOrder
<1>3. ASSUME NEW a \in Answers, Refuses(t, h, a) PROVE InTurn'
  <2>1. At(t, h) /\ AnswerTo(t, call[t], a) /\ UNCHANGED <<mtx, calls, taken>>
    BY <1>3 DEF Refuses, history
  <2> QED BY <1>1, <1>2, <2>1
<1>4. ASSUME Closes(t, h) PROVE InTurn'
  <2>1. At(t, h) /\ AnswerTo(t, call[t], "Success") /\ UNCHANGED <<mtx, calls, taken>>
    BY <1>4 DEF Closes
  <2>2. "Success" \in Answers
    BY DEF Answers
  <2> QED BY <1>1, <1>2, <2>1, <2>2
<1>5. ASSUME Blocks(t, h) \/ Enters(t, h) PROVE InTurn'
  <2>1. PICK at \in {"blocked", "function"} :
          At(t, h) /\ call' = [call EXCEPT ![t] = PlacedCall(call[t], at)]
    BY <1>5 DEF Blocks, Enters
  <2>2. UNCHANGED <<mtx, calls, taken>>
    BY <1>5 DEF Blocks, Enters, history
  <2> DEFINE d == PlacedCall(call[t], at)
  <2>3. /\ d \in Calls /\ d.op = call[t].op /\ d.todo = call[t].todo
        /\ call' = [call EXCEPT ![t] = d]
    BY <1>1, <2>1, PlacedCallParts
  <2> HIDE DEF d
  <2>4. Ordered(d) /\ Later(d, t, calls[t], taken)
    BY <1>1, <2>1, <2>3 DEF Ordered, Later
  <2> QED BY <1>1, <2>1, <2>2, <2>3, <2>4, SameOrder
<1>6. ASSUME NEW gone \in BOOLEAN, At(t, h), call[t].at = "function"
      PROVE  /\ Ordered(RanCall(call[t], Running(t), gone))
             /\ Later(RanCall(call[t], Running(t), gone), t, calls[t], taken)
             /\ RanCall(call[t], Running(t), gone).op = call[t].op
  BY <1>1, <1>6, RanOrder, RanCallParts
<1>7. ASSUME NEW gone \in BOOLEAN, RunsOn(t, h, gone) PROVE InTurn'
  <2> DEFINE d == RanCall(call[t], Running(t), gone)
  <2>1. /\ At(t, h) /\ call[t].at = "function" /\ call' = [call EXCEPT ![t] = d]
        /\ UNCHANGED <<mtx, calls, taken>>
    BY <1>7 DEF RunsOn
  <2>2. d \in Calls
    BY <2>1, RunningParts
  <2>3. d.op = call[t].op /\ Ordered(d) /\ Later(d, t, calls[t], taken)
    BY <1>6, <2>1
  <2> HIDE DEF d
  <2> QED BY <1>1, <2>1, <2>2, <2>3, SameOrder
<1>8. ASSUME NEW a \in {"Success", "Failed"}, NEW gone \in BOOLEAN, RunsLast(t, h, a, gone)
      PROVE  InTurn'
  <2> DEFINE c == RanCall(call[t], Running(t), gone)
  <2>1. /\ At(t, h) /\ call[t].at = "function" /\ AnswerTo(t, c, a)
        /\ UNCHANGED <<mtx, calls, taken>>
    BY <1>8 DEF RunsLast
  <2>2. /\ c \in Calls /\ c.todo # <<>>
        /\ \A i \in 1..Len(c.todo) : Len(c.todo[i].what) = Width(c.op)
    BY <2>1, RunningParts
  <2>3. c.op = call[t].op /\ Ordered(c) /\ Later(c, t, calls[t], taken) /\ a \in Answers
    BY <1>6, <2>1 DEF Answers
  <2> HIDE DEF c
  <2> QED BY <1>2, <2>1, <2>2, <2>3
<1>9. ASSUME SleepsAgain(t, h) PROVE InTurn'
  <2>1. UNCHANGED <<mtx, call, calls, taken>>
    BY <1>9 DEF SleepsAgain, history
  <2> QED BY <2>1, OrderUnchanged
<1> QED BY <1>3, <1>4, <1>5, <1>7, <1>8, <1>9, PutsOrder DEF AtHandler

\* Every step keeps the order.
LEMMA OrderKept == Typed /\ Guarded /\ Answering /\ OneOrder /\ [Next]_vars => OneOrder'
<1> SUFFICES ASSUME Typed, Guarded, Answering, OneOrder, [Next]_vars PROVE OneOrder'
  OBVIOUS
<1>1. UNCHANGED usage
  <2>1. ASSUME NEW t \in Clients, Elsewhere(t) PROVE UNCHANGED usage
    BY <2>1 DEF Elsewhere, Begins, Lock, Return
  <2>2. ASSUME NEW t \in Clients, NEW h \in Handlers, AtHandler(t, h) PROVE UNCHANGED usage
    BY <2>2 DEF AtHandler, Puts, Refuses, Blocks, SleepsAgain, Enters, RunsOn, RunsLast, Closes
  <2>3. ASSUME NEW h \in Handlers, OfHandler(h) PROVE UNCHANGED usage
    BY <2>3 DEF OfHandler, Takes, Misses, WorkerHandles, DestroyHandler
  <2> QED BY <2>1, <2>2, <2>3, StepIs DEF DestroyBroadcaster, vars
<1>2. SUFFICES ASSUME usage.direct = {}, IsInjective(usage.writers), InTurn PROVE InTurn'
  BY <1>1 DEF OneOrder
<1>3. ASSUME NEW h \in Handlers, OfHandler(h) PROVE UNCHANGED <<mtx, call, calls, taken>>
  BY <1>3 DEF OfHandler, Takes, Misses, WorkerHandles, DestroyHandler, history
<1>4. DestroyBroadcaster \/ UNCHANGED vars => UNCHANGED <<mtx, call, calls, taken>>
  BY DEF DestroyBroadcaster, vars, history
<1> QED BY <1>2, <1>3, <1>4, StepIs, ElsewhereOrder, AtHandlerOrder, OrderUnchanged

\* Nothing was accepted at first.
LEMMA OrderAtFirst == Init => OneOrder
<1> SUFFICES ASSUME Init PROVE InTurn
  BY DEF OneOrder
<1>1. \A h \in Handlers : taken[h] = <<>>
  BY DEF Init
<1>2. \A t \in Clients : call[t] = Idle
  BY DEF Init
<1>3. mtx = Nobody
  BY DEF Init
<1>4. \A h \in Handlers : Sorted(taken[h])
  BY <1>1 DEF Sorted
<1>5. \A g, h \in Handlers : Agree(taken[g], taken[h])
  BY <1>1 DEF Agree
<1> QED BY <1>2, <1>3, <1>4, <1>5 DEF InTurn

-----------------------------------------------------------------------------
(* The properties of the specification.                                    *)

\* Every variable has its type, and a call is in a place it can be in.
THEOREM TypesHold == Spec => []Typed
<1> QED BY TypesAtFirst, TypesKept, PTL DEF Spec

\* The mutexes are held by whoever is inside.
THEOREM MutexesGuard == Spec => []Guarded
<1> QED BY GuardsAtFirst, GuardsKept, TypesHold, PTL DEF Spec

\* A queue keeps its limit, and a closed callback drains.
LEMMA QueuesEnd == Spec => [](Limited /\ Ends)
<1> QED BY EndsAtFirst, LimitsKept, EndsKept, TypesHold, MutexesGuard, PTL DEF Spec

\* What was handed over lies before what waits.
LEMMA QueuesHandOver == Spec => []HandedOver
<1> QED BY HandedAtFirst, HandedKept, TypesHold, PTL DEF Spec

\* A call knows what happened to its messages.
LEMMA CallsAnswer == Spec => []Answering
<1> QED BY AnsweringAtFirst, AnsweringKept, TypesHold, MutexesGuard, PTL DEF Spec

\* All handlers accept in one order.
LEMMA OneOrderHolds == Spec => []OneOrder
<1> QED BY OrderAtFirst, OrderKept, TypesHold, MutexesGuard, CallsAnswer, PTL DEF Spec

\* What a call answers is what happened to its messages: those of sendToOne() and
\* sendMessagesAtomicallyToOne() reached nobody but a last handler that accepted
\* them and handlers whose function was given them and failed, and somebody when
\* success is reported; a call that asks to be tried again reached nobody.  A
\* function may have moved from what it was given or left it as it was.
THEOREM AnswersTellTheTruth == Spec => []AnswersAreTrue
<1>1. Answering => AnswersAreTrue
  <2> SUFFICES ASSUME Answering PROVE ToOneReachesOne
    BY DEF Answering, AnswersAreTrue
  <2> SUFFICES ASSUME NEW t \in Clients, result[t].op \in ToOne
               PROVE  /\ \A i \in DOMAIN result[t].answers :
                           Sent(result[t].answers[i]) => i = Len(result[t].answers)
                      /\ \A m \in Range(result[t].what) :
                           /\ Reached(m) \subseteq
                                {usage.writers[i] :
                                   i \in Keepers(result[t].answers, result[t].type)}
                           /\ Sent(result[t].answer) => Reached(m) # {}
    BY DEF ToOneReachesOne
  <2>1. result[t].op # "none" /\ Kept1(usage.writers, result[t], Reach)
    BY DEF Answering, AllKept, ToOne
  <2>2. \A m \in Range(result[t].what) : Reached(m) = Reach[m]
    BY <2>1 DEF Answering, Results, Reach
  <2>3. result[t].answers \in Seq(Answers)
    BY <2>1 DEF Answering, ResultTypes
  <2>4. DOMAIN result[t].answers = 1..Len(result[t].answers)
    BY <2>3
  <2>5. ASSUME NEW m \in Range(result[t].what)
        PROVE  /\ Reach[m] \subseteq
                    {usage.writers[i] : i \in Keepers(result[t].answers, result[t].type)}
               /\ Sent(result[t].answer) => Reach[m] # {}
    <3> DEFINE x == result[t]
               w == usage.writers
               r == Reach
    <3>1. Kept1(w, x, r) /\ m \in Range(x.what)
      BY <2>1
    <3> HIDE DEF x, w, r
    <3>2. r[m] \subseteq {w[i] : i \in Keepers(x.answers, x.type)}
      BY <3>1 DEF Kept1
    <3>3. Sent(x.answer) => r[m] # {}
      BY <3>1 DEF Kept1
    <3> QED BY <3>2, <3>3 DEF x, w, r
  <2>6. \A i \in 1..Len(result[t].answers) :
          Sent(result[t].answers[i]) => i = Len(result[t].answers)
    BY <2>1 DEF Kept1
  <2> QED BY <2>2, <2>4, <2>5, <2>6
<1> QED BY <1>1, CallsAnswer, PTL

\* The order of the queues is that of InTurn.
LEMMA OrderOfQueues == OneOrder => HandlersAgreeOnOrder
<1> SUFFICES ASSUME usage.direct = {}, IsInjective(usage.writers), InTurn,
                    NEW g \in Handlers, NEW h \in Handlers
             PROVE  \A i, j \in DOMAIN taken[g], k, l \in DOMAIN taken[h] :
                      i < j /\ taken[g][i] = taken[h][k] /\ taken[g][j] = taken[h][l] =>
                        k < l \/ Moved \in {taken[h][k], taken[h][l]}
  BY DEF OneOrder, HandlersAgreeOnOrder
<1>1. Agree(taken[g], taken[h])
  BY DEF InTurn
<1> QED BY <1>1 DEF Agree

\* The order of the workers is that of the queues.
LEMMA OrderOfWorkers == HandedOver => HandledInOrder
<1> SUFFICES ASSUME HandedOver, NEW h \in Handlers
             PROVE  /\ Places(handled[h], taken[h]) # {}
                    /\ Range(taken[h]) = Range(handled[h]) \cup Range(queue[h]) \cup dropped[h]
  BY DEF HandledInOrder
<1>1. Handed(taken[h], handled[h], queue[h], dropped[h], Held(h))
  BY DEF HandedOver
<1> QED BY <1>1 DEF Handed

\* Handlers that were added once accept what is broadcast in one order, and
\* each worker is given what its queue accepted in that order, each message
\* once; what it is not given waits or was reported.
THEOREM AllHandlersShareOneOrder == Spec => []OrderIsShared
<1>1. OneOrder /\ HandedOver => OrderIsShared
  BY OrderOfQueues, OrderOfWorkers DEF OrderIsShared
<1> QED BY <1>1, OneOrderHolds, QueuesHandOver, PTL

\* A broadcast has at most two answers of each handler.
LEMMA AnswersAreFew ==
  ASSUME Typed, Answering, NEW t \in Clients, IsBroadcast(call[t])
  PROVE  Len(call[t].answers) <= 2 * Len(usage.writers)
<1> DEFINE c == call[t]
           n == Len(usage.writers)
<1>1. c # Idle
  BY IdleIsNoBroadcast
<1>2. Counted(n, c)
  BY <1>1 DEF Answering, AllTold, Told
<1>3. c \in Calls
  BY <1>1, BusyCalls DEF Typed
<1>4. n \in Nat
  BY DEF Typed, Usage
<1>5. c.op \notin {"direct", "close"}
  BY DEF IsBroadcast, Broadcasts, ToOne
<1> HIDE DEF c, n
<1>6. Len(c.answers) \in Nat /\ Len(c.todo) \in Nat
  BY <1>3 DEF Calls
<1>7. SizeWith(n, c.op) = n \/ SizeWith(n, c.op) = 2 * n
  BY <1>5 DEF SizeWith
<1>8. Len(c.answers) + Len(c.todo) <= SizeWith(n, c.op)
  BY <1>2 DEF Counted
<1> DEFINE a == Len(c.answers)
           d == Len(c.todo)
           k == SizeWith(n, c.op)
<1>9. a <= 2 * n
  <2>1. a \in Nat /\ d \in Nat /\ (k = n \/ k = 2 * n) /\ a + d <= k
    BY <1>6, <1>7, <1>8
  <2> HIDE DEF a, d, k
  <2> QED BY <1>4, <2>1
<1> QED BY <1>9 DEF c, n

\* Whoever is in a callback's function has its mutex.
LEMMA OneInFunction == Typed /\ Guarded => OneSenderInFunction
<1> SUFFICES ASSUME Typed, Guarded, NEW h \in Handlers
             PROVE  Cardinality({t \in Clients : /\ call[t] # Idle /\ call[t].at = "function"
                                                 /\ Now(call[t]).to = h}) <= 1
  BY DEF OneSenderInFunction
<1> DEFINE s == {t \in Clients : /\ call[t] # Idle /\ call[t].at = "function"
                                 /\ Now(call[t]).to = h}
<1>1. ASSUME NEW t \in s PROVE t = holder[h]
  <2>1. t \in Clients /\ call[t] # Idle /\ call[t].at = "function" /\ Now(call[t]).to = h
    OBVIOUS
  <2>2. call[t].todo # <<>>
    BY <2>1 DEF Typed, Shapes, Shape
  <2>3. usage.kind[h] = "callback"
    BY <2>1 DEF Guarded
  <2>4. Inside(call[t], h)
    BY <2>1, <2>2 DEF Inside
  <2> QED BY <2>1, <2>3, <2>4 DEF Guarded
<1> HIDE DEF s
<1>2. s \subseteq {holder[h]}
  BY <1>1
<1>3. IsFiniteSet({holder[h]}) /\ Cardinality({holder[h]}) = 1
  BY FS_Singleton
<1>4. Cardinality(s) <= 1
  BY <1>2, <1>3, FS_Subset
<1> QED BY <1>4 DEF s

\* A worker that ended has left nothing in its queue.
LEMMA EndedIsDrained == Typed /\ Ends /\ HandedOver => DestroyedCallbacksAreDrained
<1> SUFFICES ASSUME Typed, Ends, HandedOver,
                    NEW h \in Range(usage.writers) \ Range(exit), usage.kind[h] = "callback"
             PROVE  Range(taken[h]) = Range(handled[h]) \cup dropped[h]
  BY DEF DestroyedCallbacksAreDrained
<1>1. h \in Handlers
  <2>1. usage.writers \in Seq(Handlers)
    BY DEF Typed, Usage
  <2> QED BY <2>1 DEF Range
<1>2. queue[h] = <<>>
  BY <1>1 DEF Ends
<1>3. Range(queue[h]) = {}
  BY <1>2 DEF Range
<1>4. Handed(taken[h], handled[h], queue[h], dropped[h], Held(h))
  BY <1>1 DEF HandedOver
<1> QED BY <1>3, <1>4 DEF Handed

\* A callback's queue keeps its limit and its function runs in one sender's
\* thread at a time, under its mutex; when the callback has been destroyed,
\* nothing it accepted is left, and a broadcast has at most two answers of each
\* handler.
THEOREM CallbacksStayGuarded == Spec => []CallbacksAreGuarded
<1>1. Typed /\ Limited /\ Answering => TypeOK
  <2> SUFFICES ASSUME Typed, Limited, Answering PROVE TypeOK
    OBVIOUS
  <2> QED BY AnswersAreFew DEF TypeOK, Typed, CallTypes, LockTypes, QueueTypes, Limited
<1>2. Typed /\ Guarded /\ Limited /\ Ends /\ HandedOver /\ Answering => CallbacksAreGuarded
  BY <1>1, OneInFunction, EndedIsDrained DEF CallbacksAreGuarded
<1> QED BY <1>2, TypesHold, MutexesGuard, QueuesEnd, QueuesHandOver, CallsAnswer, PTL
=============================================================================
