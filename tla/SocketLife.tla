----------------------------- MODULE SocketLife -----------------------------
(***************************************************************************)
(* The life cycle of a socket (socket/socket.h): connect_sync(), bind(),   *)
(* listen(), set_blocking(), disconnect() and the destructor, over a       *)
(* kernel whose every call may fail and whose descriptors the rest of the  *)
(* program uses too.                                                       *)
(***************************************************************************)
EXTENDS Integers, FiniteSets

CONSTANTS Fds,         \* the descriptors the kernel gives out
          MaxAddresses \* bound: addresses in a list

invalid_socket == -1

ASSUME LifeAssumption == /\ IsFiniteSet(Fds) /\ invalid_socket \notin Fds
                         /\ MaxAddresses \in Nat \ {0}

VARIABLES
  own,      \* the socket: sock, s, blocking
  kernel,   \* what every descriptor is, and whether its calls wait
  held,     \* the descriptors of the rest of the program
  ec,       \* the error code of the last call
  callback, \* the last virtual function that was called
  unset,    \* history: the mode of this descriptor could not be set
  started   \* history: a connect() that reported an error was begun

lifeVars == <<own, kernel, held, ec, callback, unset, started>>

\* A call works on the whole of it, in steps that nobody else can see.
World == [own |-> own, kernel |-> kernel, ec |-> "ok", callback |-> callback, unset |-> unset,
          started |-> started]

-----------------------------------------------------------------------------
Closed == [is |-> "closed", waits |-> TRUE]
Opened(is) == [is |-> is, waits |-> TRUE]
NoSocket(b) == [sock |-> invalid_socket, s |-> "invalid", blocking |-> b]

FreeFds(k) == {fd \in Fds : k[fd].is = "closed"}

With(w, error) == [w EXCEPT !.ec = error]

\* ::close(); the descriptor is gone even when it reports an error.
Release(w) == [w EXCEPT !.kernel[w.own.sock] = Closed, !.own = NoSocket(w.own.blocking),
                        !.unset = FALSE, !.started = FALSE]

\* set_blocking(): remembered for later when there is no descriptor.
SetMode(w, b) ==
  LET done == [w EXCEPT !.own.blocking = b, !.unset = FALSE]
  IN  IF w.own.sock = invalid_socket THEN {done}
      ELSE {[done EXCEPT !.kernel[w.own.sock].waits = b], With(w, "error")}

\* ::socket(); sock is assigned whatever it returns.
NewDescriptor(w) ==
  {With(w, "error")} \cup
  {[w EXCEPT !.own.sock = fd, !.kernel[fd] = Opened("new")] : fd \in FreeFds(w.kernel)}

\* ::connect() or ::bind(), with what is set before it; a listening socket
\* cannot be connected, and a connection that was begun may be there by now.
Tied(w, becomes, new) ==
  LET t == [w EXCEPT !.own.s = becomes, !.kernel[w.own.sock].is = becomes, !.started = FALSE]
  IN  IF w.own.s = "listening" THEN {}
      ELSE IF new THEN {[u EXCEPT !.unset = u.ec # "ok"] : u \in SetMode(t, t.own.blocking)}
      ELSE {t}

\* Mutant: the descriptor is closed and not forgotten.
GivesUpKeeping(w, new) ==
  {With(IF new THEN [w EXCEPT !.kernel[w.own.sock] = Closed] ELSE w, "error")}

\* An error: a new descriptor is closed.  An old one stays, and so does what is
\* said of it, though the connection may have been begun ("in progress",
\* "interrupted") and the kernel goes on with it.
GivesUp(w, new) ==
  LET begun == [w EXCEPT !.kernel[w.own.sock].is = "connecting", !.started = TRUE]
  IN  IF new THEN {With(Release(w), "error")}
      ELSE {With(w, "error")} \cup
           (IF w.kernel[w.own.sock].is = "bound" THEN {With(begun, "error")} ELSE {})

\* The outcomes of direct_bind(), first among them an address of another family.
DirectBind(w, becomes) ==
  LET new == w.own.s = "invalid"
      open == IF new THEN NewDescriptor(w) ELSE {w}
  IN  {With(w, "invalid_argument")} \cup
      UNION {IF o.ec # "ok" THEN {o} ELSE GivesUp(o, new) \cup Tied(o, becomes, new) : o \in open}

ConnectOne(w) ==
  IF w.own.s = "connected" THEN {With(w, "busy")} ELSE DirectBind(w, "connected")
BindOne(w) ==
  IF w.own.s # "invalid" THEN {With(w, "busy")} ELSE DirectBind(w, "bound")

\* One address of a list after the other: the error of one that failed is
\* cleared, the last one's too.
Tried(run, connecting) ==
  LET Attempt(w) == IF connecting THEN ConnectOne(w) ELSE BindOne(w)
      Success(w) == [w EXCEPT !.callback = IF connecting THEN "connected" ELSE @]
      Finish(w) == IF w.ec = "ok" THEN [end |-> TRUE, w |-> Success(w)]
                   ELSE [end |-> FALSE, w |-> With(w, "ok")]
  IN  IF run.end THEN {run} ELSE {Finish(w) : w \in Attempt(run.w)}

OverList(first, n, connecting) ==
  LET runs[i \in 0..n] == IF i = 0 THEN {[end |-> FALSE, w |-> first]}
                          ELSE UNION {Tried(run, connecting) : run \in runs[i - 1]}
  IN  {run.w : run \in runs[n]}

\* listen() and disconnect() report what the kernel's call returned; what is
\* being connected cannot listen.
Listens(w) ==
  IF w.own.s # "bound" THEN {With(w, "not_connected")}
  ELSE {With(w, "error")} \cup
       (IF w.kernel[w.own.sock].is = "bound"
        THEN {[w EXCEPT !.own.s = "listening", !.kernel[w.own.sock].is = "listening",
                        !.started = FALSE]}
        ELSE {})

Disconnects(w) ==
  IF w.own.sock = invalid_socket THEN {w}
  ELSE {With(Release(w), "error"),
        [Release(w) EXCEPT !.callback = IF w.own.blocking THEN "disconnected" ELSE @]}

-----------------------------------------------------------------------------
LifeInit == /\ own = NoSocket(TRUE)
            /\ kernel = [fd \in Fds |-> Closed]
            /\ held = {} /\ ec = "ok" /\ callback = "nothing" /\ unset = FALSE /\ started = FALSE

\* A call with the error code of a new std::error_code.
Ends(outcomes) ==
  \E w \in outcomes :
    /\ own' = w.own /\ kernel' = w.kernel /\ ec' = w.ec /\ callback' = w.callback
    /\ unset' = w.unset /\ started' = w.started
    /\ held' = held

Connect == Ends(ConnectOne(World))
Bind == Ends(BindOne(World))
ConnectAny(n) == Ends(OverList(World, n, TRUE))
BindAny(n) == Ends(OverList(World, n, FALSE))
Listen == Ends(Listens(World))
SetBlocking(b) == Ends(SetMode(World, b))
DisconnectSocket == Ends(Disconnects(World))

\* The destructor, and the construction of the next one.
Destroy == Ends({IF own.sock = invalid_socket THEN [World EXCEPT !.own = NoSocket(TRUE)]
                 ELSE [Release(World) EXCEPT !.own = NoSocket(TRUE)]})

\* What create() makes of a descriptor that a server accepted.
Accepted(fd) ==
  /\ own = NoSocket(TRUE) /\ fd \in FreeFds(kernel)
  /\ Ends({[World EXCEPT !.kernel[fd] = Opened("connected"),
                         !.own = [sock |-> fd, s |-> "connected", blocking |-> TRUE]]})

\* Files and sockets of the rest of the program.
OthersOpen(fd) == /\ fd \in FreeFds(kernel)
                  /\ kernel' = [kernel EXCEPT ![fd] = Opened("other")]
                  /\ held' = held \cup {fd}
                  /\ UNCHANGED <<own, ec, callback, unset, started>>
OthersClose(fd) == /\ fd \in held
                   /\ kernel' = [kernel EXCEPT ![fd] = Closed]
                   /\ held' = held \ {fd}
                   /\ UNCHANGED <<own, ec, callback, unset, started>>

\* The kernel goes on with a connection that was begun, and nobody is told.
KernelConnects(is) ==
  /\ own.sock # invalid_socket /\ kernel[own.sock].is = "connecting"
  /\ kernel' = [kernel EXCEPT ![own.sock].is = is]
  /\ UNCHANGED <<own, held, ec, callback, unset, started>>

LifeNext == \/ Connect \/ Bind \/ Listen \/ DisconnectSocket \/ Destroy
            \/ \E n \in 1..MaxAddresses : ConnectAny(n) \/ BindAny(n)
            \/ \E b \in BOOLEAN : SetBlocking(b)
            \/ \E fd \in Fds : Accepted(fd) \/ OthersOpen(fd) \/ OthersClose(fd)
            \/ \E is \in {"connected", "bound"} : KernelConnects(is)

LifeSpec == LifeInit /\ [][LifeNext]_lifeVars

-----------------------------------------------------------------------------
(* Properties.                                                             *)

\* What the socket says of its descriptor: it is just that, except that a bound
\* socket's may be connecting or connected behind a connect() that failed.
AsItSays(o, k, begun) ==
  \/ k[o.sock].is = o.s
  \/ begun /\ o.s = "bound" /\ k[o.sock].is \in {"connecting", "connected"}

\* Through any sequence of calls that fail half-way, a socket that says what it
\* is has a descriptor that is just that, one that says it is none has none, no
\* descriptor is left open, and none of the rest of the program's is closed
\* (direct_bind(), disconnect() and the destructor, each of which may close).  A
\* bound socket is not told of the connection that a failed connect() began.
OwnsItsDescriptor ==
  /\ {fd \in Fds : kernel[fd].is # "closed"} = held \cup ({own.sock} \ {invalid_socket})
  /\ own.sock \notin held
  /\ own.sock = invalid_socket <=> own.s = "invalid"
  /\ own.s # "invalid" => AsItSays(own, kernel, started)

\* "The blocking mode could have been set but there was no descriptor to set it
\* on": a socket waits exactly if it says so, whenever and in whichever order
\* the mode was asked for, unless the kernel refused to set it (direct_bind()
\* returns that error, connect_sync() and bind() over a list lose it).
ModeIsTheKernels == own.s # "invalid" /\ ~unset => kernel[own.sock].waits = own.blocking

=============================================================================
