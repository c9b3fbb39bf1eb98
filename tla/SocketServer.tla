---------------------------- MODULE SocketServer ----------------------------
(***************************************************************************)
(* socket_server (socket/server.h) with the POSIX poll() watcher           *)
(* (socket/poll.h), the socket objects it serves (socket/socket.h) and the *)
(* kernel's descriptors.  The server is one thread; its peers, and the     *)
(* kernel, move between any two of its events.  Connections have names,    *)
(* descriptors are numbers the kernel gives out again as soon as they are  *)
(* closed.  Of the bytes in a buffer only their presence matters here (the *)
(* bytes themselves are StreamSocket's).                                   *)
(***************************************************************************)
EXTENDS Naturals, FiniteSets, SequencesExt

CONSTANTS Conns,     \* the connections
          Outgoing,  \* those the application may make itself, and serve
          Fds,       \* bound: the descriptor numbers of connections
          Policies,  \* what the application does
          None

\* A policy says whether sockets are blocking, or on Linux those accepted whatever
\* the listener is; whether a callback may act on other sockets than its own;
\* whether it may close the ends of its buffers; whether error() disconnects the
\* socket; whether run() may be canceled; whether the application connects the
\* Outgoing ones itself; whether create() may return null, connected() report an
\* error, and ready_read() leave what there is (socket's own does).
PolicyNames == {"blocking", "linux", "crosses", "ends", "errors", "cancels", "serves",
                "declines", "rejects", "leaves"}

\* The kernel has a descriptor for every connection.
ASSUME ServerAssumption == /\ Outgoing \subseteq Conns /\ IsFiniteSet(Conns)
                           /\ Fds \subseteq Nat \ {0} /\ IsFiniteSet(Fds)
                           /\ Cardinality(Conns) <= Cardinality(Fds)
                           /\ None \notin Conns \cup Fds
                           /\ Policies \subseteq SUBSET PolicyNames

Listener == 0   \* the listening socket's descriptor, watched first

VARIABLES
  policy,
  conn,       \* the kernel's side of a connection
  open,       \* the connection a descriptor stands for
  sock,       \* the socket object of a connection
  third, clients,    \* third_party_socket_map, client_socket_map
  fds,               \* the watcher's table
  triggered,         \* the events of this round still to be handled, by their
                     \* places in the table when they happened
  running, canceled,
  told,       \* how often disconnected() was called
  stuck       \* the handler of an event never returns, or ends the program

server == <<third, clients, fds, triggered>>
vars == <<policy, conn, open, sock, server, running, canceled, told, stuck>>

Lowest(S) == CHOOSE f \in S : \A g \in S : f <= g

\* The watcher hands the events of a round over in the order of their places.
Place == Lowest(DOMAIN triggered)
Current == triggered[Place]
Pending == DOMAIN triggered # {}
Later == [i \in DOMAIN triggered \ {Place} |-> triggered[i]]

Absent == [state |-> "none", native |-> None, read |-> FALSE, write |-> FALSE,
           closed |-> {}]

Init ==
  /\ policy \in Policies
  /\ conn = [c \in Conns |-> [peer |-> "away", inq |-> FALSE, room |-> TRUE, shut |-> {}]]
  /\ open = [f \in Fds |-> None]
  /\ sock = [c \in Conns |-> Absent]
  /\ third = [f \in Fds |-> None] /\ clients = [f \in Fds |-> None]
  /\ fds = <<[fd |-> Listener, write |-> TRUE]>>
  /\ triggered = <<>> /\ running = TRUE /\ canceled = FALSE
  /\ told = [c \in Conns |-> 0] /\ stuck = FALSE

-----------------------------------------------------------------------------
(* The peers and the kernel.                                               *)

\* The ones the application connects itself.
Own(c) == "serves" \in policy /\ c \in Outgoing

Environment(c, k) ==
  /\ conn' = [conn EXCEPT ![c] = k]
  /\ UNCHANGED <<policy, open, sock, server, running, canceled, told, stuck>>

PeerConnects(c) ==
  /\ conn[c].peer = "away" /\ ~Own(c)
  /\ Environment(c, [conn[c] EXCEPT !.peer = "backlog"])

PeerSends(c) ==
  /\ conn[c].peer = "open" /\ ~conn[c].inq
  /\ Environment(c, [conn[c] EXCEPT !.inq = TRUE])

\* It closes its end in an orderly way, or the connection is reset.
PeerLeaves(c) ==
  /\ conn[c].peer = "open"
  /\ \E how \in {"fin", "reset"} : Environment(c, [conn[c] EXCEPT !.peer = how])

\* What was sent reaches the peer.
KernelSends(c) ==
  /\ ~conn[c].room
  /\ Environment(c, [conn[c] EXCEPT !.room = TRUE])

\* A reset is reported by the first call that meets it ("dead" afterwards).
Broken(k) == k.peer \in {"reset", "dead"}

\* poll()'s revents for an entry of the table.
Revents(entry) ==
  IF entry.fd = Listener
  THEN {flag \in {"read"} : \E c \in Conns : conn[c].peer = "backlog"}
  ELSE IF open[entry.fd] = None THEN {"invalid"}
  ELSE LET k == conn[open[entry.fd]]
       IN  {flag \in {"read", "write", "hangup"} :
              \/ flag = "read" /\ (k.inq \/ k.peer = "fin" \/ Broken(k) \/ "read" \in k.shut)
              \/ flag = "write" /\ entry.write /\ (k.room \/ Broken(k) \/ "write" \in k.shut)
              \/ flag = "hangup" /\ (Broken(k) \/ (k.peer = "fin" /\ "write" \in k.shut))}

-----------------------------------------------------------------------------
(* The socket object.  An event's handler is a composition of functions on *)
(* a world: the part of the state it reads and changes, and its ec.        *)

World == [conn |-> conn, open |-> open, sock |-> sock, told |-> told, ec |-> FALSE,
          did_write |-> {}]   \* the sockets whose did_write was set

IsNull(w, c) == w.sock[c].state = "null"

\* An accepted socket is as blocking as its listener, except on Linux.
Blocking(c) == "blocking" \in policy \/ ("linux" \in policy /\ ~Own(c))

\* A blocking socket waits for room.
HasRoom(w, c) == w.conn[c].room \/ Blocking(c)

\* direct_write(): what the kernel does with bytes offered to it: an error, or
\* "would block", or room for them, which may use the room up.
Sends(w, c) ==
  IF IsNull(w, c) THEN {[w EXCEPT !.ec = TRUE]}
  ELSE IF Broken(w.conn[c]) \/ "write" \in w.conn[c].shut
  THEN {[w EXCEPT !.ec = TRUE, !.conn[c].peer = IF @ = "reset" THEN "dead" ELSE @]}
  ELSE IF HasRoom(w, c) THEN {[w EXCEPT !.conn[c].room = r] : r \in BOOLEAN} ELSE {w}

\* write(): what was buffered goes first; bytes that cannot be sent are buffered,
\* whether or not an error occurred.
Write(w, c) ==
  IF w.ec THEN {w}
  ELSE LET v == [w EXCEPT !.did_write = @ \cup {c}]
       IN  {[u EXCEPT !.sock[c].write = u.ec \/ ~HasRoom(w, c)] : u \in Sends(v, c)}

\* Mutant: it takes a buffer with bytes for an empty one.
FlushEmpty(w, c) == IF ~w.sock[c].write THEN Write(w, c) ELSE {w}

\* async_flush_write_buffer().
Flush(w, c) == IF w.sock[c].write THEN Write(w, c) ELSE {w}

\* async_fill_read_buffer(): recv() gives bytes before it reports a reset, and
\* the end of the stream is no error.
Fill(w, c) ==
  IF w.ec \/ Blocking(c) THEN w
  ELSE [w EXCEPT !.sock[c].read = @ \/ w.conn[c].inq,
                 !.conn[c].inq = FALSE,
                 !.ec = w.conn[c].peer = "reset",
                 !.conn[c].peer = IF @ = "reset" THEN "dead" ELSE @]

\* Mutant: disconnected() is called for every kind of socket.
DisconnectAnnounces(w, c) ==
  IF w.sock[c].native = None THEN w
  ELSE [w EXCEPT !.open[w.sock[c].native] = None,
                 !.sock[c].native = None, !.sock[c].state = "null",
                 !.told[c] = @ + 1]

\* disconnect(), with an error code that is clear.
Disconnect(w, c) ==
  IF w.sock[c].native = None THEN w
  ELSE [w EXCEPT !.open[w.sock[c].native] = None,
                 !.sock[c].native = None, !.sock[c].state = "null",
                 !.told[c] = IF Blocking(c) THEN @ + 1 ELSE @]

\* What one callback of socket c may do, if no error is reported to it.
Acts(w, c) ==
  LET targets == IF "crosses" \in policy THEN {d \in Conns : w.sock[d].state = "connected"} ELSE {c}
  IN  IF w.ec THEN {w}
      ELSE {w} \cup (UNION {Write(w, d) : d \in targets})
               \cup {Disconnect(w, d) : d \in targets}
               \cup {[w EXCEPT !.sock[c].closed = ends] :
                       ends \in IF "ends" \in policy THEN {{"write"}, {"read", "write"}} ELSE {}}

\* error(ec).
Report(w, c) == IF w.ec /\ "errors" \in policy THEN Disconnect(w, c) ELSE w

\* do_server_write().
ServerWrite(w, c) ==
  {Report(u, c) : u \in UNION {Acts(v, c) : v \in Flush(w, c)}}

\* read(), of all there is.
Taken(w, c) ==
  [w EXCEPT !.sock[c].read = FALSE, !.conn[c].inq = FALSE,
            !.ec = w.conn[c].peer = "reset",
            !.conn[c].peer = IF @ = "reset" THEN "dead" ELSE @]

\* ready_read(), which may leave all there is; what it leaves once is left each time
\* the loop calls it.
ReadyRead(w, c) ==
  UNION {Acts(v, c) : v \in {Taken(w, c)} \cup {u \in {w} : "leaves" \in policy}}

\* Mutant: an error of filling the buffer is not reported.
ServerReadSilently(w, c) ==
  LET v == Fill(w, c)
  IN  IF v.ec THEN {v} ELSE {Report(u, c) : u \in ReadyRead(v, c)}

\* async_fill_read_buffer() and do_server_read().
ServerRead(w, c) ==
  LET v == Fill(w, c)
  IN  {Report(u, c) : u \in IF v.ec THEN {v} ELSE ReadyRead(v, c)}

-----------------------------------------------------------------------------
(* The watcher's table.                                                    *)

Watch(f) == Append(fds, [fd |-> f, write |-> TRUE])

Modify(f, write) ==
  LET i == SelectInSeq(fds, LAMBDA entry : entry.fd = f)
  IN  IF i = 0 THEN fds ELSE [fds EXCEPT ![i].write = write]

Unwatch(f) ==
  LET i == SelectInSeq(fds, LAMBDA entry : entry.fd = f)
  IN  IF i = 0 THEN fds ELSE RemoveAt(fds, i)

Watched(f) == \E i \in DOMAIN fds : fds[i].fd = f

-----------------------------------------------------------------------------
(* The server.                                                             *)

\* run() goes on while it is not canceled (the listener is always served);
\* poll() blocks until something happens, and hands over copies of the entries
\* to which it did.
Poll ==
  /\ running /\ ~stuck /\ ~Pending /\ ~canceled
  /\ LET ready == {i \in DOMAIN fds : Revents(fds[i]) # {}}
     IN  /\ ready # {}
         /\ triggered' = [i \in ready |-> [fd |-> fds[i].fd, flags |-> Revents(fds[i])]]
  /\ UNCHANGED <<policy, conn, open, sock, third, clients, fds, running, canceled, told, stuck>>

\* A signal interrupts poll(), which the server takes for an error; or a
\* callback calls cancel().
Cancel ==
  /\ "cancels" \in policy /\ running /\ ~stuck /\ ~canceled
  /\ canceled' = TRUE
  /\ UNCHANGED <<policy, conn, open, sock, server, running, told, stuck>>

Return ==
  /\ running /\ ~stuck /\ ~Pending /\ canceled
  /\ running' = FALSE
  /\ UNCHANGED <<policy, conn, open, sock, server, canceled, told, stuck>>

Run ==
  /\ ~running
  /\ running' = TRUE /\ canceled' = FALSE
  /\ UNCHANGED <<policy, conn, open, sock, server, told, stuck>>

Connected(f) == [Absent EXCEPT !.state = "connected", !.native = f]

\* The application connects and has the server watch the socket.
ServeSocket(c) ==
  /\ Own(c) /\ conn[c].peer = "away" /\ ~stuck
  /\ \E f \in {Lowest({g \in Fds : open[g] = None})} :
       /\ open' = [open EXCEPT ![f] = c]
       /\ sock' = [sock EXCEPT ![c] = Connected(f)]
       /\ third' = [third EXCEPT ![f] = c]
       /\ fds' = Watch(f)
  /\ conn' = [conn EXCEPT ![c].peer = "open"]
  /\ UNCHANGED <<policy, clients, triggered, running, canceled, told, stuck>>

Handling(f) == running /\ ~stuck /\ Pending /\ Current.fd = f

\* connected(), called of the listener, may report an error: error() is called of the
\* new socket then, by a pointer that was moved from.
Rejects == stuck' \in {b \in BOOLEAN : b => "rejects" \in policy}

\* create() returned null: nobody has the descriptor, and it stays open.
Declined(c, f) ==
  /\ "declines" \in policy
  /\ open' = [open EXCEPT ![f] = c]
  /\ sock' = [sock EXCEPT ![c] = [Absent EXCEPT !.state = "declined", !.native = f]]
  /\ UNCHANGED <<clients, fds, stuck>>

\* The new socket is watched and put into the map.
Inserted(c, f) ==
  /\ clients[f] = None
  /\ fds' = Watch(f)
  /\ open' = [open EXCEPT ![f] = c] /\ clients' = [clients EXCEPT ![f] = c]
  /\ sock' = [sock EXCEPT ![c] = Connected(f)]
  /\ Rejects

\* The map keeps what it has for the descriptor: the new socket, watched already,
\* is destroyed, which closes the descriptor.
Destroyed(c, f) ==
  /\ clients[f] # None
  /\ fds' = Watch(f)
  /\ sock' = [sock EXCEPT ![c] = [Absent EXCEPT !.state = "refused"]]
  /\ Rejects
  /\ UNCHANGED <<open, clients>>

\* socket_accept_event_occurred().  A non-blocking listener goes on with the next
\* connection, whatever became of this one.
Accept(c) ==
  /\ Handling(Listener) /\ conn[c].peer = "backlog"
  /\ conn' = [conn EXCEPT ![c].peer = "open"]
  /\ \E f \in {Lowest({g \in Fds : open[g] = None})} :
       Declined(c, f) \/ Inserted(c, f) \/ Destroyed(c, f)
  /\ triggered' = IF "blocking" \in policy THEN Later ELSE triggered
  /\ UNCHANGED <<policy, third, running, canceled, told>>

\* accept() reports that a connection was aborted: the listener's error() is called
\* (which leaves it listening), and the rest waits for the next round.
AcceptFails(c) ==
  /\ Handling(Listener) /\ conn[c].peer = "backlog"
  /\ conn' = [conn EXCEPT ![c].peer = "dead"]
  /\ triggered' = Later
  /\ UNCHANGED <<policy, open, sock, third, clients, fds, running, canceled, told, stuck>>

\* accept() would block.
AcceptedAll ==
  /\ Handling(Listener) /\ \A c \in Conns : conn[c].peer # "backlog"
  /\ triggered' = Later
  /\ UNCHANGED <<policy, conn, open, sock, third, clients, fds, running, canceled, told, stuck>>

\* get_socket().
SocketOf(f) == IF third[f] # None THEN third[f] ELSE clients[f]

\* The callbacks and system calls of socket_nonaccept_event_occurred(), for an
\* event that has the socket read or not.
Outcomes(c, flags, reads) ==
  LET written == IF "write" \in flags THEN ServerWrite(World, c) ELSE {World}
  IN  UNION {IF reads /\ ~IsNull(v, c) THEN ServerRead(v, c) ELSE {v} : v \in written}

Erased(map, f) == [g \in Fds |-> IF g = f THEN None ELSE map[g]]

\* Mutant: the descriptor is asked for after the callbacks, which closed it.
EndByNative(c, f, w) ==
  /\ fds' = Unwatch(w.sock[c].native)
  /\ third' = Erased(third, w.sock[c].native) /\ clients' = Erased(clients, w.sock[c].native)
  /\ sock' = w.sock /\ open' = w.open /\ conn' = w.conn
  /\ told' = [w.told EXCEPT ![c] = @ + 1]

\* A hangup, or the socket was disconnected in a callback: it is announced
\* disconnected, no longer watched and, if the server owns it, destroyed.
End(c, f, w) ==
  LET owned == \E g \in Fds : g = f /\ clients[g] = c
      v == [w EXCEPT !.told[c] = @ + 1]
  IN  /\ fds' = Unwatch(f)
      /\ third' = Erased(third, f) /\ clients' = Erased(clients, f)
      /\ sock' = IF owned THEN [v.sock EXCEPT ![c] = [Absent EXCEPT !.state = "destroyed"]]
                 ELSE v.sock
      /\ open' = IF owned THEN Erased(v.open, v.sock[c].native) ELSE v.open
      /\ told' = v.told /\ conn' = v.conn

Become(w) == /\ conn' = w.conn /\ open' = w.open /\ sock' = w.sock /\ told' = w.told
             /\ UNCHANGED <<third, clients>>

\* No data was queued and none sent: writability is no longer watched, and a
\* socket whose buffers' ends are closed is disconnected or shut down.
Idle(c, f, w) ==
  /\ fds' = Modify(f, FALSE)
  /\ Become(IF IsNull(w, c) THEN w
            ELSE IF w.sock[c].closed = {"read", "write"} THEN Disconnect(w, c)
            ELSE [w EXCEPT !.conn[c].shut = @ \cup w.sock[c].closed])

Finish(c, f, flags, reads, w) ==
  LET ended == \/ "hangup" \in flags /\ ~reads
               \/ IsNull(w, c) /\ sock[c].state # "null"
      spent == "write" \in flags /\ ~w.sock[c].write
  IN  \/ ended /\ End(c, f, w)
      \/ ~ended /\ c \in w.did_write /\ Become(w) /\ fds' = Modify(f, TRUE)
      \/ ~ended /\ c \notin w.did_write /\ spent /\ Idle(c, f, w)
      \/ ~ended /\ c \notin w.did_write /\ ~spent /\ Become(w) /\ fds' = fds

\* socket_nonaccept_event_occurred().  With a broken connection and bytes left
\* in its buffer, the loop that has them read calls nothing but error().
HandleEvent(c) ==
  LET e == Current
      f == sock[c].native   \* noted before the callbacks, which may close it
      reads == "read" \in e.flags \/ sock[c].read
  IN  /\ running /\ ~stuck /\ Pending
      /\ e.fd # Listener /\ SocketOf(e.fd) = c
      /\ \E w \in Outcomes(c, e.flags, reads) :
           /\ stuck' = (reads /\ ~IsNull(w, c) /\ w.sock[c].read)
           /\ IF stuck' THEN Become(w) /\ fds' = fds ELSE Finish(c, f, e.flags, reads, w)
      /\ triggered' = Later
      /\ UNCHANGED <<policy, running, canceled>>

\* "Not being served by this server?"
NotServed ==
  /\ running /\ ~stuck /\ Pending
  /\ Current.fd # Listener /\ SocketOf(Current.fd) = None
  /\ triggered' = Later
  /\ UNCHANGED <<policy, conn, open, sock, third, clients, fds, running, canceled, told, stuck>>

Serve == \/ Poll \/ Return \/ AcceptedAll \/ NotServed
         \/ \E c \in Conns : Accept(c) \/ AcceptFails(c) \/ HandleEvent(c)

Next == \/ Serve \/ Cancel \/ Run
        \/ \E c \in Conns : \/ PeerConnects(c) \/ PeerSends(c) \/ PeerLeaves(c)
                            \/ KernelSends(c) \/ ServeSocket(c)

\* The thread in run() is scheduled.  Peers owe nothing, nor does anybody owe
\* the server another run().
Fairness ==
  \/ []<>(\/ ~running \/ stuck
          \/ ~Pending /\ ~canceled /\ \A i \in DOMAIN fds : Revents(fds[i]) = {})
  \/ []<><<triggered' # triggered>>_triggered

Spec == Init /\ [][Next]_vars /\ Fairness

-----------------------------------------------------------------------------
(* Properties.                                                             *)

Events == [fd : Fds \cup {Listener}, flags : SUBSET {"read", "write", "hangup", "invalid"}]

\* Type correctness.
TypeOK ==
  /\ policy \in Policies
  /\ conn \in [Conns -> [peer : {"away", "backlog", "open", "fin", "reset", "dead"},
                         inq : BOOLEAN, room : BOOLEAN, shut : SUBSET {"read", "write"}]]
  /\ open \in [Fds -> Conns \cup {None}]
  /\ sock \in [Conns -> [state : {"none", "connected", "null", "declined", "refused", "destroyed"},
                         native : Fds \cup {None}, read : BOOLEAN, write : BOOLEAN,
                         closed : SUBSET {"read", "write"}]]
  /\ third \in [Fds -> Conns \cup {None}] /\ clients \in [Fds -> Conns \cup {None}]
  /\ fds \in Seq([fd : Fds \cup {Listener}, write : BOOLEAN])
  /\ DOMAIN triggered \subseteq Nat /\ \A i \in DOMAIN triggered : triggered[i] \in Events
  /\ running \in BOOLEAN /\ canceled \in BOOLEAN
  /\ told \in [Conns -> Nat] /\ stuck \in BOOLEAN

\* The applications the server's bookkeeping is made for: a callback acts on
\* its own socket only, and leaves it to disconnect() to end one.
Careful == policy \cap {"crosses", "ends"} = {}

\* No descriptor is shared or closed twice, and none is leaked but those create()
\* declined: one that is open belongs to exactly the registered socket that believes
\* it has it, whatever callbacks do and however numbers are given out again.
EveryDescriptorHasItsSocket ==
  \A f \in Fds, c \in Conns :
    /\ open[f] = c <=> sock[c].native = f
    /\ open[f] = c => \/ c \in {third[f], clients[f]}
                      \/ "declines" \in policy /\ sock[c].state = "declined"

\* The connection that uses a descriptor: none, where nobody closed it.
User(f) == IF \E c \in Conns : open[f] = c /\ sock[c].state = "declined" THEN None ELSE open[f]

\* The maps and the watcher's table forget a socket when it ends, and only
\* then: each descriptor in use is watched once and its events reach its own
\* socket; nothing is remembered of a closed one.
TablesMatchSockets ==
  Careful => \A f \in Fds :
    /\ SocketOf(f) = User(f)
    /\ Cardinality({i \in DOMAIN fds : fds[i].fd = f}) = IF User(f) = None THEN 0 ELSE 1

\* No connection is accepted and dropped because its descriptor's number was
\* another's before.
NobodyRefused == Careful => \A c \in Conns : sock[c].state # "refused"

\* A non-blocking socket hears of its end once, before the server destroys it.
EndIsAnnouncedOnce ==
  Careful =>
    \A c \in Conns :
      ~Blocking(c) => told[c] = IF sock[c].state \in {"null", "destroyed"} THEN 1 ELSE 0

\* Bytes that wait to be sent have the descriptor watched for writability, once the
\* handler that wrote them has returned.
PendingWritesAreWatched ==
  Careful /\ ~stuck => \A c \in Conns : sock[c].write /\ sock[c].state = "connected" =>
    \E i \in DOMAIN fds : fds[i] = [fd |-> sock[c].native, write |-> TRUE]

\* An event's handler returns, if error() disconnects the socket, ready_read() reads,
\* and the listener's connected() reports no error.
HandlersReturn == "errors" \in policy /\ policy \cap {"leaves", "rejects"} = {} => ~stuck

Interrupted == stuck \/ ~running

\* Bytes that wait to be sent are sent when there is room for them.
RoomIsUsed ==
  \A c \in Conns :
    Careful /\ sock[c].write /\ conn[c].room ~>
      \/ ~sock[c].write \/ ~conn[c].room \/ Interrupted
      \/ sock[c].state # "connected" \/ conn[c].peer \in {"reset", "dead"}

\* What a peer sends is read, unless the connection breaks: once a write fails
\* ec is set, and the same event does not have the socket read.
DataIsRead ==
  \A c \in Conns :
    Careful /\ "leaves" \notin policy /\ conn[c].inq ~>
      \/ ~conn[c].inq \/ Interrupted
      \/ sock[c].state # "connected" \/ conn[c].peer \in {"reset", "dead"}

\* A reset connection's socket ends, if error() disconnects it.
ResetEndsService ==
  \A c \in Conns :
    Careful /\ "errors" \in policy /\ conn[c].peer = "reset" ~> sock[c].state # "connected" \/ Interrupted

\* Everybody who connects is accepted.
BacklogIsServed ==
  \A c \in Conns : conn[c].peer = "backlog" ~> conn[c].peer # "backlog" \/ Interrupted

\* The server's maps, the watcher's table, the descriptors and the sockets agree,
\* and so does what is watched for and what the sockets still have to send.
TablesAgree == /\ TypeOK /\ EveryDescriptorHasItsSocket /\ TablesMatchSockets /\ NobodyRefused
               /\ PendingWritesAreWatched

\* Whatever the kernel goes on announcing is dealt with.
EventsAreServed == RoomIsUsed /\ DataIsRead /\ ResetEndsService /\ BacklogIsServed

=============================================================================
