# A verification development for skate

skate is a header-only C++ library: buffers between threads, message queues,
loggers, sockets with an event-driven server, HTTP, containers and text formats.
This directory holds TLA+ modules that model its logic, the TLC configurations
that check them on small instances, and TLAPS proofs about the parts that
everything else stands on. All paths below are relative to `src/skate/`.

## 1. The system

| component | state | operations | who talks to it | module |
|---|---|---|---|---|
| `io_buffer` (io/buffer.h) | a vector, the slot of the oldest element, the number of live elements, a limit, a closed flag | write (one, container, range), read (one, up to n, all, swap, with a predicate), clear, set_max_size, close | base of `io_threadsafe_buffer`; member of both socket classes | CircularBuffer, IoBuffer |
| `io_threadsafe_buffer` and guards (io/buffer.h) | an `io_buffer`, a mutex, two condition variables, counts of registered producers and consumers | the same, waiting or not; at_end; guards register and unregister | threads; `async_logger`; the pipe | ThreadsafeBuffer |
| `MessageInterface`, `MessageBufferInterface` (threadbuffer.h) | a deque, closed and stale flags, a mutex, two condition variables | send, sendMessagesAtomically with four queue types, read with two read types, close | threads; the callback interface | MessageBuffer |
| `MessageCallbackInterface`, `MessageBroadcaster` (threadbuffer.h) | a function, an inner message buffer, a worker thread; a list of handlers and a mutex | send to all, to one, singly, in sequence, atomically; close; destructors | threads; call the function | MessageHandlers |
| `async_logger` (io/logger.h) | an `io_threadsafe_buffer` with one producer guard, a worker thread | log, batch_log, set_buffer_limit, close | threads; the worker calls `fn` | AsyncLogger |
| `stream_socket`, `datagram_socket` (socket/socket.h) | a write and a read buffer | read, read_all, write, write_datagram, read_datagram, flush, fill, set_read_limit | the application, the server, the kernel | StreamSocket, DatagramSocket |
| `socket` (socket/socket.h) | a descriptor, a state, the blocking mode | connect_sync, bind (one address, a list), listen, set_blocking, disconnect, destructor | the application, the server, the kernel | SocketLife |
| `socket_server` (socket/server.h) | maps from descriptors to sockets, a watcher, `canceled` | serve_socket, run, poll, cancel; accept and serve an event | watcher (events), sockets (callbacks) | SocketServer |
| watchers (socket/poll.h, select.h, epoll.h) | the table of watched descriptors | watch, modify, unwatch, clear, poll | server, kernel | Watchers, WatchSet |
| HTTP sockets (socket/protocol/http.h) | the state of a message being read, requests waiting for an answer | write_request, write_response, ready_read, disconnected | the server; the application | Http |
| `url`, `network_address` (socket/address.h) | the parts of a URL | set and clear each part, from_string, to_string, valid | the application | Url |
| adapters (io/adapters) and `utf` (containers/utf.h) | a value, a text and a position | read, write, escape, encode, decode | the application | Reading, Json, JsonDocuments, Csv, Xml, Base64, Utf, Formats |
| `sparse_array` (containers/sparse_array.h) | a map from first keys to chunks, a count | touch, store, unstore, erase, clear, reading | the application | SparseArray, ArrayMap |
| `tree` (containers/tree.h) | nodes with parents and children, iterators | insert, erase, clear, copy, move, swap, slice, walk | the application | Tree |

The pipe, the stream and file writers, the platform adapters, MessagePack, MD5,
safeint, the system wrappers and the demonstration program are not modelled
(section 7).

### How the parts interact

A thread registers with a shared buffer by a guard, and blocks on the buffer's
condition variables; `async_logger` is one such consumer. A message buffer does
the same without registration; a callback interface owns one and a worker thread
that reads it; a broadcaster calls its handlers under its own mutex. A server
asks its watcher for events, looks a descriptor up in its maps and calls the
socket, whose callbacks (the application, or the HTTP sockets) may write,
disconnect or cancel before they return. Sockets keep in circular buffers what
the kernel does not take at once. The formats and containers have no partners:
what is hard about them is a long sequence of legal calls.

### What is hard, and what must hold

* **Circular arithmetic** (`io_buffer`). Elements wrap around a vector that
  grows, is realigned, is swapped away and shrinks, under a limit that changes.
* **Wakeups** (`io_threadsafe_buffer`, `MessageBufferInterface`). Some
  notifications wake one thread, some all; a woken thread may find that another
  was faster. No thread may sleep on while what it waits for is there.
* **Hanging up** (guards, `close`, destructors). The end of a stream and the
  failure of a queue are final, and nobody is left blocked by them; a worker
  empties its queue before it is joined.
* **The stale front** (`ReadWithoutRemoving`). A message stays queued while a
  reader works on it, against senders that displace the front.
* **Several mutexes** (broadcaster, callbacks). The order in which handlers see
  messages, and calls that wait while they hold a lock.
* **Partial transfers** (sockets). The kernel takes or gives any part of a
  request; what is left over must be kept, in order.
* **Partial failures** (socket life cycle). Opening, tying and setting the mode
  may each fail; a descriptor is neither leaked nor closed twice.
* **Callbacks that destroy** (`socket_server`). A handler may disconnect the
  socket that is being served; descriptor numbers are given out again; events of
  the same round outlive the sockets they are about.
* **Pairing** (HTTP). Requests are written one behind the other, answers may
  have a length, none, or end with the connection.
* **Reading back** (formats, URLs). Which characters must be escaped where,
  where a value ends, which numbers fit.
* **Indices** (sparse array, tree). Runs of keys that grow, split and join;
  iterators over a structure with holes.

PROJECT.json lists every hazard with its line and the properties about it.

## 2. The modules

```
BoundedFifo <--implements-- IoBuffer ---+
                                        +-- CircularBuffer
MCThreadsafeBuffer -- ThreadsafeBuffer -+
MCSockets -+-- StreamSocket ------------+
           +-- DatagramSocket ----------+
           +-- SocketLife
           +-- Watchers --implements--> WatchSet
MCMessageBuffer   -- MessageBuffer
MCMessageHandlers -- MessageHandlers
                     AsyncLogger
MCSocketServer    -- SocketServer
MCHttp            -- Http
MCDocuments -+-- JsonDocuments -- Json -- Reading
             +-- Formats -- Csv (Json), Xml (Reading), Base64, Utf
             +-- Url
MCContainers -+-- IoBuffer
              +-- SparseArray --implements--> ArrayMap
              +-- Tree

CircularBufferProofs (lemmas about CircularBuffer, and on numbers)
  +-- ContainersProofs        theorems about IoBuffer and SparseArray
  +-- ThreadsafeBufferProofs  theorems about ThreadsafeBuffer
  +-- SocketsProofs           theorems about the sockets of MCSockets
MessageBufferProofs           theorems about MessageBuffer
MessageHandlersProofs         theorems about MessageHandlers
SocketServerProofs            theorems about SocketServer and Http
AsyncLoggerProofs             theorems about AsyncLogger
```

MC modules name the programs, inputs and bounds of a run. MCSockets, MCDocuments
and MCContainers put several components beside one another: a variable chosen
initially says which of them is used, and the others stand still.

**CircularBuffer** holds the operations of `io_buffer` as operators on a record
(`data`, `first`, `size`, `limit`, `closed`, for the five members). Slot k of the
vector is `data[k + 1]`. An element that was moved out leaves `Moved` behind, so
that reading a dead slot is visible. `Aligned` is `align()` with its order of
insertions, `Written` chooses between spare slots (`Fill`) and growing (`Grow`),
`Consumed(b, n, c)` is `read(max, p)` where n elements are offered and c are
consumed, and `Shrunk` is `do_empty_shrink()`. How much storage a vector has
allocated is not specified by C++ beyond its size, so `Shrunk` returns both
outcomes where both are possible.

**IoBuffer** is one action per member function. A frozen variable `uses` says
which read functions the client uses; it is chosen initially among `Clients`, so
that one specification covers a client that reads piecemeal and one that drains.
**BoundedFifo** is the abstract promise: a queue with a maximum length where a
write is accepted whole or refused. `ImplementsFifo` is the refinement, with
`queue <- Contents(buf)`, stated for clients that only take everything: for
others it does not hold (section 4).

**ThreadsafeBuffer** is the monitor. The mutex is held for every member function
except inside `wait`, so a call is one step, plus one for every time its thread
is woken: `Write`/`ResumeWrite` share `WritePass`, `Read`/`ResumeRead` share
`ReadPass`. A thread is asleep while it is in `producer_wait` or `consumer_wait`;
out of the set and still in `call`, it was woken and waits for the mutex.
`NotifyOneConsumer` picks any sleeper. Registration follows the guards. A guard's
exchange of its pointer and the unregistering that follows are one step (nobody
can tell them apart, except a second close of the same guard, which does
nothing). Spurious wakeups are not a step of their own: a woken thread that
finds its condition false goes back to sleep, which the wakeups modelled already
make happen. `usage` freezes the kind of program.

**MessageBuffer** is `MessageBufferInterface` with the public functions of
`MessageInterface`. `Send` makes the checks before any wait, `ResumeSend` only
looks at the room left, as the loop in the code does. `read()` may run
`readMessageImpl` twice, the first time to discard the stale message; `phase`
says in which of the two calls a blocked reader waits.

**MessageHandlers** composes handlers with a broadcaster. A callback's mutex is
held for the whole of a call (`holder`), a wait for room included; a plain
buffer releases its own while a sender waits. A broadcast is a list of calls made
one after the other under the broadcaster's mutex (`mtx`), and its answer is put
together from theirs (`Aggregate`). The worker of a callback fetches, runs the
function, and ends when its queue is closed and empty; the destructor closes and
joins. The buffers inside are MessageBuffer's, reduced to what a caller can see.
The function that a sender runs may move from its message or leave it as it was,
whatever it answers (`Function`, `MovedFrom`).

**AsyncLogger** is the logger: clients that log, change the limit and close, and
the worker's loop, with the queue as a sequence. That is justified by what the
lower modules establish: the worker only uses `read_all_swap`, a client for
which the circular buffer is a FIFO queue (`ImplementsFifo`, `FirstInFirstOut`).
`Close`, `HangUp` and `Join` are the three things `close()` does: take the
guard's pointer, unregister the producer, join the thread. A client closes once
(a bound); it may log again afterwards.

**StreamSocket** and **DatagramSocket** are non-blocking sockets over circular
buffers. The kernel transfers any part of a request, which stands for partial
transfers, "would block" and errors. A byte is its position in its stream, a
packet its number. The chunks `async_fill_read_buffer` writes go
into the read buffer one after the other, so a chunk that does not fit is lost.

**SocketLife** is the life cycle. A call is a set of worlds it may end in, one
for each way the kernel's calls go; `DirectBind` composes opening (`NewDescriptor`),
tying (`Tied`), setting the mode (`SetMode`) and giving up (`GivesUp`) as
`direct_bind()` does, and `OverList` tries one address after the other. A connect
that reports an error on a bound, non-blocking socket may have begun a connection
all the same (EINPROGRESS), which the kernel then finishes or not
(`KernelConnects`) while the socket's state stays "bound". The rest
of the program opens and closes descriptors of its own in between, so that a
number closed twice would be seen to be somebody else's. Both socket classes
have the same code here, but for a socket option.

**Watchers** gives the same calls to five tables: poll's vectors on POSIX and on
Windows, select's bit sets with their maxima, select's lists on Windows, and
epoll's set in the kernel. On Windows poll() is not asked for exceptional events
(`KernelFlags`). **WatchSet** is what the base class promises (socket/common.h), and
each call does to each table what it promises of that call, but for the exceptions
that `TablesAreWatchSets` names. `PollRound`, `SelectRound` and
`ListsRound` are the events a round hands over.

**SocketServer** is the server's thread over the poll watcher, its sockets, the
kernel's descriptors and the peers. One event's handler is one step (nothing else
of the process runs meanwhile), composed of functions on a world, so that every
sequence of system calls and callbacks inside it occurs; peers and the kernel
move between any two events. `policy` freezes what callbacks do: act on their own
socket, or on others (`crosses`), close their ends (`ends`), disconnect when an
error is reported (`errors`), cancel; leave what ready_read() could read
(`leaves`), decline a connection by a null create() (`declines`), or report an
error from the listener's connected() (`rejects`); `blocking` sockets, or a blocking
accepted socket of a non-blocking listener, as on Linux (`linux`); and connections
that the application opens itself (`serves`). Accepting a connection ends in
`Declined`, `Inserted`, `Destroyed` or, when accept() fails, `AcceptFails`. Connections have names, so that a
descriptor number given out again is not mistaken for the old one.

**Http** is the client's and the server's state machine at the two ends of a
connection, a line or a byte of a body at a time, as `ready_read()` consumes
them; the connection may end between any two. An answer is chosen among those a
server may give to the request (`Answers`), with and without a length. The client's
status begins anywhere (`begun`), since its constructor does not set it. The server's
request is handed over and never reset: `left` is what it still holds, which is
nothing if the application moved from it and all of it if not, and the next
request's fields are written over that (`Over`). Header fields but
`Content-Length` and `Connection` are one number. What the two
applications must keep to for the messages to arrive is stated as `Orderly`.

**Reading** is the readers of io/adapters/core.h on a text and a position;
**Json** adds the document object model, the writer, the generic reader and the
typed ones, **JsonDocuments** an application that edits a document, writes it
and has a stream of documents read, and texts that somebody typed. Integers have
their width (`MinInt`, `MaxInt`, `MaxUint` stand for the limits of 64 bits), as
parsed digit by digit. A double has `SignificandBits` binary digits from the halves
up, shifted by up to `MaxShift`: `FpDecode` rounds to the nearest, and to infinity
what is too large. Its conversion to an integer is undefined for the one value that
the code's comparisons let through beyond the type, and any value may come of it
(`Converted`). **Csv**, **Xml**, **Base64** and **Utf** are the other
formats, **Formats** what an application converts with them, where each is
compared with a definition of the format that does not follow the code. **Url**
is `url` and what it uses of `network_address` and split and join. A symbol of a
text is a character, or a run of characters between which nothing is decided.

**SparseArray** follows the map of chunks through every insertion that lengthens,
joins or splits them; **ArrayMap** is a partial function from keys to values,
which it implements, the value of an element that is only named included (`Made`). **Tree** is a heap of nodes for both kinds of tree
(`dynamic` or of fixed degree), with the iterative destruction and copying of the
code, and an iterator the application keeps while it changes the tree, as long
as the operation does not invalidate it.

### Definitions that are bugs on purpose

Definitions marked "Mutant:" are altered forms of the definition that follows
them, with the error named (a notification left out, an index that does not
wrap). Nothing uses them; each was put in the place of the original once to see
that a property notices.

## 3. The runs

| run | what it checks | bounds |
|---|---|---|
| `ThreadsafeBuffer` | `Consistent` (geometry, wait sets, registration counts), `NoLostWakeup`, `HandedOutOnceInOrder`, `EndOfStreamIsComplete`, `AtEndIsFinalOnceRegistered`; `BlockedCallsReturn` under fairness | two producers, two consumers, limit 2, two elements each in batches up to 2; programs that read piecemeal, drain and clear, change the limit |
| `MessageBuffer` | `MessagesAccountedFor` (once, in order, losses told), `NobodyOversleeps`, `FailedIsFinalUnblocked`; `BlockedCallsReturn` | two senders, up to two readers, limit 2 or none, two messages each, six kinds of program |
| `MessageHandlers` | `OrderIsShared`, `AnswersAreTrue`, `CallbacksAreGuarded`; `EverythingReturns` | two or three clients with one sending call each, two handlers with limits 1 and 2 or none, eight kinds of program |
| `AsyncLogger` | `Consistent`, `WrittenInOrder`, `FirstCloseWaits`; `CallsReturn` | two clients, three entries each, batches up to 2, limits 0 to 2 |
| `Sockets` | `SentOnceInOrder`, `ReceivedOnce`, `WritesAreKept` of both kinds of socket; `KeepsItsDescriptor`; `WatchersMissNothing`, `TablesAreWatchSets` | four bytes each way in requests up to 3 and chunks of 2, or three packets, read limits 0, 2 and 3; two descriptors and lists of two addresses; three descriptors of which FD_SETSIZE admits two |
| `SocketServer` | `TablesAgree`, `EndIsAnnouncedOnce`, `HandlersReturn`; `EventsAreServed` | two connections, two descriptors, seven kinds of application |
| `Http` | `MessagesArriveWhole`; `EveryRequestIsAnswered` | four requests of four kinds, bodies up to two bytes, seven kinds of answer, every status the client may begin with |
| `Documents` | `JsonReadsBack`, `LimitsAreExact`, `FormatsReadBack`, `UrlTextsAgree` | integers of 6 bits, doubles of 4 significant bits and 7 exponents, nesting up to 2, two documents of two edits each, four typed symbols behind five beginnings; three edits of a URL; three to six steps of the other formats |
| `Containers` | `BufferConsistent`, `ElementsConserved`, `ImplementsFifo`; `ArrayConsistent`, `ArrayIsMap`; `TreesConsistent` | two elements, limits 0, 2 and 3, a vector of at most 4; keys -1 to 4; trees of up to six nodes |
| `StreamSocketPartial`, `MessageBufferCancelled`, `ArrayUnstore` | disagreements, section 4 | the smallest that show them |

The bounds are the smallest at which the interesting cases occur.

* A vector of four slots wraps, grows while wrapped and shrinks. A limit of 0
  means unlimited in the code, and the limits of the runs include it.
* Two producers on a limit of 2 with batches of 2 make a woken producer that
  still does not fit while another would; a second consumer makes one that takes
  what another was woken for.
* Three clients of a plain buffer with room for one message make two that sleep in
  it when it is closed, of which close() wakes none and the reader only one.
* Three log entries and a limit that falls below a batch of 2 make both the
  blocked and the hopeless batch.
* The chunk size of 2 below a read limit of 3 makes a fill of one whole and one
  short chunk.
* Two addresses make a list whose first attempt fails; with two descriptors the
  rest of the program gets the number a socket has just closed.
* Three descriptors, of which 2 is beyond FD_SETSIZE, make a maximum with a lower
  member left, a list that is full, and one that is refused.
* A server with two connections and two descriptors makes an event that is
  pending while another's callback runs, and a descriptor number given out again
  in the same round. Four requests are two answered on one connection, one that
  waits and one that is cut off.
* Integers of 6 bits have every boundary an integer has. Doubles of 4 significant
  bits round integers that the types still hold (23 to 24) and to the one that is
  just beyond the signed type (33 to 32); 3e3 is more than the largest of them. Four
  symbols typed behind each of five beginnings reach every branch of the readers.
  The code units are those next to the boundaries of UTF-8 and UTF-16.
* An array of six keys has three runs of one key each; trees of six nodes,
  three of them the application's objects, have every shape of three more.

CHECK_DEADLOCK is off where the system really may stop: every client has closed
the logger, every byte is transferred, the server waits for events, the documents
are edited to their bound, the broadcaster has been destroyed or a plain buffer's
senders were left asleep by close(). ThreadsafeBuffer marks its legitimate end with
a step that changes nothing (`Finished`); in MessageBuffer a reader can always try
again. These two are checked for deadlock, which is how a program that stops with a
sleeper would show; MessageHandlers has `CallsReturn` and `DestructionEnds` for that.

### Fairness

The code starts threads and lets the operating system schedule them. A thread
that has been notified therefore runs (`WF` of the resumed calls). In
ThreadsafeBuffer and MessageBuffer it is also assumed that readers go on
reading, or hang up, since a producer that blocks on a full buffer depends on
that by design; senders need not send. In AsyncLogger only blocked calls and the
worker's loop are fair: nobody has to log or to close. In MessageHandlers each
client finishes the call it is in, each worker runs and the destructors proceed.
In SocketServer the thread inside `run()` is scheduled as long as poll() would
return (`Fairness`, spelled out as what WF of its steps means); peers owe nothing.
In Http the sockets are served and written bytes arrive while the connection
lasts. There is no strong fairness. A mutex handed over without starving anyone
is part of WF: a woken thread's step stays enabled until it is taken.

## 4. Where the code and its documentation part

In three runs TLC finds the property violated; the property states what the
quoted comment says.

| run | property | what happens |
|---|---|---|
| `StreamSocketPartial` | `NothingLostSending` | A partial send of buffered bytes drops the rest (io/buffer.h 227, against socket/socket.h 598). |
| `MessageBufferCancelled` | `BlockedSendsReturn` | `close(true)` empties the queue and wakes only readers (threadbuffer.h 397-404); the sender that waits for room sleeps forever. |
| `ArrayUnstore` | `RangeIsUnstored` | `unstore(first, last)` with `first` in a gap makes the chunk in front of it longer, so that keys that were never stored have values (containers/sparse_array.h 294). |

Others were met while modelling. The models follow the code in each case, and
the properties say what they except because of it.

* **Buffers.** `align()` (io/buffer.h 65) puts the wrapped, newest part in front
  of the oldest elements when a wrapped buffer grows; clients that always drain
  never meet it. `at_end()` is true, then false again, when a guard is constructed
  late (581, 584). `AtEndIsFinalOnceRegistered` and `EndOfStreamIsComplete` are about
  programs whose guards all exist before the first call.
* **Message queues.** The stale flag belongs to the queue (threadbuffer.h 281):
  with two readers that leave the message, an unread one is discarded. A sender
  that waited pushes onto a queue that was closed meanwhile (413), after a reader
  was answered `MessageFailed`. `close(true)` empties the queue and leaves the flag
  that its first message is stale (397): what such a sender pushes is discarded by
  the next `read()`, and nobody is told (`StaleFlagHasItsMessage`). A `QueueImmediate` read of a closed, empty queue
  answers `MessageTryAgain` for ever; `QueueBlockUntilDone` on an unlimited queue
  reports a message as handled that nobody has received.
* **Handlers.** "Subclasses of MessageInterface are not allowed to move the object
  unless the message was actually sent" (threadbuffer.h 825, and 856 of vectors), but a
  callback's function is given an rvalue and may fail after it moved from it (533,
  541), so that the next handler gets a moved-from object; if it left the object as
  it was, the next handler handles the same message again, of a vector also those
  handled well (539-543, 857). `ToOneReachesOne` excepts handlers whose function
  failed. close() of a plain buffer notifies readers only: with more senders asleep
  than messages left to read, the others sleep for ever, and with them who waits for
  the broadcaster's mutex (`Stranded`, excepted by `CallsReturn`). `sendMessages()` counts answers of all messages but compares them
  with the number of handlers (942). `MessageBroadcaster::remove` does not compile.
  The stream writer flushes before its worker is done (723); the file writer's
  stream is destroyed before the worker is joined (756).
* **Logger.** The second of two concurrent `close()` calls returns without
  waiting (io/logger.h 288).
* **Sockets.** Over a list of addresses the error of the last one is cleared too
  (socket/socket.h 367, 384), so that a failure of all looks like success, and an
  error of set_blocking() after a successful connect is lost the same way.
  `listen()`, `shutdown()` and `close()` make an error code of the -1 they return
  (313, 100). A connect() on a bound, non-blocking socket reports EINPROGRESS as an error
  and leaves the state "bound" while the kernel goes on to connect (690-698);
  `OwnsItsDescriptor` allows just that. `disconnect()` keeps the buffers, which a later connection of the
  same object then sends. A flush drops the packets behind one that failed (892);
  a packet whose write returned an error may be queued nevertheless (852).
* **Watchers.** select()'s `modify()` is the base class's, which unwatches and
  watches: it adds a descriptor that is not in the set, against socket/common.h 65
  ("If the descriptor is not in the set, nothing happens"), and on Windows one that
  finds a list full is only unwatched. poll() on Windows drops `WatchExcept`
  (socket/poll.h 158-167), so that an exceptional event is watched for by nobody and
  `watching()` does not say that it was asked for. `TablesAreWatchSets` and
  `RoundsAreComplete` name these exceptions. epoll's `poll()` looks at all 1024 entries
  of its array, of which the kernel wrote the first ones.
* **Server.** With `ec` set and data in the read buffer the handler loops for
  ever, unless `error()` disconnects (socket/server.h 141); so it does, without any
  error, for a `ready_read()` that leaves bytes in the buffer, as the base class's does
  (socket/socket.h 231) and the HTTP server's after a body. `HandlersReturn` is about
  applications that do neither. A null create(), which socket/socket.h 412 allows,
  leaves the accepted descriptor open with nobody to close it (96-98). When the
  listener's connected() reports an error, `p` was moved from and is dereferenced
  (111). An accepted socket is taken to be blocking on Linux, whatever its listener
  is (87-93). A socket disconnected
  because its buffers are closed stays in the maps and in the watcher (158). A
  stale entry makes the insertion of an accepted socket fail (107). Blocking
  sockets are told twice of their end. An orderly end of the stream is reported
  to nobody. A signal or a timeout of poll() cancels the server, and `cancel()`
  does not wake it. A write that fails suppresses the read of the same event.
* **HTTP.** The client's constructor leaves its status and expected length
  uninitialized (socket/protocol/http.h 393); what is said of responses is said of a
  status that happens to begin right (`begun`). The server parses the URL of a request
  and drops it (554), so that its application never learns it. `m_request` is handed
  over as an rvalue and never reset (600, 644): unless the application moves from it,
  header fields of a request show in those after it, which `RequestsArriveWhole`
  allows. An interim response (100) is taken for the final one, and those that follow
  are handed over with the requests after theirs. The server never resets its status after a
  body (644). A response with `Content-Length: 0` is handed over when more bytes
  come (355). A connection lost between two responses is reported to nobody.
* **JSON.** `\v` is written and refused when read; "3e" is accepted, and so is "t"
  or any other beginning of a word at the end of the text; a number too large for a
  double, as 1e999 or an integer of 310 digits, is accepted as infinity
  (io/adapters/core.h 574-586) and then refused by the writer (io/adapters/json.h
  1010). 2^63 as a double, to which 9223372036854775807.0 is rounded, passes the
  comparison with the largest int64 and its conversion is undefined (214, 311, 428);
  erase(index, count) mixes offset and end (509); assigning an element of a value to
  the value frees it first (233).
* **CSV, XML, Base64, UTF.** The CSV writer does not move on at a byte that
  begins no UTF-8 sequence (io/adapters/csv.h 74) and does not quote a trailing
  blank. A backslash is written as `&apos;` (io/adapters/xml.h 93), a leaf that
  cannot be written is forgotten (540). A processing instruction need not begin with a
  target (75-80), and U+0000 and the control characters are written, as references in
  a text (37-46), neither of which is well-formed: `xml_is_restricted_char` (43) is
  used nowhere. `XmlReadsBack` says exactly when the text is well-formed. Base64's padding decodes to zero bytes.
  U+10FFFF is refused.
* **URLs.** `%` escapes with the digit F stay as they are (socket/address.h 537);
  the query is decoded before it is split; set_query(key, value) takes a query
  set as text apart again and again (839). The userinfo is written whole, `x:@`, as
  soon as a name or a password is not empty, and not at all if both are (614-618):
  a name alone is read back with an empty password, an empty name or password that
  was set is lost, although has_username(), has_password() and get_userinfo() (585-593,
  706-713) tell them apart. `AsWritten` is what is kept.
* **Sparse array.** A new chunk begins with `std::vector<Value>{size_t(1)}`
  (containers/sparse_array.h 196, 208), which for an arithmetic `Value` is one element
  of value 1, against "Stores a default-constructed element" (187). The run's
  `NewChunkValue` is such an element, and ArrayMap's `Made` says when it appears.
* **Tree.** swap() exchanges parents between two roots only (containers/tree.h 832),
  and a tree is empty() if it has no parent. slice() of a child (681-702) therefore
  "returns it" as a tree that is empty(), of size 0, which can neither be walked nor
  appended to until somebody writes its value; and a child made under a
  default-constructed tree (660) is never counted or walked (399). `TreesStayWhole`
  says where emptiness goes, `TakesAfter`, and that the nodes are all there.
  `erase(value)` erases the child behind the one it found
  (containers/tree.h 1361); clear_to_empty() counts its own children (1350);
  several members compile in no standard.

## 5. What is proved

The `*Proofs` modules are checked by TLAPS with no step left open, for every
value of the constants, where TLC checks a handful. The assumptions are those
the modules declare: `Moved` is not an element, limits are naturals, `VectorMax`
and (where a read takes at most `MaxBatch`) `MaxBatch` are positive, the threads
are disjoint finite sets, and the kernel has a descriptor for every connection
(`ServerAssumption`: the server's running out of them is not modelled). Library facts about cardinalities and
sequences are used; nothing else is taken for granted.

**CircularBufferProofs** shows for each operation of CircularBuffer what it does
to the geometry, to the size and to the live elements. The modular arithmetic is
confined to a few lemmas about `Slot` and the distance from the first element.
Every theorem about a user of the buffer cites these.

**ContainersProofs**, about the circular buffer:

* `BufferIsConsistent`: `BufferSpec => []BufferConsistent`. Its parts are
  `Geometry` (the live elements fit the vector, the first of them lies inside it,
  an empty buffer starts over at slot 0), that no live slot ever holds a moved-from
  element, and that the vector never outgrows the largest limit.
* `DrainedBufferIsAFifo`: `BufferSpec => ImplementsFifo`, the refinement of
  BoundedFifo.

`Geometry` alone is not inductive. That a read hands out elements, and that
growing keeps them, needs to know that the live slots hold elements; that the
capacity stays below a limit needs the geometry for the length of the realigned
vector. The inductive invariant is the conjunction of the three. The refinement
needs one fact more, `StartsOver`: the buffer of a client that takes everything
always begins at slot 0. It is what keeps such a client clear of the case in
which `align()` changes the order (section 4).

And about the sparse array, for every range of keys:

* `ArrayStaysConsistent`: `ArraySpec => []ArrayConsistent`. Each operation is a
  function of the chunks, and each has one lemma on what it does to what is stored
  and to what `at()` returns (`RefIs`, `UnstoreIs`, `UnstoreRangeIs`, `EraseRangeIs`).
  These rest on a few about putting a chunk between others, dropping some, cutting
  one off and joining two (`PutElements`, `DropElements`, `CutIs`, `CompactIs`).
  Between two of its steps an operation has chunks that touch, which is all that may
  be wrong with them (`Laid`, `RunsBut`). The counter is right because
  the lengths summed up when chunks are dropped are the keys they cover (`SumIs`, by
  induction over the number of chunks), and what the chunk before a range loses or
  gains is counted by its two ends. This holds for ranges that begin in a gap, too.
* `ArrayIsAMap`: `ArraySpec => ArrayIsMap`, the refinement of ArrayMap, when
  `RangesMayStartInGap` is FALSE, whatever `NewChunkValue` is. The hypothesis cannot be
  dropped: a range that begins in a gap leaves elements that nobody stored (section 4).
* `RangesFromRunsAreUnstored`, without this hypothesis: a range that begins at a
  stored key is unstored as the comment says.

**ThreadsafeBufferProofs**, for any number of threads and every kind of program,
registered in time or not:

* `NoWakeupIsLost`, of producers and of consumers. The second is the delicate
  one. A single write notifies one consumer, so the
  invariant has to count: the elements waiting are no more than the consumers
  already woken. A write adds one to each side; a woken consumer that finds
  something takes at least one element; one that finds nothing leaves a size of
  0; and everything else notifies all. It needs that a blocked write of a single
  element offers exactly one (`SinglesAreSingle`).
* `MonitorIsConsistent`: types, geometry, the membership of the wait sets, and
  the registration counts, which are the numbers of open guards.
* `TakersFindAQueue`: consumers that take everything get every element accepted,
  once and in order, across all threads, with clears and new limits in between.
* `EndIsFinal`: in a program that registers in time, `at_end()` stays true. This
  is an action property; it needs `Registrations` (no guard closes before all
  exist) and the counts, from which all producers' guards are closed at the end.
* `EndMissesNothing`: in such a program a consumer that was told of the end has
  missed nothing that was accepted, or ever will be.
* `HandsOutOnceInOrder`: what all consumers were handed and what the buffer holds
  is what was accepted, nothing lost or twice, however the vector was laid out
  when it grew; and it comes in order where consumers take everything. The lemmas
  about `Aligned` and `Grow` say for this which slot an element goes to.

The inductive invariant is the conjunction of these with `BusyThreadsAreOpen`: a
thread in a call holds an open guard. A call and its resumption are brought to a
common form first (`WriteStep`, `ReadStep`), so that each part of the invariant
is shown to survive eight kinds of step.

**MessageBufferProofs**, for any number of senders and readers, every queue type
and any limit:

* `NobodyIsLeftAsleep`: `Spec => []NobodyOversleeps`. While readers sleep, every
  queued message has a woken reader on the way (`EveryMessageHasAReader`). While
  a sender of a single message sleeps, every free place has a woken sender on
  the way (`EveryPlaceHasASender`), and no sleeping sender is stranded beside an
  empty queue (`SendersNotStranded`).
* `FailureIsFinal`: `Spec => []FailedIsFinalUnblocked`.
* `EveryMessageHasOneFate`: `Spec => []MessagesAccountedFor`. What readers are given
  comes in the order of acceptance and once, and no more messages are missing than
  displacements were reported, where one reader leaves messages or none does.

The library wakes one sender for each message that leaves and one reader for each
that comes, while a woken thread may find that another was faster. The steps are
therefore counted: `SendEffect` says that a sending step pushes (at most as many
as it wakes readers for), goes to sleep, or answers; `ReadEffect` says the same of
a reading step, with `Freed(m)`: for every message gone a sender was notified. To
be inductive the invariant also says what a blocked thread waits for
(`WaitingSends`, `ReadersRead`) and that a queue was closed before a reader hears of
failure (`FailedWhenClosed`).

The fates of messages rest on where the queue stands (`Fates`): it is the end of
what was accepted, `Before` messages are gone from its front, and its first counts
as read while it is stale (`Held`). All that was delivered lies in the first `Done`
= `Before` + `Held` messages, in order. A step that displaces x messages moves
`Before` by x and leaves at most x unread (`Gone`), the stale one not among them, so
the losses never outrun what was told. It is here that a flag left by
`close(true)` breaks the argument; the property excepts that program (section 4).

**MessageHandlersProofs**, for any number of clients and handlers of both kinds,
every list of writers and every queue type:

* `AnswersTellTheTruth`: `Spec => []AnswersAreTrue`. A call to one handler that
  reports success gave its messages to the last it tried, and no other was given
  them but those whose function failed with them (`Keepers`), whether or not it moved
  from them; a call that asks to be tried again reached nobody.
* `AllHandlersShareOneOrder`: `Spec => []OrderIsShared`. Handlers that were added
  once accept the broadcasts of all clients in one order, and each worker is given
  what its queue accepted, once and in that order.
* `CallbacksStayGuarded`: `Spec => []CallbacksAreGuarded`. A queue keeps its limit,
  a function runs in one sender's thread at a time, and a destroyed callback has
  handled everything.
* `TypesHold` and `MutexesGuard`, on which these rest: a callback's mutex is held by
  exactly the client inside it, waiting included, and whoever is inside a handler
  for a broadcast holds the broadcaster's.

Each step of a client is one of a handful of effects on one handler, and a call is
a list of them. `Shapes` says where in the list a call can be; `Answering` relates
the answers it has collected to what the handlers took, message by message, so that the aggregate at
the end is a statement about the queues. `InTurn` gives the order: the messages of the
call that holds the broadcaster's mutex are the last in every queue, in their
order, and the handlers it has not come to have none of them; so two
queues never have two messages crosswise (`Agree`). `HandedOver` is the bookkeeping
of one queue with a stale front: handled, waiting and dropped messages, in the
order they were taken.

**AsyncLoggerProofs**, for any number of logging threads:

* `OrderIsKept`: written, in hand and queued, in this order, is what was accepted.
* `LoggerIsConsistent`: the program counters agree with the wait set, and while a
  client sleeps, the worker is neither asleep nor gone.
* `FirstCloseIsComplete`: when the `close()` that took the guard returns,
  everything due has been written.

The argument: a client only sleeps beside a queue that is not empty and the
worker only beside one that is (`Beds`), so they never sleep together. One client
at most takes the guard's pointer, and until it unregisters the worker goes on
(`Guarded`). When the worker stops, the queue is empty and nothing is in its
hands, so that what was accepted is written (`Drained`, with `WrittenInOrder`).

**SocketServerProofs**, for any number of connections and descriptors and every
kind of application:

* `MapsAndTableAgree`: `Spec => []TablesAgree`. No descriptor is shared or closed
  twice, and none leaked but those create() declined, whatever callbacks do to other
  sockets; and with callbacks that act
  on their own socket, the maps and the watcher's table hold exactly the open
  descriptors, nobody is refused, and bytes that wait are watched for.
* `EveryEndIsAnnouncedOnce`: `Spec => []EndIsAnnouncedOnce`.
* `EveryHandlerReturns`: `Spec => []HandlersReturn`: where error() disconnects the
  socket, ready_read() reads and connected() reports no error, no handler is stuck.

A handler is a composition of calls, so the proof has one lemma for each call, in
one form: it keeps a world `Sound` (each open descriptor is its socket's, a socket
is connected as long as it has one) and `Leads` it on (a socket stays as it is or
loses its descriptor for good, `write` changes only with `did_write`, a careful
callback leaves the others alone). `LeadsOn` composes them, and `OutcomesKeep` is
the whole handler. The tables need more than they promise: that the maps hold a
socket as long as it has the descriptor (`MapsHoldLive`); that a descriptor occurs
once in a round (`PendingOnce`), and is watched for writability until its pending
event is handled (`PendingIsWatched`), without which a handler that never returns
would leave bytes unwatched; and that poll() never announces a hangup without
something to read (`HangupsAreReadable`), so that the server's test of "hangup and
not readable" never ends a socket that still has its descriptor.

And about the HTTP sockets, for any number of requests, bodies of any length and
every set of methods and codes:

* `MessagesAreWhole`: `HttpSpec => []MessagesArriveWhole`, when the applications are
  `Orderly`. However the client began, the server's application gets each request
  once, in order, with its body and fields; a field that a request does not have may
  be an earlier one's (`HServer`). If the client's status began as it should, neither
  end refuses a line or gets a response nobody asked for, and the client's application
  gets each response with its own request and the body that was announced, or
  a beginning of it if only the end of the connection ends it (`HInv`).

What is under way in each direction is a `Stream`: tokens of the messages written,
each followed by what comes next in its message (`Follows`), up to the end of the
last (`Whole`). A reader is tied to it by one equation: its whole state is what it
must be `Before` the first token (status, headers seen, bytes of the body,
bytes expected), so that reading a token is a lemma about one message, the
same for both ends (`ReadsLine`, `ReadsEnd`, `ReadsByte`). Two cases stand outside
and make the invariant what it is. A response of length 0, or without a length, is
complete when nothing tells the client so (`Waiting`): the next token, or the end of
the connection, hands it over. And the server's state after a body is never `Before`
anything, which is why a request with a body must be the last (`HGuards`).
The oldest request is the one answered because requests wait as a contiguous piece
of what was sent (`HRequests`). The hypotheses that the divergences of section 4
make necessary cannot be dropped: a request after a body, or after one that asked to
close, an interim answer; nor can the condition on the client's first status.
TLC has checked every conjunct of this invariant on the run's instance.

**SocketsProofs**, for every set of descriptors and number of addresses, any
number of bytes and packets, and every request, chunk size and limit:

* `SocketOwnsItsDescriptor`: `SocketsSpec => []KeepsItsDescriptor`. Each call of the
  life cycle has one lemma, that it keeps a world `Sound`: the socket and the
  kernel agree but for a connection that a failed connect began, and so do the modes. The list of addresses is a recursive function
  over their number, and what holds after each of them is shown by induction from
  the least number for which it does not (`Induction`); that the
  function exists is shown in the same way (`RunsExist`).
* `NothingIsSentTwice`: `SocketsSpec => []SentOnceInOrder`. What was sent and what
  waits are two `Ordered` sequences, the second behind the first and ahead of
  whatever is written next (`SendsInOrder`, `PacketsInOrder`). The stream socket
  empties its buffer before it puts anything into it, however much of that the kernel
  took (`Queue`, `QueueEmptied`), so that it always begins at slot 0.
* `NothingIsLostOrTwice`: `SocketsSpec => []ReceivedOnce`. However many
  chunks the bytes come in, they find room in the buffer (`ChunkBounds`,
  `FilledTakes`); this keeps all that came as a set, and in order for a reader that
  takes everything (`AllReceived`). Packets are counted: those handed
  out, stored, waiting and dropped are all that came, and no two are the same
  (`PacketsOnce`, `DistinctCount`).
* `WrittenIsKept`: `SocketsSpec => WritesAreKept`, an action property, from the
  invariants of sending.
* `WatchersAreComplete`: `SocketsSpec => []WatchersMissNothing`, for any number of
  descriptors and any FD_SETSIZE. The tables have an invariant each (`TablesOk`):
  poll's vectors hold an entry for each descriptor (`Table`) and the same ones in
  whichever order, each of select()'s sets is `Topped` by its maximum, which a
  removal may have to search for, and no descriptor comes twice in a list of
  Windows (`ListsOk`). From these a round is complete: select()'s loop has called
  for every descriptor below the one it is at, or has counted out all the bits
  there were, which are at least as many as the descriptors (`Looked`, `BitsEnough`);
  and a step of the merge calls for the lowest descriptor with all its lists and
  leaves less to merge (`Merging`, `AdvanceKeeps`), so that it ends with nothing left.
* `TablesImplementTheSet`: `SocketsSpec => TablesAreWatchSets`, the refinement, call
  by call and for every program: there is a lemma for each call, which says of each
  table that it does what WatchSet's action of that name does, or names what the code
  does instead (section 4). Nothing is assumed of the program: it may modify
  descriptors that are absent.

## 6. What is only model-checked

Liveness, which is out of the prover's reach. What RECURSIVE operators compute: the
readers and writers of the formats, and the trees. (Recursive functions over
numbers can be reasoned about, as SocketsProofs does.) `ElementsConserved`
counts occurrences under a client that reads piecemeal and changes limits. That the
HTTP connection makes progress (`EveryRequestIsAnswered`).

## 7. Limits of the models, and what is not modelled

* Element types whose moves throw, and allocation failure, are left out.
* `read(max, p)` with a predicate that stops early occurs in IoBuffer and in the
  sockets, not in ThreadsafeBuffer. IoBuffer excludes it from
  `ElementsConserved`, because it loses elements.
* ThreadsafeBuffer's guards are closed once per thread. The pipe is two such
  buffers; its one hazard, two ends that both write first, follows from its use.
* MessageBuffer leaves out the capacity queries. Readers that leave messages
  (`OneStaleReader`) are one per queue; two discard what is unread (section 4).
* MessageHandlers: handlers are added before the clients start. That they share an
  order is stated of handlers added once, and of messages that were not moved from
  (a function that fails may leave such an object to the buffer that follows). Output streams,
  and with them the stream and file writers, are not modelled.
* AsyncLogger: the callbacks `start`, `fn` and `end` do not call the logger
  themselves (a callback that logs into its own full queue waits for itself).
  `sync_logger` is one mutex around a write; formatting is left out.
* StreamSocket, DatagramSocket: non-blocking. A `recv` of length 0 (end of
  stream) looks like "nothing there", as it does to the code.
* SocketLife: resolve(), shutdown() and the queries of addresses are left out, and
  so are the states looking_up_host, connecting and disconnecting, which nothing
  sets.
* Watchers: rounds with a dead descriptor (select fails with EBADF), and what
  epoll's `poll()` hands over. kqueue and IOCP are unfinished in the source,
  WSAAsyncSelect is driven by window messages.
* SocketServer: one server, the poll watcher, one thread. Blocking sockets' reads and
  writes are taken to return. A listener's error() is taken to leave it listening. `cancel()` from another
  thread is a data race on a plain bool and is left out. `TablesAgree` and the
  liveness properties are about applications whose callbacks act on their own
  socket (`Careful`), which the code's comments do not say but its maps need.
* Http: no request follows one with a body (`AfterBody`) or one that asked to
  close (`AfterClose`), because of the divergences above; requests and answers have
  the bodies their headers announce (`Orderly`). URLs, header names and folding are
  left out. A client whose status began wrong may behave in any of the ways the model
  allows, and only what the server receives is stated of it.
* Json: doubles have their rounding and their largest value, but no fractions
  smaller than a half, no subnormal numbers and no NaN. Url: hosts are names, ports
  digits. Csv, Xml: the default separator, quote and indentation; the older
  implementations in those files are disabled by the preprocessor.
* Tree: reverse and sibling iterators, operator== and follow_path().
* Not modelled at all: MessagePack (its whole body is between `#if 0` and
  `#endif`), MD5 (the iterator ignores its input), safeint (nothing uses it), the
  container adapters for other libraries (names of types), socket_address
  (sockaddr and getaddrinfo), environment, clocks and the demonstration program.

## 8. What is left

The pipe's guard, with its `clear()`; sockets that connect again with what their
buffers still hold; two servers that share a socket; a server that runs out of
descriptors.
