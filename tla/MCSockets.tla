----------------------------- MODULE MCSockets -----------------------------
(***************************************************************************)
(* One socket of either type, used on its own, the life cycle of a socket, *)
(* or a set of watched descriptors.                                        *)
(***************************************************************************)
EXTENDS StreamSocket, DatagramSocket, SocketLife, Watchers

VARIABLE type

SocketsInit == /\ type \in {"stream", "datagram", "life", "watchers"}
               /\ Init /\ DatagramInit /\ LifeInit /\ WatchersInit
               /\ type # "stream" => read_buffer.limit = 0 /\ reads = {"all"}
               /\ type # "datagram" => incoming.limit = 0 /\ state = "bound"

SocketsNext ==
  /\ type' = type
  /\ \/ type = "stream" /\ Next /\ UNCHANGED <<datagramVars, lifeVars, watcherVars>>
     \/ type = "datagram" /\ DatagramNext /\ UNCHANGED <<vars, lifeVars, watcherVars>>
     \/ type = "life" /\ LifeNext /\ UNCHANGED <<vars, datagramVars, watcherVars>>
     \/ type = "watchers" /\ WatchersNext /\ UNCHANGED <<vars, datagramVars, lifeVars>>

SocketsSpec ==
  SocketsInit /\ [][SocketsNext]_<<type, vars, datagramVars, lifeVars, watcherVars>>

\* Whatever the kernel takes of it and when, no byte and no packet is sent twice,
\* or before one that was written earlier, and packets stay apart (write(),
\* write_datagram() and both async_flush_write_buffer()).
SentOnceInOrder == SentInOrder /\ DatagramsGoOnceInOrder

\* Every byte and every packet that arrived comes to the application once, or is in a
\* buffer, but for the packets that found the buffer full (read(), read_datagram()
\* and both async_fill_read_buffer()).
ReceivedOnce == ReceivedWhole /\ DatagramsComeOnce

\* A socket and the kernel agree on its descriptor and on its mode, through any
\* sequence of calls that fail half-way (direct_bind(), disconnect(), set_blocking()).
KeepsItsDescriptor == OwnsItsDescriptor /\ ModeIsTheKernels

\* What a write of either socket reported as written is on its way or buffered.
WritesAreKept == WriteKeepsItsBytes /\ AcceptedIsKept

\* The maxima of select()'s sets are right, and every watcher's rounds complete.
WatchersMissNothing == type = "watchers" => MaxIsHighest /\ RoundsAreComplete

\* Pending events, as far as TLC enumerates them.
mcWanted == {{"read", "write"}, {"write", "except"}, {"except"}}
mcHappenings == {{}, {"hangup"}, {"error", "except"}}

=============================================================================
