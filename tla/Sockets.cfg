\* Both directions, two kinds of application, a limited and an unlimited read buffer.
CONSTANTS
  Moved = Moved
  VectorMax = 4
  ShrinkAbove = 2
  MaxBytes = 4
  MaxRequest = 3
  ChunkSize = 2
  ReadLimits = {0, 3}
  Readers = {{"max"}, {"all"}}
  MaxDatagrams = 3
  PacketLimits = {0, 2}
  Fds = {1, 2}
  MaxAddresses = 2
  Descriptors = {0, 1, 2}
  SetSize = 2
  Wanted <- mcWanted
  Happenings <- mcHappenings
SPECIFICATION SocketsSpec
CHECK_DEADLOCK FALSE
INVARIANTS SentOnceInOrder ReceivedOnce KeepsItsDescriptor WatchersMissNothing
PROPERTIES WritesAreKept TablesAreWatchSets
