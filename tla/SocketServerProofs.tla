------------------------- MODULE SocketServerProofs -------------------------
(***************************************************************************)
(* socket_server and its poll() watcher for any number of connections and  *)
(* descriptors and every application: the server's maps, the watcher's     *)
(* table and the sockets agree, a socket's end is announced once, and the  *)
(* handler of an event returns.  And the HTTP sockets that run under it,   *)
(* for any number of requests and every body: the messages arrive whole,   *)
(* in pairs and in order, until the connection is lost.                    *)
(***************************************************************************)
EXTENDS SocketServer, Http, FiniteSetTheorems, SequenceTheorems, TLAPS

-----------------------------------------------------------------------------
(* Descriptor numbers.                                                     *)

\* A set of numbers that is not empty has a least one.
LEMMA LowestIsThere ==
  ASSUME NEW S \in SUBSET Nat, S # {}
  PROVE  Lowest(S) \in S
<1> DEFINE Down(k) == {j \in S : j <= k}
           Downs == {Down(k) : k \in S}
           R == StrictSubsetOrdering(Nat)
<1>1. IsWellFoundedOn(R, FiniteSubsetsOf(Nat))
  BY FS_StrictSubsetOrderingWellFounded
<1>2. \A k \in S : IsFiniteSet(Down(k))
  <2> SUFFICES ASSUME NEW k \in S PROVE IsFiniteSet(Down(k))
    OBVIOUS
  <2>1. Down(k) \in SUBSET Nat /\ k \in Nat /\ \A j \in Down(k) : j <= k
    OBVIOUS
  <2> HIDE DEF Down
  <2> QED BY <2>1, FS_BoundedSetOfNaturals
<1>3. Downs \subseteq FiniteSubsetsOf(Nat) /\ Downs # {}
  BY <1>2 DEF FiniteSubsetsOf
<1>4. PICK x \in Downs : \A y \in Downs : ~(<<y, x>> \in R)
  <2> HIDE DEF Downs, R
  <2> QED BY <1>1, <1>3, WFMin
<1>5. PICK k \in S : x = Down(k)
  OBVIOUS
<1>6. \A j \in S : k <= j
  <2> SUFFICES ASSUME NEW j \in S, ~(k <= j) PROVE FALSE
    OBVIOUS
  <2>1. Down(j) \subseteq Down(k) /\ k \in Down(k) /\ k \notin Down(j)
    <3>1. k \in Nat /\ j \in Nat /\ j < k
      OBVIOUS
    <3>2. \A m \in S : m <= j => m <= k
      BY <3>1
    <3>3. k <= k /\ ~(k <= j)
      BY <3>1
    <3> QED BY <3>2, <3>3
  <2>2. Down(j) \subseteq Nat /\ Down(k) \subseteq Nat /\ Down(j) \in Downs
    OBVIOUS
  <2> HIDE DEF Down, Downs
  <2> QED BY <1>4, <1>5, <2>1, <2>2 DEF StrictSubsetOrdering
<1> QED BY <1>6 DEF Lowest

\* Each descriptor that is open is the one its socket has.
Linked(opened, sockets) ==
  \A f \in Fds, c \in Conns : opened[f] = c <=> sockets[c].native = f

\* There is a descriptor for a connection that has none yet.
LEMMA DescriptorIsFree ==
  ASSUME open \in [Fds -> Conns \cup {None}], Linked(open, sock),
         NEW c \in Conns, sock[c].native \notin Fds
  PROVE  Lowest({g \in Fds : open[g] = None}) \in {g \in Fds : open[g] = None}
<1> USE ServerAssumption
<1>1. ASSUME \A g \in Fds : open[g] # None PROVE FALSE
  <2>1. open \in Injection(Fds, Conns \ {c})
    <3>1. \A g \in Fds : open[g] \in Conns \ {c}
      <4> TAKE g \in Fds
      <4>1. open[g] \in Conns
        BY <1>1, ZenonT(30)
      <4>2. open[g] # c
        BY ZenonT(30) DEF Linked
      <4> QED BY <4>1, <4>2
    <3>2. \A f, g \in Fds : open[f] = open[g] => f = g
      BY <3>1 DEF Linked
    <3> QED BY <3>1, <3>2 DEF Injection, IsInjective
  <2>2. IsFiniteSet(Conns \ {c}) /\ Cardinality(Conns \ {c}) = Cardinality(Conns) - 1
    BY FS_RemoveElement
  <2>3. Cardinality(Fds) <= Cardinality(Conns \ {c})
    BY <2>1, <2>2, FS_Injection
  <2>4. Cardinality(Fds) \in Nat /\ Cardinality(Conns) \in Nat
    BY FS_CardinalityType
  <2> QED BY <2>2, <2>3, <2>4
<1>2. {g \in Fds : open[g] = None} # {}
  BY <1>1
<1>3. {g \in Fds : open[g] = None} \in SUBSET Nat
  OBVIOUS
<1> QED BY <1>2, <1>3, LowestIsThere

\* The event handled next is one of those still to be handled.
LEMMA PlaceIsThere ==
  ASSUME DOMAIN triggered \subseteq Nat, Pending
  PROVE  Place \in DOMAIN triggered
BY LowestIsThere DEF Place, Pending

-----------------------------------------------------------------------------
(* The watcher's table.                                                    *)

Entries == [fd : Fds \cup {Listener}, write : BOOLEAN]

Has(table, entry) == \E i \in DOMAIN table : table[i] = entry

\* No descriptor is watched twice.
Once(table) == \A i, j \in DOMAIN table : table[i].fd = table[j].fd => i = j

\* modify() and unwatch() find the entry of a descriptor that is watched.
LEMMA FoundInTable ==
  ASSUME fds \in Seq(Entries), NEW f
  PROVE  LET i == SelectInSeq(fds, LAMBDA entry : entry.fd = f)
         IN  \/ i = 0 /\ ~Watched(f)
             \/ i \in DOMAIN fds /\ i # 0 /\ fds[i].fd = f
<1> DEFINE I == {i \in 1..Len(fds) : fds[i].fd = f}
<1>1. SelectInSeq(fds, LAMBDA entry : entry.fd = f) = IF I # {} THEN Min(I) ELSE 0
  BY DEF SelectInSeq
<1>2. DOMAIN fds = 1..Len(fds)
  OBVIOUS
<1>3. CASE I = {}
  BY <1>1, <1>2, <1>3 DEF Watched
<1>4. CASE I # {}
  <2>1. I \in SUBSET Nat
    OBVIOUS
  <2>2. Min(I) = Lowest(I)
    BY DEF Min, Lowest
  <2>3. Min(I) \in I
    <3> HIDE DEF I
    <3> QED BY <2>1, <2>2, <1>4, LowestIsThere
  <2> QED BY <1>1, <1>2, <1>4, <2>3
<1> QED BY <1>3, <1>4

\* watch() adds an entry.
LEMMA WatchAdds ==
  ASSUME fds \in Seq(Entries), NEW f \in Fds
  PROVE  /\ Watch(f) \in Seq(Entries)
         /\ \A e : Has(Watch(f), e) <=> Has(fds, e) \/ e = [fd |-> f, write |-> TRUE]
         /\ Once(fds) /\ ~Watched(f) => Once(Watch(f))
<1> DEFINE n == Len(fds)
<1>1. /\ n \in Nat /\ DOMAIN fds = 1..n
      /\ Watch(f) \in Seq(Entries) /\ DOMAIN Watch(f) = 1..(n + 1)
      /\ \A i \in 1..n : Watch(f)[i] = fds[i]
      /\ Watch(f)[n + 1] = [fd |-> f, write |-> TRUE]
  BY DEF Watch, Entries
<1> HIDE DEF n
<1>2. \A i \in 1..(n + 1) : i \in 1..n \/ i = n + 1
  BY <1>1
<1>3. \A i \in 1..n : i \in 1..(n + 1) /\ i # n + 1
  BY <1>1
<1>4. n + 1 \in 1..(n + 1)
  BY <1>1
<1>5. \A e : Has(Watch(f), e) <=> Has(fds, e) \/ e = [fd |-> f, write |-> TRUE]
  BY <1>1, <1>2, <1>3, <1>4 DEF Has
<1>6. Once(fds) /\ ~Watched(f) => Once(Watch(f))
  BY <1>1, <1>2, <1>3, <1>4 DEF Once, Watched
<1> QED BY <1>1, <1>5, <1>6

\* modify() changes the entry of the descriptor, if there is one.
LEMMA ModifyReplaces ==
  ASSUME fds \in Seq(Entries), NEW f, NEW b \in BOOLEAN
  PROVE  /\ Modify(f, b) \in Seq(Entries)
         /\ Once(fds) =>
              /\ Once(Modify(f, b))
              /\ \A e : Has(Modify(f, b), e) <=> \/ Has(fds, e) /\ e.fd # f
                                                 \/ Watched(f) /\ e = [fd |-> f, write |-> b]
<1> DEFINE i == SelectInSeq(fds, LAMBDA entry : entry.fd = f)
<1>1. \/ i = 0 /\ ~Watched(f)
      \/ i \in DOMAIN fds /\ i # 0 /\ fds[i].fd = f
  BY FoundInTable
<1>2. Modify(f, b) = IF i = 0 THEN fds ELSE [fds EXCEPT ![i].write = b]
  BY DEF Modify
<1> HIDE DEF i
<1>3. CASE i = 0
  BY <1>1, <1>2, <1>3 DEF Has, Watched
<1>4. CASE i # 0
  <2>1. \A j \in DOMAIN fds : fds[j] \in Entries
    OBVIOUS
  <2>2. /\ Modify(f, b) \in Seq(Entries) /\ DOMAIN Modify(f, b) = DOMAIN fds
        /\ \A j \in DOMAIN fds : j # i => Modify(f, b)[j] = fds[j]
        /\ Modify(f, b)[i] = [fd |-> f, write |-> b]
    BY <1>1, <1>2, <1>4, <2>1 DEF Entries
  <2>3. Watched(f)
    BY <1>1, <1>4 DEF Watched
  <2>4. Once(fds) => Once(Modify(f, b))
    BY <1>1, <1>4, <2>2 DEF Once
  <2>5. Once(fds) => \A j \in DOMAIN fds : fds[j].fd = f => j = i
    BY <1>1, <1>4 DEF Once
  <2>6. Once(fds) =>
          \A e : Has(Modify(f, b), e) <=> \/ Has(fds, e) /\ e.fd # f
                                          \/ Watched(f) /\ e = [fd |-> f, write |-> b]
    BY <1>1, <1>4, <2>2, <2>3, <2>5 DEF Has
  <2> QED BY <2>2, <2>4, <2>6
<1> QED BY <1>3, <1>4

\* unwatch() removes it.
LEMMA UnwatchRemoves ==
  ASSUME fds \in Seq(Entries), NEW f
  PROVE  /\ Unwatch(f) \in Seq(Entries)
         /\ Once(fds) =>
              /\ Once(Unwatch(f))
              /\ \A e : Has(Unwatch(f), e) <=> Has(fds, e) /\ e.fd # f
<1> DEFINE i == SelectInSeq(fds, LAMBDA entry : entry.fd = f)
           n == Len(fds)
<1>1. \/ i = 0 /\ ~Watched(f)
      \/ i \in DOMAIN fds /\ i # 0 /\ fds[i].fd = f
  BY FoundInTable
<1>2. Unwatch(f) = IF i = 0 THEN fds ELSE SubSeq(fds, 1, i - 1) \o SubSeq(fds, i + 1, Len(fds))
  BY DEF Unwatch, RemoveAt
<1> HIDE DEF i
<1>3. CASE i = 0
  BY <1>1, <1>2, <1>3 DEF Has, Watched
<1>4. CASE i # 0
  <2>1. n \in Nat /\ DOMAIN fds = 1..n /\ i \in 1..n /\ fds[i].fd = f
    BY <1>1, <1>4
  <2> DEFINE u == SubSeq(fds, 1, i - 1)
             v == SubSeq(fds, i + 1, n)
  <2>2. /\ u \in Seq(Entries) /\ Len(u) = i - 1
        /\ \A j \in 1..(i - 1) : u[j] = fds[j]
    BY <2>1
  <2>3. /\ v \in Seq(Entries) /\ Len(v) = n - i
        /\ \A j \in 1..(n - i) : v[j] = fds[i + j]
    <3> DEFINE m == i + 1
    <3>1. m \in Int /\ n \in Int /\ n \in Nat /\ \A j \in m..n : fds[j] \in Entries
      BY <2>1
    <3> HIDE DEF n
    <3>2. /\ n - m + 1 = n - i
          /\ (IF m <= n THEN n - m + 1 ELSE 0) = n - i
          /\ \A j \in 1..(n - i) : m + j - 1 = i + j
      BY <2>1
    <3> HIDE DEF m
    <3>3. /\ SubSeq(fds, m, n) \in Seq(Entries)
          /\ Len(SubSeq(fds, m, n)) = IF m <= n THEN n - m + 1 ELSE 0
          /\ \A j \in 1..(n - m + 1) : SubSeq(fds, m, n)[j] = fds[m + j - 1]
      BY <3>1, SubSeqProperties
    <3>4. v = SubSeq(fds, m, n)
      BY DEF m
    <3> HIDE DEF v
    <3> QED BY <3>2, <3>3, <3>4
  <2>4. Unwatch(f) = u \o v
    BY <1>2, <1>4
  <2> HIDE DEF u, v
  <2>5. /\ u \o v \in Seq(Entries) /\ Len(u \o v) = n - 1
        /\ \A j \in 1..(n - 1) : (u \o v)[j] = IF j <= i - 1 THEN u[j] ELSE v[j - (i - 1)]
    <3>1. \A a, b \in Seq(Entries) :
            /\ a \o b \in Seq(Entries) /\ Len(a \o b) = Len(a) + Len(b)
            /\ \A j \in 1..(Len(a) + Len(b)) :
                 (a \o b)[j] = IF j <= Len(a) THEN a[j] ELSE b[j - Len(a)]
      OBVIOUS
    <3> HIDE DEF n
    <3>2. (i - 1) + (n - i) = n - 1
      BY <2>1
    <3>3. /\ u \o v \in Seq(Entries) /\ Len(u \o v) = Len(u) + Len(v)
          /\ \A j \in 1..(Len(u) + Len(v)) :
               (u \o v)[j] = IF j <= Len(u) THEN u[j] ELSE v[j - Len(u)]
      BY <2>2, <2>3, <3>1
    <3> QED BY <2>2, <2>3, <3>2, <3>3
  <2>6. /\ Unwatch(f) \in Seq(Entries) /\ DOMAIN Unwatch(f) = 1..(n - 1)
        /\ \A j \in 1..(n - 1) : Unwatch(f)[j] = IF j < i THEN fds[j] ELSE fds[j + 1]
    <3> HIDE DEF n
    <3>1. \A j \in 1..(n - 1) :
            /\ j < i <=> j <= i - 1
            /\ j < i => j \in 1..(i - 1)
            /\ ~(j < i) => j - (i - 1) \in 1..(n - i) /\ i + (j - (i - 1)) = j + 1
      BY <2>1
    <3>2. \A j \in 1..(n - 1) : (u \o v)[j] = IF j < i THEN fds[j] ELSE fds[j + 1]
      BY <2>2, <2>3, <2>5, <3>1
    <3>3. DOMAIN (u \o v) = 1..(n - 1)
      BY <2>5
    <3> QED BY <2>4, <2>5, <3>2, <3>3
  <2> HIDE DEF n
  <2>7. Once(fds) => \A j \in 1..n : fds[j].fd = f => j = i
    BY <2>1 DEF Once
  <2>8. Once(fds) => Once(Unwatch(f))
    <3> SUFFICES ASSUME Once(fds), NEW j \in 1..(n - 1), NEW k \in 1..(n - 1),
                        Unwatch(f)[j].fd = Unwatch(f)[k].fd
                 PROVE  j = k
      BY <2>6 DEF Once
    <3> DEFINE At(m) == IF m < i THEN m ELSE m + 1
    <3>1. At(j) \in 1..n /\ At(k) \in 1..n
      BY <2>1
    <3>2. Unwatch(f)[j] = fds[At(j)] /\ Unwatch(f)[k] = fds[At(k)]
      BY <2>6
    <3>3. At(j) = At(k)
      <4> HIDE DEF At
      <4> QED BY <2>1, <3>1, <3>2 DEF Once
    <3> QED BY <2>1, <3>3
  <2>9. ASSUME Once(fds), NEW e
        PROVE  Has(Unwatch(f), e) <=> Has(fds, e) /\ e.fd # f
    <3>1. ASSUME NEW j \in 1..(n - 1), Unwatch(f)[j] = e PROVE Has(fds, e) /\ e.fd # f
      <4> DEFINE m == IF j < i THEN j ELSE j + 1
      <4>1. m \in 1..n /\ m # i
        BY <2>1
      <4>2. fds[m] = e
        BY <2>6, <3>1
      <4> HIDE DEF m
      <4> QED BY <2>1, <2>7, <2>9, <4>1, <4>2 DEF Has
    <3>2. ASSUME NEW m \in 1..n, fds[m] = e, e.fd # f PROVE Has(Unwatch(f), e)
      <4> DEFINE j == IF m < i THEN m ELSE m - 1
      <4>1. m # i
        BY <2>1, <3>2
      <4>2. j \in 1..(n - 1) /\ (IF j < i THEN j ELSE j + 1) = m
        BY <2>1, <4>1
      <4>3. Unwatch(f)[j] = IF j < i THEN fds[j] ELSE fds[j + 1]
        BY <2>6, <4>2
      <4>4. Unwatch(f)[j] = e
        BY <3>2, <4>2, <4>3
      <4> HIDE DEF j
      <4> QED BY <2>6, <4>2, <4>4 DEF Has
    <3> QED BY <2>1, <2>6, <3>1, <3>2 DEF Has
  <2> QED BY <2>6, <2>8, <2>9
<1> QED BY <1>3, <1>4

\* A descriptor has one entry if it is watched, and none if it is not.
LEMMA EntriesCounted ==
  ASSUME Once(fds), NEW f
  PROVE  Cardinality({i \in DOMAIN fds : fds[i].fd = f}) = IF Watched(f) THEN 1 ELSE 0
<1> DEFINE I == {i \in DOMAIN fds : fds[i].fd = f}
<1>1. CASE Watched(f)
  <2>1. PICK i \in DOMAIN fds : fds[i].fd = f
    BY <1>1 DEF Watched
  <2>2. I = {i}
    BY <2>1 DEF Once
  <2> QED BY <1>1, <2>2, FS_Singleton
<1>2. CASE ~Watched(f)
  <2>1. I = {}
    BY <1>2 DEF Watched
  <2> QED BY <1>2, <2>1, FS_EmptySet
<1> QED BY <1>1, <1>2

-----------------------------------------------------------------------------
(* The worlds the handler of an event goes through.                        *)

Connections == [peer : {"away", "backlog", "open", "fin", "reset", "dead"},
                inq : BOOLEAN, room : BOOLEAN, shut : SUBSET {"read", "write"}]
Sockets == [state : {"none", "connected", "null", "declined", "refused", "destroyed"},
            native : Fds \cup {None}, read : BOOLEAN, write : BOOLEAN,
            closed : SUBSET {"read", "write"}]
Worlds == [conn : [Conns -> Connections], open : [Fds -> Conns \cup {None}],
           sock : [Conns -> Sockets], told : [Conns -> Nat], ec : BOOLEAN,
           did_write : SUBSET Conns]

\* A socket is connected as long as it has a descriptor, and there is one that no
\* socket has.
Matched(sockets) ==
  \A c \in Conns : sockets[c].state \in {"connected", "declined"} <=> sockets[c].native # None

Sound(w) == w \in Worlds /\ Linked(w.open, w.sock) /\ Matched(w.sock)

\* What becomes of a socket, and of a connection, by callbacks and system calls.
Stays(s, t) == \/ t.state = s.state /\ t.native = s.native
               \/ s.state = "connected" /\ t.state = "null" /\ t.native = None
Meets(k, l) == l.peer = k.peer \/ l.peer = "dead"

\* A world that a handler for socket c may make of another one.
Leads(w, u, c) ==
  /\ \A d \in Conns : Stays(w.sock[d], u.sock[d])
  /\ \A d \in Conns : Meets(w.conn[d], u.conn[d])
  /\ \A d \in Conns : u.sock[d].write = w.sock[d].write \/ d \in u.did_write
  /\ w.did_write \subseteq u.did_write
  /\ "ends" \notin policy => \A d \in Conns : u.sock[d].closed = w.sock[d].closed
  /\ \A d \in Conns : ~Blocking(d) => u.told[d] = w.told[d]
  /\ "crosses" \notin policy => \A d \in Conns \ {c} : u.sock[d] = w.sock[d]

\* One call after another.
LEMMA LeadsOn ==
  ASSUME NEW w, NEW v, NEW u, NEW c, Leads(w, v, c), Leads(v, u, c)
  PROVE  Leads(w, u, c)
<1>1. ASSUME NEW d \in Conns PROVE Stays(w.sock[d], u.sock[d])
  BY DEF Leads, Stays
<1>2. ASSUME NEW d \in Conns PROVE Meets(w.conn[d], u.conn[d])
  BY DEF Leads, Meets
<1>3. ASSUME NEW d \in Conns PROVE u.sock[d].write = w.sock[d].write \/ d \in u.did_write
  BY DEF Leads
<1>4. w.did_write \subseteq u.did_write
  BY DEF Leads
<1>5. "ends" \notin policy => \A d \in Conns : u.sock[d].closed = w.sock[d].closed
  BY DEF Leads
<1>6. \A d \in Conns : ~Blocking(d) => u.told[d] = w.told[d]
  BY DEF Leads
<1>7. "crosses" \notin policy => \A d \in Conns \ {c} : u.sock[d] = w.sock[d]
  BY DEF Leads
<1> QED BY <1>1, <1>2, <1>3, <1>4, <1>5, <1>6, <1>7 DEF Leads

\* No call at all.
LEMMA LeadsNowhere ==
  ASSUME NEW w, NEW c
  PROVE  Leads(w, w, c)
BY DEF Leads, Stays, Meets

\* direct_write() touches the connection and ec only.
LEMMA SendsKeeps ==
  ASSUME NEW w \in Worlds, NEW d \in Conns, NEW u \in Sends(w, d)
  PROVE  /\ u \in Worlds
         /\ u.open = w.open /\ u.sock = w.sock /\ u.told = w.told
         /\ u.did_write = w.did_write
         /\ \A c \in Conns : Meets(w.conn[c], u.conn[c])
<1> DEFINE fails == Broken(w.conn[d]) \/ "write" \in w.conn[d].shut
           p == IF w.conn[d].peer = "reset" THEN "dead" ELSE w.conn[d].peer
<1>1. /\ w.conn \in [Conns -> Connections] /\ w.conn[d] \in Connections
      /\ w.ec \in BOOLEAN
  BY DEF Worlds
<1>2. CASE IsNull(w, d)
  <2>1. u = [w EXCEPT !.ec = TRUE]
    BY <1>2 DEF Sends, IsNull
  <2> QED BY <2>1 DEF Worlds, Meets
<1>3. CASE ~IsNull(w, d) /\ fails
  <2>1. u = [w EXCEPT !.ec = TRUE, !.conn = [w.conn EXCEPT ![d] = [w.conn[d] EXCEPT !.peer = p]]]
    BY <1>1, <1>3 DEF Sends, Worlds, Connections
  <2>2. [w.conn[d] EXCEPT !.peer = p] \in Connections
    BY <1>1 DEF Connections
  <2>3. Meets(w.conn[d], [w.conn[d] EXCEPT !.peer = p])
    BY <1>1 DEF Meets, Connections
  <2> QED BY <1>1, <2>1, <2>2, <2>3 DEF Worlds, Meets
<1>4. CASE ~IsNull(w, d) /\ ~fails /\ HasRoom(w, d)
  <2>1. PICK r \in BOOLEAN : u = [w EXCEPT !.conn = [w.conn EXCEPT ![d] = [w.conn[d] EXCEPT !.room = r]]]
    BY <1>1, <1>4 DEF Sends, Worlds, Connections
  <2>2. [w.conn[d] EXCEPT !.room = r] \in Connections
    BY <1>1 DEF Connections
  <2>3. Meets(w.conn[d], [w.conn[d] EXCEPT !.room = r])
    BY <1>1 DEF Meets, Connections
  <2> QED BY <1>1, <2>1, <2>2, <2>3 DEF Worlds, Meets
<1>5. CASE ~IsNull(w, d) /\ ~fails /\ ~HasRoom(w, d)
  <2>1. u = w
    BY <1>5 DEF Sends
  <2> QED BY <2>1 DEF Meets
<1> QED BY <1>2, <1>3, <1>4, <1>5

\* write() touches its own socket, and marks it if it changes what is buffered.
LEMMA WriteKeeps ==
  ASSUME NEW w, Sound(w), NEW c \in Conns, NEW d \in Conns, "crosses" \in policy \/ d = c,
         NEW u \in Write(w, d)
  PROVE  Sound(u) /\ Leads(w, u, c) /\ \A k \in Conns : u.sock[k].read = w.sock[k].read
<1>1. CASE w.ec
  BY <1>1, LeadsNowhere DEF Write
<1>2. CASE ~w.ec
  <2> DEFINE v == [w EXCEPT !.did_write = @ \cup {d}]
  <2>1. PICK s \in Sends(v, d) : u = [s EXCEPT !.sock[d].write = s.ec \/ ~HasRoom(w, d)]
    BY <1>2 DEF Write
  <2>2. w \in Worlds /\ v \in Worlds
    BY DEF Sound, Worlds
  <2>3. /\ v.open = w.open /\ v.sock = w.sock /\ v.told = w.told /\ v.conn = w.conn
        /\ v.did_write = w.did_write \cup {d}
    BY <2>2 DEF Worlds
  <2> HIDE DEF v
  <2>4. /\ s \in Worlds
        /\ s.open = w.open /\ s.sock = w.sock /\ s.told = w.told
        /\ s.did_write = w.did_write \cup {d}
        /\ \A k \in Conns : Meets(w.conn[k], s.conn[k])
    BY <2>2, <2>3, SendsKeeps
  <2>5. (s.ec \/ ~HasRoom(w, d)) \in BOOLEAN
    BY <2>4, <2>2 DEF HasRoom, Worlds
  <2> DEFINE b == s.ec \/ ~HasRoom(w, d)
  <2>6. /\ u = [s EXCEPT !.sock = [s.sock EXCEPT ![d] = [s.sock[d] EXCEPT !.write = b]]]
        /\ b \in BOOLEAN
    BY <2>1, <2>4, <2>5 DEF Worlds, Sockets
  <2> HIDE DEF b
  <2> DEFINE t == [s.sock[d] EXCEPT !.write = b]
  <2>7. /\ s.sock[d] \in Sockets /\ t \in Sockets
         /\ t.native = s.sock[d].native /\ t.state = s.sock[d].state
         /\ t.closed = s.sock[d].closed /\ t.read = s.sock[d].read
    <3>1. s.sock \in [Conns -> Sockets]
      BY <2>4 DEF Worlds
    <3>2. s.sock[d] \in Sockets
      BY <3>1
    <3> QED BY <2>6, <3>2 DEF Sockets
  <2>8. u = [s EXCEPT !.sock = [s.sock EXCEPT ![d] = t]]
    BY <2>6
  <2> HIDE DEF t
  <2>9. /\ u \in Worlds
        /\ u.open = s.open /\ u.told = s.told /\ u.did_write = s.did_write /\ u.conn = s.conn
        /\ \A k \in Conns : k # d => u.sock[k] = s.sock[k]
        /\ \A k \in Conns : /\ u.sock[k].native = s.sock[k].native
                            /\ u.sock[k].state = s.sock[k].state
                            /\ u.sock[k].closed = s.sock[k].closed
                            /\ u.sock[k].read = s.sock[k].read
    BY <2>4, <2>7, <2>8 DEF Worlds
  <2>10. Sound(u)
    BY <2>4, <2>9 DEF Sound, Linked, Matched
  <2>11. Leads(w, u, c)
    BY <2>4, <2>9 DEF Leads, Stays
  <2> QED BY <2>4, <2>9, <2>10, <2>11
<1> QED BY <1>1, <1>2

\* A socket whose handler runs: it is connected, or was ended meanwhile.
Handled(w, c) == w.sock[c].state \in {"connected", "null"}

\* disconnect() ends its own socket, if that is connected.
LEMMA DisconnectEnds ==
  ASSUME NEW w, Sound(w), NEW c \in Conns, NEW d \in Conns, "crosses" \in policy \/ d = c,
         Handled(w, d), NEW u, u = Disconnect(w, d)
  PROVE  /\ Sound(u) /\ Leads(w, u, c)
         /\ \A k \in Conns : u.sock[k].read = w.sock[k].read
         /\ IsNull(u, d)
<1>1. CASE w.sock[d].native = None
  <2>1. u = w
    BY <1>1 DEF Disconnect
  <2>2. w.sock[d].state # "connected"
    BY <1>1 DEF Sound, Matched
  <2>3. w.sock[d].state = "null"
    BY <2>2 DEF Handled
  <2> QED BY <2>1, <2>3, LeadsNowhere DEF IsNull
<1>2. CASE w.sock[d].native # None
  <2> DEFINE f == w.sock[d].native
             s == [w.sock[d] EXCEPT !.native = None, !.state = "null"]
             n == IF Blocking(d) THEN w.told[d] + 1 ELSE w.told[d]
  <2>1. /\ w \in Worlds /\ w.sock \in [Conns -> Sockets] /\ w.told \in [Conns -> Nat]
        /\ w.open \in [Fds -> Conns \cup {None}]
    BY DEF Sound, Worlds
  <2>2. w.sock[d] \in Sockets
    BY <2>1
  <2>3. /\ s \in Sockets /\ s.native = None /\ s.state = "null"
        /\ s.closed = w.sock[d].closed /\ s.read = w.sock[d].read
        /\ s.write = w.sock[d].write
    BY <2>2 DEF Sockets
  <2>4. f \in Fds
    BY <1>2, <2>2 DEF Sockets
  <2>5. n \in Nat
    BY <2>1
  <2>6. u = [w EXCEPT !.open = [w.open EXCEPT ![f] = None],
                      !.sock = [w.sock EXCEPT ![d] = s],
                      !.told = [w.told EXCEPT ![d] = n]]
    BY <1>2, <2>1, <2>4, ZenonT(60) DEF Disconnect, Worlds, Sockets
  <2>7. w.sock[d].state = "connected"
    BY <1>2 DEF Sound, Matched, Handled
  <2>8. \A k \in Conns : ~Blocking(k) => [w.told EXCEPT ![d] = n][k] = w.told[k]
    BY <2>1
  <2> HIDE DEF s, n, f
  <2>9. /\ u \in Worlds
        /\ u.conn = w.conn /\ u.did_write = w.did_write
        /\ u.open = [w.open EXCEPT ![f] = None] /\ u.sock = [w.sock EXCEPT ![d] = s]
        /\ u.told = [w.told EXCEPT ![d] = n]
    <3>1. /\ [w.open EXCEPT ![f] = None] \in [Fds -> Conns \cup {None}]
          /\ [w.sock EXCEPT ![d] = s] \in [Conns -> Sockets]
          /\ [w.told EXCEPT ![d] = n] \in [Conns -> Nat]
      BY <2>1, <2>3, <2>5
    <3> QED BY <2>1, <2>6, <3>1 DEF Worlds
  <2>10. /\ \A k \in Conns : k # d => u.sock[k] = w.sock[k]
        /\ u.sock[d] = s
        /\ \A g \in Fds : u.open[g] = IF g = f THEN None ELSE w.open[g]
    BY <2>1, <2>4, <2>9
  <2>11. Linked(u.open, u.sock)
    <3>1. \A g \in Fds, k \in Conns : w.open[g] = k <=> w.sock[k].native = g
      BY DEF Sound, Linked
    <3>2. None \notin Fds /\ None \notin Conns
      BY ServerAssumption
    <3>3. w.sock[d].native = f
      BY DEF f
    <3> QED BY <2>3, <2>4, <2>10, <3>1, <3>2, <3>3 DEF Linked
  <2>12. Matched(u.sock)
    BY <2>3, <2>10 DEF Sound, Matched
  <2>13. Leads(w, u, c)
    BY <2>3, <2>7, <2>9, <2>10, <2>8 DEF Leads, Stays, Meets
  <2> QED BY <2>3, <2>9, <2>10, <2>11, <2>12, <2>13 DEF Sound, IsNull
<1> QED BY <1>1, <1>2

\* What recv() leaves, with bytes in the read buffer or not, and an error or not.
Received(w, c, b, e) ==
  [w EXCEPT !.sock[c].read = b, !.conn[c].inq = FALSE, !.ec = e,
            !.conn[c].peer = IF @ = "reset" THEN "dead" ELSE @]

\* recv() touches its own socket and connection.
LEMMA Receives ==
  ASSUME NEW w, Sound(w), NEW c \in Conns, NEW b \in BOOLEAN, NEW e \in BOOLEAN,
         NEW u, u = Received(w, c, b, e)
  PROVE  /\ Sound(u) /\ Leads(w, u, c)
         /\ u.sock[c].read = b /\ u.ec = e /\ u.did_write = w.did_write
         /\ u.sock[c].state = w.sock[c].state
<1> DEFINE p == IF w.conn[c].peer = "reset" THEN "dead" ELSE w.conn[c].peer
           k == [w.conn[c] EXCEPT !.inq = FALSE, !.peer = p]
           s == [w.sock[c] EXCEPT !.read = b]
<1>1. w \in Worlds /\ w.sock \in [Conns -> Sockets] /\ w.conn \in [Conns -> Connections]
  BY DEF Sound, Worlds
<1>2. w.sock[c] \in Sockets /\ w.conn[c] \in Connections
  BY <1>1
<1>3. k \in Connections /\ Meets(w.conn[c], k)
  BY <1>2 DEF Connections, Meets
<1>4. /\ s \in Sockets /\ s.read = b
      /\ s.native = w.sock[c].native /\ s.state = w.sock[c].state
      /\ s.closed = w.sock[c].closed /\ s.write = w.sock[c].write
  BY <1>2 DEF Sockets
<1>5. u = [w EXCEPT !.sock = [w.sock EXCEPT ![c] = s], !.conn = [w.conn EXCEPT ![c] = k],
                    !.ec = e]
  <2>1. /\ u.sock = [w.sock EXCEPT ![c] = s] /\ u.conn = [w.conn EXCEPT ![c] = k]
        /\ u.ec = e
    BY <1>1, <1>2 DEF Worlds, Sockets, Connections, Received
  <2>2. /\ u.open = w.open /\ u.told = w.told /\ u.did_write = w.did_write
        /\ u = [conn |-> u.conn, open |-> u.open, sock |-> u.sock, told |-> u.told,
                ec |-> u.ec, did_write |-> u.did_write]
    BY <1>1 DEF Worlds, Received
  <2> QED BY <1>1, <2>1, <2>2 DEF Worlds
<1> HIDE DEF k, s
<1>6. /\ u \in Worlds
      /\ u.open = w.open /\ u.told = w.told /\ u.did_write = w.did_write /\ u.ec = e
      /\ u.sock = [w.sock EXCEPT ![c] = s] /\ u.conn = [w.conn EXCEPT ![c] = k]
  <2>1. /\ [w.sock EXCEPT ![c] = s] \in [Conns -> Sockets]
        /\ [w.conn EXCEPT ![c] = k] \in [Conns -> Connections]
    BY <1>1, <1>3, <1>4
  <2> QED BY <1>1, <1>5, <2>1 DEF Worlds
<1>7. /\ \A d \in Conns : u.sock[d] = IF d = c THEN s ELSE w.sock[d]
      /\ \A d \in Conns : Meets(w.conn[d], u.conn[d])
  BY <1>1, <1>3, <1>6 DEF Meets
<1>8. Linked(u.open, u.sock) /\ Matched(u.sock)
  BY <1>4, <1>6, <1>7 DEF Sound, Linked, Matched
<1>9. Leads(w, u, c)
  <2>1. \A d \in Conns : Stays(w.sock[d], u.sock[d])
    BY <1>4, <1>7 DEF Stays
  <2>2. \A d \in Conns : /\ u.sock[d].write = w.sock[d].write
                         /\ u.sock[d].closed = w.sock[d].closed
    BY <1>4, <1>7
  <2>3. \A d \in Conns \ {c} : u.sock[d] = w.sock[d]
    BY <1>7
  <2> QED BY <1>6, <1>7, <2>1, <2>2, <2>3 DEF Leads
<1> QED BY <1>4, <1>6, <1>7, <1>8, <1>9 DEF Sound

\* async_fill_read_buffer(): it gives bytes, or meets an error, or does nothing.
LEMMA FillKeeps ==
  ASSUME NEW w, Sound(w), NEW c \in Conns
  PROVE  LET u == Fill(w, c)
         IN  /\ Sound(u) /\ Leads(w, u, c)
             /\ u.did_write = w.did_write /\ u.sock[c].state = w.sock[c].state
             /\ u.ec \in BOOLEAN
<1>1. CASE w.ec \/ Blocking(c)
  <2>1. Fill(w, c) = w
    BY <1>1 DEF Fill
  <2> QED BY <2>1, LeadsNowhere DEF Sound, Worlds
<1>2. CASE ~(w.ec \/ Blocking(c))
  <2> DEFINE b == w.sock[c].read \/ w.conn[c].inq
             e == w.conn[c].peer = "reset"
  <2>1. w.sock[c] \in Sockets /\ w.conn[c] \in Connections
    BY DEF Sound, Worlds
  <2>2. b \in BOOLEAN /\ e \in BOOLEAN
    BY <2>1 DEF Sockets, Connections
  <2>3. Fill(w, c) = Received(w, c, b, e)
    BY <1>2 DEF Fill, Received
  <2> DEFINE u == Fill(w, c)
  <2>4. u = Received(w, c, b, e)
    BY <2>3
  <2> HIDE DEF b, e, u
  <2>5. /\ Sound(u) /\ Leads(w, u, c)
        /\ u.sock[c].read = b /\ u.ec = e /\ u.did_write = w.did_write
        /\ u.sock[c].state = w.sock[c].state
    BY <2>2, <2>4, Receives
  <2> QED BY <2>2, <2>5 DEF u
<1> QED BY <1>1, <1>2

\* read() leaves nothing in the read buffer.
LEMMA TakenKeeps ==
  ASSUME NEW w, Sound(w), NEW c \in Conns
  PROVE  LET u == Taken(w, c)
         IN  /\ Sound(u) /\ Leads(w, u, c)
             /\ u.sock[c].read = FALSE /\ u.sock[c].state = w.sock[c].state
             /\ u.ec \in BOOLEAN
<1> DEFINE e == w.conn[c].peer = "reset"
           b == FALSE
<1>1. e \in BOOLEAN /\ b \in BOOLEAN
  OBVIOUS
<1>2. Taken(w, c) = Received(w, c, b, e)
  BY DEF Taken, Received
<1> DEFINE u == Taken(w, c)
<1>3. u = Received(w, c, b, e)
  BY <1>2
<1> HIDE DEF e, b, u
<1>4. /\ Sound(u) /\ Leads(w, u, c)
      /\ u.sock[c].read = b /\ u.ec = e /\ u.did_write = w.did_write
      /\ u.sock[c].state = w.sock[c].state
  BY <1>1, <1>3, Receives
<1> QED BY <1>1, <1>4 DEF u, b

\* A handler that goes on still has a socket of that kind.
LEMMA HandledOn ==
  ASSUME NEW w, NEW u, NEW c \in Conns, Handled(w, c), Leads(w, u, c)
  PROVE  Handled(u, c)
BY DEF Handled, Leads, Stays

\* The callbacks of a socket.
LEMMA ActsKeep ==
  ASSUME NEW w, Sound(w), NEW c \in Conns, Handled(w, c), NEW u \in Acts(w, c)
  PROVE  Sound(u) /\ Leads(w, u, c) /\ u.sock[c].read = w.sock[c].read
<1> DEFINE targets == IF "crosses" \in policy THEN {d \in Conns : w.sock[d].state = "connected"}
                      ELSE {c}
<1>1. CASE u = w
  BY <1>1, LeadsNowhere
<1>2. CASE u # w
  <2>1. \/ \E d \in targets : u \in Write(w, d)
        \/ \E d \in targets : u = Disconnect(w, d)
        \/ \E ends \in SUBSET {"read", "write"} :
             "ends" \in policy /\ u = [w EXCEPT !.sock[c].closed = ends]
    <3> DEFINE E == IF "ends" \in policy THEN {{"write"}, {"read", "write"}} ELSE {}
               Closing(ends) == [w EXCEPT !.sock[c].closed = ends]
    <3>1. \A ends \in E : ends \in SUBSET {"read", "write"} /\ "ends" \in policy
      OBVIOUS
    <3> DEFINE Writes == {Write(w, d) : d \in targets}
               Ends == {Disconnect(w, d) : d \in targets}
               Closes == {Closing(ends) : ends \in E}
    <3>2. Acts(w, c) = IF w.ec THEN {w} ELSE {w} \cup (UNION Writes) \cup Ends \cup Closes
      BY DEF Acts
    <3> HIDE DEF E, targets, Closing
    <3>3. u \in UNION Writes \/ u \in Ends \/ u \in Closes
      <4> HIDE DEF Writes, Ends, Closes
      <4> QED BY <1>2, <3>2
    <3>4. /\ u \in UNION Writes => \E d \in targets : u \in Write(w, d)
          /\ u \in Ends => \E d \in targets : u = Disconnect(w, d)
          /\ u \in Closes => \E ends \in E : u = Closing(ends)
      OBVIOUS
    <3> HIDE DEF Writes, Ends, Closes
    <3> QED BY <3>1, <3>3, <3>4 DEF Closing
  <2>2. \A d \in targets : d \in Conns /\ ("crosses" \in policy \/ d = c) /\ Handled(w, d)
    BY DEF Handled
  <2> HIDE DEF targets
  <2>3. CASE \E d \in targets : u \in Write(w, d)
    BY <2>2, <2>3, WriteKeeps
  <2>4. CASE \E d \in targets : u = Disconnect(w, d)
    BY <2>2, <2>4, DisconnectEnds
  <2>5. CASE \E ends \in SUBSET {"read", "write"} :
               "ends" \in policy /\ u = [w EXCEPT !.sock[c].closed = ends]
    <3>1. PICK ends \in SUBSET {"read", "write"} :
                 "ends" \in policy /\ u = [w EXCEPT !.sock[c].closed = ends]
      BY <2>5
    <3> DEFINE s == [w.sock[c] EXCEPT !.closed = ends]
    <3>2. w \in Worlds /\ w.sock \in [Conns -> Sockets] /\ w.sock[c] \in Sockets
      BY DEF Sound, Worlds
    <3>3. /\ s \in Sockets /\ s.read = w.sock[c].read /\ s.write = w.sock[c].write
          /\ s.native = w.sock[c].native /\ s.state = w.sock[c].state
      BY <3>2 DEF Sockets
    <3>4. u = [w EXCEPT !.sock = [w.sock EXCEPT ![c] = s]]
      BY <3>1, <3>2 DEF Worlds, Sockets
    <3> HIDE DEF s
    <3>5. [w.sock EXCEPT ![c] = s] \in [Conns -> Sockets]
      BY <3>2, <3>3
    <3>6. /\ u \in Worlds
          /\ u.open = w.open /\ u.told = w.told /\ u.did_write = w.did_write
          /\ u.conn = w.conn /\ u.sock = [w.sock EXCEPT ![c] = s]
      BY <3>2, <3>4, <3>5 DEF Worlds
    <3>7. \A d \in Conns : u.sock[d] = IF d = c THEN s ELSE w.sock[d]
      BY <3>2, <3>6
    <3>8. Linked(u.open, u.sock) /\ Matched(u.sock)
      BY <3>3, <3>6, <3>7 DEF Sound, Linked, Matched
    <3>9. Leads(w, u, c)
      <4>1. \A d \in Conns : Stays(w.sock[d], u.sock[d])
        BY <3>3, <3>7 DEF Stays
      <4>2. \A d \in Conns : u.sock[d].write = w.sock[d].write
        BY <3>3, <3>7
      <4>3. \A d \in Conns \ {c} : u.sock[d] = w.sock[d]
        BY <3>7
      <4>4. \A d \in Conns : Meets(w.conn[d], u.conn[d])
        BY <3>6 DEF Meets
      <4> QED BY <3>1, <3>6, <4>1, <4>2, <4>3, <4>4 DEF Leads
    <3> QED BY <3>3, <3>6, <3>7, <3>8, <3>9 DEF Sound
  <2> QED BY <2>1, <2>3, <2>4, <2>5
<1> QED BY <1>1, <1>2

\* error(): with an application that disconnects then, the socket has ended.
LEMMA ReportEnds ==
  ASSUME NEW w, Sound(w), NEW c \in Conns, Handled(w, c)
  PROVE  LET u == Report(w, c)
         IN  /\ Sound(u) /\ Leads(w, u, c) /\ u.sock[c].read = w.sock[c].read
             /\ w.ec /\ "errors" \in policy => IsNull(u, c)
             /\ ~(w.ec /\ "errors" \in policy) => u = w
<1>1. CASE w.ec /\ "errors" \in policy
  <2>1. Report(w, c) = Disconnect(w, c)
    BY <1>1 DEF Report
  <2> QED BY <1>1, <2>1, DisconnectEnds
<1>2. CASE ~(w.ec /\ "errors" \in policy)
  <2>1. Report(w, c) = w
    BY <1>2 DEF Report
  <2> QED BY <1>2, <2>1, LeadsNowhere
<1> QED BY <1>1, <1>2

\* What a writable socket's handler does.
LEMMA ServerWriteKeeps ==
  ASSUME NEW w, Sound(w), NEW c \in Conns, Handled(w, c), NEW u \in ServerWrite(w, c)
  PROVE  Sound(u) /\ Leads(w, u, c)
<1>1. PICK v \in Flush(w, c) : \E a \in Acts(v, c) : u = Report(a, c)
  BY DEF ServerWrite
<1>2. Sound(v) /\ Leads(w, v, c)
  <2>1. CASE w.sock[c].write
    <3>1. v \in Write(w, c)
      BY <2>1 DEF Flush
    <3> QED BY <3>1, WriteKeeps
  <2>2. CASE ~w.sock[c].write
    <3>1. v = w
      BY <2>2 DEF Flush
    <3> QED BY <3>1, LeadsNowhere
  <2> QED BY <2>1, <2>2
<1>3. PICK a \in Acts(v, c) : u = Report(a, c)
  BY <1>1
<1>4. Sound(a) /\ Leads(v, a, c) /\ Handled(a, c)
  BY <1>2, ActsKeep, HandledOn
<1>5. Sound(u) /\ Leads(a, u, c)
  BY <1>3, <1>4, ReportEnds
<1> QED BY <1>2, <1>4, <1>5, LeadsOn

\* What a readable socket's handler does: unless ready_read() leaves it, or an error
\* kept it from reading and the application lets the socket live, nothing is left to
\* read.
LEMMA ServerReadTakes ==
  ASSUME NEW w, Sound(w), NEW c \in Conns, Handled(w, c), NEW u \in ServerRead(w, c)
  PROVE  /\ Sound(u) /\ Leads(w, u, c)
         /\ u.sock[c].read /\ "errors" \in policy /\ "leaves" \notin policy => IsNull(u, c)
<1> DEFINE v == Fill(w, c)
<1>1. /\ Sound(v) /\ Leads(w, v, c) /\ v.did_write = w.did_write
      /\ v.ec \in BOOLEAN
  BY FillKeeps
<1>2. Handled(v, c)
  BY <1>1, HandledOn
<1>3. u \in {Report(a, c) : a \in IF v.ec THEN {v} ELSE ReadyRead(v, c)}
  BY DEF ServerRead
<1> HIDE DEF v
<1>4. CASE v.ec
  <2>1. u = Report(v, c)
    BY <1>3, <1>4
  <2>2. /\ Sound(u) /\ Leads(v, u, c)
        /\ "errors" \in policy => IsNull(u, c)
        /\ "errors" \notin policy => u = v
    BY <1>1, <1>2, <1>4, <2>1, ReportEnds
  <2>3. Leads(w, u, c)
    BY <1>1, <2>2, LeadsOn
  <2>4. CASE "errors" \in policy
    BY <2>2, <2>3, <2>4
  <2>5. CASE "errors" \notin policy
    BY <1>1, <2>2, <2>3, <2>5
  <2> QED BY <2>4, <2>5
<1>5. CASE ~v.ec
  <2>1. PICK a \in ReadyRead(v, c) : u = Report(a, c)
    BY <1>3, <1>5
  <2>2. PICK t \in {Taken(v, c)} \cup {b \in {v} : "leaves" \in policy} : a \in Acts(t, c)
    BY DEF ReadyRead
  <2>3. /\ Sound(t) /\ Leads(v, t, c)
        /\ "leaves" \notin policy => t.sock[c].read = FALSE
    <3>1. CASE t = Taken(v, c)
      BY <1>1, <3>1, TakenKeeps
    <3>2. CASE t = v /\ "leaves" \in policy
      BY <1>1, <3>2, LeadsNowhere
    <3> QED BY <2>2, <3>1, <3>2
  <2>4. Handled(t, c)
    BY <1>2, <2>3, HandledOn
  <2>5. Sound(a) /\ Leads(t, a, c) /\ a.sock[c].read = t.sock[c].read
    BY <2>2, <2>3, <2>4, ActsKeep
  <2>6. Handled(a, c)
    BY <2>4, <2>5, HandledOn
  <2>7. Sound(u) /\ Leads(a, u, c) /\ u.sock[c].read = a.sock[c].read
    BY <2>1, <2>5, <2>6, ReportEnds
  <2>8. Leads(w, u, c)
    BY <1>1, <2>3, <2>5, <2>7, LeadsOn
  <2> QED BY <2>3, <2>5, <2>7, <2>8
<1> QED BY <1>4, <1>5

\* The handler of an event: it is stuck only with an application that keeps a
\* broken socket, or leaves what there is to read.
LEMMA OutcomesKeep ==
  ASSUME Sound(World), NEW c \in Conns, Handled(World, c), NEW flags, NEW reads \in BOOLEAN,
         NEW w \in Outcomes(c, flags, reads)
  PROVE  /\ Sound(w) /\ Leads(World, w, c)
         /\ reads /\ ~IsNull(w, c) /\ w.sock[c].read =>
              "errors" \notin policy \/ "leaves" \in policy
<1>1. PICK v \in (IF "write" \in flags THEN ServerWrite(World, c) ELSE {World}) :
        w \in IF reads /\ ~IsNull(v, c) THEN ServerRead(v, c) ELSE {v}
  BY DEF Outcomes
<1>2. Sound(v) /\ Leads(World, v, c)
  <2>1. CASE "write" \in flags
    BY <1>1, <2>1, ServerWriteKeeps
  <2>2. CASE "write" \notin flags
    BY <1>1, <2>2, LeadsNowhere
  <2> QED BY <2>1, <2>2
<1>4. Handled(v, c)
  BY <1>2, HandledOn
<1>5. CASE reads /\ ~IsNull(v, c)
  <2>1. w \in ServerRead(v, c)
    BY <1>1, <1>5
  <2>2. /\ Sound(w) /\ Leads(v, w, c)
        /\ w.sock[c].read /\ "errors" \in policy /\ "leaves" \notin policy => IsNull(w, c)
    BY <1>2, <1>4, <2>1, ServerReadTakes
  <2>3. Leads(World, w, c)
    BY <1>2, <2>2, LeadsOn
  <2> QED BY <2>2, <2>3
<1>6. CASE ~(reads /\ ~IsNull(v, c))
  <2>1. w = v
    BY <1>1, <1>6
  <2> QED BY <1>2, <1>6, <2>1
<1> QED BY <1>5, <1>6

-----------------------------------------------------------------------------
(* The inductive invariant.                                                *)

\* A map holds a socket for a descriptor as long as it has it, or longer.
MapsHoldLive ==
  \A f \in Fds, c \in Conns :
    c \in {third[f], clients[f]} =>
      sock[c].state = "null" \/ (sock[c].state = "connected" /\ sock[c].native = f)

\* A connection that was not accepted yet has no socket.
NewcomersAreNew ==
  \A c \in Conns : conn[c].peer \in {"away", "backlog"} => sock[c].state = "none"

\* poll() announces no hangup without something to read: the handler never ends
\* a socket because of the hangup alone.
HangupsAreReadable ==
  \A i \in DOMAIN triggered : "hangup" \in triggered[i].flags => "read" \in triggered[i].flags

EndsAreOpen == "ends" \notin policy => \A c \in Conns : sock[c].closed = {}

Lives == /\ EveryDescriptorHasItsSocket /\ Matched(sock) /\ MapsHoldLive /\ NewcomersAreNew
         /\ HangupsAreReadable /\ EndsAreOpen

\* The table has an entry for each descriptor that is in use, and no other.
OpenIsWatched == \A f \in Fds : SocketOf(f) = User(f) /\ (Watched(f) <=> User(f) # None)

PendingOnce ==
  \A i, j \in DOMAIN triggered : triggered[i].fd = triggered[j].fd => i = j

\* Writability that was announced is watched until the event is handled: nobody
\* else calls modify() for the descriptor.
PendingIsWatched ==
  \A i \in DOMAIN triggered :
    "write" \in triggered[i].flags => ~Has(fds, [fd |-> triggered[i].fd, write |-> FALSE])

WritesAreWatched ==
  ~stuck => \A c \in Conns : sock[c].write /\ sock[c].state = "connected" =>
    Has(fds, [fd |-> sock[c].native, write |-> TRUE])

TheEndIsTold ==
  \A c \in Conns :
    ~Blocking(c) => told[c] = IF sock[c].state \in {"null", "destroyed"} THEN 1 ELSE 0

Served == /\ Once(fds) /\ OpenIsWatched /\ PendingOnce /\ PendingIsWatched
          /\ WritesAreWatched /\ TheEndIsTold
          /\ \A c \in Conns : sock[c].state # "refused"

Invariant == TypeOK /\ Lives /\ HandlersReturn /\ (Careful => Served)

\* The types by their names.
LEMMA TypeOKExpanded ==
  TypeOK <=>
    /\ policy \in Policies
    /\ conn \in [Conns -> Connections] /\ open \in [Fds -> Conns \cup {None}]
    /\ sock \in [Conns -> Sockets]
    /\ third \in [Fds -> Conns \cup {None}] /\ clients \in [Fds -> Conns \cup {None}]
    /\ fds \in Seq(Entries)
    /\ DOMAIN triggered \subseteq Nat /\ \A i \in DOMAIN triggered : triggered[i] \in Events
    /\ running \in BOOLEAN /\ canceled \in BOOLEAN
    /\ told \in [Conns -> Nat] /\ stuck \in BOOLEAN
BY DEF TypeOK, Connections, Sockets, Entries

\* A descriptor is in the table when one of its two possible entries is.
LEMMA TableEntry ==
  ASSUME NEW table \in Seq(Entries), NEW f
  PROVE  (\E i \in DOMAIN table : table[i].fd = f)
           <=> \E b \in BOOLEAN : Has(table, [fd |-> f, write |-> b])
<1>1. \A i \in DOMAIN table : table[i] \in Entries
  OBVIOUS
<1>2. ASSUME NEW i \in DOMAIN table, table[i].fd = f
      PROVE  table[i].write \in BOOLEAN /\ table[i] = [fd |-> f, write |-> table[i].write]
  BY <1>1, <1>2 DEF Entries
<1> QED BY <1>2 DEF Has

\* The invariant holds of what a reader is told of it.
LEMMA InvariantImplies ==
  ASSUME Invariant
  PROVE  TablesAgree /\ EndIsAnnouncedOnce /\ HandlersReturn
<1>1. ASSUME Careful, NEW f \in Fds
      PROVE  /\ SocketOf(f) = User(f)
             /\ Cardinality({i \in DOMAIN fds : fds[i].fd = f}) = IF User(f) = None THEN 0 ELSE 1
  BY <1>1, EntriesCounted DEF Invariant, Served, OpenIsWatched
<1>2. TablesMatchSockets
  BY <1>1 DEF TablesMatchSockets
<1>3. NobodyRefused
  BY DEF Invariant, Served, NobodyRefused
<1>4. PendingWritesAreWatched
  BY DEF Invariant, Served, WritesAreWatched, PendingWritesAreWatched, Has
<1>5. EndIsAnnouncedOnce
  BY DEF Invariant, Served, TheEndIsTold, EndIsAnnouncedOnce
<1> QED BY <1>2, <1>3, <1>4, <1>5 DEF Invariant, TablesAgree, Lives

\* Nothing is there but the listener.
LEMMA Initially == Init => Invariant
<1> SUFFICES ASSUME Init PROVE Invariant
  OBVIOUS
<1>1. DOMAIN fds = {1} /\ fds[1] = [fd |-> Listener, write |-> TRUE] /\ DOMAIN triggered = {}
  BY DEF Init
<1>2. Listener \notin Fds /\ None \notin Fds /\ None \notin Conns
  BY ServerAssumption DEF Listener
<1>3. TypeOK
  <2>1. /\ conn \in [Conns -> Connections] /\ sock \in [Conns -> Sockets]
        /\ told \in [Conns -> Nat]
    BY DEF Init, Connections, Sockets, Absent
  <2>2. fds \in Seq(Entries)
    BY DEF Init, Entries
  <2>3. /\ open \in [Fds -> Conns \cup {None}] /\ third \in [Fds -> Conns \cup {None}]
        /\ clients \in [Fds -> Conns \cup {None}]
        /\ policy \in Policies /\ running \in BOOLEAN /\ canceled \in BOOLEAN /\ stuck \in BOOLEAN
    BY DEF Init
  <2> QED BY <1>1, <2>1, <2>2, <2>3, TypeOKExpanded
<1>4. Lives
  BY <1>1, <1>2 DEF Init, Absent, Lives, EveryDescriptorHasItsSocket, Matched, MapsHoldLive,
     NewcomersAreNew, HangupsAreReadable, EndsAreOpen
<1>5. HandlersReturn
  BY DEF Init, HandlersReturn
<1>6. OpenIsWatched
  BY <1>1, <1>2 DEF Init, OpenIsWatched, SocketOf, User, Watched
<1>7. Served
  BY <1>1, <1>6 DEF Init, Absent, Served, Once, PendingOnce, PendingIsWatched, WritesAreWatched,
     TheEndIsTold
<1> QED BY <1>3, <1>4, <1>5, <1>7 DEF Invariant

-----------------------------------------------------------------------------
(* The steps in which no socket changes.                                   *)

\* Peers and the kernel: a connection that is there does not become new again.
LEMMA EnvironmentKeeps ==
  ASSUME Invariant, NEW c \in Conns, NEW k \in Connections, Environment(c, k),
         k.peer \in {"away", "backlog"} => conn[c].peer \in {"away", "backlog"}
  PROVE  Invariant'
<1>1. /\ TypeOK /\ conn \in [Conns -> Connections]
      /\ conn' = [conn EXCEPT ![c] = k]
      /\ UNCHANGED <<policy, open, sock, third, clients, fds, triggered, running, canceled, told, stuck>>
  BY TypeOKExpanded DEF Invariant, Environment, server
<1>2. conn' \in [Conns -> Connections]
  BY <1>1
<1>3. TypeOK'
  BY <1>1, <1>2 DEF TypeOK, Connections
<1>4. NewcomersAreNew'
  BY <1>1 DEF Invariant, Lives, NewcomersAreNew
<1>5. Lives'
  BY <1>1, <1>4 DEF Invariant, Lives, EveryDescriptorHasItsSocket, Matched, MapsHoldLive,
     HangupsAreReadable, EndsAreOpen
<1>6. HandlersReturn' /\ (Careful => Served)'
  BY <1>1 DEF Invariant, HandlersReturn, Careful, Served, Once, OpenIsWatched, SocketOf, User, Watched,
     PendingOnce, PendingIsWatched, WritesAreWatched, TheEndIsTold, Blocking, Own, Has
<1> QED BY <1>3, <1>5, <1>6 DEF Invariant

\* The four steps of peers and the kernel.
LEMMA PeersKeep ==
  ASSUME Invariant, NEW c \in Conns,
         PeerConnects(c) \/ PeerSends(c) \/ PeerLeaves(c) \/ KernelSends(c)
  PROVE  Invariant'
<1>1. conn[c] \in Connections
  BY TypeOKExpanded DEF Invariant
<1>2. CASE PeerConnects(c)
  <2> DEFINE k == [conn[c] EXCEPT !.peer = "backlog"]
  <2>1. k \in Connections /\ Environment(c, k) /\ conn[c].peer \in {"away", "backlog"}
    BY <1>1, <1>2 DEF PeerConnects, Connections
  <2> HIDE DEF k
  <2> QED BY <2>1, EnvironmentKeeps
<1>3. CASE PeerSends(c)
  <2> DEFINE k == [conn[c] EXCEPT !.inq = TRUE]
  <2>1. k \in Connections /\ Environment(c, k) /\ k.peer = conn[c].peer
    BY <1>1, <1>3 DEF PeerSends, Connections
  <2> HIDE DEF k
  <2> QED BY <2>1, EnvironmentKeeps
<1>4. CASE PeerLeaves(c)
  <2>1. PICK how \in {"fin", "reset"} : Environment(c, [conn[c] EXCEPT !.peer = how])
    BY <1>4 DEF PeerLeaves
  <2> DEFINE k == [conn[c] EXCEPT !.peer = how]
  <2>2. k \in Connections /\ Environment(c, k) /\ k.peer \notin {"away", "backlog"}
    BY <1>1, <2>1 DEF Connections
  <2> HIDE DEF k
  <2> QED BY <2>2, EnvironmentKeeps
<1>5. CASE KernelSends(c)
  <2> DEFINE k == [conn[c] EXCEPT !.room = TRUE]
  <2>1. k \in Connections /\ Environment(c, k) /\ k.peer = conn[c].peer
    BY <1>1, <1>5 DEF KernelSends, Connections
  <2> HIDE DEF k
  <2> QED BY <2>1, EnvironmentKeeps
<1> QED BY <1>2, <1>3, <1>4, <1>5

\* Events that are left over are the ones that were there.
LEMMA LaterEvents ==
  ASSUME DOMAIN triggered \subseteq Nat, \A i \in DOMAIN triggered : triggered[i] \in Events,
         Pending
  PROVE  /\ Place \in DOMAIN triggered /\ Current = triggered[Place] /\ Current \in Events
         /\ DOMAIN Later = DOMAIN triggered \ {Place}
         /\ \A i \in DOMAIN Later : Later[i] = triggered[i]
<1>1. Place \in DOMAIN triggered
  BY PlaceIsThere
<1> QED BY <1>1 DEF Current, Later

\* A step that at most forgets events, with what concerns the run besides.
LEMMA ForgettingKeeps ==
  ASSUME Invariant,
         UNCHANGED <<policy, conn, open, sock, third, clients, fds, told, stuck>>,
         running' \in BOOLEAN, canceled' \in BOOLEAN,
         DOMAIN triggered' \subseteq DOMAIN triggered,
         \A i \in DOMAIN triggered' : triggered'[i] = triggered[i]
  PROVE  Invariant'
<1>1. TypeOK'
  BY DEF Invariant, TypeOK, Events
<1>2. Lives'
  BY DEF Invariant, Lives, EveryDescriptorHasItsSocket, Matched, MapsHoldLive, NewcomersAreNew,
     HangupsAreReadable, EndsAreOpen
<1>3. HandlersReturn' /\ (Careful => Served)'
  BY DEF Invariant, HandlersReturn, Careful, Served, Once, OpenIsWatched, SocketOf, User, Watched,
     PendingOnce, PendingIsWatched, WritesAreWatched, TheEndIsTold, Blocking, Own, Has
<1> QED BY <1>1, <1>2, <1>3 DEF Invariant

\* poll() announces each descriptor once, writability where it is watched, and
\* a hangup with something to read.
LEMMA PollKeeps ==
  ASSUME Invariant, Poll
  PROVE  Invariant'
<1> DEFINE ready == {i \in DOMAIN fds : Revents(fds[i]) # {}}
<1>1. /\ triggered' = [i \in ready |-> [fd |-> fds[i].fd, flags |-> Revents(fds[i])]]
      /\ UNCHANGED <<policy, conn, open, sock, third, clients, fds, running, canceled, told, stuck>>
  BY DEF Poll
<1>2. /\ fds \in Seq(Entries) /\ TypeOK
      /\ \A i \in DOMAIN fds : fds[i] \in Entries
      /\ DOMAIN fds \subseteq Nat
  BY TypeOKExpanded DEF Invariant
<1>3. \A i \in DOMAIN fds :
        /\ Revents(fds[i]) \in SUBSET {"read", "write", "hangup", "invalid"}
        /\ "write" \in Revents(fds[i]) => fds[i].write
        /\ "hangup" \in Revents(fds[i]) => "read" \in Revents(fds[i])
  BY DEF Revents
<1> HIDE DEF ready
<1>4. ready \subseteq DOMAIN fds
  BY DEF ready
<1>5. /\ DOMAIN triggered' = ready
      /\ \A i \in ready : triggered'[i] = [fd |-> fds[i].fd, flags |-> Revents(fds[i])]
  BY <1>1
<1>6. TypeOK'
  <2>1. \A i \in DOMAIN triggered' : triggered'[i] \in Events
    BY <1>2, <1>3, <1>4, <1>5 DEF Events, Entries
  <2> QED BY <1>1, <1>2, <1>4, <1>5, <2>1 DEF TypeOK, Events
<1>7. HangupsAreReadable'
  BY <1>3, <1>4, <1>5 DEF HangupsAreReadable
<1>8. Lives'
  BY <1>1, <1>7 DEF Invariant, Lives, EveryDescriptorHasItsSocket, Matched, MapsHoldLive,
     NewcomersAreNew, EndsAreOpen
<1>9. HandlersReturn'
  BY <1>1 DEF Invariant, HandlersReturn
<1>10. ASSUME Careful PROVE Served'
  <2>1. Served
    BY <1>10 DEF Invariant
  <2>2. PendingOnce'
    BY <1>4, <1>5, <2>1 DEF Served, Once, PendingOnce
  <2>3. PendingIsWatched'
    <3>1. ASSUME NEW i \in ready, "write" \in Revents(fds[i]),
                 NEW j \in DOMAIN fds, fds[j] = [fd |-> fds[i].fd, write |-> FALSE]
          PROVE  FALSE
      <4>1. i \in DOMAIN fds /\ fds[j].fd = fds[i].fd /\ fds[j].write = FALSE
        BY <1>4, <3>1
      <4>2. i = j
        BY <2>1, <4>1 DEF Served, Once
      <4> QED BY <1>3, <3>1, <4>1, <4>2
    <3> QED BY <1>1, <1>5, <3>1 DEF PendingIsWatched, Has
  <2> QED BY <1>1, <2>1, <2>2, <2>3 DEF Served, Once, OpenIsWatched, SocketOf, User, Watched,
          WritesAreWatched, TheEndIsTold, Blocking, Own, Has
<1>11. (Careful => Served)'
  BY <1>1, <1>10 DEF Careful
<1> QED BY <1>6, <1>8, <1>9, <1>11 DEF Invariant

-----------------------------------------------------------------------------
(* The steps that add a socket.                                            *)

\* What is forgotten of a round.
Forgets == /\ DOMAIN triggered' \subseteq DOMAIN triggered
           /\ \A i \in DOMAIN triggered' : triggered'[i] = triggered[i]

\* A connection that was not accepted yet has no descriptor, and is in no map.
LEMMA NewcomerIsUnknown ==
  ASSUME Invariant, NEW c \in Conns, conn[c].peer \in {"away", "backlog"}
  PROVE  /\ sock[c].state = "none" /\ sock[c].native = None
         /\ \A f \in Fds : open[f] # c /\ c \notin {third[f], clients[f]}
<1>1. sock[c].state = "none" /\ sock[c] \in Sockets
  BY TypeOKExpanded DEF Invariant, Lives, NewcomersAreNew
<1>2. sock[c].native = None
  BY <1>1 DEF Invariant, Lives, Matched
<1>3. \A f \in Fds : open[f] # c /\ c \notin {third[f], clients[f]}
  BY <1>1, <1>2, ServerAssumption DEF Invariant, Lives, EveryDescriptorHasItsSocket, MapsHoldLive
<1> QED BY <1>1, <1>2, <1>3

\* With a careful application nothing is remembered of a closed descriptor.
LEMMA ClosedIsForgotten ==
  ASSUME Invariant, Careful, NEW f \in Fds, open[f] = None
  PROVE  third[f] = None /\ clients[f] = None /\ ~Watched(f)
BY ServerAssumption DEF Invariant, Served, OpenIsWatched, SocketOf, User

\* A new connection's socket gets a descriptor nobody has, is watched and is put
\* into one of the maps.
LEMMA ConnectedKeeps ==
  ASSUME Invariant, NEW c \in Conns, conn[c].peer \in {"away", "backlog"},
         NEW f \in Fds, open[f] = None,
         open' = [open EXCEPT ![f] = c], sock' = [sock EXCEPT ![c] = Connected(f)],
         conn' = [conn EXCEPT ![c].peer = "open"], fds' = Watch(f),
         \/ third' = [third EXCEPT ![f] = c] /\ clients' = clients
         \/ clients[f] = None /\ clients' = [clients EXCEPT ![f] = c] /\ third' = third,
         Forgets, ~stuck, stuck' \in BOOLEAN, stuck' => "rejects" \in policy,
         UNCHANGED <<policy, running, canceled, told>>
  PROVE  Invariant'
<1> DEFINE s == Connected(f)
           k == [conn[c] EXCEPT !.peer = "open"]
<1>1. /\ TypeOK /\ conn \in [Conns -> Connections] /\ open \in [Fds -> Conns \cup {None}]
      /\ sock \in [Conns -> Sockets] /\ fds \in Seq(Entries)
      /\ third \in [Fds -> Conns \cup {None}] /\ clients \in [Fds -> Conns \cup {None}]
  BY TypeOKExpanded DEF Invariant
<1>2. /\ s \in Sockets /\ s.state = "connected" /\ s.native = f /\ s.write = FALSE
      /\ s.closed = {}
  BY DEF Connected, Absent, Sockets
<1>3. conn[c] \in Connections
  BY <1>1
<1>4. k \in Connections /\ k.peer = "open" /\ conn' = [conn EXCEPT ![c] = k]
  BY <1>1, <1>3 DEF Connections
<1>5. sock' = [sock EXCEPT ![c] = s]
  OBVIOUS
<1> HIDE DEF s, k
<1>6. /\ \A d \in Conns : sock'[d] = IF d = c THEN s ELSE sock[d]
      /\ \A d \in Conns : conn'[d] = IF d = c THEN k ELSE conn[d]
      /\ \A g \in Fds : open'[g] = IF g = f THEN c ELSE open[g]
  BY <1>1, <1>4, <1>5
<1>7. /\ \A g \in Fds : g # f => third'[g] = third[g] /\ clients'[g] = clients[g]
      /\ \/ third'[f] = c /\ clients'[f] = clients[f]
         \/ third'[f] = third[f] /\ clients'[f] = c /\ clients[f] = None
  BY <1>1
<1>8. None \notin Fds /\ None \notin Conns
  BY ServerAssumption
<1>9. /\ sock[c].state = "none" /\ sock[c].native = None
      /\ \A g \in Fds : open[g] # c /\ c \notin {third[g], clients[g]}
  BY NewcomerIsUnknown
<1>10. TypeOK'
  <2>1. /\ conn' \in [Conns -> Connections] /\ open' \in [Fds -> Conns \cup {None}]
        /\ sock' \in [Conns -> Sockets]
        /\ third' \in [Fds -> Conns \cup {None}] /\ clients' \in [Fds -> Conns \cup {None}]
    <3>1. conn' \in [Conns -> Connections] /\ sock' \in [Conns -> Sockets]
      <4>1. [conn EXCEPT ![c] = k] \in [Conns -> Connections]
        BY <1>1, <1>4
      <4>2. [sock EXCEPT ![c] = s] \in [Conns -> Sockets]
        BY <1>1, <1>2
      <4> QED BY <1>4, <1>5, <4>1, <4>2
    <3>2. open' \in [Fds -> Conns \cup {None}]
      BY <1>1
    <3>3. [third EXCEPT ![f] = c] \in [Fds -> Conns \cup {None}]
      BY <1>1
    <3>4. [clients EXCEPT ![f] = c] \in [Fds -> Conns \cup {None}]
      BY <1>1
    <3> QED BY <1>1, <3>1, <3>2, <3>3, <3>4
  <2>2. fds' \in Seq(Entries)
    BY <1>1, WatchAdds
  <2> QED BY <1>1, <2>1, <2>2 DEF TypeOK, Events, Forgets, Connections, Sockets, Entries
<1>11. EveryDescriptorHasItsSocket'
  <2>1. EveryDescriptorHasItsSocket
    BY DEF Invariant, Lives
  <2>2. ASSUME NEW g \in Fds, NEW d \in Conns
        PROVE  open'[g] = d <=> sock'[d].native = g
    <3>1. open[g] = d <=> sock[d].native = g
      BY <2>1 DEF EveryDescriptorHasItsSocket
    <3> QED BY <1>2, <1>6, <1>8, <1>9, <3>1
  <2>3. ASSUME NEW g \in Fds, NEW d \in Conns, open'[g] = d
        PROVE  \/ d \in {third'[g], clients'[g]}
               \/ "declines" \in policy /\ sock'[d].state = "declined"
    <3>1. open[g] = d => \/ d \in {third[g], clients[g]}
                         \/ "declines" \in policy /\ sock[d].state = "declined"
      BY <2>1 DEF EveryDescriptorHasItsSocket
    <3>2. CASE g = f
      BY <1>6, <1>7, <2>3, <3>2
    <3>3. CASE g # f
      <4>1. open[g] = d /\ d # c
        BY <1>6, <1>9, <2>3, <3>3
      <4> QED BY <1>6, <1>7, <3>1, <3>3, <4>1
    <3> QED BY <3>2, <3>3
  <2> QED BY <2>2, <2>3 DEF EveryDescriptorHasItsSocket
<1>12. Matched(sock)'
  BY <1>2, <1>6, <1>8 DEF Invariant, Lives, Matched
<1>13. MapsHoldLive'
  <2>1. SUFFICES ASSUME NEW g \in Fds, NEW d \in Conns, d \in {third'[g], clients'[g]}
                 PROVE  sock'[d].state = "null" \/ (sock'[d].state = "connected" /\ sock'[d].native = g)
    BY DEF MapsHoldLive
  <2>2. CASE d = c
    BY <1>2, <1>6, <1>7, <1>9, <2>1, <2>2
  <2>3. CASE d # c
    <3>1. d \in {third[g], clients[g]}
      BY <1>7, <2>1, <2>3
    <3>2. sock[d].state = "null" \/ (sock[d].state = "connected" /\ sock[d].native = g)
      BY <3>1 DEF Invariant, Lives, MapsHoldLive
    <3> QED BY <1>6, <2>3, <3>2
  <2> QED BY <2>2, <2>3
<1>14. NewcomersAreNew' /\ HangupsAreReadable' /\ EndsAreOpen'
  <2>1. NewcomersAreNew'
    BY <1>4, <1>6 DEF Invariant, Lives, NewcomersAreNew
  <2>2. HangupsAreReadable'
    BY DEF Invariant, Lives, HangupsAreReadable, Forgets
  <2>3. EndsAreOpen'
    BY <1>2, <1>6 DEF Invariant, Lives, EndsAreOpen
  <2> QED BY <2>1, <2>2, <2>3
<1>15. HandlersReturn'
  BY DEF HandlersReturn
<1>16. ASSUME Careful PROVE Served'
  <2>1. Served
    BY <1>16 DEF Invariant
  <2>2. third[f] = None /\ clients[f] = None /\ ~Watched(f)
    BY <1>16, ClosedIsForgotten
  <2>3. /\ Once(fds') /\ fds' \in Seq(Entries)
        /\ \A e : Has(fds', e) <=> Has(fds, e) \/ e = [fd |-> f, write |-> TRUE]
    BY <1>1, <2>1, <2>2, WatchAdds DEF Served
  <2>4. \A g \in Fds : Watched(g)' <=> Watched(g) \/ g = f
    <3>1. \A g : Watched(g) <=> \E b \in BOOLEAN : Has(fds, [fd |-> g, write |-> b])
      BY <1>1, TableEntry DEF Watched
    <3>2. \A g : Watched(g)' <=> \E b \in BOOLEAN : Has(fds', [fd |-> g, write |-> b])
      BY <2>3, TableEntry DEF Watched
    <3> QED BY <2>3, <3>1, <3>2
  <2>5. OpenIsWatched'
    <3>1. User(f)' = c /\ SocketOf(f)' = c
      BY <1>2, <1>6, <1>7, <1>8, <2>2 DEF User, SocketOf
    <3>2. ASSUME NEW g \in Fds, g # f PROVE User(g)' = User(g) /\ SocketOf(g)' = SocketOf(g)
      BY <1>6, <1>7, <1>9, <3>2 DEF User, SocketOf
    <3> QED BY <1>8, <2>1, <2>4, <3>1, <3>2 DEF Served, OpenIsWatched
  <2>6. PendingOnce'
    BY <2>1 DEF Served, PendingOnce, Forgets
  <2>7. PendingIsWatched'
    BY <2>1, <2>3 DEF Served, PendingIsWatched, Forgets
  <2>8. WritesAreWatched'
    BY <1>2, <1>6, <2>1, <2>3 DEF Served, WritesAreWatched
  <2>9. TheEndIsTold'
    BY <1>2, <1>6, <1>9, <2>1 DEF Served, TheEndIsTold, Blocking, Own
  <2>10. \A d \in Conns : sock'[d].state # "refused"
    BY <1>2, <1>6, <2>1 DEF Served
  <2> QED BY <2>3, <2>5, <2>6, <2>7, <2>8, <2>9, <2>10 DEF Served
<1>17. (Careful => Served)'
  BY <1>16 DEF Careful
<1> QED BY <1>10, <1>11, <1>12, <1>13, <1>14, <1>15, <1>17 DEF Invariant, Lives

\* The application's own connection.
LEMMA ServeSocketKeeps ==
  ASSUME Invariant, NEW c \in Conns, ServeSocket(c)
  PROVE  Invariant'
<1> DEFINE f == Lowest({g \in Fds : open[g] = None})
<1>1. conn[c].peer \in {"away", "backlog"}
  BY DEF ServeSocket
<1>2. f \in Fds /\ open[f] = None
  <2>1. sock[c].native \notin Fds
    BY <1>1, NewcomerIsUnknown, ServerAssumption
  <2>2. open \in [Fds -> Conns \cup {None}] /\ Linked(open, sock)
    BY TypeOKExpanded DEF Invariant, Lives, EveryDescriptorHasItsSocket, Linked
  <2> QED BY <2>1, <2>2, DescriptorIsFree
<1>3. /\ open' = [open EXCEPT ![f] = c] /\ sock' = [sock EXCEPT ![c] = Connected(f)]
      /\ third' = [third EXCEPT ![f] = c] /\ clients' = clients /\ fds' = Watch(f)
      /\ conn' = [conn EXCEPT ![c].peer = "open"] /\ ~stuck
      /\ UNCHANGED <<policy, running, canceled, told, stuck>> /\ triggered' = triggered
  BY DEF ServeSocket
<1>4. Forgets /\ stuck' \in BOOLEAN /\ (stuck' => "rejects" \in policy)
  BY <1>3 DEF Forgets, Invariant, TypeOK
<1> HIDE DEF f
<1> QED BY <1>1, <1>2, <1>3, <1>4, ConnectedKeeps

\* create() declined: nobody knows of the descriptor.
LEMMA DeclinedKeeps ==
  ASSUME Invariant, NEW c \in Conns, conn[c].peer \in {"away", "backlog"},
         NEW f \in Fds, open[f] = None, Declined(c, f),
         conn' = [conn EXCEPT ![c].peer = "open"], Forgets,
         UNCHANGED <<policy, third, running, canceled, told>>
  PROVE  Invariant'
<1> DEFINE s == [Absent EXCEPT !.state = "declined", !.native = f]
           k == [conn[c] EXCEPT !.peer = "open"]
<1>1. /\ open' = [open EXCEPT ![f] = c] /\ sock' = [sock EXCEPT ![c] = s]
      /\ "declines" \in policy /\ clients' = clients /\ fds' = fds /\ stuck' = stuck
  BY DEF Declined
<1>2. /\ TypeOK /\ conn \in [Conns -> Connections] /\ open \in [Fds -> Conns \cup {None}]
      /\ sock \in [Conns -> Sockets] /\ conn[c] \in Connections
  BY TypeOKExpanded DEF Invariant
<1>3. /\ s \in Sockets /\ s.state = "declined" /\ s.native = f /\ s.closed = {}
  BY DEF Absent, Sockets
<1>4. k \in Connections /\ k.peer = "open" /\ conn' = [conn EXCEPT ![c] = k]
  BY <1>2 DEF Connections
<1> HIDE DEF s, k
<1>5. /\ \A d \in Conns : sock'[d] = IF d = c THEN s ELSE sock[d]
      /\ \A d \in Conns : conn'[d] = IF d = c THEN k ELSE conn[d]
      /\ \A g \in Fds : open'[g] = IF g = f THEN c ELSE open[g]
  BY <1>1, <1>2, <1>4
<1>6. /\ sock[c].state = "none" /\ sock[c].native = None
      /\ \A g \in Fds : open[g] # c /\ c \notin {third[g], clients[g]}
  BY NewcomerIsUnknown
<1>7. None \notin Fds /\ None \notin Conns
  BY ServerAssumption
<1>8. TypeOK'
  <2>1. /\ conn' \in [Conns -> Connections] /\ sock' \in [Conns -> Sockets]
        /\ open' \in [Fds -> Conns \cup {None}]
    BY <1>1, <1>2, <1>3, <1>4
  <2> QED BY <1>1, <1>2, <2>1 DEF TypeOK, Events, Forgets, Connections, Sockets
<1>9. EveryDescriptorHasItsSocket'
  <2>1. ASSUME NEW g \in Fds, NEW d \in Conns
        PROVE  /\ open'[g] = d <=> sock'[d].native = g
               /\ open'[g] = d => \/ d \in {third'[g], clients'[g]}
                                  \/ "declines" \in policy' /\ sock'[d].state = "declined"
    <3>1. /\ open[g] = d <=> sock[d].native = g
          /\ open[g] = d => \/ d \in {third[g], clients[g]}
                            \/ "declines" \in policy /\ sock[d].state = "declined"
      BY DEF Invariant, Lives, EveryDescriptorHasItsSocket
    <3>2. CASE d = c
      BY <1>1, <1>3, <1>5, <1>6, <1>7, <3>2
    <3>3. CASE d # c
      <4>1. sock'[d] = sock[d] /\ sock[d].native # f
        BY <1>5, <1>7, <3>3 DEF Invariant, Lives, EveryDescriptorHasItsSocket
      <4> QED BY <1>1, <1>5, <3>1, <3>3, <4>1
    <3> QED BY <3>2, <3>3
  <2> QED BY <2>1 DEF EveryDescriptorHasItsSocket
<1>10. Matched(sock)'
  BY <1>3, <1>5, <1>7 DEF Invariant, Lives, Matched
<1>11. MapsHoldLive'
  BY <1>1, <1>5, <1>6 DEF Invariant, Lives, MapsHoldLive
<1>12. NewcomersAreNew' /\ HangupsAreReadable' /\ EndsAreOpen'
  BY <1>3, <1>4, <1>5 DEF Invariant, Lives, NewcomersAreNew, HangupsAreReadable, EndsAreOpen, Forgets
<1>13. HandlersReturn'
  BY <1>1 DEF Invariant, HandlersReturn
<1>14. ASSUME Careful PROVE Served'
  <2>1. Served /\ third[f] = None /\ clients[f] = None /\ ~Watched(f)
    BY <1>14, ClosedIsForgotten DEF Invariant
  <2>2. OpenIsWatched'
    <3>1. User(f)' = None /\ SocketOf(f)' = None
      BY <1>1, <1>3, <1>5, <2>1 DEF User, SocketOf
    <3>2. ASSUME NEW g \in Fds, g # f PROVE User(g)' = User(g) /\ SocketOf(g)' = SocketOf(g)
      BY <1>1, <1>5, <1>6, <3>2 DEF User, SocketOf
    <3> QED BY <1>1, <2>1, <3>1, <3>2 DEF Served, OpenIsWatched, Watched
  <2>3. Once(fds)' /\ PendingOnce' /\ PendingIsWatched'
    BY <1>1, <2>1 DEF Served, Once, PendingOnce, PendingIsWatched, Forgets, Has
  <2>4. WritesAreWatched'
    BY <1>1, <1>3, <1>5, <2>1 DEF Served, WritesAreWatched, Has
  <2>5. TheEndIsTold'
    BY <1>3, <1>5, <1>6, <2>1 DEF Served, TheEndIsTold, Blocking, Own
  <2>6. \A d \in Conns : sock'[d].state # "refused"
    BY <1>3, <1>5, <2>1 DEF Served
  <2> QED BY <2>2, <2>3, <2>4, <2>5, <2>6 DEF Served
<1> QED BY <1>8, <1>9, <1>10, <1>11, <1>12, <1>13, <1>14 DEF Invariant, Lives, Careful

\* The map still has a socket for the descriptor, which a careful application never
\* meets: the new one is refused.
LEMMA RefusedKeeps ==
  ASSUME Invariant, NEW c \in Conns, conn[c].peer \in {"away", "backlog"},
         NEW f \in Fds, open[f] = None, Destroyed(c, f),
         conn' = [conn EXCEPT ![c].peer = "open"], Forgets,
         UNCHANGED <<policy, third, running, canceled, told>>
  PROVE  Invariant'
<1> DEFINE s == [Absent EXCEPT !.state = "refused"]
           k == [conn[c] EXCEPT !.peer = "open"]
<1>1. /\ open' = open /\ clients' = clients /\ sock' = [sock EXCEPT ![c] = s] /\ fds' = Watch(f)
      /\ clients[f] # None /\ stuck' \in BOOLEAN /\ (stuck' => "rejects" \in policy)
  BY DEF Destroyed, Rejects
<1>2. ~Careful
  BY <1>1, ClosedIsForgotten
<1>3. /\ TypeOK /\ conn \in [Conns -> Connections] /\ sock \in [Conns -> Sockets]
      /\ fds \in Seq(Entries) /\ conn[c] \in Connections
  BY TypeOKExpanded DEF Invariant
<1>4. s \in Sockets /\ s.state = "refused" /\ s.native = None /\ s.closed = {}
  BY DEF Absent, Sockets
<1>5. k \in Connections /\ k.peer = "open" /\ conn' = [conn EXCEPT ![c] = k]
  BY <1>3 DEF Connections
<1> HIDE DEF s, k
<1>6. /\ \A d \in Conns : sock'[d] = IF d = c THEN s ELSE sock[d]
      /\ \A d \in Conns : conn'[d] = IF d = c THEN k ELSE conn[d]
  BY <1>1, <1>3, <1>5
<1>7. /\ sock[c].state = "none" /\ sock[c].native = None
      /\ \A g \in Fds : open[g] # c /\ c \notin {third[g], clients[g]}
  BY NewcomerIsUnknown
<1>8. TypeOK'
  <2>1. fds' \in Seq(Entries)
    BY <1>1, <1>3, WatchAdds
  <2>2. conn' \in [Conns -> Connections] /\ sock' \in [Conns -> Sockets]
    BY <1>1, <1>3, <1>4, <1>5
  <2> QED BY <1>1, <1>3, <2>1, <2>2 DEF TypeOK, Events, Forgets, Connections, Sockets, Entries
<1>9. EveryDescriptorHasItsSocket'
  BY <1>1, <1>4, <1>6, <1>7 DEF Invariant, Lives, EveryDescriptorHasItsSocket
<1>10. Matched(sock)'
  BY <1>4, <1>6 DEF Invariant, Lives, Matched
<1>11. MapsHoldLive'
  BY <1>1, <1>6, <1>7 DEF Invariant, Lives, MapsHoldLive
<1>12. NewcomersAreNew'
  BY <1>5, <1>6 DEF Invariant, Lives, NewcomersAreNew
<1>13. HangupsAreReadable'
  BY DEF Invariant, Lives, HangupsAreReadable, Forgets
<1>14. EndsAreOpen'
  BY <1>4, <1>6 DEF Invariant, Lives, EndsAreOpen
<1>15. HandlersReturn' /\ ~Careful'
  BY <1>1, <1>2 DEF HandlersReturn, Careful
<1> QED BY <1>8, <1>9, <1>10, <1>11, <1>12, <1>13, <1>14, <1>15 DEF Invariant, Lives

\* accept() gives a descriptor, and create() a socket for it or none.
LEMMA AcceptKeeps ==
  ASSUME Invariant, NEW c \in Conns, Accept(c)
  PROVE  Invariant'
<1> DEFINE f == Lowest({g \in Fds : open[g] = None})
<1>1. conn[c].peer \in {"away", "backlog"} /\ ~stuck
  BY DEF Accept, Handling
<1>2. f \in Fds /\ open[f] = None
  <2>1. sock[c].native \notin Fds
    BY <1>1, NewcomerIsUnknown, ServerAssumption
  <2>2. open \in [Fds -> Conns \cup {None}] /\ Linked(open, sock)
    BY TypeOKExpanded DEF Invariant, Lives, EveryDescriptorHasItsSocket, Linked
  <2> QED BY <2>1, <2>2, DescriptorIsFree
<1>3. Forgets
  <2>1. triggered' = Later \/ triggered' = triggered
    BY DEF Accept
  <2>2. Pending
    BY DEF Accept, Handling
  <2> QED BY <2>1, <2>2, LaterEvents, TypeOKExpanded DEF Invariant, Forgets
<1>4. /\ conn' = [conn EXCEPT ![c].peer = "open"]
      /\ UNCHANGED <<policy, third, running, canceled, told>>
      /\ Declined(c, f) \/ Inserted(c, f) \/ Destroyed(c, f)
  BY DEF Accept
<1> HIDE DEF f
<1>5. CASE Declined(c, f)
  BY <1>1, <1>2, <1>3, <1>4, <1>5, DeclinedKeeps
<1>6. CASE Inserted(c, f)
  <2>1. /\ open' = [open EXCEPT ![f] = c] /\ sock' = [sock EXCEPT ![c] = Connected(f)]
        /\ fds' = Watch(f) /\ clients[f] = None /\ clients' = [clients EXCEPT ![f] = c]
        /\ stuck' \in BOOLEAN /\ (stuck' => "rejects" \in policy)
    BY <1>6 DEF Inserted, Rejects
  <2> QED BY <1>1, <1>2, <1>3, <1>4, <2>1, ConnectedKeeps
<1>7. CASE Destroyed(c, f)
  BY <1>1, <1>2, <1>3, <1>4, <1>7, RefusedKeeps
<1> QED BY <1>4, <1>5, <1>6, <1>7

\* A connection that was aborted before it was accepted has no socket.
LEMMA AcceptFailsKeeps ==
  ASSUME Invariant, NEW c \in Conns, AcceptFails(c)
  PROVE  Invariant'
<1> DEFINE k == [conn[c] EXCEPT !.peer = "dead"]
<1>1. /\ TypeOK /\ conn \in [Conns -> Connections] /\ conn[c] \in Connections
      /\ Pending /\ triggered' = Later
      /\ UNCHANGED <<policy, open, sock, third, clients, fds, running, canceled, told, stuck>>
  BY TypeOKExpanded DEF Invariant, AcceptFails, Handling
<1>2. k \in Connections /\ k.peer = "dead" /\ conn' = [conn EXCEPT ![c] = k]
  BY <1>1 DEF AcceptFails, Connections
<1> HIDE DEF k
<1>3. conn' \in [Conns -> Connections]
  BY <1>1, <1>2
<1>4. Forgets
  BY <1>1, LaterEvents, TypeOKExpanded DEF Forgets
<1>5. TypeOK'
  BY <1>1, <1>3, <1>4 DEF TypeOK, Events, Connections, Forgets
<1>6. NewcomersAreNew'
  BY <1>1, <1>2 DEF Invariant, Lives, NewcomersAreNew
<1>7. Lives'
  BY <1>1, <1>4, <1>6 DEF Invariant, Lives, EveryDescriptorHasItsSocket, Matched, MapsHoldLive,
     HangupsAreReadable, EndsAreOpen, Forgets
<1>8. HandlersReturn' /\ (Careful => Served)'
  BY <1>1, <1>4 DEF Invariant, HandlersReturn, Careful, Served, Once, OpenIsWatched, SocketOf, User,
     Watched, PendingOnce, PendingIsWatched, WritesAreWatched, TheEndIsTold, Blocking, Own, Has,
     Forgets
<1> QED BY <1>5, <1>7, <1>8 DEF Invariant


-----------------------------------------------------------------------------
(* The handler of an event.                                                *)

\* The world of a state.
WorldIs(w) == w.conn = conn /\ w.open = open /\ w.sock = sock /\ w.told = told

\* The socket that has an event handled: it is the event's, or was ended by a
\* callback of another socket.
LEMMA EventHasSocket ==
  ASSUME Invariant, NEW c \in Conns, Pending, Current.fd # Listener, SocketOf(Current.fd) = c
  PROVE  /\ WorldIs(World) /\ Sound(World) /\ Handled(World, c)
         /\ Current.fd \in Fds /\ c \in {third[Current.fd], clients[Current.fd]}
         /\ sock[c].state = "null" <=> sock[c].native = None
         /\ sock[c].native # None => sock[c].native = Current.fd
         /\ Careful => sock[c].state = "connected" /\ sock[c].native = Current.fd
                       /\ Watched(Current.fd)
<1>1. /\ conn \in [Conns -> Connections] /\ open \in [Fds -> Conns \cup {None}]
      /\ sock \in [Conns -> Sockets] /\ told \in [Conns -> Nat]
      /\ DOMAIN triggered \subseteq Nat /\ \A i \in DOMAIN triggered : triggered[i] \in Events
  BY TypeOKExpanded DEF Invariant
<1>2. /\ EveryDescriptorHasItsSocket /\ Matched(sock) /\ MapsHoldLive
  BY DEF Invariant, Lives
<1>3. WorldIs(World) /\ World \in Worlds
  BY <1>1 DEF World, WorldIs, Worlds
<1>4. Sound(World)
  BY <1>2, <1>3 DEF WorldIs, Sound, Linked, EveryDescriptorHasItsSocket
<1>5. Current \in Events
  BY <1>1, LaterEvents
<1>6. Current.fd \in Fds
  BY <1>5 DEF Events
<1>7. c \in {third[Current.fd], clients[Current.fd]}
  BY DEF SocketOf
<1>8. sock[c].state = "null" \/ (sock[c].state = "connected" /\ sock[c].native = Current.fd)
  BY <1>2, <1>6, <1>7 DEF MapsHoldLive
<1>9. None \notin Fds
  BY ServerAssumption
<1>10. /\ sock[c].state = "null" <=> sock[c].native = None
       /\ sock[c].state \in {"connected", "null"}
  BY <1>2, <1>6, <1>8, <1>9 DEF Matched
<1>11. sock[c].native # None => sock[c].native = Current.fd
  BY <1>8, <1>10
<1>12. ASSUME Careful
       PROVE  sock[c].state = "connected" /\ sock[c].native = Current.fd /\ Watched(Current.fd)
  <2>1. OpenIsWatched
    BY <1>12 DEF Invariant, Served
  <2>2. open[Current.fd] = c /\ Watched(Current.fd)
    BY <1>6, <2>1, ServerAssumption DEF OpenIsWatched, User
  <2>3. sock[c].native = Current.fd
    BY <1>2, <1>6, <2>2 DEF EveryDescriptorHasItsSocket
  <2> QED BY <1>6, <1>9, <1>10, <2>2, <2>3
<1> QED BY <1>3, <1>4, <1>6, <1>7, <1>10, <1>11, <1>12 DEF Handled, WorldIs

\* A socket that has nothing to send.
LEMMA IdleKeeps ==
  ASSUME NEW w, Sound(w), NEW c \in Conns, Handled(w, c), NEW f, Idle(c, f, w)
  PROVE  /\ fds' = Modify(f, FALSE)
         /\ \E u : /\ Become(u) /\ Sound(u) /\ Leads(w, u, c)
                   /\ w.sock[c].closed = {} => u.sock = w.sock
<1> DEFINE k == [w.conn[c] EXCEPT !.shut = @ \cup w.sock[c].closed]
           s == [w EXCEPT !.conn[c].shut = @ \cup w.sock[c].closed]
           u == IF IsNull(w, c) THEN w
                ELSE IF w.sock[c].closed = {"read", "write"} THEN Disconnect(w, c) ELSE s
<1>1. fds' = Modify(f, FALSE) /\ Become(u)
  BY DEF Idle
<1>2. CASE IsNull(w, c)
  <2>1. u = w
    BY <1>2
  <2> QED BY <1>1, <2>1, LeadsNowhere
<1>3. CASE ~IsNull(w, c) /\ w.sock[c].closed = {"read", "write"}
  <2>1. u = Disconnect(w, c)
    BY <1>3
  <2> HIDE DEF u
  <2>2. Sound(u) /\ Leads(w, u, c)
    BY <2>1, DisconnectEnds
  <2> QED BY <1>1, <1>3, <2>2
<1>4. CASE ~IsNull(w, c) /\ w.sock[c].closed # {"read", "write"}
  <2>1. u = s
    BY <1>4
  <2>2. /\ w \in Worlds /\ w.conn \in [Conns -> Connections] /\ w.conn[c] \in Connections
        /\ w.sock[c] \in Sockets
    BY DEF Sound, Worlds
  <2>3. k \in Connections /\ k.peer = w.conn[c].peer
    BY <2>2 DEF Connections, Sockets
  <2>4. s = [w EXCEPT !.conn = [w.conn EXCEPT ![c] = k]]
    BY <2>2 DEF Worlds, Connections
  <2> HIDE DEF s, k, u
  <2>5. [w.conn EXCEPT ![c] = k] \in [Conns -> Connections]
    BY <2>2, <2>3
  <2>6. /\ s \in Worlds /\ s.open = w.open /\ s.sock = w.sock /\ s.told = w.told
        /\ s.did_write = w.did_write /\ s.conn = [w.conn EXCEPT ![c] = k]
    BY <2>2, <2>4, <2>5 DEF Worlds
  <2>7. \A d \in Conns : s.conn[d].peer = w.conn[d].peer
    BY <2>2, <2>3, <2>6
  <2>8. Sound(s) /\ Leads(w, s, c)
    BY <2>6, <2>7 DEF Sound, Leads, Stays, Meets
  <2> QED BY <1>1, <2>1, <2>6, <2>8
<1> QED BY <1>2, <1>3, <1>4

\* The state becomes a world its handler leads to: each socket that has a
\* descriptor had it before.
LEMMA BecomeKeeps ==
  ASSUME Invariant, NEW c \in Conns, WorldIs(World), NEW u, Sound(u), Leads(World, u, c),
         Become(u), policy' = policy, Forgets
  PROVE  /\ Lives'
         /\ conn' \in [Conns -> Connections] /\ open' \in [Fds -> Conns \cup {None}]
         /\ sock' \in [Conns -> Sockets] /\ told' \in [Conns -> Nat]
         /\ third' = third /\ clients' = clients
<1>1. /\ conn' = u.conn /\ open' = u.open /\ sock' = u.sock /\ told' = u.told
      /\ third' = third /\ clients' = clients
  BY DEF Become
<1>2. /\ conn' \in [Conns -> Connections] /\ open' \in [Fds -> Conns \cup {None}]
      /\ sock' \in [Conns -> Sockets] /\ told' \in [Conns -> Nat]
  BY <1>1 DEF Sound, Worlds
<1>3. /\ EveryDescriptorHasItsSocket /\ MapsHoldLive /\ NewcomersAreNew /\ HangupsAreReadable
      /\ EndsAreOpen
  BY DEF Invariant, Lives
<1>4. \A d \in Conns : Stays(sock[d], sock'[d]) /\ Meets(conn[d], conn'[d])
  BY <1>1 DEF Leads, WorldIs
<1>5. Linked(open', sock') /\ Matched(sock)'
  BY <1>1 DEF Sound, Matched
<1>6. None \notin Fds
  BY ServerAssumption
<1>7. EveryDescriptorHasItsSocket'
  <2>1. \A f \in Fds, d \in Conns : open'[f] = d <=> sock'[d].native = f
    BY <1>5 DEF Linked
  <2>2. \A f \in Fds, d \in Conns : sock'[d].native = f => sock[d].native = f
    BY <1>4, <1>6 DEF Stays
  <2>3. \A f \in Fds, d \in Conns :
          sock[d].native = f => \/ d \in {third[f], clients[f]}
                                \/ "declines" \in policy /\ sock[d].state = "declined"
    BY <1>3 DEF EveryDescriptorHasItsSocket
  <2>4. \A d \in Conns : sock[d].state = "declined" => sock'[d].state = "declined"
    BY <1>4 DEF Stays
  <2> QED BY <1>1, <2>1, <2>2, <2>3, <2>4 DEF EveryDescriptorHasItsSocket
<1>8. MapsHoldLive'
  BY <1>1, <1>3, <1>4 DEF MapsHoldLive, Stays
<1>9. NewcomersAreNew'
  BY <1>3, <1>4 DEF NewcomersAreNew, Stays, Meets
<1>10. HangupsAreReadable'
  BY <1>3 DEF HangupsAreReadable, Forgets
<1>11. EndsAreOpen'
  BY <1>1, <1>3 DEF EndsAreOpen, Leads, WorldIs
<1> QED BY <1>1, <1>2, <1>5, <1>7, <1>8, <1>9, <1>10, <1>11 DEF Lives

\* With a careful application, the socket whose event is handled goes on, and
\* what is watched for its descriptor agrees with what it has to send.
LEMMA GoesOn ==
  ASSUME Invariant, Careful, NEW c \in Conns, WorldIs(World), NEW u, Sound(u), Leads(World, u, c),
         Become(u), policy' = policy, Forgets,
         NEW f \in Fds, sock[c].state = "connected", sock[c].native = f,
         u.sock[c].state = "connected",
         fds' \in Seq(Entries), Once(fds'), Watched(f),
         \A g : Watched(g)' <=> Watched(g),
         \A g, b : g # f => (Has(fds', [fd |-> g, write |-> b]) <=> Has(fds, [fd |-> g, write |-> b])),
         \A i \in DOMAIN triggered' :
           triggered'[i].fd = f /\ "write" \in triggered'[i].flags => ~Has(fds', [fd |-> f, write |-> FALSE]),
         ~stuck, ~stuck' /\ u.sock[c].write => Has(fds', [fd |-> f, write |-> TRUE])
  PROVE  Served'
<1>1. /\ open' = u.open /\ sock' = u.sock /\ told' = u.told
      /\ third' = third /\ clients' = clients
  BY DEF Become
<1>2. Served /\ Linked(open, sock)
  BY DEF Invariant, Lives, EveryDescriptorHasItsSocket, Linked
<1>3. /\ open \in [Fds -> Conns \cup {None}] /\ open' \in [Fds -> Conns \cup {None}]
  BY <1>1, TypeOKExpanded DEF Invariant, Sound, Worlds
<1>4. sock'[c].state = "connected" /\ sock'[c].native = f
  BY <1>1 DEF Leads, WorldIs, Stays
<1>5. \A d \in Conns \ {c} : sock'[d] = sock[d]
  BY <1>1 DEF Leads, WorldIs, Careful
<1>6. \A d \in Conns : ~Blocking(d) => told'[d] = told[d]
  BY <1>1 DEF Leads, WorldIs
<1>7. \A d \in Conns : sock'[d].native = sock[d].native /\ sock'[d].state = sock[d].state
  BY <1>4, <1>5
<1>8. Linked(open', sock')
  BY <1>1 DEF Sound
<1>9. \A g \in Fds : open'[g] = open[g]
  BY <1>2, <1>3, <1>7, <1>8 DEF Linked
<1>10. OpenIsWatched'
  BY <1>1, <1>2, <1>7, <1>9 DEF Served, OpenIsWatched, SocketOf, User
<1>11. PendingOnce'
  BY <1>2 DEF Served, PendingOnce, Forgets
<1>12. PendingIsWatched'
  <2>1. ASSUME NEW i \in DOMAIN triggered', "write" \in triggered'[i].flags
        PROVE  ~Has(fds', [fd |-> triggered'[i].fd, write |-> FALSE])
    <3>1. i \in DOMAIN triggered /\ triggered'[i] = triggered[i]
      BY DEF Forgets
    <3>2. ~Has(fds, [fd |-> triggered[i].fd, write |-> FALSE])
      BY <1>2, <2>1, <3>1 DEF Served, PendingIsWatched
    <3> QED BY <2>1, <3>1, <3>2
  <2> QED BY <2>1 DEF PendingIsWatched
<1>13. WritesAreWatched'
  <2>1. ASSUME NEW d \in Conns, d # c, ~stuck', sock'[d].write, sock'[d].state = "connected"
        PROVE  Has(fds', [fd |-> sock'[d].native, write |-> TRUE])
    <3>1. sock'[d] = sock[d]
      BY <1>5, <2>1
    <3>2. Has(fds, [fd |-> sock[d].native, write |-> TRUE])
      BY <1>2, <2>1, <3>1 DEF Served, WritesAreWatched
    <3>3. sock[d].native # f
      BY <1>2, <2>1 DEF Linked
    <3> QED BY <3>1, <3>2, <3>3
  <2> QED BY <1>1, <1>4, <2>1 DEF WritesAreWatched
<1>14. TheEndIsTold'
  BY <1>2, <1>6, <1>7 DEF Served, TheEndIsTold, Blocking, Own
<1>15. \A d \in Conns : sock'[d].state # "refused"
  BY <1>2, <1>7 DEF Served
<1> QED BY <1>10, <1>11, <1>12, <1>13, <1>14, <1>15 DEF Served

\* What End makes of the state, where the socket had the descriptor before.
EndsAt(c, f, w) ==
  /\ fds' = Unwatch(f) /\ third' = Erased(third, f) /\ clients' = Erased(clients, f)
  /\ conn' = w.conn /\ open' = w.open
  /\ told' = [w.told EXCEPT ![c] = w.told[c] + 1]
  /\ \/ sock' = w.sock
     \/ sock' = [w.sock EXCEPT ![c] = [Absent EXCEPT !.state = "destroyed"]]

\* A socket without a descriptor is destroyed without closing one.
LEMMA EndResults ==
  ASSUME NEW w, Sound(w), NEW c \in Conns, w.sock[c].native = None, NEW f, End(c, f, w)
  PROVE  EndsAt(c, f, w)
<1> DEFINE n == w.told[c] + 1
           v == [w EXCEPT !.told = [w.told EXCEPT ![c] = n]]
           owned == \E g \in Fds : g = f /\ clients[g] = c
<1>1. w \in Worlds /\ w.open \in [Fds -> Conns \cup {None}] /\ None \notin Fds
  BY ServerAssumption DEF Sound, Worlds
<1>2. v = [w EXCEPT !.told[c] = @ + 1]
  BY <1>1 DEF Worlds
<1> HIDE DEF n
<1>3. /\ v.sock = w.sock /\ v.open = w.open /\ v.conn = w.conn
      /\ v.told = [w.told EXCEPT ![c] = n]
  BY <1>1 DEF Worlds
<1> HIDE DEF v, owned
<1>4. /\ fds' = Unwatch(f) /\ third' = Erased(third, f) /\ clients' = Erased(clients, f)
      /\ sock' = IF owned THEN [v.sock EXCEPT ![c] = [Absent EXCEPT !.state = "destroyed"]]
                 ELSE v.sock
      /\ open' = IF owned THEN Erased(v.open, v.sock[c].native) ELSE v.open
      /\ told' = v.told /\ conn' = v.conn
  BY <1>2 DEF End, owned
<1>5. Erased(w.open, None) = w.open
  BY <1>1 DEF Erased
<1> QED BY <1>3, <1>4, <1>5 DEF EndsAt, n

\* The socket that had an event was disconnected by a callback: it is forgotten.
LEMMA EndKeeps ==
  ASSUME Invariant, NEW c \in Conns, WorldIs(World), NEW w, Sound(w), Leads(World, w, c),
         NEW f \in Fds, sock[c].state = "connected", sock[c].native = f,
         w.sock[c].state = "null", w.sock[c].native = None,
         EndsAt(c, f, w), policy' = policy, Forgets, ~stuck
  PROVE  /\ Lives'
         /\ conn' \in [Conns -> Connections] /\ open' \in [Fds -> Conns \cup {None}]
         /\ sock' \in [Conns -> Sockets] /\ told' \in [Conns -> Nat]
         /\ third' \in [Fds -> Conns \cup {None}] /\ clients' \in [Fds -> Conns \cup {None}]
         /\ fds' \in Seq(Entries)
         /\ Careful => Served'
<1> DEFINE s == [Absent EXCEPT !.state = "destroyed"]
           n == w.told[c] + 1
<1>1. /\ fds' = Unwatch(f) /\ third' = Erased(third, f) /\ clients' = Erased(clients, f)
      /\ conn' = w.conn /\ open' = w.open /\ told' = [w.told EXCEPT ![c] = n]
      /\ sock' = w.sock \/ sock' = [w.sock EXCEPT ![c] = s]
  BY DEF EndsAt
<1>2. /\ s \in Sockets /\ s.state = "destroyed" /\ s.native = None /\ s.write = FALSE
      /\ s.closed = {}
  BY DEF Sockets, Absent
<1> HIDE DEF s
<1>3. /\ fds \in Seq(Entries)
      /\ third \in [Fds -> Conns \cup {None}] /\ clients \in [Fds -> Conns \cup {None}]
      /\ open \in [Fds -> Conns \cup {None}]
  BY TypeOKExpanded DEF Invariant
<1>4. /\ w.conn \in [Conns -> Connections] /\ w.open \in [Fds -> Conns \cup {None}]
      /\ w.sock \in [Conns -> Sockets] /\ w.told \in [Conns -> Nat] /\ n \in Nat
  BY DEF Sound, Worlds
<1>5. None \notin Fds /\ None \notin Conns
  BY ServerAssumption
<1>6. /\ conn' \in [Conns -> Connections] /\ open' \in [Fds -> Conns \cup {None}]
      /\ sock' \in [Conns -> Sockets] /\ told' \in [Conns -> Nat]
  BY <1>1, <1>2, <1>4
<1>7. /\ third' \in [Fds -> Conns \cup {None}] /\ clients' \in [Fds -> Conns \cup {None}]
      /\ \A g \in Fds : third'[g] = IF g = f THEN None ELSE third[g]
      /\ \A g \in Fds : clients'[g] = IF g = f THEN None ELSE clients[g]
  BY <1>1, <1>3 DEF Erased
<1>8. /\ \A d \in Conns : d # c => sock'[d] = w.sock[d]
      /\ sock'[c].state \in {"null", "destroyed"} /\ sock'[c].native = None
  BY <1>1, <1>2, <1>4
<1>9. sock'[c].closed = w.sock[c].closed \/ sock'[c].closed = {}
  BY <1>1, <1>2, <1>4
<1>10. /\ \A d \in Conns : Stays(sock[d], w.sock[d]) /\ Meets(conn[d], conn'[d])
       /\ \A g \in Fds, d \in Conns : w.open[g] = d <=> w.sock[d].native = g
       /\ Matched(w.sock)
  BY <1>1 DEF Leads, WorldIs, Sound, Linked
<1>11. /\ \A g \in Fds, d \in Conns : open[g] = d <=> sock[d].native = g
       /\ \A g \in Fds, d \in Conns :
            open[g] = d => \/ d \in {third[g], clients[g]}
                           \/ "declines" \in policy /\ sock[d].state = "declined"
       /\ MapsHoldLive /\ NewcomersAreNew /\ HangupsAreReadable /\ EndsAreOpen
  BY DEF Invariant, Lives, EveryDescriptorHasItsSocket
<1>12. \A g \in Fds, d \in Conns : sock'[d].native = g => d # c /\ sock[d].native = g /\ g # f
  <2> SUFFICES ASSUME NEW g \in Fds, NEW d \in Conns, sock'[d].native = g
               PROVE  d # c /\ sock[d].native = g /\ g # f
    OBVIOUS
  <2>1. d # c
    BY <1>5, <1>8
  <2>2. sock[d].native = g
    BY <1>5, <1>8, <1>10, <2>1 DEF Stays
  <2>3. g # f
    BY <1>11, <2>1, <2>2
  <2> QED BY <2>1, <2>2, <2>3
<1>13. EveryDescriptorHasItsSocket'
  <2>1. \A g \in Fds, d \in Conns : open'[g] = d <=> sock'[d].native = g
    BY <1>1, <1>5, <1>8, <1>10
  <2>2. \A g \in Fds, d \in Conns :
          open'[g] = d => \/ d \in {third'[g], clients'[g]}
                          \/ "declines" \in policy /\ sock'[d].state = "declined"
    <3> SUFFICES ASSUME NEW g \in Fds, NEW d \in Conns, open'[g] = d
                 PROVE  \/ d \in {third'[g], clients'[g]}
                        \/ "declines" \in policy /\ sock'[d].state = "declined"
      OBVIOUS
    <3>1. d # c /\ sock[d].native = g /\ g # f
      BY <1>12, <2>1
    <3>2. sock[d].state = "declined" => sock'[d].state = "declined"
      BY <1>8, <1>10, <3>1 DEF Stays
    <3> QED BY <1>7, <1>11, <3>1, <3>2
  <2> QED BY <2>1, <2>2 DEF EveryDescriptorHasItsSocket
<1>14. Matched(sock)'
  BY <1>8, <1>10 DEF Matched
<1>15. MapsHoldLive'
  <2> SUFFICES ASSUME NEW g \in Fds, NEW d \in Conns, d \in {third'[g], clients'[g]}
               PROVE  sock'[d].state = "null" \/ (sock'[d].state = "connected" /\ sock'[d].native = g)
    BY DEF MapsHoldLive
  <2>1. g # f /\ d \in {third[g], clients[g]}
    BY <1>5, <1>7
  <2>2. sock[d].state = "null" \/ (sock[d].state = "connected" /\ sock[d].native = g)
    BY <1>11, <2>1 DEF MapsHoldLive
  <2>3. d # c
    BY <2>1, <2>2
  <2> QED BY <1>8, <1>10, <2>2, <2>3 DEF Stays
<1>16. NewcomersAreNew'
  <2> SUFFICES ASSUME NEW d \in Conns, conn'[d].peer \in {"away", "backlog"}
               PROVE  sock'[d].state = "none"
    BY DEF NewcomersAreNew
  <2>1. sock[d].state = "none"
    BY <1>10, <1>11 DEF Meets, NewcomersAreNew
  <2>2. d # c
    BY <2>1
  <2> QED BY <1>8, <1>10, <2>1, <2>2 DEF Stays
<1>17. HangupsAreReadable'
  BY <1>11 DEF HangupsAreReadable, Forgets
<1>18. EndsAreOpen'
  <2>1. "ends" \notin policy => \A d \in Conns : w.sock[d].closed = {}
    BY <1>11 DEF EndsAreOpen, Leads, WorldIs
  <2> QED BY <1>8, <1>9, <2>1 DEF EndsAreOpen
<1>19. fds' \in Seq(Entries)
  BY <1>1, <1>3, UnwatchRemoves
<1>20. ASSUME Careful PROVE Served'
  <2>1. Served
    BY <1>20 DEF Invariant
  <2>2. /\ Once(fds')
        /\ \A e : Has(fds', e) <=> Has(fds, e) /\ e.fd # f
    BY <1>1, <1>3, <2>1, UnwatchRemoves DEF Served
  <2>3. \A g : Watched(g)' <=> Watched(g) /\ g # f
    <3>1. \A g : Watched(g) <=> \E b \in BOOLEAN : Has(fds, [fd |-> g, write |-> b])
      BY <1>3, TableEntry DEF Watched
    <3>2. \A g : Watched(g)' <=> \E b \in BOOLEAN : Has(fds', [fd |-> g, write |-> b])
      BY <1>19, TableEntry DEF Watched
    <3>3. ASSUME NEW g, NEW b
          PROVE  Has(fds', [fd |-> g, write |-> b]) <=> Has(fds, [fd |-> g, write |-> b]) /\ g # f
      <4> DEFINE e == [fd |-> g, write |-> b]
      <4>1. e.fd = g
        OBVIOUS
      <4> HIDE DEF e
      <4>2. Has(fds', e) <=> Has(fds, e) /\ g # f
        BY <2>2, <4>1
      <4> QED BY <4>2 DEF e
    <3> QED BY <3>1, <3>2, <3>3
  <2>4. \A d \in Conns : d # c => sock'[d] = sock[d]
    BY <1>8, <1>20 DEF Leads, WorldIs, Careful
  <2>5. \A g \in Fds : open'[g] = IF g = f THEN None ELSE open[g]
    <3>1. \A g \in Fds, d \in Conns : open'[g] = d <=> sock'[d].native = g
      BY <1>13 DEF EveryDescriptorHasItsSocket
    <3>2. \A g \in Fds, d \in Conns : open'[g] = d <=> open[g] = d /\ g # f
      BY <1>5, <1>8, <1>11, <1>12, <2>4, <3>1
    <3> QED BY <1>3, <1>5, <1>6, <3>2
  <2>6. OpenIsWatched'
    <3>1. User(f)' = None /\ SocketOf(f)' = None
      BY <1>5, <1>7, <2>5 DEF User, SocketOf
    <3>2. ASSUME NEW g \in Fds, g # f PROVE User(g)' = User(g) /\ SocketOf(g)' = SocketOf(g)
      <4>1. open[g] # c
        BY <1>11, <3>2
      <4> QED BY <1>7, <2>4, <2>5, <3>2, <4>1 DEF User, SocketOf
    <3> QED BY <2>1, <2>3, <3>1, <3>2 DEF Served, OpenIsWatched
  <2>7. PendingOnce'
    BY <2>1 DEF Served, PendingOnce, Forgets
  <2>8. PendingIsWatched'
    BY <2>1, <2>2 DEF Served, PendingIsWatched, Forgets
  <2>9. WritesAreWatched'
    <3> SUFFICES ASSUME NEW d \in Conns, sock'[d].write, sock'[d].state = "connected"
                 PROVE  Has(fds', [fd |-> sock'[d].native, write |-> TRUE])
      BY DEF WritesAreWatched
    <3>1. d # c
      BY <1>8
    <3>2. sock'[d] = sock[d]
      BY <2>4, <3>1
    <3>3. Has(fds, [fd |-> sock[d].native, write |-> TRUE])
      BY <2>1, <3>2 DEF Served, WritesAreWatched
    <3>4. sock[d].native # f
      BY <1>11, <3>1
    <3> QED BY <2>2, <3>2, <3>3, <3>4
  <2>10. TheEndIsTold'
    <3> SUFFICES ASSUME NEW d \in Conns, ~Blocking(d)
                 PROVE  told'[d] = IF sock'[d].state \in {"null", "destroyed"} THEN 1 ELSE 0
      BY DEF TheEndIsTold, Blocking, Own
    <3>1. w.told[d] = told[d]
      BY DEF Leads, WorldIs
    <3>2. told[d] = IF sock[d].state \in {"null", "destroyed"} THEN 1 ELSE 0
      BY <2>1 DEF Served, TheEndIsTold
    <3>3. CASE d = c
      <4>1. told[c] = 0
        BY <3>2, <3>3
      <4>2. told'[c] = told[c] + 1
        BY <1>1, <1>4, <3>1, <3>3
      <4> QED BY <1>8, <3>3, <4>1, <4>2
    <3>4. CASE d # c
      <4>1. told'[d] = told[d]
        BY <1>1, <1>4, <3>1, <3>4
      <4> QED BY <2>4, <3>2, <3>4, <4>1
    <3> QED BY <3>3, <3>4
  <2>11. \A d \in Conns : sock'[d].state # "refused"
    BY <1>8, <2>1, <2>4 DEF Served
  <2> QED BY <2>2, <2>6, <2>7, <2>8, <2>9, <2>10, <2>11 DEF Served
<1> QED BY <1>6, <1>7, <1>13, <1>14, <1>15, <1>16, <1>17, <1>18, <1>19, <1>20 DEF Lives

\* The table after modify() or without it, for a descriptor that is watched.
LEMMA ModifiedTable ==
  ASSUME fds \in Seq(Entries), Once(fds), NEW f, Watched(f), NEW b \in BOOLEAN, fds' = Modify(f, b)
  PROVE  /\ Once(fds') /\ \A g : Watched(g)' <=> Watched(g)
         /\ \A g, a : g # f => (Has(fds', [fd |-> g, write |-> a]) <=> Has(fds, [fd |-> g, write |-> a]))
         /\ Has(fds', [fd |-> f, write |-> b])
         /\ \A a : Has(fds', [fd |-> f, write |-> a]) => a = b
<1>1. /\ fds' \in Seq(Entries) /\ Once(fds')
      /\ \A e : Has(fds', e) <=> \/ Has(fds, e) /\ e.fd # f
                                 \/ e = [fd |-> f, write |-> b]
  BY ModifyReplaces
<1>2. ASSUME NEW g, NEW a
      PROVE  Has(fds', [fd |-> g, write |-> a])
               <=> IF g = f THEN a = b ELSE Has(fds, [fd |-> g, write |-> a])
  <2> DEFINE e == [fd |-> g, write |-> a]
  <2>1. e.fd = g /\ (e = [fd |-> f, write |-> b] <=> g = f /\ a = b)
    OBVIOUS
  <2> HIDE DEF e
  <2>2. Has(fds', e) <=> IF g = f THEN a = b ELSE Has(fds, e)
    <3>1. Has(fds', e) <=> \/ Has(fds, e) /\ e.fd # f
                           \/ e = [fd |-> f, write |-> b]
      BY <1>1
    <3> QED BY <2>1, <3>1
  <2> QED BY <2>2 DEF e
<1>3. ASSUME NEW g PROVE Watched(g)' <=> Watched(g)
  <2>1. Watched(g) <=> \E a \in BOOLEAN : Has(fds, [fd |-> g, write |-> a])
    BY TableEntry DEF Watched
  <2>2. Watched(g)' <=> \E a \in BOOLEAN : Has(fds', [fd |-> g, write |-> a])
    BY <1>1, TableEntry DEF Watched
  <2>3. CASE g = f
    BY <1>2, <2>2, <2>3
  <2>4. CASE g # f
    <3>1. \A a : Has(fds', [fd |-> g, write |-> a]) <=> Has(fds, [fd |-> g, write |-> a])
      BY <1>2, <2>4
    <3> QED BY <2>1, <2>2, <3>1
  <2> QED BY <2>3, <2>4
<1> QED BY <1>1, <1>2, <1>3

\* The types of the next state by their names.
LEMMA TypesAfter ==
  ASSUME policy' \in Policies,
         conn' \in [Conns -> Connections], open' \in [Fds -> Conns \cup {None}],
         sock' \in [Conns -> Sockets], told' \in [Conns -> Nat],
         third' \in [Fds -> Conns \cup {None}], clients' \in [Fds -> Conns \cup {None}],
         fds' \in Seq(Entries), DOMAIN triggered' \subseteq Nat,
         \A i \in DOMAIN triggered' : triggered'[i] \in Events,
         running' \in BOOLEAN, canceled' \in BOOLEAN, stuck' \in BOOLEAN
  PROVE  TypeOK'
BY DEF TypeOK, Connections, Sockets, Entries, Events

\* The handler of an event, in the world its callbacks and system calls leave:
\* the invariant holds whether the socket ended, has something to send, has
\* nothing to send, or was left as it is.
LEMMA HandleEventKeeps ==
  ASSUME Invariant, NEW c \in Conns, HandleEvent(c)
  PROVE  Invariant'
<1> DEFINE e == Current
           f == sock[c].native
           reads == "read" \in e.flags \/ sock[c].read
<1>1. /\ Pending /\ e.fd # Listener /\ SocketOf(e.fd) = c /\ ~stuck
      /\ triggered' = Later /\ UNCHANGED <<policy, running, canceled>>
  BY DEF HandleEvent
<1>2. /\ WorldIs(World) /\ Sound(World) /\ Handled(World, c)
      /\ e.fd \in Fds /\ c \in {third[e.fd], clients[e.fd]}
      /\ sock[c].state = "null" <=> f = None
      /\ f # None => f = e.fd
      /\ Careful => sock[c].state = "connected" /\ f = e.fd /\ Watched(e.fd)
  BY <1>1, EventHasSocket
<1>3. PICK w \in Outcomes(c, e.flags, reads) :
        /\ stuck' = (reads /\ ~IsNull(w, c) /\ w.sock[c].read)
        /\ IF stuck' THEN Become(w) /\ fds' = fds ELSE Finish(c, f, e.flags, reads, w)
  BY DEF HandleEvent
<1>4. /\ TypeOK /\ fds \in Seq(Entries) /\ sock[c] \in Sockets
      /\ DOMAIN triggered \subseteq Nat /\ \A i \in DOMAIN triggered : triggered[i] \in Events
  BY TypeOKExpanded DEF Invariant
<1>5. /\ Place \in DOMAIN triggered /\ e = triggered[Place] /\ e \in Events
      /\ DOMAIN triggered' = DOMAIN triggered \ {Place}
      /\ \A i \in DOMAIN triggered' : triggered'[i] = triggered[i]
  BY <1>1, <1>4, LaterEvents
<1>6. Forgets
  BY <1>5 DEF Forgets
<1>7. "hangup" \in e.flags => reads
  BY <1>5 DEF Invariant, Lives, HangupsAreReadable
<1>8. reads \in BOOLEAN /\ stuck' \in BOOLEAN
  BY <1>3, <1>4 DEF Sockets
<1> HIDE DEF reads
<1>9. /\ Sound(w) /\ Leads(World, w, c)
      /\ reads /\ ~IsNull(w, c) /\ w.sock[c].read =>
           "errors" \notin policy \/ "leaves" \in policy
  BY <1>2, <1>3, <1>8, OutcomesKeep
<1> HIDE DEF e, f
<1>10. HandlersReturn'
  BY <1>1, <1>3, <1>9 DEF HandlersReturn
<1>11. /\ Stays(sock[c], w.sock[c])
       /\ w.sock[c].write = sock[c].write \/ c \in w.did_write
       /\ "ends" \notin policy => w.sock[c].closed = {}
  BY <1>2, <1>9 DEF Leads, WorldIs, Invariant, Lives, EndsAreOpen
<1>12. /\ DOMAIN triggered' \subseteq Nat /\ \A i \in DOMAIN triggered' : triggered'[i] \in Events
       /\ policy' \in Policies /\ running' \in BOOLEAN /\ canceled' \in BOOLEAN
  BY <1>1, <1>4, <1>5 DEF TypeOK, Events
<1>13. /\ third \in [Fds -> Conns \cup {None}] /\ clients \in [Fds -> Conns \cup {None}]
  BY TypeOKExpanded DEF Invariant
<1>14. Matched(w.sock) /\ None \notin Fds
  BY <1>9, ServerAssumption DEF Sound
<1>15. ASSUME Careful
       PROVE  /\ f = e.fd /\ f \in Fds /\ Watched(f) /\ sock[c].state = "connected"
              /\ "ends" \notin policy /\ Served /\ Once(fds)
              /\ sock[c].write => Has(fds, [fd |-> f, write |-> TRUE])
  BY <1>1, <1>2, <1>15 DEF Careful, Invariant, Served, WritesAreWatched, f
<1>16. ASSUME NEW u, Sound(u), Leads(World, u, c), Become(u), fds' \in Seq(Entries)
       PROVE  Lives' /\ TypeOK'
  <2>1. /\ Lives'
        /\ conn' \in [Conns -> Connections] /\ open' \in [Fds -> Conns \cup {None}]
        /\ sock' \in [Conns -> Sockets] /\ told' \in [Conns -> Nat]
        /\ third' = third /\ clients' = clients
    BY <1>1, <1>2, <1>6, <1>16, BecomeKeeps
  <2> QED BY <1>8, <1>12, <1>13, <1>16, <2>1, TypesAfter
<1>17. CASE stuck' /\ Become(w) /\ fds' = fds
  <2>1. Lives' /\ TypeOK'
    BY <1>4, <1>9, <1>16, <1>17
  <2>2. ASSUME Careful PROVE Served'
    <3>1. w.sock[c].state = "connected" /\ stuck'
      BY <1>3, <1>11, <1>15, <1>17, <2>2 DEF IsNull, Stays
    <3>3. \A i \in DOMAIN triggered' :
            triggered'[i].fd = f /\ "write" \in triggered'[i].flags => ~Has(fds', [fd |-> f, write |-> FALSE])
      BY <1>5, <1>15, <1>17, <2>2 DEF Served, PendingIsWatched
    <3>4. sock[c].native = f
      BY DEF f
    <3>5. /\ fds' \in Seq(Entries) /\ Once(fds') /\ \A g : Watched(g)' <=> Watched(g)
          /\ \A g, b : g # f => (Has(fds', [fd |-> g, write |-> b]) <=> Has(fds, [fd |-> g, write |-> b]))
      BY <1>4, <1>15, <1>17, <2>2 DEF Watched
    <3> QED BY <1>1, <1>2, <1>6, <1>9, <1>15, <1>17, <2>2, <3>1, <3>3, <3>4, <3>5, GoesOn
  <2> QED BY <1>1, <1>10, <2>1, <2>2 DEF Invariant, Careful
<1> DEFINE ended == \/ "hangup" \in e.flags /\ ~reads
                    \/ IsNull(w, c) /\ sock[c].state # "null"
           spent == "write" \in e.flags /\ ~w.sock[c].write
<1>18. CASE ended /\ End(c, f, w)
  <2>1. /\ w.sock[c].state = "null" /\ w.sock[c].native = None
        /\ sock[c].state = "connected" /\ f \in Fds
    BY <1>2, <1>7, <1>11, <1>14, <1>18 DEF IsNull, Stays, Matched
  <2>2. EndsAt(c, f, w)
    BY <1>9, <1>18, <2>1, EndResults
  <2>3. sock[c].native = f
    BY DEF f
  <2>4. /\ Lives'
        /\ conn' \in [Conns -> Connections] /\ open' \in [Fds -> Conns \cup {None}]
        /\ sock' \in [Conns -> Sockets] /\ told' \in [Conns -> Nat]
        /\ third' \in [Fds -> Conns \cup {None}] /\ clients' \in [Fds -> Conns \cup {None}]
        /\ fds' \in Seq(Entries)
        /\ Careful => Served'
    BY <1>1, <1>2, <1>6, <1>9, <2>1, <2>2, <2>3, EndKeeps
  <2>5. TypeOK'
    BY <1>8, <1>12, <2>4, TypesAfter
  <2> QED BY <1>1, <1>10, <2>4, <2>5 DEF Invariant, Careful
<1>19. CASE ~ended /\ c \in w.did_write /\ Become(w) /\ fds' = Modify(f, TRUE)
  <2> DEFINE on == TRUE
  <2>1. fds' = Modify(f, on) /\ on \in BOOLEAN /\ on = TRUE
    BY <1>19
  <2> HIDE DEF on
  <2>2. fds' \in Seq(Entries)
    BY <1>4, <2>1, ModifyReplaces
  <2>3. Lives' /\ TypeOK'
    BY <1>9, <1>16, <1>19, <2>2
  <2>4. ASSUME Careful PROVE Served'
    <3>1. w.sock[c].state = "connected"
      BY <1>11, <1>15, <1>19, <2>4 DEF IsNull, Stays
    <3>2. /\ Once(fds') /\ \A g : Watched(g)' <=> Watched(g)
          /\ \A g, a : g # f => (Has(fds', [fd |-> g, write |-> a]) <=> Has(fds, [fd |-> g, write |-> a]))
          /\ Has(fds', [fd |-> f, write |-> TRUE])
          /\ \A a : Has(fds', [fd |-> f, write |-> a]) => a = TRUE
      BY <1>4, <1>15, <2>1, <2>4, ModifiedTable
    <3>3. ~Has(fds', [fd |-> f, write |-> FALSE])
      BY <3>2
    <3>4. sock[c].native = f
      BY DEF f
    <3> QED BY <1>1, <1>2, <1>6, <1>9, <1>15, <1>19, <2>2, <2>4, <3>1, <3>2, <3>3, <3>4, GoesOn
  <2> QED BY <1>1, <1>10, <2>3, <2>4 DEF Invariant, Careful
<1>20. CASE ~ended /\ c \notin w.did_write /\ spent /\ Idle(c, f, w)
  <2> DEFINE off == FALSE
  <2>1. PICK u : /\ Become(u) /\ Sound(u) /\ Leads(w, u, c)
                 /\ w.sock[c].closed = {} => u.sock = w.sock
    BY <1>2, <1>9, <1>20, IdleKeeps, HandledOn
  <2>2. fds' = Modify(f, off) /\ off \in BOOLEAN /\ off = FALSE
    BY <1>2, <1>9, <1>20, IdleKeeps, HandledOn
  <2> HIDE DEF off
  <2>3. fds' \in Seq(Entries)
    BY <1>4, <2>2, ModifyReplaces
  <2>4. Leads(World, u, c)
    BY <1>9, <2>1, LeadsOn
  <2>5. Lives' /\ TypeOK'
    BY <1>16, <2>1, <2>3, <2>4
  <2>6. ASSUME Careful PROVE Served'
    <3>1. u.sock = w.sock /\ w.sock[c].state = "connected" /\ ~w.sock[c].write
      BY <1>11, <1>15, <1>20, <2>1, <2>6 DEF IsNull, Stays
    <3>2. /\ Once(fds') /\ \A g : Watched(g)' <=> Watched(g)
          /\ \A g, a : g # f => (Has(fds', [fd |-> g, write |-> a]) <=> Has(fds, [fd |-> g, write |-> a]))
      BY <1>4, <1>15, <2>2, <2>6, ModifiedTable
    <3>3. \A i \in DOMAIN triggered' : triggered'[i].fd # f
      BY <1>5, <1>15, <2>6 DEF Served, PendingOnce
    <3>4. sock[c].native = f
      BY DEF f
    <3> QED BY <1>1, <1>2, <1>6, <1>15, <2>1, <2>3, <2>4, <2>6, <3>1, <3>2, <3>3, <3>4, GoesOn
  <2> QED BY <1>1, <1>10, <2>5, <2>6 DEF Invariant, Careful
<1>21. CASE ~ended /\ c \notin w.did_write /\ ~spent /\ Become(w) /\ fds' = fds
  <2>1. Lives' /\ TypeOK'
    BY <1>4, <1>9, <1>16, <1>21
  <2>2. ASSUME Careful PROVE Served'
    <3>1. w.sock[c].state = "connected"
      BY <1>11, <1>15, <1>21, <2>2 DEF IsNull, Stays
    <3>2. w.sock[c].write => Has(fds', [fd |-> f, write |-> TRUE])
      BY <1>11, <1>15, <1>21, <2>2
    <3>3. \A i \in DOMAIN triggered' :
            triggered'[i].fd = f /\ "write" \in triggered'[i].flags => ~Has(fds', [fd |-> f, write |-> FALSE])
      BY <1>5, <1>15, <1>21, <2>2 DEF Served, PendingIsWatched
    <3>4. sock[c].native = f
      BY DEF f
    <3>5. /\ fds' \in Seq(Entries) /\ Once(fds') /\ \A g : Watched(g)' <=> Watched(g)
          /\ \A g, b : g # f => (Has(fds', [fd |-> g, write |-> b]) <=> Has(fds, [fd |-> g, write |-> b]))
      BY <1>4, <1>15, <1>21, <2>2 DEF Watched
    <3> QED BY <1>1, <1>2, <1>6, <1>9, <1>15, <1>21, <2>2, <3>1, <3>2, <3>3, <3>4, <3>5, GoesOn
  <2> QED BY <1>1, <1>10, <2>1, <2>2 DEF Invariant, Careful
<1>22. \/ stuck' /\ Become(w) /\ fds' = fds
       \/ ended /\ End(c, f, w)
       \/ ~ended /\ c \in w.did_write /\ Become(w) /\ fds' = Modify(f, TRUE)
       \/ ~ended /\ c \notin w.did_write /\ spent /\ Idle(c, f, w)
       \/ ~ended /\ c \notin w.did_write /\ ~spent /\ Become(w) /\ fds' = fds
  BY <1>3 DEF Finish
<1> QED BY <1>17, <1>18, <1>19, <1>20, <1>21, <1>22

-----------------------------------------------------------------------------
(* Every step, and what follows for every behaviour.                       *)

\* Every step keeps the invariant.
LEMMA NextKeeps ==
  ASSUME Invariant, [Next]_vars
  PROVE  Invariant'
<1>1. /\ running \in BOOLEAN /\ canceled \in BOOLEAN
      /\ DOMAIN triggered \subseteq Nat /\ \A i \in DOMAIN triggered : triggered[i] \in Events
  BY DEF Invariant, TypeOK
<1>2. Pending => /\ DOMAIN Later \subseteq DOMAIN triggered
                 /\ \A i \in DOMAIN Later : Later[i] = triggered[i]
  BY <1>1, LaterEvents
<1>3. CASE Poll
  BY <1>3, PollKeeps
<1>4. CASE Return \/ Run \/ Cancel \/ UNCHANGED vars
  BY <1>1, <1>4, ForgettingKeeps DEF Return, Run, Cancel, vars, server
<1>5. CASE AcceptedAll \/ NotServed
  BY <1>1, <1>2, <1>5, ForgettingKeeps DEF AcceptedAll, NotServed, Handling
<1>6. ASSUME NEW c \in Conns, Accept(c) \/ AcceptFails(c) \/ ServeSocket(c) PROVE Invariant'
  BY <1>6, AcceptKeeps, AcceptFailsKeeps, ServeSocketKeeps
<1>7. ASSUME NEW c \in Conns, HandleEvent(c) PROVE Invariant'
  BY <1>7, HandleEventKeeps
<1>8. ASSUME NEW c \in Conns,
             PeerConnects(c) \/ PeerSends(c) \/ PeerLeaves(c) \/ KernelSends(c)
      PROVE  Invariant'
  BY <1>8, PeersKeep
<1> QED BY <1>3, <1>4, <1>5, <1>6, <1>7, <1>8 DEF Next, Serve

\* The inductive invariant holds in every state of the server: the tables and the
\* sockets agree, and what the code's next steps rely on besides.
THEOREM Always == Spec => []Invariant
<1>1. Invariant /\ [Next]_vars => Invariant'
  BY NextKeeps
<1> QED BY <1>1, Initially, PTL DEF Spec

\* The server's maps, the watcher's table, the kernel's descriptors and the
\* sockets agree, whatever peers do and however descriptors are given out again:
\* none is shared or closed twice, and only those create() declined are leaked; and
\* with an application whose
\* callbacks act on their own sockets, no event reaches another connection's
\* socket, nobody is refused, and bytes that wait are watched for.
THEOREM MapsAndTableAgree == Spec => []TablesAgree
<1>1. Invariant => TablesAgree
  BY InvariantImplies
<1> QED BY <1>1, Always, PTL

\* A non-blocking socket's end is announced exactly once, by the server, before
\* the socket is destroyed.
THEOREM EveryEndIsAnnouncedOnce == Spec => []EndIsAnnouncedOnce
<1>1. Invariant => EndIsAnnouncedOnce
  BY InvariantImplies
<1> QED BY <1>1, Always, PTL

\* The loop that has a readable socket read ends, when error() disconnects the
\* socket and ready_read() reads; and accept()'s loop does, when the listener's
\* connected() reports no error.
THEOREM EveryHandlerReturns == Spec => []HandlersReturn
<1>1. Invariant => HandlersReturn
  BY InvariantImplies
<1> QED BY <1>1, Always, PTL

-----------------------------------------------------------------------------
(* The HTTP sockets that run under it.                                      *)

\* All that the server's application may answer.
Given == UNION {Answers[<<r.first, r.close>>] : r \in Requests}
\* The kinds of the values in the model.
Firsts == {""} \cup {m.first : m \in Requests \cup Given}
Lengths == Nat \cup {NoLength}
Tokens == [is : {"start", "close", "length", "end", "byte"}, of : Nat, first : Firsts, n : Lengths]
Messages == [of : 0..MaxRequests, first : Firsts, length : Lengths, close : BOOLEAN, fields : Nat]
Readers == [status : Kinds, line : Seq(Tokens), message : Messages, expected : Lengths]

\* t is one of the tokens that m is written as.
IsToken(m, t) ==
  \/ t = Token("start", t.of, m.first, m.fields)
  \/ m.close /\ t = Token("close", t.of, "", 0)
  \/ m.length # NoLength /\ t = Token("length", t.of, "", m.length)
  \/ t = Token("end", t.of, "", 0)
  \/ t.n \in 1..m.body /\ t = Byte(t.of, t.n)

\* t is the last of them.
Completes(m, t) == (t.is = "end" /\ m.body = 0) \/ (t.is = "byte" /\ t.n = m.body)

\* The line that comes after a start line or a header.
NextLine(m, is) ==
  IF is = "start" /\ m.close THEN "close"
  ELSE IF is \in {"start", "close"} /\ m.length # NoLength THEN "length" ELSE "end"

\* u comes right after t, a token of m.
Follows(m, t, u) ==
  /\ Completes(m, t) => u.is = "start" /\ u.of = t.of + 1
  /\ (t.is = "end" /\ m.body # 0) => u = Byte(t.of, 1)
  /\ (t.is = "byte" /\ t.n # m.body) => u = Byte(t.of, t.n + 1)
  /\ t.is \in {"start", "close", "length"} => u.is = NextLine(m, t.is) /\ u.of = t.of

\* A connection holds the messages ms one behind the other, from some token on.
Stream(q, ms) ==
  /\ q \in Seq(Tokens)
  /\ \A k \in 1..Len(q) : q[k].of \in 1..Len(ms) /\ IsToken(ms[q[k].of], q[k])
  /\ \A k \in 1..(Len(q) - 1) : Follows(ms[q[k].of], q[k], q[k + 1])

\* ... to the end of one, and to the end of the last.
Ended(q, ms) == Completes(ms[q[Len(q)].of], q[Len(q)])
Whole(q, ms) == Ended(q, ms) /\ q[Len(q)].of = Len(ms)

\* The bytes of a body, up to the nth.
Bytes(i, n) == [k \in 1..n |-> Byte(i, k)]

\* The message as far as it is known before a token of that kind is read.
Seen(m, i, is) == [of |-> i, first |-> m.first,
                   length |-> IF is \in {"end", "byte"} THEN m.length ELSE NoLength,
                   close |-> m.close /\ is # "close", fields |-> m.fields]

\* A socket that has read the headers of m and n bytes of its body.
Reading(m, i, n, expected) ==
  [status |-> "reading_body", line |-> Bytes(i, n), message |-> Seen(m, i, "byte"), expected |-> expected]

\* A socket for which t, a token of m, is the next to be read.
Before(m, t) ==
  CASE t.is = "start" -> Ready
    [] t.is = "byte" -> Reading(m, t.of, t.n - 1,
                                IF m.length = NoLength THEN NoLength ELSE m.length - (t.n - 1))
    [] OTHER -> [status |-> "reading_headers", line |-> <<>>, message |-> Seen(m, t.of, t.is), expected |-> 0]

(* The invariant.                                                          *)

HServerTypes ==
  /\ serving \in Readers /\ left \in Messages
  /\ sent \in Seq(Requests) /\ Len(sent) <= MaxRequests
  /\ received \in Seq([message : Messages, body : Seq(Tokens)]) /\ Len(received) <= Len(sent)

HTypes ==
  /\ alive \in BOOLEAN /\ failed = FALSE /\ begun \in Kinds
  /\ client \in Readers /\ answered \in Seq(Given)
  /\ delivered \in Seq([request : Nat, message : Messages, body : Seq(Tokens)])
  /\ requests \in Seq([first : Firsts, close : BOOLEAN, of : Nat])

\* A response to every request that was received; the others wait, oldest first, and whoever
\* sent a request with a body, or asked to close, sends no more.
HCounts == Len(received) = Len(answered) /\ Len(answered) <= Len(sent) /\ Len(delivered) <= Len(answered)
HGuards == \A k \in 1..(Len(sent) - 1) : sent[k].length = NoLength /\ ~sent[k].close
HAnswers == \A i \in 1..Len(answered) : answered[i] \in Answers[<<sent[i].first, sent[i].close>>]
HRequests ==
  /\ Len(requests) = Len(sent) - Len(delivered)
  /\ \A j \in 1..Len(requests) :
       requests[j] = [first |-> sent[Len(delivered) + j].first, close |-> sent[Len(delivered) + j].close,
                      of |-> Len(delivered) + j]

\* The server stands before the first token under way to it; with nothing under way it is
\* between two requests, or behind the only one that may have a body.
HUp ==
  /\ Stream(up, sent)
  /\ up # <<>> => /\ up[1].of = Len(received) + 1 /\ serving = Before(sent[up[1].of], up[1])
                  /\ Ended(up, sent) /\ (alive => Whole(up, sent))
  /\ alive /\ up = <<>> => \/ serving = Ready /\ Len(received) = Len(sent)
                           \/ Len(sent) # 0 /\ sent[Len(sent)].length # NoLength

\* A response that waits for the next byte to be handed over, or for the end of the connection.
Waiting ==
  LET i == Len(delivered) + 1
  IN  /\ i <= Len(answered)
      /\ \/ answered[i].length = 0 /\ answered[i].body = 0 /\ client = Reading(answered[i], i, 0, 0)
         \/ /\ answered[i].length = NoLength /\ sent[i].close
            /\ client = Reading(answered[i], i, answered[i].body, NoLength)

\* The client likewise, as long as it is connected; a response that waits is handed over late.
HDown ==
  alive =>
    /\ Stream(down, answered)
    /\ down # <<>> => /\ Whole(down, answered)
                      /\ \/ down[1].of = Len(delivered) + 1 /\ client = Before(answered[down[1].of], down[1])
                         \/ down[1].of = Len(delivered) + 2 /\ down[1].is = "start" /\ Waiting
    /\ down = <<>> => \/ client = Ready /\ Len(delivered) = Len(answered)
                      \/ Waiting /\ Len(answered) = Len(delivered) + 1

\* What the server's request still holds is of requests that were received.
HLeft ==
  /\ left.length = NoLength \/ \E k \in 1..Len(received) : left.length = sent[k].length
  /\ left.close = FALSE \/ \E k \in 1..Len(received) : sent[k].close
  /\ left.fields = 0 \/ \E k \in 1..Len(received) : left.fields = sent[k].fields

\* What the applications got.
Got(i) ==
  /\ received[i].message.of = i /\ received[i].message.first = sent[i].first
  /\ received[i].message.length = sent[i].length /\ received[i].message.close = sent[i].close
  /\ \/ received[i].message.fields = sent[i].fields
     \/ sent[i].fields = 0 /\ \E k \in 1..(i - 1) : received[i].message.fields = sent[k].fields
  /\ received[i].body = Bytes(i, sent[i].body)
HReceived == \A i \in 1..Len(received) : Got(i)

HDelivered == \A i \in 1..Len(delivered) :
  /\ delivered[i].request = i /\ delivered[i].message.of = i /\ delivered[i].message.first = answered[i].first
  /\ IF answered[i].length = NoLength THEN IsPrefix(delivered[i].body, Bytes(i, answered[i].body))
     ELSE delivered[i].body = Bytes(i, answered[i].body)

\* However the client began, and if it began as it should.
HServer == HServerTypes /\ HGuards /\ HUp /\ HLeft /\ HReceived
HInv == HServer /\ HTypes /\ HCounts /\ HAnswers /\ HRequests /\ HDown /\ HDelivered

-----------------------------------------------------------------------------
(* Bodies, and what messages are written as.                               *)

LEMMA BytesAre ==
  ASSUME NEW i \in Nat, NEW n \in Nat
  PROVE  /\ Bytes(i, n) \in Seq(Tokens) /\ Len(Bytes(i, n)) = n /\ Bytes(i, 0) = <<>>
         /\ \A k \in 1..n : Bytes(i, n)[k] = Byte(i, k)
         /\ Append(Bytes(i, n), Byte(i, n + 1)) = Bytes(i, n + 1)
<1>1. \A k \in Nat : Byte(i, k) \in Tokens
  BY DEF Byte, Token, Tokens, Firsts, Lengths
<1> DEFINE b == Byte(i, n + 1)
<1>2. \A k \in 1..n : k \in Nat
  OBVIOUS
<1>3. Bytes(i, n) \in [1..n -> Tokens]
  BY <1>1, <1>2 DEF Bytes
<1>4. Bytes(i, n) \in Seq(Tokens) /\ Len(Bytes(i, n)) = n
  BY <1>3
<1>5. \A k \in 1..n : Bytes(i, n)[k] = Byte(i, k)
  BY DEF Bytes
<1>6. Bytes(i, 0) = <<>>
  BY DEF Bytes
<1>7. Append(Bytes(i, n), b) = Bytes(i, n + 1)
  <2> DEFINE f == Bytes(i, n)
             g == Append(f, b)
             h == Bytes(i, n + 1)
  <2>1. b \in Tokens
    BY <1>1
  <2>2. h = [k \in 1..(n + 1) |-> Byte(i, k)] /\ b = h[n + 1]
    BY DEF Bytes
  <2> HIDE DEF b, f
  <2>3. g \in Seq(Tokens) /\ Len(g) = n + 1 /\ g[n + 1] = b /\ \A k \in 1..n : g[k] = f[k]
    BY <1>4, <2>1 DEF f
  <2> HIDE DEF g, h
  <2>5. \A k \in 1..(n + 1) : g[k] = h[k]
    <3> SUFFICES ASSUME NEW k \in 1..(n + 1) PROVE g[k] = h[k]
      OBVIOUS
    <3>1. CASE k = n + 1
      BY <2>2, <2>3, <3>1
    <3>2. CASE k # n + 1
      <4>1. k \in 1..n
        BY <3>2
      <4> QED BY <1>5, <2>2, <2>3, <4>1 DEF f
    <3> QED BY <3>1, <3>2
  <2>6. h \in Seq(Tokens) /\ Len(h) = n + 1
    <3>1. \A k \in 1..(n + 1) : k \in Nat
      OBVIOUS
    <3>2. h \in [1..(n + 1) -> Tokens]
      BY <1>1, <2>2, <3>1
    <3> QED BY <3>2
  <2>7. g = h
    BY <2>3, <2>5, <2>6, SeqEqual
  <2> QED BY <2>7 DEF g, h, f
<1> QED BY <1>4, <1>5, <1>6, <1>7

\* One sequence behind the other.
LEMMA BehindIs ==
  ASSUME NEW S, NEW q \in Seq(S), NEW w \in Seq(S)
  PROVE  /\ q \o w \in Seq(S) /\ Len(q \o w) = Len(q) + Len(w) /\ Len(q) \in Nat /\ Len(w) \in Nat
         /\ \A k \in 1..Len(q) : (q \o w)[k] = q[k]
         /\ \A k \in 1..Len(w) : (q \o w)[Len(q) + k] = w[k]
<1>1. Len(q) \in Nat /\ Len(w) \in Nat
  OBVIOUS
<1>2. q \o w \in Seq(S) /\ Len(q \o w) = Len(q) + Len(w)
  OBVIOUS
<1>3. ASSUME NEW k \in 1..Len(q) PROVE (q \o w)[k] = q[k]
  OBVIOUS
<1>4. ASSUME NEW k \in 1..Len(w) PROVE (q \o w)[Len(q) + k] = w[k]
  <2>1. Len(q) + k \in 1..(Len(q) + Len(w)) /\ ~(Len(q) + k <= Len(q)) /\ Len(q) + k - Len(q) = k
    BY <1>1
  <2> QED BY <2>1
<1> QED BY <1>1, <1>2, <1>3, <1>4

\* One more element.
LEMMA AddedIs ==
  ASSUME NEW S, NEW s \in Seq(S), NEW e \in S, NEW n \in Nat, Len(s) = n
  PROVE  /\ s \o <<e>> \in Seq(S) /\ Len(s \o <<e>>) = n + 1 /\ (s \o <<e>>)[n + 1] = e
         /\ \A k \in 1..n : (s \o <<e>>)[k] = s[k]
<1>1. <<e>> \in Seq(S) /\ Len(<<e>>) = 1 /\ <<e>>[1] = e /\ 1 \in 1..1
  OBVIOUS
<1> QED BY <1>1, BehindIs

\* What the headers of a message are written as.
Heads(m, i) ==
  <<Token("start", i, m.first, m.fields)>>
  \o (IF m.close THEN <<Token("close", i, "", 0)>> ELSE <<>>)
  \o (IF m.length # NoLength THEN <<Token("length", i, "", m.length)>> ELSE <<>>)
  \o <<Token("end", i, "", 0)>>

LEMMA HeadsAre ==
  ASSUME NEW m, NEW i \in Nat,
         m.first \in Firsts, m.length \in Lengths, m.close \in BOOLEAN, m.fields \in Nat
  PROVE  LET h == Heads(m, i)
         IN  /\ h \in Seq(Tokens) /\ Len(h) \in Nat /\ Len(h) >= 1 /\ h[1] = Token("start", i, m.first, m.fields)
             /\ \A k \in 1..Len(h) : h[k].of = i /\ IsToken(m, h[k])
             /\ \A k \in 1..(Len(h) - 1) : /\ h[k].is \in {"start", "close", "length"}
                                           /\ h[k + 1].is = NextLine(m, h[k].is)
             /\ h[Len(h)].is = "end"
<1> DEFINE start == Token("start", i, m.first, m.fields)
           close == Token("close", i, "", 0)
           length == Token("length", i, "", m.length)
           end == Token("end", i, "", 0)
<1>1. start \in Tokens /\ start.is = "start" /\ start.of = i /\ IsToken(m, start)
  BY DEF Token, Tokens, Lengths, IsToken
<1>2. close \in Tokens /\ close.is = "close" /\ close.of = i /\ (m.close => IsToken(m, close))
  BY DEF Token, Tokens, Lengths, Firsts, IsToken
<1>3. /\ length \in Tokens /\ length.is = "length" /\ length.of = i
      /\ m.length # NoLength => IsToken(m, length)
  BY DEF Token, Tokens, Lengths, Firsts, IsToken
<1>4. end \in Tokens /\ end.is = "end" /\ end.of = i /\ IsToken(m, end)
  BY DEF Token, Tokens, Lengths, Firsts, IsToken
<1>5. Heads(m, i) = (<<start>> \o (IF m.close THEN <<close>> ELSE <<>>)
                     \o (IF m.length # NoLength THEN <<length>> ELSE <<>>)) \o <<end>>
  BY DEF Heads
<1> HIDE DEF start, close, length, end
<1> SUFFICES ASSUME NEW h, h = Heads(m, i)
             PROVE  /\ h \in Seq(Tokens) /\ Len(h) \in Nat /\ Len(h) >= 1 /\ h[1] = start
                    /\ \A k \in 1..Len(h) : h[k].of = i /\ IsToken(m, h[k])
                    /\ \A k \in 1..(Len(h) - 1) : /\ h[k].is \in {"start", "close", "length"}
                                                  /\ h[k + 1].is = NextLine(m, h[k].is)
                    /\ h[Len(h)].is = "end"
  BY DEF start
<1>6. CASE m.close /\ m.length # NoLength
  <2>1. <<start>> \in Seq(Tokens) /\ Len(<<start>>) = 1 /\ <<start>>[1] = start
    BY <1>1
  <2>2. /\ <<start>> \o <<close>> \in Seq(Tokens) /\ Len(<<start>> \o <<close>>) = 2
        /\ (<<start>> \o <<close>>)[1] = start
        /\ (<<start>> \o <<close>>)[2] = close
    BY <1>2, <2>1, AddedIs
  <2>3. /\ (<<start>> \o <<close>>) \o <<length>> \in Seq(Tokens)
        /\ Len((<<start>> \o <<close>>) \o <<length>>) = 3
        /\ ((<<start>> \o <<close>>) \o <<length>>)[1] = start
        /\ ((<<start>> \o <<close>>) \o <<length>>)[2] = close
        /\ ((<<start>> \o <<close>>) \o <<length>>)[3] = length
    BY <1>3, <2>2, AddedIs
  <2>4. /\ ((<<start>> \o <<close>>) \o <<length>>) \o <<end>> \in Seq(Tokens)
        /\ Len(((<<start>> \o <<close>>) \o <<length>>) \o <<end>>) = 4
        /\ (((<<start>> \o <<close>>) \o <<length>>) \o <<end>>)[1] = start
        /\ (((<<start>> \o <<close>>) \o <<length>>) \o <<end>>)[2] = close
        /\ (((<<start>> \o <<close>>) \o <<length>>) \o <<end>>)[3] = length
        /\ (((<<start>> \o <<close>>) \o <<length>>) \o <<end>>)[4] = end
    BY <1>4, <2>3, AddedIs
  <2>5. h = ((<<start>> \o <<close>>) \o <<length>>) \o <<end>>
    BY <1>5, <1>6, <2>1, <2>2, <2>3, <2>4
  <2>6. Len(h) = 4 /\ h \in Seq(Tokens) /\ h[1] = start /\ h[2] = close /\ h[3] = length /\ h[4] = end
    BY <2>4, <2>5
  <2> QED BY <1>1, <1>2, <1>3, <1>4, <1>6, <2>6 DEF NextLine
<1>7. CASE m.close /\ m.length = NoLength
  <2>1. <<start>> \in Seq(Tokens) /\ Len(<<start>>) = 1 /\ <<start>>[1] = start
    BY <1>1
  <2>2. /\ <<start>> \o <<close>> \in Seq(Tokens) /\ Len(<<start>> \o <<close>>) = 2
        /\ (<<start>> \o <<close>>)[1] = start
        /\ (<<start>> \o <<close>>)[2] = close
    BY <1>2, <2>1, AddedIs
  <2>3. /\ (<<start>> \o <<close>>) \o <<end>> \in Seq(Tokens) /\ Len((<<start>> \o <<close>>) \o <<end>>) = 3
        /\ ((<<start>> \o <<close>>) \o <<end>>)[1] = start
        /\ ((<<start>> \o <<close>>) \o <<end>>)[2] = close
        /\ ((<<start>> \o <<close>>) \o <<end>>)[3] = end
    BY <1>4, <2>2, AddedIs
  <2>4. h = (<<start>> \o <<close>>) \o <<end>>
    BY <1>5, <1>7, ConcatEmptySeq, <2>1, <2>2, <2>3
  <2>5. Len(h) = 3 /\ h \in Seq(Tokens) /\ h[1] = start /\ h[2] = close /\ h[3] = end
    BY <2>3, <2>4
  <2> QED BY <1>1, <1>2, <1>4, <1>7, <2>5 DEF NextLine
<1>8. CASE ~m.close /\ m.length # NoLength
  <2>1. <<start>> \in Seq(Tokens) /\ Len(<<start>>) = 1 /\ <<start>>[1] = start
    BY <1>1
  <2>2. /\ <<start>> \o <<length>> \in Seq(Tokens) /\ Len(<<start>> \o <<length>>) = 2
        /\ (<<start>> \o <<length>>)[1] = start
        /\ (<<start>> \o <<length>>)[2] = length
    BY <1>3, <2>1, AddedIs
  <2>3. /\ (<<start>> \o <<length>>) \o <<end>> \in Seq(Tokens) /\ Len((<<start>> \o <<length>>) \o <<end>>) = 3
        /\ ((<<start>> \o <<length>>) \o <<end>>)[1] = start
        /\ ((<<start>> \o <<length>>) \o <<end>>)[2] = length
        /\ ((<<start>> \o <<length>>) \o <<end>>)[3] = end
    BY <1>4, <2>2, AddedIs
  <2>4. h = (<<start>> \o <<length>>) \o <<end>>
    BY <1>5, <1>8, ConcatEmptySeq, <2>1, <2>2, <2>3
  <2>5. Len(h) = 3 /\ h \in Seq(Tokens) /\ h[1] = start /\ h[2] = length /\ h[3] = end
    BY <2>3, <2>4
  <2> QED BY <1>1, <1>3, <1>4, <1>8, <2>5 DEF NextLine
<1>9. CASE ~m.close /\ m.length = NoLength
  <2>1. <<start>> \in Seq(Tokens) /\ Len(<<start>>) = 1 /\ <<start>>[1] = start
    BY <1>1
  <2>2. /\ <<start>> \o <<end>> \in Seq(Tokens) /\ Len(<<start>> \o <<end>>) = 2
        /\ (<<start>> \o <<end>>)[1] = start
        /\ (<<start>> \o <<end>>)[2] = end
    BY <1>4, <2>1, AddedIs
  <2>3. h = <<start>> \o <<end>>
    BY <1>5, <1>9, ConcatEmptySeq, <2>1, <2>2
  <2>4. Len(h) = 2 /\ h \in Seq(Tokens) /\ h[1] = start /\ h[2] = end
    BY <2>2, <2>3
  <2> QED BY <1>1, <1>4, <1>9, <2>4 DEF NextLine
<1> QED BY <1>6, <1>7, <1>8, <1>9

LEMMA WrittenIs ==
  ASSUME NEW m, NEW i \in Nat,
         m.first \in Firsts, m.length \in Lengths, m.close \in BOOLEAN, m.fields \in Nat, m.body \in Nat
  PROVE  LET w == Written(m, i)
         IN  /\ w \in Seq(Tokens) /\ Len(w) \in Nat /\ Len(w) >= 1 /\ w[1] = Token("start", i, m.first, m.fields)
             /\ \A k \in 1..Len(w) : w[k].of = i /\ IsToken(m, w[k])
             /\ \A k \in 1..(Len(w) - 1) : Follows(m, w[k], w[k + 1])
             /\ Completes(m, w[Len(w)])
<1> DEFINE h == Heads(m, i)
           b == Bytes(i, m.body)
           n == Len(h)
           w == h \o b
<1>1. Written(m, i) = w
  BY DEF Written, Heads, Bytes
<1>2. /\ h \in Seq(Tokens) /\ n \in Nat /\ n >= 1 /\ h[1] = Token("start", i, m.first, m.fields)
      /\ \A k \in 1..n : h[k].of = i /\ IsToken(m, h[k])
      /\ \A k \in 1..(n - 1) : /\ h[k].is \in {"start", "close", "length"}
                               /\ h[k + 1].is = NextLine(m, h[k].is)
      /\ h[n].is = "end"
  BY HeadsAre
<1>3. b \in Seq(Tokens) /\ Len(b) = m.body /\ \A k \in 1..m.body : b[k] = Byte(i, k)
  BY BytesAre
<1> HIDE DEF h, b
<1>4. /\ w \in Seq(Tokens) /\ Len(w) = n + m.body
      /\ \A k \in 1..n : w[k] = h[k]
      /\ \A k \in 1..m.body : w[n + k] = Byte(i, k)
  <2>1. /\ w \in Seq(Tokens) /\ Len(w) = n + Len(b)
        /\ \A k \in 1..n : w[k] = h[k]
        /\ \A k \in 1..Len(b) : w[n + k] = b[k]
    <3>1. h \in Seq(Tokens) /\ b \in Seq(Tokens)
      BY <1>2, <1>3
    <3>2. /\ h \o b \in Seq(Tokens) /\ Len(h \o b) = Len(h) + Len(b)
          /\ Len(h) \in Nat /\ Len(b) \in Nat
          /\ \A k \in 1..Len(h) : (h \o b)[k] = h[k]
          /\ \A k \in 1..Len(b) : (h \o b)[Len(h) + k] = b[k]
      BY <3>1, BehindIs, SMTT(30)
    <3> QED BY <3>2
  <2> QED BY <1>3, <2>1
<1> HIDE DEF w, n
<1>5. \A k \in 1..(n + m.body) : k \in 1..n \/ (k - n \in 1..m.body /\ k = n + (k - n))
  BY <1>2
<1>6. \A k \in Nat : Byte(i, k).of = i /\ Byte(i, k).is = "byte" /\ Byte(i, k).n = k
  BY DEF Byte, Token
<1>7. ASSUME NEW k \in 1..m.body PROVE IsToken(m, Byte(i, k))
  <2>1. Byte(i, k).of = i /\ Byte(i, k).n = k
    BY <1>6
  <2> QED BY <2>1 DEF IsToken
<1>8. \A k \in 1..Len(w) : w[k].of = i /\ IsToken(m, w[k])
  <2> SUFFICES ASSUME NEW k \in 1..(n + m.body) PROVE w[k].of = i /\ IsToken(m, w[k])
    BY <1>4
  <2>1. CASE k \in 1..n
    BY <1>2, <1>4, <2>1
  <2>2. CASE k - n \in 1..m.body /\ k = n + (k - n)
    <3>1. w[k] = Byte(i, k - n)
      BY <1>4, <2>2
    <3> QED BY <1>6, <1>7, <2>2, <3>1
  <2> QED BY <1>5, <2>1, <2>2
<1>9. ASSUME NEW k \in 1..(Len(w) - 1) PROVE Follows(m, w[k], w[k + 1])
  <2>1. k \in 1..(n + m.body) /\ k + 1 \in 1..(n + m.body) /\ k \in Nat
    BY <1>2, <1>4
  <2>2. CASE k \in 1..(n - 1)
    <3>1. k \in 1..n /\ k + 1 \in 1..n
      BY <1>2, <2>2
    <3>2. w[k].is \in {"start", "close", "length"} /\ w[k + 1].is = NextLine(m, w[k].is)
      BY <1>2, <1>4, <2>2, <3>1
    <3>3. w[k].of = i /\ w[k + 1].of = i
      BY <1>2, <1>4, <3>1
    <3> QED BY <3>2, <3>3 DEF Follows, Completes
  <2>3. CASE k = n
    <3>1. m.body # 0 /\ 1 \in 1..m.body /\ k \in 1..n
      BY <1>2, <2>1, <2>3
    <3>2. w[k].is = "end" /\ w[k].of = i /\ w[k + 1] = Byte(i, 1)
      BY <1>2, <1>4, <2>3, <3>1
    <3> QED BY <3>1, <3>2 DEF Follows, Completes
  <2>4. CASE k - n \in 1..m.body
    <3> DEFINE j == k - n
    <3>1. j \in 1..m.body /\ j + 1 \in 1..m.body /\ k = n + j /\ k + 1 = n + (j + 1) /\ j \in Nat
      <4> DEFINE c == m.body
      <4>1. n \in Nat /\ c \in Nat /\ k \in 1..(n + c - 1) /\ k - n \in 1..c
        BY <1>2, <2>1, <2>4
      <4> HIDE DEF c
      <4>2. k \in Int /\ k - n >= 1 /\ k + 1 <= n + c
        BY <4>1
      <4>3. j \in 1..c /\ j + 1 \in 1..c /\ k = n + j /\ k + 1 = n + (j + 1) /\ j \in Nat
        BY <4>1, <4>2
      <4> QED BY <4>3 DEF c
    <3> HIDE DEF j
    <3>2. w[k] = Byte(i, j) /\ w[k + 1] = Byte(i, j + 1) /\ j # m.body
      BY <1>4, <3>1
    <3> QED BY <1>6, <3>1, <3>2 DEF Follows, Completes
  <2>5. k \in 1..(n - 1) \/ k = n \/ k - n \in 1..m.body
    BY <1>2, <2>1
  <2> QED BY <2>2, <2>3, <2>4, <2>5
<1>10. Completes(m, w[Len(w)])
  <2>1. CASE m.body = 0
    <3>1. Len(w) = n /\ n \in 1..n
      BY <1>2, <1>4, <2>1
    <3> QED BY <1>2, <1>4, <2>1, <3>1 DEF Completes
  <2>2. CASE m.body # 0
    <3>1. m.body \in 1..m.body
      BY <2>2
    <3> QED BY <1>4, <1>6, <3>1 DEF Completes
  <2> QED BY <2>1, <2>2
<1>11. Len(w) \in Nat /\ Len(w) >= 1 /\ w[1] = Token("start", i, m.first, m.fields)
  <2>1. 1 \in 1..n
    BY <1>2
  <2> QED BY <1>2, <1>4, <2>1
<1> QED BY <1>1, <1>4, <1>8, <1>9, <1>10, <1>11

-----------------------------------------------------------------------------
(* What is under way on a connection.                                      *)

LEMMA StreamGrows ==
  ASSUME NEW M, NEW ms \in Seq(M), NEW m \in M, NEW q, Stream(q, ms)
  PROVE  Stream(q, Append(ms, m))
<1>1. Len(ms) \in Nat /\ Len(Append(ms, m)) = Len(ms) + 1
  OBVIOUS
<1>2. \A i \in 1..Len(ms) : Append(ms, m)[i] = ms[i] /\ i \in 1..Len(Append(ms, m))
  OBVIOUS
<1>3. Len(q) \in Nat /\ q \in Seq(Tokens)
  BY DEF Stream
<1>4. \A k \in 1..Len(q) : q[k].of \in 1..Len(Append(ms, m)) /\ IsToken(Append(ms, m)[q[k].of], q[k])
  BY <1>2 DEF Stream
<1>5. ASSUME NEW k \in 1..(Len(q) - 1) PROVE Follows(Append(ms, m)[q[k].of], q[k], q[k + 1])
  <2>1. k \in 1..Len(q)
    BY <1>3
  <2>2. Append(ms, m)[q[k].of] = ms[q[k].of]
    BY <1>2, <2>1 DEF Stream
  <2> QED BY <2>2 DEF Stream
<1> QED BY <1>3, <1>4, <1>5 DEF Stream

LEMMA StreamExtends ==
  ASSUME NEW M, NEW ms \in Seq(M), NEW m \in M, NEW q, Stream(q, ms), q = <<>> \/ Whole(q, ms),
         m.first \in Firsts, m.length \in Lengths, m.close \in BOOLEAN, m.fields \in Nat, m.body \in Nat
  PROVE  LET e == q \o Written(m, Len(ms) + 1)
         IN  /\ Stream(e, Append(ms, m)) /\ e # <<>> /\ Whole(e, Append(ms, m))
             /\ e[1] = IF q = <<>> THEN Token("start", Len(ms) + 1, m.first, m.fields) ELSE q[1]
<1> DEFINE i == Len(ms) + 1
           w == Written(m, i)
           more == Append(ms, m)
           n == Len(q)
           e == q \o w
<1>1. i \in Nat /\ Len(more) = i /\ more[i] = m /\ i \in 1..i /\ Len(ms) \in Nat
  OBVIOUS
<1>2. /\ w \in Seq(Tokens) /\ Len(w) \in Nat /\ Len(w) >= 1 /\ w[1] = Token("start", i, m.first, m.fields)
      /\ \A k \in 1..Len(w) : w[k].of = i /\ IsToken(m, w[k])
      /\ \A k \in 1..(Len(w) - 1) : Follows(m, w[k], w[k + 1])
      /\ Completes(m, w[Len(w)])
  BY <1>1, WrittenIs
<1>3. Stream(q, more)
  BY StreamGrows
<1>4. n \in Nat /\ q \in Seq(Tokens) /\ (q = <<>> <=> n = 0)
  BY DEF Stream
<1>5. q # <<>> => Completes(more[q[n].of], q[n]) /\ q[n].of + 1 = i
  <2> HAVE q # <<>>
  <2>1. Whole(q, ms) /\ n \in 1..n
    BY <1>4
  <2>2. more[Len(ms)] = ms[Len(ms)]
    BY <2>1 DEF Stream, Whole, Ended
  <2> QED BY <2>1, <2>2 DEF Whole, Ended
<1> HIDE DEF w, more
<1>6. /\ e \in Seq(Tokens) /\ Len(e) = n + Len(w)
      /\ \A k \in 1..n : e[k] = q[k]
      /\ \A k \in 1..Len(w) : e[n + k] = w[k]
  BY <1>2, <1>4, BehindIs
<1> HIDE DEF e, n, i
<1>7. \A k \in 1..(n + Len(w)) : k \in 1..n \/ (k - n \in 1..Len(w) /\ k = n + (k - n))
  BY <1>2, <1>4
<1>8. ASSUME NEW k \in 1..Len(e) PROVE e[k].of \in 1..Len(more) /\ IsToken(more[e[k].of], e[k])
  <2>1. CASE k \in 1..n
    BY <1>3, <1>6, <2>1 DEF Stream, n
  <2>2. CASE k - n \in 1..Len(w) /\ k = n + (k - n)
    <3>1. e[k] = w[k - n]
      BY <1>6, <2>2
    <3> QED BY <1>1, <1>2, <2>2, <3>1
  <2> QED BY <1>6, <1>7, <2>1, <2>2
<1>9. ASSUME NEW k \in 1..(Len(e) - 1) PROVE Follows(more[e[k].of], e[k], e[k + 1])
  <2>1. k \in 1..(n + Len(w)) /\ k + 1 \in 1..(n + Len(w)) /\ k \in Nat
    BY <1>2, <1>4, <1>6
  <2>2. CASE k \in 1..(n - 1)
    <3>1. k \in 1..n /\ k + 1 \in 1..n
      BY <1>4, <2>2
    <3> QED BY <1>3, <1>6, <2>2, <3>1 DEF Stream, n
  <2>3. CASE k = n
    <3>1. k \in 1..n /\ q # <<>> /\ 1 \in 1..Len(w)
      BY <1>2, <1>4, <2>1, <2>3
    <3>2. e[k] = q[n] /\ e[k + 1] = Token("start", i, m.first, m.fields)
      BY <1>2, <1>6, <2>3, <3>1
    <3>3. e[k + 1].is = "start" /\ e[k + 1].of = i
      BY <3>2 DEF Token
    <3>4. Completes(more[e[k].of], e[k]) /\ e[k].of + 1 = i
      BY <1>5, <3>1, <3>2
    <3> QED BY <3>3, <3>4 DEF Follows, Completes
  <2>4. CASE k - n \in 1..(Len(w) - 1)
    <3> DEFINE j == k - n
    <3>1. j \in 1..(Len(w) - 1) /\ j \in 1..Len(w) /\ j + 1 \in 1..Len(w) /\ k = n + j /\ k + 1 = n + (j + 1)
      BY <1>2, <1>4, <2>1, <2>4
    <3> HIDE DEF j
    <3>2. e[k] = w[j] /\ e[k + 1] = w[j + 1]
      BY <1>6, <3>1
    <3> QED BY <1>1, <1>2, <3>1, <3>2
  <2>5. k \in 1..(n - 1) \/ k = n \/ k - n \in 1..(Len(w) - 1)
    <3>1. Len(e) = n + Len(w) /\ n \in Nat /\ Len(w) \in Nat /\ k \in 1..(Len(e) - 1)
      BY <1>2, <1>4, <1>6
    <3> DEFINE l == Len(w)
    <3>2. l \in Nat /\ n \in Nat /\ k \in 1..(n + l - 1)
      BY <3>1
    <3> HIDE DEF l
    <3>3. k \in 1..(n - 1) \/ k = n \/ k - n \in 1..(l - 1)
      BY <3>2
    <3> QED BY <3>3 DEF l
  <2> QED BY <2>2, <2>3, <2>4, <2>5
<1>10. Stream(e, more)
  BY <1>6, <1>8, <1>9 DEF Stream
<1>11. e # <<>> /\ Len(e) = n + Len(w) /\ Len(w) \in 1..Len(w) /\ 1 \in 1..Len(w)
  BY <1>2, <1>4, <1>6
<1>12. e[Len(e)] = w[Len(w)]
  BY <1>6, <1>11
<1>13. Whole(e, more)
  BY <1>1, <1>2, <1>11, <1>12 DEF Whole, Ended
<1>14. e[1] = IF q = <<>> THEN Token("start", i, m.first, m.fields) ELSE q[1]
  <2>1. CASE q = <<>>
    BY <1>2, <1>4, <1>6, <1>11, <2>1
  <2>2. CASE q # <<>>
    <3>1. 1 \in 1..n
      BY <1>4, <2>2
    <3> QED BY <1>6, <2>2, <3>1
  <2> QED BY <2>1, <2>2
<1> QED BY <1>10, <1>11, <1>13, <1>14 DEF e, w, more, i

LEMMA TailOf ==
  ASSUME NEW S, NEW q \in Seq(S), q # <<>>
  PROVE  /\ Len(q) \in Nat /\ Len(q) >= 1 /\ Head(q) = q[1] /\ Head(q) \in S
         /\ Tail(q) \in Seq(S) /\ Len(Tail(q)) = Len(q) - 1
         /\ \A k \in 1..(Len(q) - 1) : Tail(q)[k] = q[k + 1]
         /\ Tail(q) = <<>> <=> Len(q) = 1
<1>1. Len(q) \in Nat /\ Len(q) >= 1 /\ Head(q) = q[1] /\ Head(q) \in S
  OBVIOUS
<1>2. Tail(q) \in Seq(S) /\ Len(Tail(q)) = Len(q) - 1
  OBVIOUS
<1>3. \A k \in 1..(Len(q) - 1) : Tail(q)[k] = q[k + 1]
  BY <1>1, <1>2
<1>4. Tail(q) = <<>> <=> Len(q) = 1
  <2>1. Tail(q) = <<>> <=> Len(Tail(q)) = 0
    BY <1>2, EmptySeq
  <2> QED BY <1>1, <1>2, <2>1
<1> QED BY <1>1, <1>2, <1>3, <1>4

\* What is left once the first token is read.
LEMMA StreamShrinks ==
  ASSUME NEW q, NEW ms, Stream(q, ms), q # <<>>
  PROVE  /\ Head(q) = q[1] /\ q[1] \in Tokens
         /\ q[1].of \in 1..Len(ms) /\ IsToken(ms[q[1].of], q[1])
         /\ Stream(Tail(q), ms)
         /\ Tail(q) # <<>> => /\ Follows(ms[q[1].of], q[1], Tail(q)[1])
                              /\ Tail(q)[1] \in Tokens /\ Tail(q)[1].of \in 1..Len(ms)
                              /\ IsToken(ms[Tail(q)[1].of], Tail(q)[1])
                              /\ Ended(q, ms) => Ended(Tail(q), ms)
                              /\ Whole(q, ms) => Whole(Tail(q), ms)
         /\ Tail(q) = <<>> => (Ended(q, ms) => Completes(ms[q[1].of], q[1]))
         /\ Tail(q) = <<>> => (Whole(q, ms) => q[1].of = Len(ms))
<1> DEFINE n == Len(q)
           r == Tail(q)
<1>1. q \in Seq(Tokens)
  BY DEF Stream
<1>2. /\ n \in Nat /\ n >= 1 /\ Head(q) = q[1] /\ Head(q) \in Tokens
      /\ r \in Seq(Tokens) /\ Len(r) = n - 1 /\ \A k \in 1..(n - 1) : r[k] = q[k + 1]
      /\ r = <<>> <=> n = 1
  BY <1>1, TailOf
<1>3. \A k \in 1..n : q[k].of \in 1..Len(ms) /\ IsToken(ms[q[k].of], q[k])
  BY DEF Stream
<1>4. \A k \in 1..(n - 1) : Follows(ms[q[k].of], q[k], q[k + 1])
  BY DEF Stream
<1> HIDE DEF n, r
<1>5. \A k \in 1..(n - 1) : k + 1 \in 1..n /\ k \in Nat
  BY <1>2
<1>6. Stream(r, ms)
  <2>1. \A k \in 1..Len(r) : r[k].of \in 1..Len(ms) /\ IsToken(ms[r[k].of], r[k])
    BY <1>2, <1>3, <1>5
  <2>2. \A k \in 1..(Len(r) - 1) : k \in 1..(n - 1) /\ k + 1 \in 1..(n - 1)
    BY <1>2
  <2>3. \A k \in 1..(Len(r) - 1) : Follows(ms[r[k].of], r[k], r[k + 1])
    BY <1>2, <1>4, <2>2
  <2> QED BY <1>2, <2>1, <2>3 DEF Stream
<1>7. 1 \in 1..n
  BY <1>2
<1>8. ASSUME r # <<>>
      PROVE  /\ Follows(ms[q[1].of], q[1], r[1]) /\ r[1] \in Tokens /\ r[1].of \in 1..Len(ms)
             /\ IsToken(ms[r[1].of], r[1])
             /\ Ended(q, ms) => Ended(r, ms)
             /\ Whole(q, ms) => Whole(r, ms)
  <2>1. 1 \in 1..(n - 1) /\ n - 1 \in 1..(n - 1) /\ 1 \in 1..Len(r)
    BY <1>2, <1>8
  <2>2. r[1] = q[2] /\ 1 + 1 = 2
    BY <1>2, <2>1
  <2>3. r[Len(r)] = q[n]
    BY <1>2, <2>1
  <2>4. r[1] \in Tokens /\ r[1].of \in 1..Len(ms) /\ IsToken(ms[r[1].of], r[1])
    BY <1>2, <1>6, <2>1 DEF Stream
  <2> QED BY <1>4, <2>1, <2>2, <2>3, <2>4 DEF Ended, Whole, n
<1>9. r = <<>> => (Ended(q, ms) => Completes(ms[q[1].of], q[1])) /\ (Whole(q, ms) => q[1].of = Len(ms))
  BY <1>2 DEF Ended, Whole, n
<1> QED BY <1>2, <1>3, <1>6, <1>7, <1>8, <1>9 DEF r

-----------------------------------------------------------------------------
(* What a socket does with the next token.                                 *)

\* A message as the invariant knows it.
Shaped(m) == /\ m.first \in Firsts /\ m.length \in Lengths /\ m.body \in Nat /\ m.close \in BOOLEAN
             /\ m.fields \in Nat

LEMMA SameReader ==
  ASSUME NEW s \in Readers, NEW r \in Readers,
         s.status = r.status, s.line = r.line, s.message = r.message, s.expected = r.expected
  PROVE  s = r
BY DEF Readers

LEMMA SameMessage ==
  ASSUME NEW m \in Messages, NEW n \in Messages,
         m.of = n.of, m.first = n.first, m.length = n.length, m.close = n.close, m.fields = n.fields
  PROVE  m = n
BY DEF Messages

\* The parts of a message and of a token.
LEMMA SeenIs ==
  ASSUME NEW m, Shaped(m), NEW i \in 0..MaxRequests, NEW is
  PROVE  /\ Seen(m, i, is) \in Messages
         /\ Seen(m, i, is).of = i /\ Seen(m, i, is).first = m.first
         /\ Seen(m, i, is).length = IF is \in {"end", "byte"} THEN m.length ELSE NoLength
         /\ Seen(m, i, is).close = (m.close /\ is # "close")
         /\ Seen(m, i, is).fields = m.fields
<1> DEFINE length == IF is \in {"end", "byte"} THEN m.length ELSE NoLength
           close == m.close /\ is # "close"
           fields == m.fields
<1>1. length \in Lengths /\ m.first \in Firsts /\ fields \in Nat
  BY DEF Shaped, Lengths
<1>2. close \in BOOLEAN
  BY DEF Shaped
<1>3. Seen(m, i, is) = [of |-> i, first |-> m.first, length |-> length, close |-> close, fields |-> fields]
  BY DEF Seen
<1> HIDE DEF length, close, fields
<1>4. Seen(m, i, is) \in Messages
  BY <1>1, <1>2, <1>3 DEF Messages
<1>5. /\ Seen(m, i, is).of = i /\ Seen(m, i, is).first = m.first /\ Seen(m, i, is).length = length
      /\ Seen(m, i, is).close = close /\ Seen(m, i, is).fields = fields
  BY <1>3
<1> QED BY <1>4, <1>5 DEF length, close, fields

LEMMA TokenIs ==
  \A is, i, first, n : /\ Token(is, i, first, n).is = is /\ Token(is, i, first, n).of = i
                       /\ Token(is, i, first, n).first = first /\ Token(is, i, first, n).n = n
BY DEF Token

LEMMA ReadyIs ==
  /\ Ready \in Readers /\ ~Body(Ready) /\ Clean(Ready) /\ Nothing \in Messages
  /\ Ready.status = "reading_status" /\ Ready.line = <<>> /\ Ready.expected = 0 /\ Ready.message = Nothing
  /\ Nothing.length = NoLength /\ Nothing.close = FALSE /\ Nothing.fields = 0
<1>1. "" \in Firsts /\ <<>> \in Seq(Tokens) /\ 0 \in 0..MaxRequests /\ NoLength \in Lengths /\ 0 \in Lengths
  BY HttpAssumption DEF Firsts, Lengths
<1>2. Nothing \in Messages /\ Nothing.length = NoLength /\ Nothing.close = FALSE /\ Nothing.fields = 0
  BY <1>1 DEF Nothing, Messages
<1>3. Ready = [status |-> "reading_status", line |-> <<>>, message |-> Nothing, expected |-> 0]
  BY DEF Ready
<1> QED BY <1>1, <1>2, <1>3 DEF Readers, Body, Clean, Kinds

LEMMA ReadingIs ==
  ASSUME NEW m, Shaped(m), NEW i \in 0..MaxRequests, NEW n \in Nat, NEW e \in Lengths
  PROVE  /\ Reading(m, i, n, e) \in Readers /\ Body(Reading(m, i, n, e))
         /\ Reading(m, i, n, e).status = "reading_body"
         /\ Reading(m, i, n, e).expected = e /\ Reading(m, i, n, e).line = Bytes(i, n)
         /\ Reading(m, i, n, e).message = Seen(m, i, "byte")
<1>1. Bytes(i, n) \in Seq(Tokens)
  BY BytesAre
<1>2. Seen(m, i, "byte") \in Messages
  BY SeenIs
<1> QED BY <1>1, <1>2 DEF Reading, Readers, Kinds, Body

\* What remains of a socket that reads.
LEMMA ExpectsIs ==
  ASSUME NEW s \in Readers, NEW n \in Lengths
  PROVE  /\ Expects(s, n) \in Readers /\ Expects(s, n).status = "reading_body"
         /\ Expects(s, n).line = s.line /\ Expects(s, n).message = s.message /\ Expects(s, n).expected = n
BY DEF Expects, Readers, Kinds

LEMMA GatherIs ==
  ASSUME NEW s \in Readers, NEW t \in Tokens
  PROVE  /\ Gather(s, t) \in Readers /\ Gather(s, t).status = s.status /\ Gather(s, t).line = Append(s.line, t)
         /\ Gather(s, t).message = s.message /\ Gather(s, t).expected = s.expected
<1>1. Append(s.line, t) \in Seq(Tokens)
  BY DEF Readers
<1> QED BY <1>1 DEF Gather, Readers

LEMMA TakenInIs ==
  ASSUME NEW s \in Readers, NEW t \in Tokens, s.expected - 1 \in Lengths
  PROVE  /\ TakenIn(s, t) \in Readers /\ TakenIn(s, t).status = s.status
         /\ TakenIn(s, t).line = Append(s.line, t)
         /\ TakenIn(s, t).message = s.message /\ TakenIn(s, t).expected = s.expected - 1
<1>1. Append(s.line, t) \in Seq(Tokens)
  BY DEF Readers
<1> QED BY <1>1 DEF TakenIn, Readers

LEMMA StartLineIs ==
  ASSUME NEW s \in Readers, NEW t \in Tokens, Clean(s), t.of \in 0..MaxRequests, t.n \in Nat
  PROVE  LET r == StartLine(s, t)
         IN  /\ r \in Readers /\ r.status = "reading_headers" /\ r.line = <<>> /\ r.expected = s.expected
             /\ r.message.of = t.of /\ r.message.first = t.first
             /\ r.message.length = s.message.length /\ r.message.close = s.message.close
             /\ r.message.fields = t.n
<1> DEFINE m == [s.message EXCEPT !.of = t.of, !.first = t.first, !.fields = t.n]
<1>1. /\ m \in Messages /\ m.of = t.of /\ m.first = t.first /\ m.fields = t.n
      /\ m.length = s.message.length /\ m.close = s.message.close
  BY DEF Messages, Readers, Tokens
<1>2. StartLine(s, t) = [s EXCEPT !.line = <<>>, !.message = m, !.status = "reading_headers"]
  BY DEF StartLine, Readers, Messages
<1> HIDE DEF m
<1>3. <<>> \in Seq(Tokens)
  OBVIOUS
<1> QED BY <1>1, <1>2, <1>3 DEF Readers, Kinds

LEMMA HeaderIs ==
  ASSUME NEW s \in Readers, NEW t \in Tokens, Clean(s), t.is \in {"close", "length"}
  PROVE  LET r == Header(s, t)
         IN  /\ r \in Readers /\ r.status = s.status /\ r.line = <<>> /\ r.expected = s.expected
             /\ r.message.of = s.message.of /\ r.message.first = s.message.first
             /\ r.message.length = IF t.is = "length" THEN t.n ELSE s.message.length
             /\ r.message.close = (s.message.close \/ t.is = "close")
             /\ r.message.fields = s.message.fields
<1> DEFINE length == IF t.is = "length" THEN t.n ELSE s.message.length
           close == s.message.close \/ t.is = "close"
           m == [s.message EXCEPT !.length = length, !.close = close]
<1>1. length \in Lengths
  BY DEF Messages, Readers, Tokens
<1>2. close \in BOOLEAN
  BY DEF Messages, Readers
<1>3. s.message \in Messages /\ Clean(s) = TRUE
  BY DEF Readers, Clean
<1>4. Header(s, t) = [s EXCEPT !.line = <<>>, !.message = m]
  BY <1>3 DEF Header, Readers, Messages
<1> HIDE DEF length, close
<1>5. /\ m \in Messages /\ m.of = s.message.of /\ m.first = s.message.first
      /\ m.length = length /\ m.close = close /\ m.fields = s.message.fields
  BY <1>1, <1>2, <1>3 DEF Messages
<1> HIDE DEF m
<1>6. <<>> \in Seq(Tokens)
  OBVIOUS
<1>7. Header(s, t) \in Readers
  BY <1>4, <1>5, <1>6 DEF Readers
<1>8. /\ Header(s, t).status = s.status /\ Header(s, t).line = <<>> /\ Header(s, t).expected = s.expected
      /\ Header(s, t).message = m
  BY <1>4 DEF Readers
<1> QED BY <1>5, <1>7, <1>8 DEF length, close

\* The kinds of a message's tokens.
LEMMA TokenKinds ==
  ASSUME NEW m, Shaped(m), NEW t \in Tokens, IsToken(m, t)
  PROVE  /\ t.is \in {"start", "close", "length", "end", "byte"} /\ t.of \in Nat
         /\ t.is = "start" => t.first = m.first /\ t.n = m.fields
         /\ t.is = "close" => m.close
         /\ t.is = "length" => m.length # NoLength /\ t.n = m.length
         /\ t.is = "byte" => t.n \in 1..m.body /\ t = Byte(t.of, t.n)
         /\ t.is \in {"start", "close", "length"} => ~Completes(m, t)
<1>1. t.of \in Nat /\ t.is \in {"start", "close", "length", "end", "byte"}
  BY DEF Tokens
<1> DEFINE start == Token("start", t.of, m.first, m.fields)
           close == Token("close", t.of, "", 0)
           length == Token("length", t.of, "", m.length)
           end == Token("end", t.of, "", 0)
           byte == Byte(t.of, t.n)
<1>2. /\ start.is = "start" /\ start.first = m.first /\ start.n = m.fields /\ close.is = "close"
      /\ length.is = "length" /\ length.n = m.length
      /\ end.is = "end" /\ byte.is = "byte"
  BY DEF Token, Byte
<1>3. \/ t = start
      \/ m.close /\ t = close
      \/ m.length # NoLength /\ t = length
      \/ t = end
      \/ t.n \in 1..m.body /\ t = byte
  BY DEF IsToken
<1> HIDE DEF start, close, length, end, byte
<1>4. /\ t.is = "start" => t.first = m.first /\ t.n = m.fields
      /\ t.is = "close" => m.close
      /\ t.is = "length" => m.length # NoLength /\ t.n = m.length
      /\ t.is = "byte" => t.n \in 1..m.body /\ t = byte
  BY <1>2, <1>3 DEF Shaped
<1> QED BY <1>1, <1>4 DEF Completes, byte

\* Only the last token of a message is followed by one of another message.
LEMMA WithinMessage ==
  ASSUME NEW m, Shaped(m), NEW t \in Tokens, IsToken(m, t), ~Completes(m, t), NEW u, Follows(m, t, u)
  PROVE  u.of = t.of
<1>1. t.is \in {"start", "close", "length", "end", "byte"}
  BY TokenKinds
<1>2. CASE t.is \in {"start", "close", "length"}
  BY <1>2 DEF Follows
<1>3. CASE t.is = "end"
  <2>1. u = Byte(t.of, 1)
    BY <1>3 DEF Follows, Completes
  <2> QED BY <2>1 DEF Byte, Token
<1>4. CASE t.is = "byte"
  <2>1. u = Byte(t.of, t.n + 1)
    BY <1>4 DEF Follows, Completes
  <2> QED BY <2>1 DEF Byte, Token
<1> QED BY <1>1, <1>2, <1>3, <1>4

\* The first bytes of a body.
LEMMA PrefixIs ==
  ASSUME NEW i \in Nat, NEW n \in Nat, NEW b \in Nat, n <= b
  PROVE  IsPrefix(Bytes(i, n), Bytes(i, b))
<1> DEFINE s == Bytes(i, n)
           t == Bytes(i, b)
<1>1. /\ s \in Seq(Tokens) /\ Len(s) = n /\ t \in Seq(Tokens) /\ Len(t) = b
      /\ \A k \in 1..n : s[k] = Byte(i, k)
      /\ \A k \in 1..b : t[k] = Byte(i, k)
  BY BytesAre
<1> HIDE DEF s, t
<1> DEFINE u == SubSeq(s, 1, n)
           v == SubSeq(t, 1, n)
<1>2. u \in Seq(Tokens) /\ Len(u) = n /\ \A k \in 1..n : u[k] = s[k]
  BY <1>1
<1>3. v \in Seq(Tokens) /\ Len(v) = n /\ \A k \in 1..n : v[k] = t[k]
  BY <1>1
<1> HIDE DEF u, v
<1>4. \A k \in 1..n : k \in 1..b
  OBVIOUS
<1>5. \A k \in 1..n : u[k] = v[k]
  BY <1>1, <1>2, <1>3, <1>4
<1>6. u = v
  BY <1>2, <1>3, <1>5, SeqEqual
<1> QED BY <1>1, <1>6 DEF IsPrefix, s, t, u, v

LEMMA BeforeIs ==
  ASSUME NEW m, Shaped(m), NEW t \in Tokens, IsToken(m, t), t.of \in 0..MaxRequests,
         m.length = NoLength \/ m.length >= m.body
  PROVE  Before(m, t) \in Readers
<1>1. CASE t.is = "start"
  BY <1>1, ReadyIs DEF Before
<1>2. CASE t.is = "byte"
  <2> DEFINE n == t.n - 1
             e == IF m.length = NoLength THEN NoLength ELSE m.length - n
  <2>1. t.n \in 1..m.body /\ m.body \in Nat /\ m.length \in Lengths
    BY <1>2, TokenKinds DEF Shaped
  <2>2. n \in Nat /\ n <= m.body
    BY <2>1
  <2>3. e \in Lengths
    BY <2>1, <2>2 DEF Lengths, NoLength
  <2>4. Before(m, t) = Reading(m, t.of, n, e)
    BY <1>2 DEF Before
  <2> HIDE DEF n, e
  <2> QED BY <2>2, <2>3, <2>4, ReadingIs
<1>3. CASE t.is \notin {"start", "byte"}
  <2>1. Before(m, t) = [status |-> "reading_headers", line |-> <<>>, message |-> Seen(m, t.of, t.is), expected |-> 0]
    BY <1>3 DEF Before
  <2>2. <<>> \in Seq(Tokens) /\ Seen(m, t.of, t.is) \in Messages
    BY SeenIs
  <2> QED BY <2>1, <2>2 DEF Readers, Kinds, Lengths
<1> QED BY <1>1, <1>2, <1>3

\* A start line or a header is read, and the socket is ready for the next line.
LEMMA ReadsLine ==
  ASSUME NEW m, Shaped(m), m.length = NoLength \/ m.length >= m.body,
         NEW t \in Tokens, IsToken(m, t), t.of \in 0..MaxRequests, t.is \in {"start", "close", "length"},
         NEW u \in Tokens, IsToken(m, u), Follows(m, t, u), NEW s, s = Before(m, t)
  PROVE  ~Body(s) /\ ~EndsHeaders(s, t) /\ ~Refused(s, t) /\ Line(s, t) = Before(m, u)
<1>1. u.is = NextLine(m, t.is) /\ u.of = t.of /\ u.is \in {"close", "length", "end"}
  BY DEF Follows, NextLine
<1> DEFINE seen == Seen(m, t.of, u.is)
           b == Before(m, u)
<1>2. b = [status |-> "reading_headers", line |-> <<>>, message |-> seen, expected |-> 0]
  BY <1>1 DEF Before
<1>3. b \in Readers /\ s \in Readers
  BY <1>1, BeforeIs
<1>4. b.status = "reading_headers" /\ b.line = <<>> /\ b.message = seen /\ b.expected = 0
  BY <1>2
<1>5. /\ seen \in Messages /\ seen.of = t.of /\ seen.first = m.first
      /\ seen.length = IF u.is = "end" THEN m.length ELSE NoLength
      /\ seen.close = (m.close /\ u.is # "close") /\ seen.fields = m.fields
  BY <1>1, SeenIs
<1> HIDE DEF seen, b
<1>6. m.close \in BOOLEAN /\ m.fields \in Nat
  BY DEF Shaped
<1>7. CASE t.is = "start"
  <2> DEFINE r == StartLine(s, t)
  <2>1. s = Ready /\ t.first = m.first /\ t.n = m.fields /\ t.n \in Nat
    BY <1>6, <1>7, TokenKinds DEF Before
  <2>2. Line(s, t) = r /\ Clean(s)
    BY <1>7, <2>1, ReadyIs DEF Line
  <2>3. /\ r \in Readers /\ r.status = "reading_headers" /\ r.line = <<>> /\ r.expected = 0
        /\ r.message.of = t.of /\ r.message.first = m.first
        /\ r.message.length = NoLength /\ r.message.close = FALSE /\ r.message.fields = m.fields
    BY <1>3, <2>1, <2>2, StartLineIs, ReadyIs
  <2> HIDE DEF r
  <2>4. seen.length = NoLength /\ seen.close = FALSE
    BY <1>1, <1>5, <1>6, <1>7 DEF NextLine
  <2>5. r.message \in Messages
    BY <2>3 DEF Readers
  <2>6. r.message = seen
    BY <1>5, <2>3, <2>4, <2>5, SameMessage
  <2>7. r = b
    BY <1>3, <1>4, <2>3, <2>6, SameReader
  <2>8. ~Body(s) /\ ~EndsHeaders(s, t) /\ ~Refused(s, t)
    BY <1>7, <2>1, ReadyIs DEF EndsHeaders, Refused
  <2> QED BY <2>2, <2>7, <2>8 DEF b
<1>8. CASE t.is \in {"close", "length"}
  <2> DEFINE r == Header(s, t)
             before == Seen(m, t.of, t.is)
  <2>1. s = [status |-> "reading_headers", line |-> <<>>, message |-> before, expected |-> 0]
    BY <1>8 DEF Before
  <2>2. /\ before.of = t.of /\ before.first = m.first /\ before.length = NoLength
        /\ before.close = (m.close /\ t.is # "close") /\ before.fields = m.fields
    BY <1>8, SeenIs
  <2> HIDE DEF before
  <2>3. s.status = "reading_headers" /\ s.line = <<>> /\ s.message = before /\ s.expected = 0
    BY <2>1
  <2>4. Line(s, t) = r /\ Clean(s)
    BY <1>8, <2>3 DEF Line, Clean
  <2>5. /\ r \in Readers /\ r.status = "reading_headers" /\ r.line = <<>> /\ r.expected = 0
        /\ r.message.of = t.of /\ r.message.first = m.first
        /\ r.message.length = IF t.is = "length" THEN t.n ELSE NoLength
        /\ r.message.close = (before.close \/ t.is = "close") /\ r.message.fields = m.fields
    BY <1>3, <1>8, <2>2, <2>3, <2>4, HeaderIs
  <2> HIDE DEF r
  <2>6. r.message.length = seen.length
    <3>1. t.is = "length" => u.is = "end" /\ t.n = m.length
      BY <1>1, TokenKinds DEF NextLine
    <3>2. (t.is = "close" /\ u.is = "end") => m.length = NoLength
      BY <1>1 DEF NextLine
    <3> QED BY <1>5, <1>8, <2>5, <3>1, <3>2
  <2>7. r.message.close = seen.close
    <3>1. t.is = "close" => m.close
      BY TokenKinds
    <3>2. u.is # "close"
      BY <1>1, <1>8 DEF NextLine
    <3> QED BY <1>5, <1>6, <1>8, <2>2, <2>5, <3>1, <3>2
  <2>8. r.message \in Messages
    BY <2>5 DEF Readers
  <2>9. r.message = seen
    BY <1>5, <2>5, <2>6, <2>7, <2>8, SameMessage
  <2>10. r = b
    BY <1>3, <1>4, <2>5, <2>9, SameReader
  <2>11. ~Body(s) /\ ~EndsHeaders(s, t) /\ ~Refused(s, t)
    BY <1>8, <2>3 DEF Body, EndsHeaders, Refused
  <2> QED BY <2>4, <2>10, <2>11 DEF b
<1> QED BY <1>7, <1>8

\* The empty line is read: the message is known but for its body.
LEMMA ReadsEnd ==
  ASSUME NEW m, Shaped(m), NEW t \in Tokens, t.of \in 0..MaxRequests, t.is = "end",
         NEW s, s = Before(m, t)
  PROVE  /\ ~Body(s) /\ EndsHeaders(s, t) /\ s.line = <<>> /\ s.message = Seen(m, t.of, "byte")
         /\ s \in Readers
         /\ Expects(s, m.length) = Reading(m, t.of, 0, m.length)
         /\ \A u : m.body # 0 /\ Follows(m, t, u) => Before(m, u) = Reading(m, t.of, 0, m.length)
<1> DEFINE seen == Seen(m, t.of, "byte")
<1>1. Seen(m, t.of, "end") = seen
  BY DEF Seen
<1>2. s = [status |-> "reading_headers", line |-> <<>>, message |-> seen, expected |-> 0]
  BY <1>1 DEF Before
<1>3. t.of \in Nat /\ seen \in Messages /\ m.length \in Lengths
  BY SeenIs DEF Tokens, Shaped
<1> HIDE DEF seen
<1>4. s \in Readers /\ s.line = <<>> /\ s.message = seen /\ s.status = "reading_headers"
  <2>1. <<>> \in Seq(Tokens) /\ 0 \in Lengths
    BY DEF Lengths
  <2> QED BY <1>2, <1>3, <2>1 DEF Readers, Kinds
<1>5. Expects(s, m.length) = Reading(m, t.of, 0, m.length)
  <2> DEFINE e == Expects(s, m.length)
             r == Reading(m, t.of, 0, m.length)
  <2>1. /\ e \in Readers /\ e.status = "reading_body" /\ e.line = <<>> /\ e.message = seen
        /\ e.expected = m.length
    BY <1>3, <1>4, ExpectsIs
  <2>2. /\ r \in Readers /\ r.status = "reading_body" /\ r.line = Bytes(t.of, 0) /\ r.message = seen
        /\ r.expected = m.length
    BY <1>3, ReadingIs DEF seen
  <2>3. Bytes(t.of, 0) = <<>>
    BY <1>3, BytesAre
  <2> HIDE DEF e, r
  <2>4. e = r
    BY <2>1, <2>2, <2>3, SameReader
  <2> QED BY <2>4 DEF e, r
<1>6. ASSUME NEW u, m.body # 0, Follows(m, t, u) PROVE Before(m, u) = Reading(m, t.of, 0, m.length)
  <2>1. u = Byte(t.of, 1)
    BY <1>6 DEF Follows
  <2>2. u.is = "byte" /\ u.of = t.of /\ u.n = 1
    BY <2>1 DEF Byte, Token
  <2>3. Before(m, u) = Reading(m, u.of, u.n - 1, IF m.length = NoLength THEN NoLength ELSE m.length - (u.n - 1))
    BY <2>2 DEF Before
  <2>4. 1 - 1 = 0 /\ m.length - 0 = m.length
    BY <1>3 DEF Lengths, NoLength
  <2> QED BY <2>2, <2>3, <2>4
<1> QED BY <1>4, <1>5, <1>6 DEF Body, EndsHeaders, Clean, seen

\* A byte of the body is read.
LEMMA ReadsByte ==
  ASSUME NEW m, Shaped(m), m.length = NoLength \/ m.length >= m.body,
         NEW t \in Tokens, IsToken(m, t), t.of \in 0..MaxRequests, t.is = "byte", NEW s, s = Before(m, t)
  PROVE  LET rest == IF m.length = NoLength THEN NoLength ELSE m.length - t.n
         IN  /\ Body(s) /\ t.n \in 1..m.body /\ s.message = Seen(m, t.of, "byte") /\ s \in Readers
             /\ rest \in Lengths
             /\ m.length = NoLength =>
                  s.expected = NoLength /\ Gather(s, t) = Reading(m, t.of, t.n, NoLength)
             /\ m.length # NoLength =>
                  s.expected = rest + 1 /\ TakenIn(s, t) = Reading(m, t.of, t.n, rest)
             /\ \A u : t.n # m.body /\ Follows(m, t, u) => Before(m, u) = Reading(m, t.of, t.n, rest)
<1> DEFINE rest == IF m.length = NoLength THEN NoLength ELSE m.length - t.n
           n == t.n - 1
           e == IF m.length = NoLength THEN NoLength ELSE m.length - n
           r == Reading(m, t.of, t.n, rest)
           seen == Seen(m, t.of, "byte")
<1>1. t.n \in 1..m.body /\ t = Byte(t.of, t.n) /\ t.of \in Nat /\ m.body \in Nat /\ m.length \in Lengths
  BY TokenKinds DEF Shaped
<1>2. n \in Nat /\ t.n = n + 1 /\ t.n \in Nat
  BY <1>1
<1>3. /\ e \in Lengths /\ rest \in Lengths
      /\ m.length = NoLength => rest = NoLength /\ e = NoLength
      /\ m.length # NoLength => e = rest + 1 /\ e - 1 = rest
  BY <1>1, <1>2 DEF Lengths, NoLength
<1>4. s = Reading(m, t.of, n, e)
  BY DEF Before
<1>5. Append(Bytes(t.of, n), t) = Bytes(t.of, t.n)
  <2>1. t = Byte(t.of, n + 1)
    BY <1>1, <1>2
  <2> QED BY <1>1, <1>2, <2>1, BytesAre
<1> HIDE DEF rest, n, e
<1>6. /\ s \in Readers /\ s.status = "reading_body" /\ s.line = Bytes(t.of, n) /\ s.message = seen
      /\ s.expected = e
  BY <1>2, <1>3, <1>4, ReadingIs
<1>7. /\ r \in Readers /\ r.status = "reading_body" /\ r.line = Bytes(t.of, t.n) /\ r.message = seen
      /\ r.expected = rest
  BY <1>2, <1>3, ReadingIs
<1> HIDE DEF r, seen
<1>8. ASSUME m.length = NoLength PROVE s.expected = NoLength /\ Gather(s, t) = r
  <2> DEFINE g == Gather(s, t)
  <2>1. /\ g \in Readers /\ g.status = "reading_body" /\ g.line = Bytes(t.of, t.n) /\ g.message = seen
        /\ g.expected = rest
    <3>1. /\ g \in Readers /\ g.status = s.status /\ g.line = Append(s.line, t)
          /\ g.message = s.message /\ g.expected = s.expected
      BY <1>6, GatherIs
    <3> QED BY <1>3, <1>5, <1>6, <1>8, <3>1
  <2> HIDE DEF g
  <2>2. g = r
    BY <1>7, <2>1, SameReader
  <2> QED BY <1>3, <1>6, <1>8, <2>2 DEF g
<1>9. ASSUME m.length # NoLength PROVE s.expected = rest + 1 /\ TakenIn(s, t) = r
  <2> DEFINE g == TakenIn(s, t)
  <2>1. s.expected - 1 = rest
    BY <1>3, <1>6, <1>9
  <2>2. /\ g \in Readers /\ g.status = "reading_body" /\ g.line = Bytes(t.of, t.n) /\ g.message = seen
        /\ g.expected = rest
    <3>1. s.expected - 1 \in Lengths
      BY <1>3, <2>1
    <3>2. /\ g \in Readers /\ g.status = s.status /\ g.line = Append(s.line, t)
          /\ g.message = s.message /\ g.expected = s.expected - 1
      BY <1>6, <3>1, TakenInIs
    <3> QED BY <1>5, <1>6, <2>1, <3>2
  <2> HIDE DEF g
  <2>3. g = r
    BY <1>7, <2>2, SameReader
  <2> QED BY <1>3, <1>6, <1>9, <2>3 DEF g
<1>10. ASSUME NEW u, t.n # m.body, Follows(m, t, u) PROVE Before(m, u) = r
  <2>1. u = Byte(t.of, t.n + 1)
    BY <1>10 DEF Follows
  <2>2. u.is = "byte" /\ u.of = t.of /\ u.n = t.n + 1
    BY <2>1 DEF Byte, Token
  <2>3. Before(m, u) = Reading(m, u.of, u.n - 1, IF m.length = NoLength THEN NoLength ELSE m.length - (u.n - 1))
    BY <2>2 DEF Before
  <2>4. (t.n + 1) - 1 = t.n
    BY <1>2
  <2> QED BY <2>2, <2>3, <2>4 DEF r, rest
<1>11. m.length = NoLength => r = Reading(m, t.of, t.n, NoLength)
  BY <1>3 DEF r
<1> QED BY <1>1, <1>3, <1>6, <1>8, <1>9, <1>10, <1>11 DEF Body, rest, r, seen

-----------------------------------------------------------------------------
(* What the invariant says of the messages.                                *)

LEMMA RequestIs ==
  ASSUME Orderly, NEW r \in Requests
  PROVE  /\ Shaped(r) /\ r.first # "" /\ (r.length = NoLength => r.body = 0)
         /\ r.length # NoLength => r.length = r.body
         /\ r.length = NoLength \/ r.length >= r.body
<1>1. r.length \in Lengths /\ r.body \in Nat /\ r.close \in BOOLEAN /\ r.fields \in Nat
  BY HttpAssumption DEF Lengths
<1>2. r.first \in Firsts
  BY DEF Firsts
<1>3. r.first # "" /\ r.body = IF r.length = NoLength THEN 0 ELSE r.length
  BY DEF Orderly
<1>4. (r.length = NoLength => r.body = 0) /\ (r.length # NoLength => r.length = r.body)
  BY <1>3
<1>5. r.length = NoLength \/ r.length >= r.body
  BY <1>1, <1>4
<1> QED BY <1>1, <1>2, <1>3, <1>4, <1>5 DEF Shaped

LEMMA AnswerIs ==
  ASSUME Orderly, NEW r \in Requests, NEW a \in Answers[<<r.first, r.close>>]
  PROVE  /\ a \in Given /\ Shaped(a) /\ a.first # "100"
         /\ NoBody(a, r) => a.body = 0
         /\ ~NoBody(a, r) => a.length = a.body \/ (a.length = NoLength /\ r.close)
         /\ a.body # 0 => a.length = a.body \/ (a.length = NoLength /\ r.close)
         /\ a.length = NoLength \/ a.length >= a.body
<1>1. a \in Given
  BY DEF Given
<1>2. a.first \in Firsts
  BY <1>1 DEF Firsts
<1>3. /\ a.length \in Nat \cup {NoLength} /\ a.body \in Nat /\ a.close \in BOOLEAN /\ a.fields \in Nat
      /\ a.first # "100"
  BY DEF Orderly
<1>4. IF NoBody(a, r) THEN a.body = 0 ELSE a.length = a.body \/ (a.length = NoLength /\ r.close)
  BY DEF Orderly
<1>5. Shaped(a)
  BY <1>2, <1>3 DEF Shaped, Lengths
<1>6. /\ NoBody(a, r) => a.body = 0
      /\ ~NoBody(a, r) => a.length = a.body \/ (a.length = NoLength /\ r.close)
  BY <1>4
<1>7. a.body # 0 => a.length = a.body \/ (a.length = NoLength /\ r.close)
  BY <1>6
<1>8. a.length = NoLength \/ a.length >= a.body
  BY <1>3, <1>7
<1> QED BY <1>1, <1>3, <1>5, <1>6, <1>7, <1>8

\* The numbers of messages, and the shapes they have.
LEMMA KnownToServer ==
  ASSUME HServer
  PROVE  /\ Len(sent) \in Nat /\ Len(received) \in Nat /\ Len(sent) <= MaxRequests /\ MaxRequests \in Nat
         /\ Len(received) <= Len(sent)
         /\ \A i \in 1..Len(sent) : sent[i] \in Requests /\ i \in 0..MaxRequests
<1>1. /\ Len(sent) \in Nat /\ Len(received) \in Nat /\ Len(sent) <= MaxRequests
      /\ Len(received) <= Len(sent) /\ \A i \in 1..Len(sent) : sent[i] \in Requests
  BY DEF HServer, HServerTypes
<1>2. MaxRequests \in Nat
  BY HttpAssumption
<1>3. \A i \in 1..Len(sent) : i \in 0..MaxRequests
  BY <1>1, <1>2
<1> QED BY <1>1, <1>2, <1>3

LEMMA Known ==
  ASSUME Orderly, HInv
  PROVE  /\ Len(sent) \in Nat /\ Len(answered) \in Nat /\ Len(delivered) \in Nat /\ Len(received) \in Nat
         /\ Len(requests) \in Nat /\ Len(sent) <= MaxRequests /\ MaxRequests \in Nat
         /\ Len(received) = Len(answered) /\ Len(answered) <= Len(sent) /\ Len(delivered) <= Len(answered)
         /\ \A i \in 1..Len(sent) : sent[i] \in Requests /\ i \in 0..MaxRequests
         /\ \A i \in 1..Len(answered) : answered[i] \in Answers[<<sent[i].first, sent[i].close>>] /\ i \in 1..Len(sent)
<1>1. Len(answered) \in Nat /\ Len(delivered) \in Nat /\ Len(requests) \in Nat
  BY DEF HInv, HTypes
<1>2. Len(received) = Len(answered) /\ Len(answered) <= Len(sent) /\ Len(delivered) <= Len(answered)
  BY DEF HInv, HCounts
<1>3. /\ Len(sent) \in Nat /\ Len(received) \in Nat /\ Len(sent) <= MaxRequests /\ MaxRequests \in Nat
      /\ \A i \in 1..Len(sent) : sent[i] \in Requests /\ i \in 0..MaxRequests
  BY KnownToServer DEF HInv
<1>4. \A i \in 1..Len(answered) : answered[i] \in Answers[<<sent[i].first, sent[i].close>>] /\ i \in 1..Len(sent)
  BY <1>1, <1>2, <1>3 DEF HInv, HAnswers
<1> QED BY <1>1, <1>2, <1>3, <1>4

\* Only the latest request has a body or asks to close the connection.
LEMMA LatestIs ==
  ASSUME HServer, NEW j \in 1..Len(sent), sent[j].length # NoLength \/ sent[j].close
  PROVE  j = Len(sent)
<1>1. Len(sent) \in Nat
  BY KnownToServer
<1>2. j \notin 1..(Len(sent) - 1)
  BY DEF HServer, HGuards
<1> QED BY <1>1, <1>2

\* What an earlier request may have left for one that is still to be received.
LEMMA LeftIs ==
  ASSUME HServer, Len(received) # Len(sent)
  PROVE  left.length = NoLength /\ left.close = FALSE /\ left.fields \in Nat
<1>1. ASSUME NEW k \in 1..Len(received)
      PROVE  sent[k].length = NoLength /\ ~sent[k].close
  <2>1. k \in 1..Len(sent) /\ k # Len(sent)
    BY KnownToServer
  <2> QED BY <2>1, LatestIs
<1>2. left.fields \in Nat
  BY DEF HServer, HServerTypes, Messages
<1> QED BY <1>1, <1>2 DEF HServer, HLeft

\* A request as it is handed over.
LEMMA OverIs ==
  ASSUME NEW m \in Messages, left.length = NoLength, left.close = FALSE, left.fields \in Nat
  PROVE  LET o == Over(m)
         IN  /\ o \in Messages /\ o.of = m.of /\ o.first = m.first /\ o.length = m.length /\ o.close = m.close
             /\ o.fields = IF m.fields = 0 THEN left.fields ELSE m.fields
<1> DEFINE length == IF m.length = NoLength THEN left.length ELSE m.length
           close == m.close \/ left.close
           fields == IF m.fields = 0 THEN left.fields ELSE m.fields
<1>1. m.length \in Lengths /\ m.close \in BOOLEAN /\ m.fields \in Nat
  BY DEF Messages
<1>2. length = m.length /\ close = m.close /\ fields \in Nat
  BY <1>1
<1>3. Over(m) = [m EXCEPT !.length = length, !.close = close, !.fields = fields]
  BY DEF Over, Messages
<1> HIDE DEF length, close, fields
<1>4. /\ Over(m) \in Messages /\ Over(m).of = m.of /\ Over(m).first = m.first /\ Over(m).length = length
      /\ Over(m).close = close /\ Over(m).fields = fields
  BY <1>1, <1>2, <1>3 DEF Messages
<1> QED BY <1>2, <1>4 DEF fields

LEMMA UpStays ==
  ASSUME HUp, alive' => alive, UNCHANGED <<up, serving, sent, received>>
  PROVE  HUp'
BY DEF HUp

\* Nothing is under way.
LEMMA NothingStreams ==
  ASSUME NEW ms
  PROVE  Stream(<<>>, ms)
<1>1. <<>> \in Seq(Tokens) /\ Len(<<>>) = 0
  OBVIOUS
<1> QED BY <1>1 DEF Stream

LEMMA UpIsLost ==
  ASSUME up' = <<>>, ~alive'
  PROVE  HUp'
BY NothingStreams DEF HUp

\* What the server knows while it reads nothing.
LEMMA ServerStays ==
  ASSUME HServer, alive' => alive, UNCHANGED <<serving, left, sent, received>>, UNCHANGED up \/ (up' = <<>> /\ ~alive')
  PROVE  HServer'
<1>1. HUp'
  <2>1. CASE UNCHANGED up
    BY <2>1, UpStays DEF HServer
  <2>2. CASE up' = <<>> /\ ~alive'
    BY <2>2, UpIsLost
  <2> QED BY <2>1, <2>2
<1>2. HServerTypes' /\ HGuards' /\ HLeft' /\ HReceived'
  BY DEF HServer, HServerTypes, HGuards, HLeft, HReceived, Got
<1> QED BY <1>1, <1>2 DEF HServer

LEMMA DownStays ==
  ASSUME HDown, alive' => alive, UNCHANGED <<down, client, answered, delivered, sent>>
  PROVE  HDown'
BY DEF HDown, Waiting

LEMMA AppendIs ==
  ASSUME NEW S, NEW s \in Seq(S), NEW e \in S
  PROVE  /\ Append(s, e) \in Seq(S) /\ Len(s) \in Nat /\ Len(Append(s, e)) = Len(s) + 1
         /\ Append(s, e)[Len(s) + 1] = e
         /\ \A k \in 1..Len(s) : Append(s, e)[k] = s[k]
         /\ \A k \in 1..(Len(s) + 1) : k \in 1..Len(s) \/ k = Len(s) + 1
OBVIOUS

-----------------------------------------------------------------------------
(* The client's application writes a request.                              *)

LEMMA Writes ==
  ASSUME Orderly, HServer, NEW r \in Requests, WriteRequest(r), NEW i, i = Len(sent) + 1
  PROVE  /\ i \in Nat /\ i <= MaxRequests /\ Shaped(r) /\ Len(sent) \in Nat
         /\ \A k \in 1..Len(sent) : sent[k].length = NoLength /\ ~sent[k].close
         /\ sent' = Append(sent, r) /\ requests' = Append(requests, [first |-> r.first, close |-> r.close, of |-> i])
         /\ up' = IF alive THEN up \o Written(r, i) ELSE up
         /\ UNCHANGED <<alive, down, client, serving, left, failed, begun, received, answered, delivered>>
         /\ sent' \in Seq(Requests) /\ Len(sent') = i /\ sent'[i] = r
         /\ \A k \in 1..Len(sent) : sent'[k] = sent[k]
         /\ \A k \in 1..i : k \in 1..Len(sent) \/ k = i
<1>1. r.first # "" /\ ~AfterBody /\ ~AfterClose /\ Shaped(r)
  BY RequestIs DEF Orderly
<1>2. sent \in Seq(Requests) /\ Len(sent) \in Nat
  BY DEF HServer, HServerTypes
<1>3. /\ i \in Nat /\ i <= MaxRequests
      /\ \A k \in 1..Len(sent) : sent[k].length = NoLength /\ ~sent[k].close
      /\ sent' = Append(sent, r) /\ requests' = Append(requests, [first |-> r.first, close |-> r.close, of |-> i])
      /\ up' = IF alive THEN up \o Written(r, i) ELSE up
      /\ UNCHANGED <<alive, down, client, serving, left, failed, begun, received, answered, delivered>>
  <2>1. /\ i <= MaxRequests
        /\ ~AfterBody => \A k \in 1..Len(sent) : sent[k].length = NoLength
        /\ ~AfterClose => \A k \in 1..Len(sent) : ~sent[k].close
        /\ sent' = Append(sent, r) /\ requests' = Append(requests, [first |-> r.first, close |-> r.close, of |-> i])
        /\ up' = IF alive /\ r.first # "" THEN up \o Written(r, i) ELSE up
        /\ UNCHANGED <<alive, down, client, serving, left, failed, begun, received, answered, delivered>>
    BY Zenon DEF WriteRequest
  <2>2. up' = IF alive THEN up \o Written(r, i) ELSE up
    BY <1>1, <2>1, Zenon
  <2>3. \A k \in 1..Len(sent) : sent[k].length = NoLength /\ ~sent[k].close
    BY <1>1, <2>1, Zenon
  <2>4. i \in Nat
    BY <1>2
  <2> QED BY <2>1, <2>2, <2>3, <2>4, Zenon
<1>4. /\ Append(sent, r) \in Seq(Requests) /\ Len(Append(sent, r)) = i /\ Append(sent, r)[i] = r
      /\ \A k \in 1..Len(sent) : Append(sent, r)[k] = sent[k]
      /\ \A k \in 1..i : k \in 1..Len(sent) \/ k = i
  BY <1>2, AppendIs
<1> QED BY <1>1, <1>2, <1>3, <1>4

LEMMA WriteRequestKeepsServer ==
  ASSUME Orderly, HServer, NEW r \in Requests, WriteRequest(r)
  PROVE  HServer'
<1> DEFINE n == Len(sent)
           i == n + 1
<1>1. /\ n \in Nat /\ i <= MaxRequests
      /\ \A k \in 1..n : sent[k].length = NoLength /\ ~sent[k].close
      /\ sent' = Append(sent, r) /\ up' = IF alive THEN up \o Written(r, i) ELSE up
      /\ UNCHANGED <<alive, serving, left, received>>
  BY Writes
<1>2. Shaped(r)
  BY Writes
<1>3. Len(received) \in Nat /\ Len(received) <= n
  BY KnownToServer
<1>4. sent \in Seq(Requests)
  BY DEF HServer, HServerTypes
<1>5. /\ sent' \in Seq(Requests) /\ Len(sent') = i /\ sent'[i] = r
      /\ \A k \in 1..n : sent'[k] = sent[k]
      /\ \A k \in 1..i : k \in 1..n \/ k = i
  BY Writes
<1>6. \A k \in 1..Len(received) : k \in 1..n /\ \A l \in 1..(k - 1) : l \in 1..n
  BY <1>3
<1>7. HServerTypes'
  BY <1>1, <1>3, <1>5 DEF HServer, HServerTypes
<1>8. HGuards'
  <2>1. \A k \in 1..(i - 1) : k \in 1..n
    BY <1>3
  <2> QED BY <1>1, <1>5, <2>1 DEF HGuards
<1>9. HLeft' /\ HReceived'
  <2>1. HLeft'
    BY <1>1, <1>5, <1>6 DEF HServer, HLeft
  <2>2. HReceived'
    BY <1>1, <1>5, <1>6 DEF HServer, HReceived, Got
  <2> QED BY <2>1, <2>2
<1>12. HUp'
  <2>1. /\ Stream(up, sent)
        /\ up # <<>> => /\ up[1].of = Len(received) + 1 /\ serving = Before(sent[up[1].of], up[1])
                        /\ Ended(up, sent) /\ (alive => Whole(up, sent))
        /\ alive /\ up = <<>> => \/ serving = Ready /\ Len(received) = Len(sent)
                                 \/ Len(sent) # 0 /\ sent[Len(sent)].length # NoLength
    BY DEF HServer, HUp
  <2>2. up # <<>> => sent'[up[1].of] = sent[up[1].of]
    <3> HAVE up # <<>>
    <3>1. up[1].of \in 1..n
      BY <2>1, StreamShrinks
    <3> QED BY <1>5, <3>1
  <2>3. CASE alive
    <3>1. up = <<>> => serving = Ready /\ Len(received) = n
      <4>1. ~(n # 0 /\ sent[n].length # NoLength)
        BY <1>1, <1>3
      <4> QED BY <2>1, <2>3, <4>1
    <3> DEFINE start == Token("start", i, r.first, r.fields)
    <3>2. /\ Stream(up', sent') /\ up' # <<>> /\ Whole(up', sent')
          /\ up'[1] = IF up = <<>> THEN start ELSE up[1]
      <4>1. r.first \in Firsts /\ r.length \in Lengths /\ r.close \in BOOLEAN /\ r.body \in Nat /\ r.fields \in Nat
        BY <1>2 DEF Shaped
      <4> QED BY <1>1, <1>4, <2>1, <2>3, <4>1, StreamExtends
    <3>3. start.is = "start" /\ start.of = i
      BY TokenIs
    <3> HIDE DEF start
    <3>4. up'[1].of = Len(received) + 1 /\ serving = Before(sent'[up'[1].of], up'[1])
      <4>1. CASE up = <<>>
        BY <3>1, <3>2, <3>3, <4>1 DEF Before
      <4>2. CASE up # <<>>
        BY <2>1, <2>2, <3>2, <4>2
      <4> QED BY <4>1, <4>2
    <3>5. Ended(up', sent')
      BY <3>2 DEF Whole
    <3> QED BY <1>1, <3>2, <3>4, <3>5 DEF HUp
  <2>4. CASE ~alive
    <3>1. up' = up /\ Stream(up, sent')
      BY <1>1, <1>4, <2>1, <2>4, StreamGrows
    <3>2. up # <<>> => Ended(up, sent')
      <4> HAVE up # <<>>
      <4>1. up[Len(up)].of \in 1..n /\ Ended(up, sent)
        <5>1. Len(up) \in 1..Len(up)
          <6>1. up \in Seq(Tokens)
            BY <2>1 DEF Stream
          <6> QED BY <6>1
        <5> QED BY <2>1, <5>1 DEF Stream
      <4> QED BY <1>5, <4>1 DEF Ended
    <3> QED BY <1>1, <2>1, <2>2, <2>4, <3>1, <3>2 DEF HUp
  <2> QED BY <2>3, <2>4
<1> QED BY <1>7, <1>8, <1>9, <1>12 DEF HServer

LEMMA WriteRequestKeeps ==
  ASSUME Orderly, HInv, NEW r \in Requests, WriteRequest(r)
  PROVE  HInv'
<1> DEFINE n == Len(sent)
           i == n + 1
           asked == [first |-> r.first, close |-> r.close, of |-> i]
<1> HServer
  BY DEF HInv
<1>1. /\ requests' = Append(requests, asked)
      /\ UNCHANGED <<alive, down, client, failed, begun, received, answered, delivered>>
  BY Writes
<1>2. Shaped(r)
  BY Writes
<1>3. /\ n \in Nat /\ Len(answered) \in Nat /\ Len(delivered) \in Nat /\ Len(received) = Len(answered)
      /\ Len(answered) <= n /\ Len(delivered) <= Len(answered) /\ Len(requests) \in Nat
  BY Known
<1>5. /\ Len(sent') = i /\ sent'[i] = r
      /\ \A k \in 1..n : sent'[k] = sent[k]
      /\ \A k \in 1..i : k \in 1..n \/ k = i
  BY Writes
<1>6. \A k \in 1..Len(answered) : k \in 1..n
  BY <1>3
<1>7. HTypes'
  <2>1. asked \in [first : Firsts, close : BOOLEAN, of : Nat]
    BY <1>2, <1>3 DEF Shaped
  <2> HIDE DEF asked
  <2>2. requests' \in Seq([first : Firsts, close : BOOLEAN, of : Nat])
    BY <1>1, <2>1 DEF HInv, HTypes
  <2> QED BY <1>1, <1>5, <2>2 DEF HInv, HTypes
<1>8. HCounts'
  BY <1>1, <1>3, <1>5 DEF HCounts
<1>10. HAnswers'
  BY <1>1, <1>5, <1>6 DEF HInv, HAnswers
<1>11. HRequests'
  <2> DEFINE d == Len(delivered)
             q == Len(requests)
             at(j) == [first |-> sent[d + j].first, close |-> sent[d + j].close, of |-> d + j]
             more(j) == [first |-> sent'[d + j].first, close |-> sent'[d + j].close, of |-> d + j]
  <2>1. q = n - d /\ \A j \in 1..q : requests[j] = at(j)
    BY DEF HInv, HRequests
  <2>2. requests \in Seq([first : Firsts, close : BOOLEAN, of : Nat])
    BY DEF HInv, HTypes
  <2>3. asked \in [first : Firsts, close : BOOLEAN, of : Nat]
    BY <1>2, <1>3 DEF Shaped
  <2>4. d + (q + 1) = i /\ d \in Nat /\ q \in Nat
    BY <1>3, <2>1
  <2>5. asked = more(q + 1)
    BY <1>5, <2>4
  <2>6. \A j \in 1..q : d + j \in 1..n
    BY <1>3, <2>1
  <2>7. \A j \in 1..q : more(j) = at(j)
    BY <1>5, <2>6
  <2> HIDE DEF asked, at, more
  <2>8. /\ Len(requests') = q + 1 /\ requests'[q + 1] = asked
        /\ \A j \in 1..q : requests'[j] = requests[j]
        /\ \A j \in 1..(q + 1) : j \in 1..q \/ j = q + 1
    BY <1>1, <2>2, <2>3, AppendIs
  <2>9. \A j \in 1..(q + 1) : requests'[j] = more(j)
    BY <2>1, <2>5, <2>7, <2>8
  <2>10. Len(requests') = i - d
    BY <2>4, <2>8
  <2> QED BY <1>1, <1>5, <2>8, <2>9, <2>10 DEF HRequests, more
<1>13. HDown'
  <2>1. Waiting => Waiting'
    <3> HAVE Waiting
    <3>1. Len(delivered) + 1 \in 1..Len(answered)
      BY <1>3 DEF Waiting
    <3>2. sent'[Len(delivered) + 1] = sent[Len(delivered) + 1]
      BY <1>5, <1>6, <3>1
    <3> QED BY <1>1, <3>2 DEF Waiting
  <2> QED BY <1>1, <2>1 DEF HInv, HDown
<1>14. HServer'
  BY WriteRequestKeepsServer
<1>15. HDelivered'
  BY <1>1 DEF HInv, HDelivered
<1> QED BY <1>7, <1>8, <1>10, <1>11, <1>13, <1>14, <1>15 DEF HInv

-----------------------------------------------------------------------------
(* The client reads.                                                       *)

\* A response is handed over.
LEMMA EmitKeeps ==
  ASSUME Orderly, HInv, NEW c, NEW connected \in BOOLEAN, NEW i, i = Len(delivered) + 1,
         i \in 1..Len(answered), c.message = Seen(answered[i], i, "byte"),
         c.line \in Seq(Tokens),
         IF answered[i].length = NoLength THEN IsPrefix(c.line, Bytes(i, answered[i].body))
         ELSE c.line = Bytes(i, answered[i].body),
         connected => alive,
         Emit(c, connected), UNCHANGED <<serving, left, begun, sent, received, answered>>,
         UNCHANGED up \/ (up' = <<>> /\ ~connected)
  PROVE  /\ HServer' /\ HTypes' /\ HCounts' /\ HAnswers' /\ HRequests' /\ HDelivered'
         /\ client' = Ready /\ Len(delivered') = i /\ (alive' => connected)
<1> DEFINE d == Len(delivered)
           r == requests[1]
           entry == [request |-> r.of, message |-> c.message, body |-> c.line]
           a == answered[i]
<1>1. /\ Len(sent) \in Nat /\ Len(answered) \in Nat /\ d \in Nat /\ Len(requests) \in Nat
      /\ Len(answered) <= Len(sent) /\ Len(received) = Len(answered)
      /\ i \in 0..MaxRequests /\ i \in Nat /\ i \in 1..Len(sent) /\ sent[i] \in Requests
      /\ a \in Answers[<<sent[i].first, sent[i].close>>]
  <2>1. /\ Len(sent) \in Nat /\ Len(answered) \in Nat /\ d \in Nat /\ Len(requests) \in Nat
        /\ Len(answered) <= Len(sent) /\ Len(received) = Len(answered)
    BY Known
  <2>2. a \in Answers[<<sent[i].first, sent[i].close>>] /\ i \in 1..Len(sent)
    BY Known
  <2>3. sent[i] \in Requests /\ i \in 0..MaxRequests
    BY <2>2, Known
  <2> QED BY <2>1, <2>2, <2>3
<1>2. Len(requests) = Len(sent) - d /\ Len(requests) >= 1
  BY <1>1 DEF HInv, HRequests
<1>3. requests \in Seq([first : Firsts, close : BOOLEAN, of : Nat])
  BY DEF HInv, HTypes
<1>4. requests # <<>> /\ Head(requests) = r
  BY <1>2, <1>3
<1>5. r = [first |-> sent[i].first, close |-> sent[i].close, of |-> i]
  <2>1. 1 \in 1..Len(requests)
    BY <1>1, <1>2
  <2> QED BY <2>1 DEF HInv, HRequests
<1>6. r.of = i /\ r.close \in BOOLEAN
  <2>1. sent[i].close \in BOOLEAN
    BY <1>1, RequestIs DEF Shaped
  <2>2. r.of = i /\ r.close = sent[i].close
    BY <1>5
  <2> QED BY <2>1, <2>2
<1>7. /\ delivered' = Append(delivered, entry) /\ requests' = Tail(requests) /\ client' = Ready
      /\ alive' = (connected /\ ~(c.message.close \/ r.close)) /\ failed' = failed
  BY <1>4 DEF Emit
<1>8. Shaped(a)
  BY <1>1, AnswerIs
<1>9. c.message \in Messages /\ c.message.of = i /\ c.message.first = a.first /\ c.message.close \in BOOLEAN
  BY <1>1, <1>8, SeenIs DEF Messages
<1>10. entry \in [request : Nat, message : Messages, body : Seq(Tokens)]
  BY <1>1, <1>6, <1>9
<1>11. entry.request = i /\ entry.message = c.message /\ entry.body = c.line
  BY <1>6
<1> HIDE DEF entry, r, a
<1>12. /\ delivered' \in Seq([request : Nat, message : Messages, body : Seq(Tokens)])
       /\ Len(delivered') = i /\ delivered'[i] = entry
       /\ \A k \in 1..d : delivered'[k] = delivered[k]
       /\ \A k \in 1..i : k \in 1..d \/ k = i
  <2>1. delivered \in Seq([request : Nat, message : Messages, body : Seq(Tokens)])
    BY DEF HInv, HTypes
  <2> QED BY <1>7, <1>10, <2>1, AppendIs
<1>13. /\ requests' \in Seq([first : Firsts, close : BOOLEAN, of : Nat])
       /\ Len(requests') = Len(requests) - 1
       /\ \A k \in 1..(Len(requests) - 1) : requests'[k] = requests[k + 1]
  BY <1>3, <1>4, <1>7, TailOf
<1>14. alive' \in BOOLEAN /\ (alive' => connected)
  BY <1>6, <1>7, <1>9
<1>15. HTypes'
  BY <1>7, <1>12, <1>13, <1>14, ReadyIs DEF HInv, HTypes
<1>16. HCounts'
  BY <1>1, <1>12 DEF HCounts
<1>17. HRequests'
  <2>1. Len(requests') = Len(sent) - i
    BY <1>1, <1>2, <1>13
  <2>2. ASSUME NEW j \in 1..Len(requests')
        PROVE  requests'[j] = [first |-> sent[i + j].first, close |-> sent[i + j].close, of |-> i + j]
    <3>1. j \in 1..(Len(requests) - 1) /\ j + 1 \in 1..Len(requests) /\ d + (j + 1) = i + j
      <4> DEFINE q == Len(requests)
      <4>1. q \in Nat /\ j \in 1..(q - 1) /\ d \in Nat /\ i = d + 1
        BY <1>1, <1>13
      <4> HIDE DEF q, d
      <4> QED BY <4>1 DEF q
    <3>2. requests[j + 1] = [first |-> sent[d + (j + 1)].first, close |-> sent[d + (j + 1)].close,
                             of |-> d + (j + 1)]
      BY <3>1 DEF HInv, HRequests
    <3> QED BY <1>13, <3>1, <3>2
  <2> QED BY <1>12, <2>1, <2>2 DEF HRequests
<1>18. HAnswers'
  BY DEF HInv, HAnswers
<1>19. HServer'
  BY <1>14, ServerStays DEF HInv
<1>20. HDelivered'
  <2> SUFFICES ASSUME NEW k \in 1..i
               PROVE  /\ delivered'[k].request = k /\ delivered'[k].message.of = k
                      /\ delivered'[k].message.first = answered[k].first
                      /\ IF answered[k].length = NoLength
                         THEN IsPrefix(delivered'[k].body, Bytes(k, answered[k].body))
                         ELSE delivered'[k].body = Bytes(k, answered[k].body)
    BY <1>12 DEF HDelivered
  <2>1. CASE k \in 1..d
    BY <1>12, <2>1 DEF HInv, HDelivered
  <2>2. CASE k = i
    BY <1>9, <1>11, <1>12, <2>2 DEF a
  <2> QED BY <1>12, <2>1, <2>2
<1> QED BY <1>7, <1>12, <1>14, <1>15, <1>16, <1>17, <1>18, <1>19, <1>20

\* What the client's state is before the first of the tokens that are under way.
LEMMA ClientIs ==
  ASSUME Orderly, HInv, alive, down # <<>>
  PROVE  LET t == down[1]
             i == Len(delivered) + 1
         IN  /\ Head(down) = t /\ t \in Tokens /\ t.of \in 1..Len(answered) /\ IsToken(answered[t.of], t)
             /\ t.of \in 0..MaxRequests /\ i \in Nat /\ i \in 1..Len(answered)
             /\ answered[t.of] \in Answers[<<sent[t.of].first, sent[t.of].close>>] /\ sent[t.of] \in Requests
             /\ \/ t.of = i /\ client = Before(answered[i], t)
                \/ /\ t.of = i + 1 /\ t.is = "start" /\ answered[i].length = 0 /\ answered[i].body = 0
                   /\ client = Reading(answered[i], i, 0, 0)
<1> DEFINE t == down[1]
           i == Len(delivered) + 1
<1>1. Stream(down, answered)
  BY DEF HInv, HDown
<1>2. Head(down) = t /\ t \in Tokens /\ t.of \in 1..Len(answered) /\ IsToken(answered[t.of], t)
  BY <1>1, StreamShrinks
<1>3. /\ t.of \in 0..MaxRequests /\ sent[t.of] \in Requests
      /\ answered[t.of] \in Answers[<<sent[t.of].first, sent[t.of].close>>]
      /\ i \in Nat /\ Len(answered) \in Nat /\ Len(answered) <= Len(sent) /\ Len(sent) \in Nat
      /\ Len(delivered) \in Nat
  BY <1>2, Known
<1>4. \/ t.of = i /\ client = Before(answered[t.of], t)
      \/ t.of = Len(delivered) + 2 /\ t.is = "start" /\ Waiting
  BY DEF HInv, HDown
<1>5. CASE t.of = i /\ client = Before(answered[t.of], t)
  BY <1>2, <1>3, <1>5
<1>6. CASE t.of = Len(delivered) + 2 /\ t.is = "start" /\ Waiting
  <2>1. t.of = i + 1 /\ i \in 1..Len(answered) /\ i \in 1..Len(sent) /\ i # Len(sent)
    BY <1>2, <1>3, <1>6
  <2>2. ~sent[i].close
    BY <2>1, LatestIs DEF HInv
  <2> QED BY <1>2, <1>3, <1>6, <2>1, <2>2 DEF Waiting
<1> QED BY <1>4, <1>5, <1>6

\* What is left to read once a response is handed over.
LEMMA NextResponse ==
  ASSUME Orderly, HInv, alive, down # <<>>, NEW i, i = down[1].of,
         Completes(answered[i], down[1]), down' = Tail(down), client' = Ready, Len(delivered') = i,
         answered' = answered
  PROVE  HDown'
<1>1. Stream(down, answered) /\ Whole(down, answered)
  BY DEF HInv, HDown
<1>2. Stream(Tail(down), answered)
  BY <1>1, StreamShrinks
<1>3. CASE Tail(down) = <<>>
  <2>1. i = Len(answered)
    BY <1>1, <1>3, StreamShrinks
  <2> QED BY <1>2, <1>3, <2>1 DEF HDown
<1>4. CASE Tail(down) # <<>>
  <2> DEFINE u == Tail(down)[1]
  <2>1. Follows(answered[i], down[1], u) /\ Whole(Tail(down), answered)
    BY <1>1, <1>4, StreamShrinks
  <2>2. u.is = "start" /\ u.of = i + 1
    BY <2>1 DEF Follows
  <2>3. Before(answered[u.of], u) = Ready
    BY <2>2 DEF Before
  <2> QED BY <1>2, <1>4, <2>1, <2>2, <2>3 DEF HDown
<1> QED BY <1>3, <1>4

\* What is left to read within a response, or behind one that is not yet handed over.
LEMMA NextToken ==
  ASSUME Orderly, HInv, alive, down # <<>>, NEW i, i = down[1].of, i = Len(delivered) + 1,
         down' = Tail(down), UNCHANGED <<answered, delivered, sent>>,
         \/ /\ ~Completes(answered[i], down[1])
            /\ \A u : u \in Tokens /\ IsToken(answered[i], u) /\ Follows(answered[i], down[1], u)
                        => client' = Before(answered[i], u)
         \/ Completes(answered[i], down[1]) /\ Waiting'
  PROVE  HDown'
<1>1. Stream(down, answered) /\ Whole(down, answered) /\ Ended(down, answered)
  BY DEF HInv, HDown, Whole
<1>2. Stream(Tail(down), answered) /\ down[1].of \in 1..Len(answered)
  BY <1>1, StreamShrinks
<1>3. Len(delivered) \in Nat /\ i + 1 = Len(delivered) + 2
  BY Known
<1>4. CASE Tail(down) = <<>>
  <2>1. i = Len(answered) /\ Completes(answered[i], down[1])
    BY <1>1, <1>4, StreamShrinks
  <2> QED BY <1>2, <1>4, <2>1 DEF HDown
<1>5. CASE Tail(down) # <<>>
  <2> DEFINE u == Tail(down)[1]
  <2>1. /\ Follows(answered[i], down[1], u) /\ Whole(Tail(down), answered)
        /\ u \in Tokens /\ IsToken(answered[u.of], u)
    BY <1>1, <1>5, StreamShrinks
  <2>2. CASE Completes(answered[i], down[1]) /\ Waiting'
    <3>1. u.is = "start" /\ u.of = i + 1
      BY <2>1, <2>2 DEF Follows
    <3> QED BY <1>2, <1>3, <1>5, <2>1, <2>2, <3>1 DEF HDown
  <2>3. CASE /\ ~Completes(answered[i], down[1])
             /\ \A v : v \in Tokens /\ IsToken(answered[i], v) /\ Follows(answered[i], down[1], v)
                         => client' = Before(answered[i], v)
    <3>1. u.of = i
      <4>1. answered[i] \in Answers[<<sent[i].first, sent[i].close>>] /\ sent[i] \in Requests
        BY <1>2, Known
      <4>2. down[1] \in Tokens /\ IsToken(answered[i], down[1]) /\ Shaped(answered[i])
        BY <1>1, <4>1, StreamShrinks, AnswerIs
      <4> QED BY <2>1, <2>3, <4>2, WithinMessage
    <3>2. client' = Before(answered[i], u)
      BY <2>1, <2>3, <3>1
    <3> QED BY <1>2, <1>5, <2>1, <3>1, <3>2 DEF HDown
  <2> QED BY <2>2, <2>3
<1> QED BY <1>4, <1>5

\* Nothing else is disturbed while no response is handed over.
LEMMA ClientStep ==
  ASSUME HInv, UNCHANGED <<alive, up, requests, serving, left, begun, sent, received, answered, delivered>>,
         failed' = FALSE, client' \in Readers, HDown'
  PROVE  HInv'
<1>1. HTypes'
  BY DEF HInv, HTypes
<1>2. HCounts' /\ HAnswers' /\ HRequests' /\ HDelivered'
  BY DEF HInv, HCounts, HAnswers, HRequests, HDelivered
<1>3. HServer'
  BY ServerStays DEF HInv
<1> QED BY <1>1, <1>2, <1>3 DEF HInv

\* A start line or a header.
LEMMA ClientReadsLine ==
  ASSUME Orderly, HInv, alive, down # <<>>, down[1].of = Len(delivered) + 1,
         client = Before(answered[down[1].of], down[1]), down[1].is \in {"start", "close", "length"},
         ClientLine(Head(down)) \/ ClientBody(Head(down)), down' = Tail(down),
         UNCHANGED <<up, serving, left, begun, sent, received, answered>>
  PROVE  HInv'
<1> DEFINE t == down[1]
           i == Len(delivered) + 1
           m == answered[i]
           u == Tail(down)[1]
<1>1. /\ Head(down) = t /\ t \in Tokens /\ t.of = i /\ IsToken(m, t) /\ i \in 0..MaxRequests
      /\ i \in 1..Len(answered) /\ m \in Answers[<<sent[i].first, sent[i].close>>] /\ sent[i] \in Requests
  BY ClientIs
<1>2. Shaped(m) /\ (m.length = NoLength \/ m.length >= m.body)
  BY <1>1, AnswerIs
<1>3. ~Completes(m, t)
  BY <1>1, <1>2, TokenKinds
<1>4. Stream(down, answered) /\ Whole(down, answered) /\ Ended(down, answered)
  BY DEF HInv, HDown, Whole
<1>5. Tail(down) # <<>>
  BY <1>1, <1>3, <1>4, StreamShrinks
<1>6. Follows(m, t, u) /\ u \in Tokens /\ IsToken(answered[u.of], u)
  BY <1>1, <1>4, <1>5, StreamShrinks
<1>7. u.of = i
  <2> HIDE DEF u, m, t
  <2>1. u.of = t.of
    BY <1>1, <1>2, <1>3, <1>6, WithinMessage
  <2> QED BY <1>1, <2>1
<1>8. client = Before(m, t)
  BY <1>1
<1> HIDE DEF u
<1>9. ~Body(client) /\ ~EndsHeaders(client, t) /\ ~Refused(client, t) /\ Line(client, t) = Before(m, u)
  BY <1>1, <1>2, <1>6, <1>7, <1>8, ReadsLine
<1>10. ClientLine(t)
  BY <1>1, <1>9 DEF ClientBody
<1>11. failed' = FALSE /\ client' = Before(m, u) /\ UNCHANGED <<requests, delivered, alive>>
  BY <1>9, <1>10 DEF ClientLine
<1>12. client' \in Readers
  BY <1>1, <1>2, <1>6, <1>7, <1>11, BeforeIs
<1>13. HDown'
  <2>1. Stream(down', answered') /\ Whole(down', answered') /\ down' # <<>> /\ down'[1] = u
    BY <1>1, <1>4, <1>5, StreamShrinks DEF u
  <2>2. down'[1].of = Len(delivered') + 1 /\ client' = Before(answered'[down'[1].of], down'[1])
    BY <1>7, <1>11, <2>1
  <2> QED BY <2>1, <2>2 DEF HDown
<1> QED BY <1>11, <1>12, <1>13, ClientStep

\* A response that is complete.
LEMMA ClientDelivers ==
  ASSUME Orderly, HInv, alive, down # <<>>, NEW i, i = down[1].of, i = Len(delivered) + 1,
         NEW c, c.message = Seen(answered[i], i, "byte"), c.line = Bytes(i, answered[i].body),
         answered[i].length # NoLength \/ answered[i].body = 0,
         Completes(answered[i], down[1]), Emit(c, TRUE), down' = Tail(down),
         UNCHANGED <<up, serving, left, begun, sent, received, answered>>
  PROVE  HInv'
<1> DEFINE a == answered[i]
<1>1. i \in 1..Len(answered) /\ i \in Nat /\ a \in Answers[<<sent[i].first, sent[i].close>>] /\ sent[i] \in Requests
  BY ClientIs
<1>2. a.body \in Nat
  BY <1>1, AnswerIs DEF Shaped
<1>3. c.line \in Seq(Tokens)
  BY <1>1, <1>2, BytesAre
<1>4. IF a.length = NoLength THEN IsPrefix(c.line, Bytes(i, a.body)) ELSE c.line = Bytes(i, a.body)
  BY <1>1, <1>2, PrefixIs
<1>5. /\ HServer' /\ HTypes' /\ HCounts' /\ HAnswers' /\ HRequests' /\ HDelivered'
      /\ client' = Ready /\ Len(delivered') = i
  BY <1>1, <1>3, <1>4, EmitKeeps
<1>6. HDown'
  BY <1>5, NextResponse
<1> QED BY <1>5, <1>6 DEF HInv

\* The empty line behind the headers.
LEMMA ClientReadsEnd ==
  ASSUME Orderly, HInv, alive, down # <<>>, down[1].of = Len(delivered) + 1,
         client = Before(answered[down[1].of], down[1]), down[1].is = "end", failed = FALSE,
         ClientLine(Head(down)) \/ ClientBody(Head(down)), down' = Tail(down),
         UNCHANGED <<up, serving, left, begun, sent, received, answered>>
  PROVE  HInv'
<1> DEFINE t == down[1]
           i == Len(delivered) + 1
           m == answered[i]
<1>1. /\ Head(down) = t /\ t \in Tokens /\ t.of = i /\ IsToken(m, t) /\ i \in 0..MaxRequests
      /\ i \in 1..Len(answered) /\ m \in Answers[<<sent[i].first, sent[i].close>>] /\ sent[i] \in Requests
      /\ i \in Nat
  BY ClientIs
<1>2. /\ Shaped(m) /\ m.first # "100" /\ m.length \in Lengths
      /\ NoBody(m, sent[i]) => m.body = 0
      /\ ~NoBody(m, sent[i]) => m.length = m.body \/ (m.length = NoLength /\ sent[i].close)
  BY <1>1, AnswerIs DEF Shaped
<1>3. client = Before(m, t)
  BY <1>1
<1>4. /\ ~Body(client) /\ EndsHeaders(client, t) /\ client.line = <<>> /\ client.message = Seen(m, i, "byte")
      /\ Expects(client, m.length) = Reading(m, i, 0, m.length)
      /\ \A u : m.body # 0 /\ Follows(m, t, u) => Before(m, u) = Reading(m, i, 0, m.length)
  BY <1>1, <1>2, <1>3, ReadsEnd
<1>5. client.message.first = m.first /\ client.message.length = m.length
  BY <1>1, <1>2, <1>4, SeenIs
<1>6. /\ requests # <<>> /\ Head(requests).first = sent[i].first
  <2>1. 1 \in 1..Len(requests) /\ requests # <<>> /\ Head(requests) = requests[1]
    <3>1. Len(requests) = Len(sent) - Len(delivered) /\ Len(requests) >= 1
      BY <1>1, Known DEF HInv, HRequests
    <3>2. requests \in Seq([first : Firsts, close : BOOLEAN, of : Nat])
      BY DEF HInv, HTypes
    <3> QED BY <3>1, <3>2
  <2>2. requests[1] = [first |-> sent[i].first, close |-> sent[i].close, of |-> i]
    BY <2>1 DEF HInv, HRequests
  <2>3. requests[1].first = sent[i].first
    BY <2>2
  <2> QED BY <2>1, <2>3
<1>7. NoBody(client.message, Head(requests)) <=> NoBody(m, sent[i])
  BY <1>5, <1>6 DEF NoBody
<1>8. ClientEnd(client)
  BY <1>1, <1>4 DEF ClientLine, ClientBody
<1>9. CASE NoBody(m, sent[i])
  <2>1. Emit(client, TRUE)
    BY <1>2, <1>5, <1>6, <1>7, <1>8, <1>9 DEF ClientEnd
  <2>2. m.body = 0 /\ client.line = Bytes(i, m.body)
    BY <1>1, <1>2, <1>4, <1>9, BytesAre
  <2>3. Completes(m, t)
    BY <2>2 DEF Completes
  <2> QED BY <1>1, <1>4, <2>1, <2>2, <2>3, ClientDelivers
<1>10. CASE ~NoBody(m, sent[i])
  <2>1. client' = Reading(m, i, 0, m.length) /\ UNCHANGED <<requests, delivered, alive, failed>>
    BY <1>2, <1>4, <1>5, <1>6, <1>7, <1>8, <1>10 DEF ClientEnd
  <2>2. client' \in Readers
    BY <1>1, <1>2, <2>1, ReadingIs
  <2>3. HDown'
    <3>1. CASE m.body = 0
      <4>1. Completes(m, t)
        BY <3>1 DEF Completes
      <4>2. Waiting'
        BY <1>1, <1>2, <1>10, <2>1, <3>1 DEF Waiting
      <4> QED BY <1>1, <2>1, <4>1, <4>2, NextToken
    <3>2. CASE m.body # 0
      <4>1. ~Completes(m, t)
        BY <3>2 DEF Completes
      <4>2. \A u : u \in Tokens /\ IsToken(m, u) /\ Follows(m, t, u) => client' = Before(m, u)
        BY <1>4, <2>1, <3>2
      <4> QED BY <1>1, <2>1, <4>1, <4>2, NextToken
    <3> QED BY <3>1, <3>2
  <2> QED BY <2>1, <2>2, <2>3, ClientStep
<1> QED BY <1>9, <1>10

\* A byte of a body.
LEMMA ClientReadsByte ==
  ASSUME Orderly, HInv, alive, down # <<>>, down[1].of = Len(delivered) + 1,
         client = Before(answered[down[1].of], down[1]), down[1].is = "byte", failed = FALSE,
         ClientLine(Head(down)) \/ ClientBody(Head(down)), down' = Tail(down),
         UNCHANGED <<up, serving, left, begun, sent, received, answered>>
  PROVE  HInv'
<1> DEFINE t == down[1]
           i == Len(delivered) + 1
           m == answered[i]
           n == t.n
           rest == IF m.length = NoLength THEN NoLength ELSE m.length - t.n
           c == IF client.expected = NoLength THEN Gather(client, t) ELSE TakenIn(client, t)
<1>1. /\ Head(down) = t /\ t \in Tokens /\ t.of = i /\ IsToken(m, t) /\ i \in 0..MaxRequests
      /\ i \in 1..Len(answered) /\ m \in Answers[<<sent[i].first, sent[i].close>>] /\ sent[i] \in Requests
      /\ i \in Nat
  BY ClientIs
<1>2. /\ Shaped(m) /\ (m.length = NoLength \/ m.length >= m.body) /\ m.length \in Lengths /\ m.body \in Nat
      /\ m.body # 0 => m.length = m.body \/ (m.length = NoLength /\ sent[i].close)
  BY <1>1, AnswerIs DEF Shaped
<1>3. client = Before(m, t)
  BY <1>1
<1>4. /\ Body(client) /\ n \in 1..m.body /\ rest \in Lengths
      /\ m.length = NoLength =>
           client.expected = NoLength /\ Gather(client, t) = Reading(m, i, n, NoLength)
      /\ m.length # NoLength =>
           client.expected = rest + 1 /\ TakenIn(client, t) = Reading(m, i, n, rest)
      /\ \A u : n # m.body /\ Follows(m, t, u) => Before(m, u) = Reading(m, i, n, rest)
  BY <1>1, <1>2, <1>3, ReadsByte
<1>5. m.body # 0 /\ n \in Nat
  BY <1>2, <1>4
<1>6. \/ m.length = NoLength /\ rest = NoLength /\ sent[i].close
      \/ m.length # NoLength /\ rest = m.body - n /\ rest \in Nat /\ m.length = m.body
  <2>1. CASE m.length = NoLength
    <3>1. sent[i].close
      BY <1>2, <1>5, <2>1 DEF NoLength
    <3> QED BY <2>1, <3>1
  <2>2. CASE m.length # NoLength
    <3>1. m.length = m.body /\ rest = m.body - n
      BY <1>2, <1>5, <2>2
    <3>2. m.body - n \in Nat
      BY <1>2, <1>4
    <3> QED BY <2>2, <3>1, <3>2
  <2> QED BY <2>1, <2>2
<1>7. rest = 0 <=> (m.length # NoLength /\ n = m.body)
  BY <1>2, <1>4, <1>5, <1>6 DEF NoLength
<1> HIDE DEF rest
<1>8. client.expected # 0 /\ c = Reading(m, i, n, rest)
  <2>1. CASE m.length = NoLength
    BY <1>4, <1>6, <2>1 DEF NoLength
  <2>2. CASE m.length # NoLength
    <3>1. rest + 1 # NoLength /\ rest + 1 # 0
      BY <1>6, <2>2 DEF NoLength
    <3> QED BY <1>4, <2>2, <3>1
  <2> QED BY <2>1, <2>2
<1>9. /\ c.expected = rest /\ c \in Readers /\ c.line = Bytes(i, n) /\ c.message = Seen(m, i, "byte")
  BY <1>1, <1>2, <1>4, <1>5, <1>8, ReadingIs
<1>10. ClientBody(t)
  BY <1>1, <1>4 DEF ClientLine
<1>11. IF c.expected = 0 THEN Emit(c, TRUE)
       ELSE client' = c /\ UNCHANGED <<requests, delivered, alive, failed>>
  BY <1>10 DEF ClientBody
<1> HIDE DEF c
<1>12. CASE rest = 0
  <2>1. Emit(c, TRUE)
    BY <1>9, <1>11, <1>12
  <2>2. m.length # NoLength /\ c.line = Bytes(i, m.body) /\ Completes(m, t)
    BY <1>7, <1>9, <1>12 DEF Completes
  <2> QED BY <1>1, <1>9, <2>1, <2>2, ClientDelivers
<1>13. CASE rest # 0
  <2>1. client' = Reading(m, i, n, rest) /\ UNCHANGED <<requests, delivered, alive, failed>>
    BY <1>8, <1>9, <1>11, <1>13
  <2>2. client' \in Readers
    BY <1>8, <1>9, <2>1
  <2>3. HDown'
    <3>1. CASE n = m.body
      <4>1. Completes(m, t)
        BY <3>1 DEF Completes
      <4>2. m.length = NoLength /\ rest = NoLength /\ sent[i].close
        BY <1>6, <1>7, <1>13, <3>1
      <4>3. Waiting'
        BY <1>1, <2>1, <3>1, <4>2 DEF Waiting
      <4> QED BY <1>1, <2>1, <4>1, <4>3, NextToken
    <3>2. CASE n # m.body
      <4>1. ~Completes(m, t)
        BY <3>2 DEF Completes
      <4>2. \A u : u \in Tokens /\ IsToken(m, u) /\ Follows(m, t, u) => client' = Before(m, u)
        BY <1>4, <2>1, <3>2
      <4> QED BY <1>1, <2>1, <4>1, <4>2, NextToken
    <3> QED BY <3>1, <3>2
  <2> QED BY <2>1, <2>2, <2>3, ClientStep
<1> QED BY <1>12, <1>13

\* A response without a body whose handing over waited for the next byte.
LEMMA ClientEmitsLate ==
  ASSUME Orderly, HInv, alive, down # <<>>, NEW i, i = Len(delivered) + 1,
         down[1].of = i + 1, down[1].is = "start", answered[i].length = 0, answered[i].body = 0,
         client = Reading(answered[i], i, 0, 0), Emit(client, TRUE),
         UNCHANGED <<up, down, serving, left, begun, sent, received, answered>>
  PROVE  HInv'
<1> DEFINE a == answered[i]
<1>1. i \in 1..Len(answered) /\ i \in Nat /\ i \in 0..MaxRequests
  BY ClientIs, Known
<1>2. a \in Answers[<<sent[i].first, sent[i].close>>] /\ sent[i] \in Requests
  BY <1>1, Known
<1>3. Shaped(a) /\ 0 \in Lengths /\ 0 \in Nat
  BY <1>2, AnswerIs DEF Lengths
<1>4. client.message = Seen(a, i, "byte") /\ client.line = Bytes(i, a.body)
  <2> DEFINE r == Reading(a, i, 0, 0)
  <2>1. r.message = Seen(a, i, "byte") /\ r.line = Bytes(i, 0)
    <3> HIDE DEF a
    <3> QED BY <1>1, <1>3, ReadingIs, SMTT(30)
  <2>2. Bytes(i, 0) = Bytes(i, a.body)
    OBVIOUS
  <2>3. client = r
    OBVIOUS
  <2> HIDE DEF r
  <2> QED BY <2>1, <2>2, <2>3
<1>5. client.line \in Seq(Tokens)
  <2>1. client.line = Bytes(i, 0)
    BY <1>4
  <2> QED BY <1>1, <1>3, <2>1, BytesAre
<1>6. a.length # NoLength
  BY DEF NoLength
<1>7. /\ HServer' /\ HTypes' /\ HCounts' /\ HAnswers' /\ HRequests' /\ HDelivered'
      /\ client' = Ready /\ Len(delivered') = i
  BY <1>1, <1>4, <1>5, <1>6, EmitKeeps
<1>8. Stream(down, answered) /\ Whole(down, answered)
  BY DEF HInv, HDown
<1>9. HDown'
  <2>1. client' = Before(answered'[down'[1].of], down'[1])
    BY <1>7 DEF Before
  <2> QED BY <1>7, <1>8, <2>1 DEF HDown
<1> QED BY <1>7, <1>9 DEF HInv

LEMMA ClientReadsKeeps ==
  ASSUME Orderly, HInv, ClientReads
  PROVE  HInv'
<1> DEFINE t == down[1]
           i == Len(delivered) + 1
           m == answered[i]
<1>1. /\ alive /\ down # <<>> /\ failed = FALSE
      /\ UNCHANGED <<up, serving, left, begun, sent, received, answered>>
  BY DEF ClientReads, HInv, HTypes
<1>2. /\ Head(down) = t /\ t \in Tokens /\ IsToken(answered[t.of], t) /\ t.of \in 0..MaxRequests
      /\ i \in Nat /\ i \in 1..Len(answered)
      /\ answered[t.of] \in Answers[<<sent[t.of].first, sent[t.of].close>>] /\ sent[t.of] \in Requests
      /\ \/ t.of = i /\ client = Before(m, t)
         \/ /\ t.of = i + 1 /\ t.is = "start" /\ m.length = 0 /\ m.body = 0
            /\ client = Reading(m, i, 0, 0)
  BY <1>1, ClientIs
<1>3. \/ Body(client) /\ client.expected = 0 /\ Emit(client, TRUE) /\ UNCHANGED down
      \/ (ClientLine(Head(down)) \/ ClientBody(Head(down))) /\ down' = Tail(down)
  BY DEF ClientReads
<1>4. CASE t.of = i /\ client = Before(m, t)
  <2>1. Shaped(m) /\ (m.length = NoLength \/ m.length >= m.body)
    BY <1>2, <1>4, AnswerIs
  <2>2. t.is \in {"start", "close", "length", "end", "byte"}
    BY <1>2, <1>4, <2>1, TokenKinds
  <2>3. ~(Body(client) /\ client.expected = 0)
    <3>1. CASE t.is = "byte"
      <4> DEFINE rest == IF m.length = NoLength THEN NoLength ELSE m.length - t.n
      <4>1. /\ rest \in Lengths
            /\ m.length = NoLength => client.expected = NoLength
            /\ m.length # NoLength => client.expected = rest + 1
        BY <1>2, <1>4, <2>1, <3>1, ReadsByte
      <4>2. m.length # NoLength => rest \in Nat
        <5>1. m.length # NoLength => m.length \in Nat /\ m.length >= m.body
          BY <2>1 DEF Shaped, Lengths
        <5>2. t.n \in 1..m.body /\ m.body \in Nat
          BY <1>2, <1>4, <2>1, <3>1, TokenKinds DEF Shaped
        <5> QED BY <5>1, <5>2
      <4> HIDE DEF rest
      <4> QED BY <4>1, <4>2 DEF NoLength
    <3>2. CASE t.is = "start"
      BY <1>4, <3>2, ReadyIs DEF Before
    <3>3. CASE t.is \in {"close", "length", "end"}
      <4>1. client = [status |-> "reading_headers", line |-> <<>>, message |-> Seen(m, i, t.is), expected |-> 0]
        BY <1>4, <3>3 DEF Before
      <4> QED BY <4>1 DEF Body
    <3> QED BY <2>2, <3>1, <3>2, <3>3
  <2>4. (ClientLine(Head(down)) \/ ClientBody(Head(down))) /\ down' = Tail(down)
    BY <1>3, <2>3
  <2>5. CASE t.is \in {"start", "close", "length"}
    BY <1>1, <1>4, <2>4, <2>5, ClientReadsLine
  <2>6. CASE t.is = "end"
    BY <1>1, <1>4, <2>4, <2>6, ClientReadsEnd
  <2>7. CASE t.is = "byte"
    BY <1>1, <1>4, <2>4, <2>7, ClientReadsByte
  <2> QED BY <2>2, <2>5, <2>6, <2>7
<1>5. CASE /\ t.of = i + 1 /\ t.is = "start" /\ m.length = 0 /\ m.body = 0
           /\ client = Reading(m, i, 0, 0)
  <2>1. Body(client) /\ client.expected = 0
    <3>1. m \in Answers[<<sent[i].first, sent[i].close>>] /\ sent[i] \in Requests /\ i \in 0..MaxRequests
      BY <1>2, Known
    <3>2. Shaped(m) /\ 0 \in Lengths
      BY <3>1, AnswerIs DEF Lengths
    <3> QED BY <1>5, <3>1, <3>2, ReadingIs
  <2>2. Emit(client, TRUE) /\ UNCHANGED down
    BY <1>3, <2>1 DEF ClientLine, ClientBody
  <2> QED BY <1>1, <1>5, <2>2, ClientEmitsLate
<1> QED BY <1>2, <1>4, <1>5

-----------------------------------------------------------------------------
(* The server reads.                                                       *)

\* A request as it was read, and its answer.
Answering(s) == /\ Respond(s) /\ Len(received) < Len(sent)
                /\ LET j == Len(received) + 1
                   IN  s.message.first = sent[j].first /\ Over(s.message).close = sent[j].close
NoAnswer == UNCHANGED <<down, received, answered>> /\ failed' = FALSE

\* Nothing else is disturbed while no request is answered.
LEMMA ServerStep ==
  ASSUME HServer, UNCHANGED <<left, sent, received>>, serving' \in Readers, HUp'
  PROVE  HServer'
<1>1. HServerTypes'
  BY DEF HServer, HServerTypes
<1>2. HGuards' /\ HLeft' /\ HReceived'
  BY DEF HServer, HGuards, HLeft, HReceived, Got
<1> QED BY <1>1, <1>2 DEF HServer

\* A request is answered.
LEMMA RespondKeeps ==
  ASSUME Orderly, HServer, NEW s, NEW j \in 1..Len(sent), j = Len(received) + 1,
         s.message = Seen(sent[j], j, "byte"), s.line = Bytes(j, sent[j].body), s.line \in Seq(Tokens),
         Respond(s), UNCHANGED sent, HUp', serving' \in Readers
  PROVE  HServer' /\ Answering(s)
<1> DEFINE n == Len(received)
           r == sent[j]
           o == Over(s.message)
           entry == [message |-> o, body |-> s.line]
<1>1. n \in Nat /\ n < Len(sent) /\ j = n + 1 /\ Len(sent) \in Nat /\ r \in Requests /\ j \in 0..MaxRequests
  BY KnownToServer
<1>2. Shaped(r) /\ r.close \in BOOLEAN
  BY <1>1, RequestIs DEF Shaped
<1>3. /\ s.message \in Messages /\ s.message.of = j /\ s.message.first = r.first
      /\ s.message.length = r.length /\ s.message.close = r.close /\ s.message.fields = r.fields
  <2> DEFINE m == Seen(r, j, "byte")
  <2>1. /\ m \in Messages /\ m.of = j /\ m.first = r.first
        /\ m.length = IF "byte" \in {"end", "byte"} THEN r.length ELSE NoLength
        /\ m.close = (r.close /\ "byte" # "close") /\ m.fields = r.fields
    <3> HIDE DEF r
    <3> QED BY <1>1, <1>2, SeenIs, SMTT(30)
  <2> HIDE DEF m, r
  <2>2. m.close = r.close /\ m.length = r.length
    BY <1>2, <2>1
  <2>3. s.message = m
    BY DEF m, r
  <2> QED BY <2>1, <2>2, <2>3
<1>4. left.length = NoLength /\ left.close = FALSE /\ left.fields \in Nat
  <2>1. Len(received) # Len(sent)
    BY <1>1
  <2> QED BY <2>1, LeftIs, Zenon
<1>5. /\ o \in Messages /\ o.of = j /\ o.first = r.first /\ o.length = r.length /\ o.close = r.close
      /\ o.fields = IF r.fields = 0 THEN left.fields ELSE r.fields
  BY <1>3, <1>4, OverIs
<1>6. received' = Append(received, entry) /\ left' \in {Nothing, o}
  BY DEF Respond
<1>7. Answering(s)
  BY <1>1, <1>3, <1>5 DEF Answering
<1>8. entry \in [message : Messages, body : Seq(Tokens)] /\ entry.message = o /\ entry.body = s.line
  BY <1>5
<1> HIDE DEF entry, o
<1>9. /\ received' \in Seq([message : Messages, body : Seq(Tokens)])
      /\ Len(received') = j /\ received'[j] = entry
      /\ \A k \in 1..n : received'[k] = received[k]
      /\ \A k \in 1..j : k \in 1..n \/ k = j
  <2>1. received \in Seq([message : Messages, body : Seq(Tokens)])
    BY DEF HServer, HServerTypes
  <2> QED BY <1>1, <1>6, <1>8, <2>1, AppendIs
<1>10. left' \in Messages
  BY <1>5, <1>6, ReadyIs
<1>11. HServerTypes'
  BY <1>1, <1>9, <1>10 DEF HServer, HServerTypes
<1>12. HGuards'
  BY DEF HServer, HGuards
<1>13. \A k \in 1..n : k \in 1..j
  BY <1>1
<1>14. left.fields = 0 \/ \E k \in 1..n : left.fields = sent[k].fields
  BY DEF HServer, HLeft
<1>15. o.fields = r.fields \/ (r.fields = 0 /\ \E k \in 1..n : o.fields = sent[k].fields)
  BY <1>5, <1>14
<1>16. HLeft'
  <2>1. j \in 1..j
    BY <1>1
  <2>2. CASE left' = Nothing
    BY <2>2, ReadyIs DEF HLeft
  <2>3. CASE left' = o
    <3>1. left'.length = sent'[j].length /\ left'.close = sent'[j].close
      BY <1>5, <2>3
    <3>2. \E k \in 1..j : left'.fields = sent'[k].fields
      BY <1>13, <1>15, <2>1, <2>3
    <3>3. left'.close = FALSE \/ sent'[j].close
      BY <1>2, <3>1
    <3> QED BY <1>9, <2>1, <3>1, <3>2, <3>3 DEF HLeft
  <2> QED BY <1>6, <2>2, <2>3
<1>17. HReceived'
  <2> SUFFICES ASSUME NEW k \in 1..j PROVE Got(k)'
    BY <1>9 DEF HReceived
  <2>1. CASE k \in 1..n
    <3>1. Got(k) /\ received'[k] = received[k]
      BY <1>9, <2>1 DEF HServer, HReceived
    <3> QED BY <3>1 DEF Got
  <2>2. CASE k = j
    <3>1. received'[k].message = o /\ received'[k].body = s.line
      BY <1>8, <1>9, <2>2
    <3>2. n = k - 1
      BY <1>1, <2>2
    <3> QED BY <1>5, <1>15, <2>2, <3>1, <3>2 DEF Got
  <2> QED BY <1>9, <2>1, <2>2
<1> QED BY <1>7, <1>11, <1>12, <1>16, <1>17 DEF HServer

\* The answer goes to a client that began as it should.
LEMMA AnswerKeeps ==
  ASSUME Orderly, HInv, NEW s, Answering(s), HServer', UNCHANGED <<alive, requests, client, begun, sent, delivered>>
  PROVE  HInv'
<1> DEFINE n == Len(answered)
           j == n + 1
           r == sent[j]
<1>1. /\ n \in Nat /\ Len(received) = n /\ j \in 1..Len(sent) /\ Len(delivered) <= n
      /\ Len(sent) \in Nat /\ Len(delivered) \in Nat /\ r \in Requests
  BY Known DEF Answering
<1>2. PICK a \in Answers[<<r.first, r.close>>] :
        /\ answered' = Append(answered, a)
        /\ down' = IF alive THEN down \o Written(a, j) ELSE down
  <2>1. <<s.message.first, Over(s.message).close>> = <<r.first, r.close>>
    BY <1>1 DEF Answering
  <2> QED BY <1>1, <2>1 DEF Respond, Answering
<1>3. failed' = FALSE /\ Len(received') = j
  <2>1. received' = Append(received, [message |-> Over(s.message), body |-> s.line]) /\ failed' = FALSE
    BY DEF Respond, Answering, HInv, HTypes
  <2>2. received \in Seq([message : Messages, body : Seq(Tokens)])
    BY DEF HInv, HServer, HServerTypes
  <2>3. Len(received') = Len(received) + 1
    BY <2>1, <2>2
  <2> QED BY <1>1, <2>1, <2>3
<1>7. a \in Given /\ Shaped(a)
  BY <1>1, AnswerIs
<1>8. /\ answered \in Seq(Given)
      /\ answered' \in Seq(Given) /\ Len(answered') = j /\ answered'[j] = a
      /\ \A k \in 1..n : answered'[k] = answered[k]
      /\ \A k \in 1..j : k \in 1..n \/ k = j
  <2>1. answered \in Seq(Given)
    BY DEF HInv, HTypes
  <2> QED BY <1>1, <1>2, <1>7, <2>1, AppendIs
<1>10. HTypes'
  BY <1>3, <1>8 DEF HInv, HTypes
<1>11. HCounts'
  BY <1>1, <1>3, <1>8 DEF HCounts
<1>12. HRequests'
  BY DEF HInv, HRequests
<1>13. HAnswers'
  <2> SUFFICES ASSUME NEW k \in 1..j PROVE answered'[k] \in Answers[<<sent[k].first, sent[k].close>>]
    BY <1>8 DEF HAnswers
  <2>1. CASE k \in 1..n
    BY <1>8, <2>1 DEF HInv, HAnswers
  <2>2. CASE k = j
    BY <1>8, <2>2
  <2> QED BY <1>8, <2>1, <2>2
<1>15. HDelivered'
  <2>1. \A k \in 1..Len(delivered) : k \in 1..n
    BY <1>1
  <2> QED BY <1>8, <2>1 DEF HInv, HDelivered
<1>16. HDown'
  <2> SUFFICES ASSUME alive PROVE HDown'
    BY DEF HDown
  <2>1. /\ Stream(down, answered)
        /\ down # <<>> => /\ Whole(down, answered)
                          /\ \/ down[1].of = Len(delivered) + 1 /\ client = Before(answered[down[1].of], down[1])
                             \/ down[1].of = Len(delivered) + 2 /\ down[1].is = "start" /\ Waiting
        /\ down = <<>> => \/ client = Ready /\ Len(delivered) = n
                          \/ Waiting /\ n = Len(delivered) + 1
    BY DEF HInv, HDown
  <2> DEFINE start == Token("start", j, a.first, a.fields)
  <2>2. /\ Stream(down', answered') /\ down' # <<>> /\ Whole(down', answered')
        /\ down'[1] = IF down = <<>> THEN start ELSE down[1]
    <3>1. a.first \in Firsts /\ a.length \in Lengths /\ a.close \in BOOLEAN /\ a.body \in Nat /\ a.fields \in Nat
      BY <1>7 DEF Shaped
    <3> QED BY <1>1, <1>2, <1>7, <1>8, <2>1, <3>1, StreamExtends
  <2>3. start.is = "start" /\ start.of = j
    BY TokenIs
  <2> HIDE DEF start
  <2>4. Waiting => Waiting'
    <3> HAVE Waiting
    <3>1. Len(delivered) + 1 \in 1..n /\ Len(delivered) + 1 <= j
      BY <1>1 DEF Waiting
    <3>2. answered'[Len(delivered) + 1] = answered[Len(delivered) + 1]
      BY <1>8, <3>1
    <3> QED BY <1>8, <3>1, <3>2 DEF Waiting
  <2>5. CASE down = <<>>
    <3>1. down'[1].is = "start" /\ down'[1].of = j
      BY <2>2, <2>3, <2>5
    <3>2. CASE client = Ready /\ Len(delivered) = n
      <4>1. client' = Before(answered'[down'[1].of], down'[1]) /\ down'[1].of = Len(delivered') + 1
        BY <1>1, <3>1, <3>2 DEF Before
      <4> QED BY <2>2, <4>1 DEF HDown
    <3>3. CASE Waiting /\ n = Len(delivered) + 1
      <4>1. down'[1].of = Len(delivered') + 2
        BY <1>1, <3>1, <3>3
      <4> QED BY <2>2, <2>4, <3>1, <3>3, <4>1 DEF HDown
    <3> QED BY <2>1, <2>5, <3>2, <3>3
  <2>6. CASE down # <<>>
    <3>1. down'[1] = down[1]
      BY <2>2, <2>6
    <3>2. answered'[down[1].of] = answered[down[1].of]
      <4>1. down[1].of \in 1..n
        BY <2>1, <2>6, StreamShrinks
      <4> QED BY <1>8, <4>1
    <3> QED BY <2>1, <2>2, <2>4, <2>6, <3>1, <3>2 DEF HDown
  <2> QED BY <2>5, <2>6
<1> QED BY <1>10, <1>11, <1>12, <1>13, <1>15, <1>16 DEF HInv

\* What the server's state is before the first of the tokens that are under way.
LEMMA ServerIs ==
  ASSUME Orderly, HServer, up # <<>>
  PROVE  LET t == up[1]
             j == Len(received) + 1
         IN  /\ Head(up) = t /\ t \in Tokens /\ t.of = j /\ j \in 1..Len(sent) /\ IsToken(sent[j], t)
             /\ j \in 0..MaxRequests /\ j \in Nat /\ sent[j] \in Requests /\ serving = Before(sent[j], t)
             /\ Stream(up, sent) /\ Ended(up, sent) /\ Stream(Tail(up), sent)
<1>1. /\ Stream(up, sent) /\ up[1].of = Len(received) + 1 /\ serving = Before(sent[up[1].of], up[1])
      /\ Ended(up, sent)
  BY DEF HServer, HUp
<1>2. /\ Head(up) = up[1] /\ up[1] \in Tokens /\ up[1].of \in 1..Len(sent) /\ IsToken(sent[up[1].of], up[1])
      /\ Stream(Tail(up), sent)
  BY <1>1, StreamShrinks
<1>3. up[1].of \in Nat
  BY <1>2 DEF Tokens
<1> QED BY <1>1, <1>2, <1>3, KnownToServer

\* What is left to read once a request is complete.
LEMMA NextRequest ==
  ASSUME Orderly, HServer, up # <<>>, NEW j, j = up[1].of, Completes(sent[j], up[1]),
         up' = Tail(up), UNCHANGED <<alive, sent>>,
         \/ Len(received') = j /\ (serving' = Ready \/ sent[j].length # NoLength)
         \/ sent[j].length # NoLength
  PROVE  HUp'
<1>1. /\ Stream(up, sent) /\ Ended(up, sent) /\ (alive => Whole(up, sent)) /\ Stream(Tail(up), sent)
      /\ j \in 1..Len(sent)
  BY ServerIs DEF HServer, HUp
<1>2. Len(sent) \in Nat
  BY KnownToServer
<1>3. CASE Tail(up) = <<>>
  <2>1. alive => j = Len(sent)
    BY <1>1, <1>3, StreamShrinks
  <2> QED BY <1>1, <1>2, <1>3, <2>1 DEF HUp
<1>4. CASE Tail(up) # <<>>
  <2> DEFINE u == Tail(up)[1]
  <2>1. /\ Follows(sent[j], up[1], u) /\ Ended(Tail(up), sent) /\ (alive => Whole(Tail(up), sent))
        /\ u.of \in 1..Len(sent)
    BY <1>1, <1>4, StreamShrinks
  <2>2. u.is = "start" /\ u.of = j + 1
    BY <2>1 DEF Follows
  <2>3. j # Len(sent)
    <3>1. u.of \in 1..Len(sent)
      BY <2>1
    <3> HIDE DEF u
    <3> QED BY <1>1, <1>2, <2>2, <3>1
  <2>4. sent[j].length = NoLength
    BY <1>1, <2>3, LatestIs
  <2>5. Len(received') = j /\ serving' = Before(sent[u.of], u)
    BY <2>2, <2>4 DEF Before
  <2> QED BY <1>1, <1>4, <2>1, <2>2, <2>5 DEF HUp
<1> QED BY <1>3, <1>4

\* What is left to read within a request.
LEMMA NextUp ==
  ASSUME Orderly, HServer, up # <<>>, NEW j, j = up[1].of, ~Completes(sent[j], up[1]),
         up' = Tail(up), UNCHANGED <<alive, sent, received>>,
         \A u : u \in Tokens /\ IsToken(sent[j], u) /\ Follows(sent[j], up[1], u) => serving' = Before(sent[j], u)
  PROVE  HUp'
<1>1. /\ Stream(up, sent) /\ Ended(up, sent) /\ (alive => Whole(up, sent)) /\ Stream(Tail(up), sent)
      /\ j \in 1..Len(sent) /\ j = Len(received) + 1 /\ up[1] \in Tokens /\ IsToken(sent[j], up[1])
      /\ sent[j] \in Requests
  BY ServerIs DEF HServer, HUp
<1>2. Tail(up) # <<>>
  BY <1>1, StreamShrinks
<1> DEFINE u == Tail(up)[1]
<1>3. /\ Follows(sent[j], up[1], u) /\ Ended(Tail(up), sent) /\ (alive => Whole(Tail(up), sent))
      /\ u \in Tokens /\ IsToken(sent[u.of], u)
  BY <1>1, <1>2, StreamShrinks
<1>4. u.of = j
  BY <1>1, <1>3, RequestIs, WithinMessage
<1>5. serving' = Before(sent[j], u)
  BY <1>3, <1>4
<1> QED BY <1>1, <1>2, <1>3, <1>4, <1>5 DEF HUp

\* A start line or a header.
LEMMA ServerReadsLine ==
  ASSUME Orderly, HServer, up # <<>>, up[1].is \in {"start", "close", "length"},
         ServerLine(Head(up)) \/ ServerBody(Head(up)), up' = Tail(up), UNCHANGED <<alive, sent>>
  PROVE  HServer' /\ NoAnswer
<1> DEFINE t == up[1]
           j == Len(received) + 1
           m == sent[j]
           u == Tail(up)[1]
<1>1. /\ Head(up) = t /\ t \in Tokens /\ t.of = j /\ j \in 1..Len(sent) /\ IsToken(m, t)
      /\ j \in 0..MaxRequests /\ m \in Requests /\ serving = Before(m, t)
      /\ Stream(up, sent) /\ Ended(up, sent)
  BY ServerIs
<1>2. Shaped(m) /\ (m.length = NoLength \/ m.length >= m.body)
  BY <1>1, RequestIs
<1>3. ~Completes(m, t)
  BY <1>1, <1>2, TokenKinds
<1>4. Tail(up) # <<>>
  BY <1>1, <1>3, StreamShrinks
<1>5. Follows(m, t, u) /\ u \in Tokens /\ IsToken(sent[u.of], u)
  BY <1>1, <1>4, StreamShrinks
<1>6. u.of = j
  BY <1>1, <1>2, <1>3, <1>5, WithinMessage
<1> HIDE DEF u
<1>7. ~Body(serving) /\ ~EndsHeaders(serving, t) /\ ~Refused(serving, t)
  BY <1>1, <1>2, <1>5, <1>6, ReadsLine
<1>8. \A v : v \in Tokens /\ IsToken(m, v) /\ Follows(m, t, v) => Line(serving, t) = Before(m, v)
  BY <1>1, <1>2, ReadsLine
<1>9. failed' = FALSE /\ serving' = Line(serving, t) /\ UNCHANGED <<down, left, received, answered>>
  <2>1. ServerLine(t)
    BY <1>1, <1>7 DEF ServerBody
  <2>2. ~ServerRefuses(t)
    BY <1>7 DEF ServerRefuses
  <2> QED BY <1>7, <2>1, <2>2 DEF ServerLine
<1>10. serving' \in Readers
  <2>1. serving' = Before(m, u)
    BY <1>5, <1>6, <1>8, <1>9
  <2> QED BY <1>1, <1>2, <1>5, <1>6, <2>1, BeforeIs
<1>11. HUp'
  BY <1>1, <1>3, <1>8, <1>9, NextUp
<1> QED BY <1>9, <1>10, <1>11, ServerStep DEF NoAnswer

\* The empty line behind the headers.
LEMMA ServerReadsEnd ==
  ASSUME Orderly, HServer, up # <<>>, up[1].is = "end", failed = FALSE,
         ServerLine(Head(up)) \/ ServerBody(Head(up)), up' = Tail(up), UNCHANGED <<alive, sent>>
  PROVE  HServer' /\ (NoAnswer \/ \E s : Answering(s))
<1> DEFINE t == up[1]
           j == Len(received) + 1
           m == sent[j]
<1>1. /\ Head(up) = t /\ t \in Tokens /\ t.of = j /\ j \in 1..Len(sent) /\ IsToken(m, t)
      /\ j \in 0..MaxRequests /\ j \in Nat /\ m \in Requests /\ serving = Before(m, t)
  BY ServerIs
<1>2. /\ Shaped(m) /\ m.length \in Lengths /\ (m.length = NoLength => m.body = 0)
      /\ m.length # NoLength => m.length = m.body
  BY <1>1, RequestIs DEF Shaped
<1>3. /\ ~Body(serving) /\ EndsHeaders(serving, t) /\ serving.line = <<>> /\ serving.message = Seen(m, j, "byte")
      /\ Expects(serving, m.length) = Reading(m, j, 0, m.length)
      /\ \A u : m.body # 0 /\ Follows(m, t, u) => Before(m, u) = Reading(m, j, 0, m.length)
  BY <1>1, <1>2, ReadsEnd
<1>4. Over(serving.message).length = m.length
  <2>1. serving.message \in Messages /\ serving.message.length = m.length
    BY <1>1, <1>2, <1>3, SeenIs
  <2>2. Len(received) # Len(sent)
    BY <1>1, KnownToServer
  <2> QED BY <2>1, <2>2, LeftIs, OverIs
<1>5. ServerEnd(serving)
  BY <1>1, <1>3 DEF ServerLine, ServerBody
<1>6. CASE m.length = NoLength
  <2>1. Respond(serving)
    BY <1>4, <1>5, <1>6 DEF ServerEnd
  <2>2. serving.line = Bytes(j, m.body) /\ serving.line \in Seq(Tokens) /\ Completes(m, t)
    <3>1. m.body = 0
      BY <1>2, <1>6
    <3>2. Bytes(j, m.body) = <<>> /\ <<>> \in Seq(Tokens)
      BY <1>1, <3>1, BytesAre
    <3>3. Completes(m, t)
      BY <3>1 DEF Completes
    <3> QED BY <1>3, <3>2, <3>3
  <2>3. serving' = Ready
    <3> DEFINE r == [Ready EXCEPT !.status = "reading_status"]
    <3>1. /\ r \in Readers /\ r.status = "reading_status" /\ r.line = Ready.line
          /\ r.message = Ready.message /\ r.expected = Ready.expected
      BY ReadyIs DEF Readers, Kinds
    <3>2. serving' = r
      BY <1>3, <2>1 DEF Respond
    <3> HIDE DEF r
    <3>3. r = Ready
      BY <3>1, ReadyIs, SameReader
    <3> QED BY <3>2, <3>3
  <2>4. Len(received') = j
    <3>1. received' = Append(received, [message |-> Over(serving.message), body |-> serving.line])
      BY <2>1 DEF Respond
    <3>2. Len(received') = Len(received) + 1
      BY <3>1 DEF HServer, HServerTypes
    <3> QED BY <3>2
  <2>5. HUp'
    BY <1>1, <2>2, <2>3, <2>4, NextRequest
  <2>6. serving' \in Readers
    BY <2>3, ReadyIs
  <2> QED BY <1>1, <1>3, <2>1, <2>2, <2>5, <2>6, RespondKeeps
<1>7. CASE m.length # NoLength
  <2>1. /\ serving' = Reading(m, j, 0, m.length) /\ UNCHANGED <<down, left, received, answered>> /\ failed' = FALSE
    BY <1>3, <1>4, <1>5, <1>7 DEF ServerEnd
  <2>2. serving' \in Readers
    BY <1>1, <1>2, <2>1, ReadingIs
  <2>3. CASE m.body = 0
    <3>1. Completes(m, t)
      BY <2>3 DEF Completes
    <3>2. HUp'
      BY <1>1, <1>7, <3>1, NextRequest
    <3> QED BY <2>1, <2>2, <3>2, ServerStep DEF NoAnswer
  <2>4. CASE m.body # 0
    <3>1. ~Completes(m, t)
      BY <2>4 DEF Completes
    <3>2. \A u : u \in Tokens /\ IsToken(m, u) /\ Follows(m, t, u) => serving' = Before(m, u)
      BY <1>3, <2>1, <2>4
    <3>3. HUp'
      BY <1>1, <2>1, <3>1, <3>2, NextUp
    <3> QED BY <2>1, <2>2, <3>3, ServerStep DEF NoAnswer
  <2> QED BY <2>3, <2>4
<1> QED BY <1>6, <1>7

\* A byte of a body.
LEMMA ServerReadsByte ==
  ASSUME Orderly, HServer, up # <<>>, up[1].is = "byte", failed = FALSE,
         ServerLine(Head(up)) \/ ServerBody(Head(up)), up' = Tail(up), UNCHANGED <<alive, sent>>
  PROVE  HServer' /\ (NoAnswer \/ \E s : Answering(s))
<1> DEFINE t == up[1]
           j == Len(received) + 1
           m == sent[j]
           n == t.n
           rest == IF m.length = NoLength THEN NoLength ELSE m.length - t.n
           read == TakenIn(serving, t)
<1>1. /\ Head(up) = t /\ t \in Tokens /\ t.of = j /\ j \in 1..Len(sent) /\ IsToken(m, t)
      /\ j \in 0..MaxRequests /\ j \in Nat /\ m \in Requests /\ serving = Before(m, t)
  BY ServerIs
<1>2. /\ Shaped(m) /\ (m.length = NoLength \/ m.length >= m.body) /\ m.length \in Lengths /\ m.body \in Nat
      /\ (m.length = NoLength => m.body = 0) /\ (m.length # NoLength => m.length = m.body)
  BY <1>1, RequestIs DEF Shaped
<1>3. /\ Body(serving) /\ n \in 1..m.body /\ rest \in Lengths
      /\ m.length # NoLength =>
           serving.expected = rest + 1 /\ TakenIn(serving, t) = Reading(m, j, n, rest)
      /\ \A u : n # m.body /\ Follows(m, t, u) => Before(m, u) = Reading(m, j, n, rest)
  BY <1>1, <1>2, ReadsByte
<1>4. m.length # NoLength /\ n \in Nat /\ m.body \in Nat
  BY <1>2, <1>3
<1>5. rest = m.body - n /\ rest \in Nat
  <2>1. rest = m.body - n
    BY <1>2, <1>4
  <2>2. m.body - n \in Nat
    BY <1>2, <1>3
  <2> QED BY <2>1, <2>2
<1>6. rest = 0 <=> n = m.body
  BY <1>4, <1>5
<1> HIDE DEF rest
<1>7. serving.expected # 0 /\ read = Reading(m, j, n, rest)
  BY <1>3, <1>4, <1>5
<1>8. /\ read.expected = rest /\ read \in Readers /\ read.line = Bytes(j, n) /\ read.message = Seen(m, j, "byte") /\ Body(read)
  BY <1>1, <1>2, <1>3, <1>4, <1>7, ReadingIs
<1>9. IF read.expected = 0 THEN Respond(read) ELSE serving' = read /\ UNCHANGED <<down, left, received, answered, failed>>
  BY <1>1, <1>3, <1>7 DEF ServerBody, ServerLine
<1> HIDE DEF read
<1>10. CASE rest = 0
  <2>1. Respond(read) /\ read.line = Bytes(j, m.body) /\ Completes(m, t)
    BY <1>6, <1>8, <1>9, <1>10 DEF Completes
  <2>2. read.line \in Seq(Tokens)
    BY <1>8 DEF Readers
  <2>3. serving' \in Readers
    <3>1. serving' = [Ready EXCEPT !.status = "reading_body"]
      BY <1>8, <2>1 DEF Respond
    <3> QED BY <3>1, ReadyIs DEF Readers, Kinds
  <2>4. HUp'
    BY <1>1, <1>4, <2>1, NextRequest
  <2> QED BY <1>1, <1>8, <2>1, <2>2, <2>3, <2>4, RespondKeeps
<1>11. CASE rest # 0
  <2>1. serving' = read /\ UNCHANGED <<down, left, received, answered>> /\ failed' = FALSE
    BY <1>8, <1>9, <1>11
  <2>2. ~Completes(m, t) /\ n # m.body
    BY <1>6, <1>11 DEF Completes
  <2>3. \A u : u \in Tokens /\ IsToken(m, u) /\ Follows(m, t, u) => serving' = Before(m, u)
    BY <1>3, <1>7, <2>1, <2>2
  <2>4. HUp'
    BY <1>1, <2>1, <2>2, <2>3, NextUp
  <2> QED BY <1>8, <2>1, <2>4, ServerStep DEF NoAnswer
<1> QED BY <1>10, <1>11

LEMMA ServerReadsKeepsServer ==
  ASSUME Orderly, HServer, ServerReads
  PROVE  HServer' /\ (NoAnswer \/ \E s : Answering(s))
<1>1. /\ up # <<>> /\ failed = FALSE /\ (ServerLine(Head(up)) \/ ServerBody(Head(up))) /\ up' = Tail(up)
      /\ UNCHANGED <<alive, sent>>
  BY DEF ServerReads
<1>2. up[1].is \in {"start", "close", "length", "end", "byte"}
  BY <1>1, ServerIs DEF Tokens
<1>3. CASE up[1].is \in {"start", "close", "length"}
  BY <1>1, <1>3, ServerReadsLine
<1>4. CASE up[1].is = "end"
  BY <1>1, <1>4, ServerReadsEnd
<1>5. CASE up[1].is = "byte"
  BY <1>1, <1>5, ServerReadsByte
<1> QED BY <1>2, <1>3, <1>4, <1>5

LEMMA ServerReadsKeeps ==
  ASSUME Orderly, HInv, ServerReads
  PROVE  HInv'
<1>1. UNCHANGED <<alive, requests, client, begun, sent, delivered>>
  BY DEF ServerReads
<1>2. HServer' /\ (NoAnswer \/ \E s : Answering(s))
  BY ServerReadsKeepsServer DEF HInv
<1>3. CASE NoAnswer
  <2>1. UNCHANGED <<down, received, answered>> /\ failed' = FALSE
    BY <1>3 DEF NoAnswer
  <2>2. HTypes' /\ HCounts' /\ HAnswers' /\ HRequests' /\ HDelivered'
    BY <1>1, <2>1 DEF HInv, HTypes, HCounts, HAnswers, HRequests, HDelivered
  <2>3. HDown'
    BY <1>1, <2>1, DownStays DEF HInv
  <2> QED BY <1>2, <2>2, <2>3 DEF HInv
<1>4. ASSUME NEW s, Answering(s) PROVE HInv'
  BY <1>1, <1>2, <1>4, AnswerKeeps
<1> QED BY <1>2, <1>3, <1>4

-----------------------------------------------------------------------------
(* The connection ends.                                                    *)

\* A response whose end nobody announced.
LEMMA UntilClose ==
  ASSUME Orderly, HInv, alive, Body(client), client.expected = NoLength, NEW i, i = Len(delivered) + 1
  PROVE  /\ i \in 1..Len(answered) /\ i \in Nat /\ client.message = Seen(answered[i], i, "byte")
         /\ client.line \in Seq(Tokens) /\ answered[i].length = NoLength
         /\ IsPrefix(client.line, Bytes(i, answered[i].body))
<1> DEFINE a == answered[i]
<1>1. ~(client = Ready)
  BY ReadyIs
<1>2. \/ down # <<>> /\ down[1].of = i /\ client = Before(answered[down[1].of], down[1])
      \/ Waiting
  BY <1>1 DEF HInv, HDown
<1>3. ASSUME i \in 1..Len(answered), NEW n \in Nat, n <= a.body, a.length = NoLength,
             client = Reading(a, i, n, NoLength)
      PROVE  /\ i \in Nat /\ client.message = Seen(a, i, "byte") /\ client.line \in Seq(Tokens)
             /\ IsPrefix(client.line, Bytes(i, a.body))
  <2>1. a \in Answers[<<sent[i].first, sent[i].close>>] /\ sent[i] \in Requests /\ i \in 0..MaxRequests
    BY <1>3, Known
  <2>2. Shaped(a) /\ NoLength \in Lengths /\ i \in Nat /\ a.body \in Nat
    BY <2>1, AnswerIs DEF Lengths, Shaped
  <2>3. client.line = Bytes(i, n) /\ client.message = Seen(a, i, "byte")
    BY <1>3, <2>1, <2>2, ReadingIs
  <2>4. Bytes(i, n) \in Seq(Tokens)
    BY <2>2, BytesAre
  <2>5. IsPrefix(Bytes(i, n), Bytes(i, a.body))
    BY <1>3, <2>2, PrefixIs
  <2> QED BY <2>2, <2>3, <2>4, <2>5
<1>4. CASE down # <<>> /\ down[1].of = i /\ client = Before(answered[down[1].of], down[1])
  <2> DEFINE t == down[1]
  <2>1. /\ t \in Tokens /\ i \in 1..Len(answered) /\ IsToken(a, t) /\ client = Before(a, t)
        /\ i \in 0..MaxRequests
        /\ a \in Answers[<<sent[i].first, sent[i].close>>] /\ sent[i] \in Requests
    BY <1>4, ClientIs
  <2>2. Shaped(a) /\ (a.length = NoLength \/ a.length >= a.body)
    BY <2>1, AnswerIs
  <2>3. t.is \in {"start", "close", "length", "end", "byte"}
    BY <2>1, <2>2, TokenKinds
  <2>4. CASE t.is = "byte"
    <3> DEFINE rest == IF a.length = NoLength THEN NoLength ELSE a.length - t.n
               n == t.n - 1
    <3>1. t.n \in 1..a.body /\ a.body \in Nat /\ a.length \in Lengths
      BY <2>1, <2>2, <2>4, TokenKinds DEF Shaped
    <3>2. a.length = NoLength
      <4>1. rest \in Lengths /\ (a.length # NoLength => client.expected = rest + 1)
        BY <1>4, <2>1, <2>2, <2>4, ReadsByte
      <4>2. a.length # NoLength => rest \in Nat
        BY <2>2, <3>1 DEF Lengths
      <4> HIDE DEF rest
      <4> QED BY <4>1, <4>2 DEF NoLength
    <3>3. n \in Nat /\ n <= a.body
      BY <3>1
    <3>4. client = Reading(a, i, n, NoLength)
      BY <1>4, <2>1, <2>4, <3>2 DEF Before
    <3> HIDE DEF n
    <3> QED BY <1>3, <2>1, <3>2, <3>3, <3>4
  <2>5. CASE t.is = "start"
    BY <1>1, <2>1, <2>5 DEF Before
  <2>6. CASE t.is \in {"close", "length", "end"}
    <3>1. client = [status |-> "reading_headers", line |-> <<>>, message |-> Seen(a, t.of, t.is), expected |-> 0]
      BY <2>1, <2>6 DEF Before
    <3> QED BY <3>1 DEF Body
  <2> QED BY <2>3, <2>4, <2>5, <2>6
<1>5. CASE Waiting
  <2>1. i <= Len(answered) /\ i \in 1..Len(answered)
    <3>1. Len(delivered) \in Nat /\ Len(answered) \in Nat
      BY Known
    <3> QED BY <1>5, <3>1 DEF Waiting
  <2>2. a \in Answers[<<sent[i].first, sent[i].close>>] /\ sent[i] \in Requests /\ i \in 0..MaxRequests
    BY <2>1, Known
  <2>3. Shaped(a) /\ 0 \in Lengths /\ 0 \in Nat /\ a.body \in Nat
    BY <2>2, AnswerIs DEF Lengths, Shaped
  <2>4. CASE client = Reading(a, i, 0, 0)
    <3>1. client.expected = 0
      BY <2>2, <2>3, <2>4, ReadingIs
    <3> QED BY <3>1 DEF NoLength
  <2>5. CASE a.length = NoLength /\ client = Reading(a, i, a.body, NoLength)
    <3>1. a.body <= a.body
      BY <2>3
    <3> QED BY <1>3, <2>1, <2>3, <2>5, <3>1
  <2> QED BY <1>5, <2>4, <2>5 DEF Waiting
<1> QED BY <1>2, <1>4, <1>5

LEMMA ConnectionLostKeeps ==
  ASSUME Orderly, HInv, ConnectionLost
  PROVE  HInv'
<1>1. /\ alive /\ Disconnected /\ up' = <<>> /\ down' = <<>>
      /\ UNCHANGED <<serving, left, begun, sent, received, answered>>
  BY DEF ConnectionLost
<1>2. CASE Body(client) /\ client.expected = NoLength
  <2> DEFINE i == Len(delivered) + 1
  <2>1. Emit(client, FALSE)
    BY <1>1, <1>2 DEF Disconnected
  <2>2. /\ i \in 1..Len(answered) /\ client.message = Seen(answered[i], i, "byte")
        /\ client.line \in Seq(Tokens) /\ answered[i].length = NoLength
        /\ IsPrefix(client.line, Bytes(i, answered[i].body))
    BY <1>1, <1>2, UntilClose
  <2>3. /\ HServer' /\ HTypes' /\ HCounts' /\ HAnswers' /\ HRequests' /\ HDelivered'
        /\ (alive' => FALSE)
    BY <1>1, <2>1, <2>2, EmitKeeps
  <2>4. HDown'
    BY <2>3 DEF HDown
  <2> QED BY <2>3, <2>4 DEF HInv
<1>3. CASE ~(Body(client) /\ client.expected = NoLength)
  <2>1. alive' = FALSE /\ UNCHANGED <<client, requests, delivered, failed>>
    BY <1>1, <1>3 DEF Disconnected
  <2>2. HTypes'
    BY <1>1, <2>1 DEF HInv, HTypes
  <2>3. HCounts' /\ HAnswers' /\ HRequests' /\ HDelivered'
    BY <1>1, <2>1 DEF HInv, HCounts, HAnswers, HRequests, HDelivered
  <2>4. HServer' /\ HDown'
    BY <1>1, <2>1, ServerStays DEF HDown, HInv
  <2> QED BY <2>2, <2>3, <2>4 DEF HInv
<1> QED BY <1>2, <1>3

LEMMA RestLostKeeps ==
  ASSUME Orderly, HInv, RestLost
  PROVE  HInv'
<1>1. /\ ~alive /\ up' = <<>>
      /\ UNCHANGED <<alive, down, requests, client, serving, left, failed, begun, sent, received, answered,
                     delivered>>
  BY DEF RestLost
<1>2. HTypes'
  BY <1>1 DEF HInv, HTypes
<1>3. HCounts' /\ HAnswers' /\ HRequests' /\ HDelivered'
  BY <1>1 DEF HInv, HCounts, HAnswers, HRequests, HDelivered
<1>4. HServer' /\ HDown'
  BY <1>1, ServerStays DEF HDown, HInv
<1> QED BY <1>2, <1>3, <1>4 DEF HInv

-----------------------------------------------------------------------------
(* The invariant, and what it says.                                        *)

LEMMA HInvInit ==
  ASSUME Orderly, HttpInit
  PROVE  HServer /\ (begun = "reading_status" => HInv)
<1>1. /\ alive = TRUE /\ up = <<>> /\ down = <<>> /\ requests = <<>>
      /\ begun \in Kinds /\ (begun = "reading_status" => client = Ready)
      /\ serving = Ready /\ left = Nothing /\ failed = FALSE
      /\ sent = <<>> /\ received = <<>> /\ answered = <<>> /\ delivered = <<>>
  BY DEF HttpInit
<1>2. /\ Len(sent) = 0 /\ Len(received) = 0 /\ Len(answered) = 0 /\ Len(delivered) = 0 /\ Len(requests) = 0
  BY <1>1
<1>3. HServer
  <2>1. MaxRequests \in Nat /\ 0 <= MaxRequests
    BY HttpAssumption
  <2>2. HServerTypes
    BY <1>1, <1>2, <2>1, ReadyIs DEF HServerTypes
  <2>3. HGuards /\ HReceived
    BY <1>2 DEF HGuards, HReceived
  <2>4. HLeft
    BY <1>1, ReadyIs DEF HLeft
  <2>5. HUp
    BY <1>1, <1>2, NothingStreams DEF HUp
  <2> QED BY <2>2, <2>3, <2>4, <2>5 DEF HServer
<1>4. ASSUME begun = "reading_status" PROVE HInv
  <2>1. client = Ready
    BY <1>1, <1>4
  <2>2. HTypes
    BY <1>1, <2>1, ReadyIs DEF HTypes
  <2>3. HCounts /\ HAnswers /\ HRequests /\ HDelivered
    BY <1>2 DEF HCounts, HAnswers, HRequests, HDelivered
  <2>4. HDown
    BY <1>1, <1>2, <2>1, NothingStreams DEF HDown
  <2> QED BY <1>3, <2>2, <2>3, <2>4 DEF HInv
<1> QED BY <1>3, <1>4

LEMMA HServerNext ==
  ASSUME Orderly, HServer, [HttpNext]_httpVars
  PROVE  HServer' /\ begun' = begun
<1>1. ASSUME NEW r \in Requests, WriteRequest(r) PROVE HServer' /\ begun' = begun
  BY <1>1, WriteRequestKeepsServer, Writes
<1>2. CASE ClientReads
  <2>1. alive /\ UNCHANGED <<up, serving, left, begun, sent, received>>
    BY <1>2 DEF ClientReads
  <2> QED BY <2>1, ServerStays
<1>3. CASE ServerReads
  BY <1>3, ServerReadsKeepsServer DEF ServerReads
<1>4. CASE ConnectionLost
  <2>1. ~alive'
    BY <1>4 DEF ConnectionLost, Disconnected, Emit
  <2>2. up' = <<>> /\ UNCHANGED <<serving, left, begun, sent, received>>
    BY <1>4 DEF ConnectionLost
  <2> QED BY <2>1, <2>2, ServerStays
<1>5. CASE RestLost
  <2>1. ~alive' /\ up' = <<>> /\ UNCHANGED <<serving, left, begun, sent, received>>
    BY <1>5 DEF RestLost
  <2> QED BY <2>1, ServerStays
<1>6. CASE UNCHANGED httpVars
  <2>1. UNCHANGED <<alive, up, serving, left, begun, sent, received>>
    BY <1>6 DEF httpVars
  <2> QED BY <2>1, ServerStays
<1> QED BY <1>1, <1>2, <1>3, <1>4, <1>5, <1>6 DEF HttpNext

LEMMA HInvNext ==
  ASSUME Orderly, HInv, [HttpNext]_httpVars
  PROVE  HInv'
<1>1. ASSUME NEW r \in Requests, WriteRequest(r) PROVE HInv'
  BY <1>1, WriteRequestKeeps
<1>2. CASE ClientReads
  BY <1>2, ClientReadsKeeps
<1>3. CASE ServerReads
  BY <1>3, ServerReadsKeeps
<1>4. CASE ConnectionLost
  BY <1>4, ConnectionLostKeeps
<1>5. CASE RestLost
  BY <1>5, RestLostKeeps
<1>6. CASE UNCHANGED httpVars
  <2>1. UNCHANGED <<alive, up, down, requests, client, serving, left, failed, begun, sent, received, answered,
                    delivered>>
    BY <1>6 DEF httpVars
  <2>2. HTypes' /\ HCounts' /\ HAnswers' /\ HRequests' /\ HDelivered'
    BY <2>1 DEF HInv, HTypes, HCounts, HAnswers, HRequests, HDelivered
  <2>3. HServer' /\ HDown'
    BY <2>1, ServerStays, DownStays DEF HInv
  <2> QED BY <2>2, <2>3 DEF HInv
<1> QED BY <1>1, <1>2, <1>3, <1>4, <1>5, <1>6 DEF HttpNext

LEMMA HServerSays ==
  ASSUME HServer
  PROVE  RequestsArriveWhole
<1>1. Len(received) <= Len(sent) /\ DOMAIN received = 1..Len(received)
  BY DEF HServer, HServerTypes
<1>2. \A i \in 1..Len(received) : Got(i)
  BY DEF HServer, HReceived
<1> QED BY <1>1, <1>2 DEF RequestsArriveWhole, Got, Bytes

LEMMA HInvSays ==
  ASSUME Orderly, HInv
  PROVE  HttpTypeOK /\ PeersUnderstandEachOther /\ ResponsesMatchRequests /\ BodiesAreWhole
<1>1. /\ Len(sent) \in Nat /\ Len(answered) \in Nat /\ Len(delivered) \in Nat /\ Len(received) \in Nat
      /\ Len(requests) \in Nat /\ Len(sent) <= MaxRequests
      /\ Len(received) = Len(answered) /\ Len(answered) <= Len(sent) /\ Len(delivered) <= Len(answered)
  BY Known
<1>2. HttpTypeOK
  <2>1. alive \in BOOLEAN /\ failed \in BOOLEAN /\ begun \in Kinds
    BY DEF HInv, HTypes
  <2>2. ASSUME NEW s \in {client, serving}
        PROVE  s.status \in Kinds /\ s.expected \in Nat \cup {NoLength} /\ s.message.of \in 0..MaxRequests
    <3>1. s \in Readers
      BY DEF HInv, HTypes, HServer, HServerTypes
    <3>2. s.status \in Kinds /\ s.expected \in Lengths /\ s.message \in Messages
      BY <3>1 DEF Readers
    <3>3. s.message.of \in 0..MaxRequests
      BY <3>2 DEF Messages
    <3> QED BY <3>2, <3>3 DEF Lengths
  <2>3. Len(requests) = Len(sent) - Len(delivered)
    BY DEF HInv, HRequests
  <2>4. Len(requests) <= Len(sent)
    BY <1>1, <2>3
  <2> QED BY <1>1, <2>1, <2>2, <2>4 DEF HttpTypeOK
<1>3. PeersUnderstandEachOther
  BY DEF PeersUnderstandEachOther, HInv, HTypes
<1>4. /\ DOMAIN delivered = 1..Len(delivered)
      /\ DOMAIN answered = 1..Len(answered)
  BY DEF HInv, HTypes
<1>6. ResponsesMatchRequests
  <2>1. \A i \in 1..Len(delivered) : i <= Len(answered)
    BY <1>1
  <2> QED BY <1>4, <2>1 DEF ResponsesMatchRequests, HInv, HDelivered
<1>7. BodiesAreWhole
  BY <1>4 DEF BodiesAreWhole, HInv, HDelivered, Bytes
<1> QED BY <1>2, <1>3, <1>6, <1>7

(* However many requests are written one behind the other, wherever the connection     *)
(* cuts the bytes, whenever it is lost and whatever the application leaves in the       *)
(* request it is handed: the server's application gets each request once, in order and  *)
(* whole, with no field of another but perhaps an earlier one's where it has none.  If  *)
(* moreover the client's status, which its constructor does not set, began as it        *)
(* should, neither end ever refuses a line or gets a response to nothing, and the       *)
(* client's application gets each response with its own request and the body that was   *)
(* announced (http_client_socket, http_server_socket, m_requests, emit_response).       *)
THEOREM MessagesAreWhole ==
  ASSUME Orderly
  PROVE  HttpSpec => []MessagesArriveWhole
<1> DEFINE Good == HServer /\ (begun = "reading_status" => HInv)
<1>1. HttpInit => Good
  BY HInvInit
<1>2. Good /\ [HttpNext]_httpVars => Good'
  BY HServerNext, HInvNext
<1>3. Good => MessagesArriveWhole
  BY HServerSays, HInvSays DEF MessagesArriveWhole
<1> HIDE DEF Good
<1> QED BY <1>1, <1>2, <1>3, PTL DEF HttpSpec
=============================================================================
