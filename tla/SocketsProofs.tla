---------------------------- MODULE SocketsProofs ----------------------------
(***************************************************************************)
(* Theorems about the sockets, their life cycle and the watchers, for      *)
(* every value of the constants.                                           *)
(***************************************************************************)
EXTENDS MCSockets, CircularBufferProofs, FiniteSetTheorems

-----------------------------------------------------------------------------
(* The life cycle.                                                         *)

\* What can be attempted over a list is a recursive function.
AreRuns(f, base, n, connecting) ==
  f = [i \in 0..n |-> IF i = 0 THEN base
                      ELSE UNION {Tried(run, connecting) : run \in f[i - 1]}]

LEMMA RunsExist ==
  ASSUME NEW base, NEW connecting, NEW n \in Nat
  PROVE  \E f : AreRuns(f, base, n, connecting)
<1> DEFINE More(s) == UNION {Tried(run, connecting) : run \in s}
           Is(f, m) == f = [i \in 0..m |-> IF i = 0 THEN base ELSE More(f[i - 1])]
           T == {m \in Nat : \E f : Is(f, m)}
<1> HIDE DEF More
<1>1. 0 \in T
  <2>1. Is([i \in 0..0 |-> base], 0)
    OBVIOUS
  <2> QED BY <2>1
<1>2. ASSUME NEW m \in Nat, m \in T PROVE m + 1 \in T
  <2>1. PICK f : Is(f, m)
    BY <1>2
  <2> DEFINE g == [i \in 0..(m + 1) |-> IF i = m + 1 THEN More(f[m]) ELSE f[i]]
  <2>2. ASSUME NEW i \in 0..(m + 1), i # 0 PROVE i - 1 \in 0..m /\ g[i - 1] = f[i - 1]
    BY <2>2
  <2>3. ASSUME NEW i \in 0..(m + 1)
        PROVE  g[i] = IF i = 0 THEN base ELSE More(g[i - 1])
    BY <2>1, <2>2
  <2>4. g = [i \in 0..(m + 1) |-> g[i]]
    OBVIOUS
  <2> HIDE DEF g
  <2>5. Is(g, m + 1)
    BY <2>3, <2>4
  <2> QED BY <2>5
<1>3. n \in T
  BY <1>1, <1>2, Induction
<1> QED BY <1>3 DEF More, AreRuns

States == {"invalid", "connected", "bound", "listening"}
Owners == [sock : Fds \cup {invalid_socket}, s : States, blocking : BOOLEAN]
Files == [is : States \cup {"closed", "new", "other", "connecting"}, waits : BOOLEAN]
Codes == {"ok", "error", "invalid_argument", "busy", "not_connected"}
Worlds == [own : Owners, kernel : [Fds -> Files], ec : Codes,
           callback : {"nothing", "connected", "disconnected"}, unset : BOOLEAN,
           started : BOOLEAN]

\* The open descriptors are the socket's and h, those of the rest of the program.
Holds(w, h) ==
  /\ w \in Worlds /\ h \subseteq Fds /\ w.own.sock \notin h
  /\ \A fd \in Fds : w.kernel[fd].is # "closed" <=> fd \in h \cup {w.own.sock}

\* The socket says what its descriptor is, and whether its calls wait.
Agrees(w) ==
  /\ w.own.sock = invalid_socket <=> w.own.s = "invalid"
  /\ w.own.s # "invalid" => /\ AsItSays(w.own, w.kernel, w.started)
                            /\ ~w.unset => w.kernel[w.own.sock].waits = w.own.blocking

Sound(w, h) == Holds(w, h) /\ Agrees(w)

\* An error code changes nothing else.
LEMMA WithError ==
  ASSUME NEW w, NEW h, NEW e \in Codes
  PROVE  /\ Holds(w, h) => Holds(With(w, e), h)
         /\ Sound(w, h) => Sound(With(w, e), h)
         /\ w \in Worlds => With(w, e) \in Worlds /\ With(w, e).ec = e
  BY DEF With, Holds, Agrees, Sound, Worlds

\* A descriptor that is closed is forgotten.
LEMMA ReleaseKeeps ==
  ASSUME NEW w, NEW h, Holds(w, h), w.own.sock # invalid_socket
  PROVE  /\ Sound(Release(w), h)
         /\ Release(w).own = NoSocket(w.own.blocking) /\ Release(w).ec = w.ec
<1> DEFINE fd == w.own.sock
           v == Release(w)
           k == [w.kernel EXCEPT ![fd] = Closed]
           o == NoSocket(w.own.blocking)
<1>1. fd \in Fds /\ w.own.blocking \in BOOLEAN /\ w \in Worlds /\ fd \notin h
  BY DEF Holds, Worlds, Owners
<1>2. v.own = o /\ v.kernel = k /\ v.ec = w.ec
  BY <1>1 DEF Release, Worlds
<1>3. /\ o \in Owners /\ Closed \in Files /\ Closed.is = "closed"
      /\ o.sock = invalid_socket /\ o.s = "invalid"
  BY <1>1 DEF NoSocket, Owners, Closed, Files, States
<1>4. v \in Worlds
  <2>1. k \in [Fds -> Files]
    BY <1>1, <1>3 DEF Worlds
  <2>2. v = [w EXCEPT !.kernel = k, !.own = o, !.unset = FALSE, !.started = FALSE]
    BY DEF Release
  <2> HIDE DEF k, o, v
  <2> QED BY <1>1, <1>3, <2>1, <2>2 DEF Worlds
<1>5. \A f \in Fds : v.kernel[f] = IF f = fd THEN Closed ELSE w.kernel[f]
  BY <1>1, <1>2 DEF Worlds
<1> HIDE DEF v, k, o
<1>6. Holds(v, h)
  BY <1>1, <1>2, <1>3, <1>4, <1>5, LifeAssumption DEF Holds
<1>7. Agrees(v)
  BY <1>2, <1>3 DEF Agrees
<1> QED BY <1>2, <1>6, <1>7 DEF Sound, v, o

\* set_blocking() reaches the descriptor, or is remembered.
LEMMA SetModeKeeps ==
  ASSUME NEW w, NEW h, Sound(w, h), NEW b \in BOOLEAN, NEW v \in SetMode(w, b)
  PROVE  Sound(v, h)
<1> DEFINE fd == w.own.sock
           done == [w EXCEPT !.own.blocking = b, !.unset = FALSE]
           o == [w.own EXCEPT !.blocking = b]
<1>1. w \in Worlds /\ w.own \in Owners
  BY DEF Sound, Holds, Worlds
<1>2. done \in Worlds /\ done.own = o /\ done.kernel = w.kernel /\ done.started = w.started
  BY <1>1 DEF Worlds, Owners
<1>3. o.sock = fd /\ o.s = w.own.s /\ o.blocking = b
  BY <1>1 DEF Owners
<1> HIDE DEF o
<1>4. CASE fd = invalid_socket
  <2>1. v = done
    BY <1>4 DEF SetMode
  <2> HIDE DEF done
  <2> QED BY <1>2, <1>3, <1>4, <2>1 DEF Sound, Holds, Agrees, AsItSays
<1>5. CASE fd # invalid_socket
  <2>1. fd \in Fds /\ w.kernel[fd] \in Files
    BY <1>1, <1>5 DEF Owners, Worlds
  <2>2. CASE v = With(w, "error")
    <3>1. \A e \in Codes : Sound(With(w, e), h)
      BY WithError
    <3>2. Sound(With(w, "error"), h)
      BY <3>1 DEF Codes
    <3> QED BY <2>2, <3>2
  <2>3. CASE v = [done EXCEPT !.kernel[fd].waits = b]
    <3> DEFINE k == [done.kernel EXCEPT ![fd].waits = b]
    <3> HIDE DEF done
    <3>1. /\ k \in [Fds -> Files] /\ k[fd].is = w.kernel[fd].is /\ k[fd].waits = b
          /\ \A f \in Fds : k[f].is = w.kernel[f].is
      BY <1>2, <2>1 DEF Worlds, Files
    <3>2. v = [done EXCEPT !.kernel = k]
      BY <2>3
    <3> HIDE DEF k
    <3>3. v \in Worlds /\ v.own = o /\ v.kernel = k /\ v.started = w.started
      BY <1>2, <3>1, <3>2 DEF Worlds
    <3>4. Holds(v, h)
      BY <1>3, <3>1, <3>3 DEF Sound, Holds
    <3>5. Agrees(v)
      BY <1>3, <1>5, <3>1, <3>3 DEF Sound, Agrees, AsItSays
    <3> QED BY <3>4, <3>5 DEF Sound
  <2> QED BY <1>5, <2>2, <2>3 DEF SetMode
<1> QED BY <1>4, <1>5

\* A descriptor that socket() returned, which is not tied to anything yet.
LEMMA NewDescriptorKeeps ==
  ASSUME NEW w, NEW h, Sound(w, h), w.own.s = "invalid", NEW v \in NewDescriptor(w)
  PROVE  \/ v = With(w, "error")
         \/ Holds(v, h) /\ v.own.sock # invalid_socket /\ v.ec = w.ec /\ v.own.s = "invalid"
<1>1. w \in Worlds /\ w.own \in Owners /\ w.own.sock = invalid_socket
  BY DEF Sound, Holds, Agrees, Worlds
<1>2. SUFFICES ASSUME NEW fd \in FreeFds(w.kernel),
                      v = [w EXCEPT !.own.sock = fd, !.kernel[fd] = Opened("new")]
               PROVE  /\ Holds(v, h) /\ v.own.sock # invalid_socket
                      /\ v.ec = w.ec /\ v.own.s = "invalid"
  BY DEF NewDescriptor
<1> DEFINE o == [w.own EXCEPT !.sock = fd]
           k == [w.kernel EXCEPT ![fd] = Opened("new")]
<1>3. fd \in Fds /\ w.kernel[fd].is = "closed"
  BY <1>2 DEF FreeFds
<1>4. o \in Owners /\ o.sock = fd /\ o.s = w.own.s
  BY <1>1, <1>3 DEF Owners
<1>5. Opened("new") \in Files /\ Opened("new").is = "new"
  BY DEF Opened, Files
<1>6. /\ k \in [Fds -> Files]
      /\ \A f \in Fds : k[f] = IF f = fd THEN Opened("new") ELSE w.kernel[f]
  BY <1>1, <1>3, <1>5 DEF Worlds
<1>7. v = [w EXCEPT !.own = o, !.kernel = k]
  BY <1>2
<1> HIDE DEF o, k
<1>8. v \in Worlds /\ v.own = o /\ v.kernel = k /\ v.ec = w.ec
  BY <1>1, <1>4, <1>6, <1>7 DEF Worlds
<1>9. fd \notin h
  BY <1>3 DEF Sound, Holds
<1>10. Holds(v, h)
  BY <1>1, <1>3, <1>4, <1>5, <1>6, <1>8, <1>9, LifeAssumption DEF Sound, Holds
<1> QED BY <1>2, <1>3, <1>4, <1>8, <1>10, LifeAssumption

\* What is tied says what it is; whether the mode was set is noted.
LEMMA TiedKeeps ==
  ASSUME NEW w, NEW h, Holds(w, h), w.own.sock # invalid_socket, NEW new \in BOOLEAN,
         ~new => Sound(w, h), NEW becomes \in {"connected", "bound"},
         NEW v \in Tied(w, becomes, new)
  PROVE  Sound(v, h)
<1> DEFINE fd == w.own.sock
           t == [w EXCEPT !.own.s = becomes, !.kernel[w.own.sock].is = becomes, !.started = FALSE]
           o == [w.own EXCEPT !.s = becomes]
           k == [w.kernel EXCEPT ![fd].is = becomes]
<1>1. w \in Worlds /\ w.own \in Owners /\ fd \in Fds /\ w.kernel[fd] \in Files
  BY DEF Holds, Worlds, Owners
<1>2. becomes \in States /\ becomes # "invalid" /\ becomes # "closed"
  BY DEF States
<1>3. o \in Owners /\ o.sock = fd /\ o.s = becomes /\ o.blocking = w.own.blocking
  BY <1>1, <1>2 DEF Owners
<1>4. /\ k \in [Fds -> Files] /\ k[fd].is = becomes /\ k[fd].waits = w.kernel[fd].waits
      /\ \A f \in Fds \ {fd} : k[f] = w.kernel[f]
  BY <1>1, <1>2 DEF Worlds, Files
<1>5. t = [w EXCEPT !.own = o, !.kernel = k, !.started = FALSE]
  OBVIOUS
<1>6. v \in (IF new THEN {[u EXCEPT !.unset = u.ec # "ok"] : u \in SetMode(t, t.own.blocking)}
             ELSE {t})
  BY DEF Tied
<1> HIDE DEF o, k, t
<1>7. t \in Worlds /\ t.own = o /\ t.kernel = k /\ t.unset = w.unset /\ t.ec = w.ec
  BY <1>1, <1>3, <1>4, <1>5 DEF Worlds
<1>8. Holds(t, h)
  BY <1>1, <1>2, <1>3, <1>4, <1>7 DEF Holds
<1>9. ASSUME ~new PROVE Sound(v, h)
  <2>1. v = t
    BY <1>6, <1>9
  <2>2. w.own.s # "invalid" /\ (~w.unset => w.kernel[fd].waits = w.own.blocking)
    BY <1>9 DEF Sound, Agrees
  <2>3. Agrees(t)
    BY <1>1, <1>2, <1>3, <1>4, <1>7, <2>2, LifeAssumption DEF Agrees, AsItSays
  <2> QED BY <1>8, <2>1, <2>3 DEF Sound
<1>10. ASSUME new PROVE Sound(v, h)
  <2> DEFINE b == t.own.blocking
             done == [t EXCEPT !.own.blocking = b, !.unset = FALSE]
  <2>1. PICK u \in SetMode(t, b) : v = [u EXCEPT !.unset = u.ec # "ok"]
    BY <1>6, <1>10
  <2>2. b \in BOOLEAN
    BY <1>1, <1>3, <1>7 DEF Owners
  <2>3. done \in Worlds /\ done.own = [o EXCEPT !.blocking = b] /\ done.kernel = k
    BY <1>3, <1>7, <2>2 DEF Worlds, Owners
  <2>4. [o EXCEPT !.blocking = b] = o
    BY <1>3, <1>7 DEF Owners
  <2>5. u = [done EXCEPT !.kernel[fd].waits = b] \/ u = With(t, "error")
    BY <1>1, <1>3, <1>7, <2>1, LifeAssumption DEF SetMode
  <2> HIDE DEF done
  <2>6. CASE u = [done EXCEPT !.kernel[fd].waits = b]
    <3> DEFINE q == [k EXCEPT ![fd].waits = b]
    <3>1. /\ q \in [Fds -> Files] /\ q[fd].is = k[fd].is /\ q[fd].waits = b
          /\ \A f \in Fds : q[f].is = k[f].is
      BY <1>1, <1>4, <2>2 DEF Files
    <3>2. u = [done EXCEPT !.kernel = q]
      BY <2>3, <2>6
    <3> HIDE DEF q
    <3>3. u \in Worlds /\ u.own = o /\ u.kernel = q
      BY <2>3, <2>4, <3>1, <3>2 DEF Worlds
    <3>4. v \in Worlds /\ v.own = o /\ v.kernel = q
      BY <2>1, <3>3 DEF Worlds
    <3> HIDE DEF b
    <3>5. Holds(v, h)
      BY <1>1, <1>2, <1>3, <1>4, <1>7, <1>8, <3>1, <3>4 DEF Holds
    <3>6. Agrees(v)
      BY <1>1, <1>2, <1>3, <1>4, <1>7, <3>1, <3>4, LifeAssumption DEF Agrees, AsItSays, b
    <3> QED BY <3>5, <3>6 DEF Sound
  <2>7. CASE u = With(t, "error")
    <3>1. u \in Worlds /\ u.own = o /\ u.kernel = k /\ u.ec = "error"
      BY <1>7, <2>7 DEF With, Worlds, Codes
    <3>2. v \in Worlds /\ v.own = o /\ v.kernel = k /\ v.unset = TRUE
      BY <2>1, <3>1 DEF Worlds
    <3>3. Holds(v, h)
      BY <1>7, <1>8, <3>2 DEF Holds
    <3>4. Agrees(v)
      BY <1>1, <1>2, <1>3, <1>4, <3>2, LifeAssumption DEF Agrees, AsItSays
    <3> QED BY <3>3, <3>4 DEF Sound
  <2> QED BY <2>5, <2>6, <2>7
<1> QED BY <1>9, <1>10

\* A connection that is begun on a bound descriptor, behind an error.
LEMMA BegunKeeps ==
  ASSUME NEW w, NEW h, Sound(w, h), w.own.s # "invalid", w.kernel[w.own.sock].is = "bound"
  PROVE  Sound([w EXCEPT !.kernel[w.own.sock].is = "connecting", !.started = TRUE], h)
<1> DEFINE fd == w.own.sock
           v == [w EXCEPT !.kernel[w.own.sock].is = "connecting", !.started = TRUE]
           k == [w.kernel EXCEPT ![fd].is = "connecting"]
<1>1. /\ w \in Worlds /\ w.own \in Owners /\ fd \in Fds /\ w.kernel[fd] \in Files
      /\ w.own.s = "bound"
  BY LifeAssumption DEF Sound, Holds, Agrees, AsItSays, Worlds, Owners
<1>2. /\ k \in [Fds -> Files] /\ k[fd].is = "connecting" /\ k[fd].waits = w.kernel[fd].waits
      /\ \A f \in Fds \ {fd} : k[f] = w.kernel[f]
  BY <1>1 DEF Worlds, Files
<1>3. v = [w EXCEPT !.kernel = k, !.started = TRUE]
  OBVIOUS
<1> HIDE DEF k, v
<1>4. v \in Worlds /\ v.own = w.own /\ v.kernel = k /\ v.started = TRUE /\ v.unset = w.unset
  BY <1>1, <1>2, <1>3 DEF Worlds
<1>5. Holds(v, h)
  BY <1>1, <1>2, <1>4 DEF Sound, Holds
<1>6. Agrees(v)
  BY <1>1, <1>2, <1>4 DEF Sound, Agrees, AsItSays
<1> QED BY <1>5, <1>6 DEF Sound, v

\* direct_bind(), of which any part may fail.
LEMMA DirectBindKeeps ==
  ASSUME NEW w, NEW h, Sound(w, h), w.ec = "ok", NEW becomes \in {"connected", "bound"},
         NEW v \in DirectBind(w, becomes)
  PROVE  Sound(v, h)
<1> DEFINE new == w.own.s = "invalid"
           open == IF new THEN NewDescriptor(w) ELSE {w}
<1>1. \A u : \A e \in Codes : Sound(u, h) => Sound(With(u, e), h)
  BY WithError
<1>2. CASE v = With(w, "invalid_argument")
  BY <1>1, <1>2 DEF Codes
<1>3. ASSUME v # With(w, "invalid_argument")
      PROVE  \E o \in open : v \in IF o.ec # "ok" THEN {o}
                                   ELSE GivesUp(o, new) \cup Tied(o, becomes, new)
  BY <1>3 DEF DirectBind
<1>4. ASSUME NEW o \in open,
             v \in IF o.ec # "ok" THEN {o} ELSE GivesUp(o, new) \cup Tied(o, becomes, new)
      PROVE  Sound(v, h)
  <2>1. CASE new
    <3>1. \/ o = With(w, "error")
          \/ Holds(o, h) /\ o.own.sock # invalid_socket /\ o.ec = w.ec
      BY <1>4, <2>1, NewDescriptorKeeps
    <3>2. CASE o = With(w, "error")
      <4>1. Sound(With(w, "error"), h)
        BY <1>1 DEF Codes
      <4>2. With(w, "error").ec = "error"
        BY DEF Sound, Holds, Worlds, With
      <4> QED BY <1>4, <3>2, <4>1, <4>2
    <3>3. CASE Holds(o, h) /\ o.own.sock # invalid_socket /\ o.ec = w.ec
      <4>1. v \in GivesUp(o, new) \/ v \in Tied(o, becomes, new)
        BY <1>4, <3>3
      <4>2. CASE v \in GivesUp(o, new)
        <5>1. v = With(Release(o), "error")
          BY <2>1, <4>2 DEF GivesUp
        <5>2. Sound(Release(o), h)
          BY <3>3, ReleaseKeeps
        <5> QED BY <1>1, <5>1, <5>2 DEF Codes
      <4>3. CASE v \in Tied(o, becomes, new)
        <5> HIDE DEF new
        <5>1. new \in BOOLEAN
          BY DEF new
        <5> QED BY <2>1, <3>3, <4>3, <5>1, TiedKeeps
      <4> QED BY <4>1, <4>2, <4>3
    <3> QED BY <3>1, <3>2, <3>3
  <2>2. CASE ~new
    <3>1. o = w
      BY <1>4, <2>2
    <3>2. w.own.sock # invalid_socket /\ Holds(w, h)
      BY <2>2 DEF Sound, Agrees
    <3>3. CASE v \in GivesUp(w, new)
      <4> DEFINE begun == [w EXCEPT !.kernel[w.own.sock].is = "connecting", !.started = TRUE]
      <4>1. v = With(w, "error") \/ (w.kernel[w.own.sock].is = "bound" /\ v = With(begun, "error"))
        BY <2>2, <3>3 DEF GivesUp
      <4>2. ASSUME w.kernel[w.own.sock].is = "bound" PROVE Sound(begun, h)
        BY <2>2, <4>2, BegunKeeps
      <4> HIDE DEF begun
      <4> QED BY <1>1, <4>1, <4>2 DEF Codes
    <3>4. CASE v \in Tied(w, becomes, new)
      <4> HIDE DEF new
      <4>1. new \in BOOLEAN
        BY DEF new
      <4> QED BY <2>2, <3>2, <3>4, <4>1, TiedKeeps
    <3> QED BY <1>4, <3>1, <3>3, <3>4
  <2> QED BY <2>1, <2>2
<1> QED BY <1>2, <1>3, <1>4

\* One address.
LEMMA AttemptKeeps ==
  ASSUME NEW w, NEW h, Sound(w, h), w.ec = "ok",
         NEW v \in ConnectOne(w) \cup BindOne(w)
  PROVE  Sound(v, h)
<1>1. Sound(With(w, "busy"), h)
  <2>1. \A e \in Codes : Sound(With(w, e), h)
    BY WithError
  <2> QED BY <2>1 DEF Codes
<1>2. \A becomes \in {"connected", "bound"} : \A u :
        u \in DirectBind(w, becomes) => Sound(u, h)
  BY DirectBindKeeps
<1>3. \/ v = With(w, "busy")
      \/ v \in DirectBind(w, "connected") \/ v \in DirectBind(w, "bound")
  BY DEF ConnectOne, BindOne
<1> QED BY <1>1, <1>2, <1>3

\* An attempt over a list goes on as long as there is no success, and then
\* without an error.
Goes(run, h) == /\ run.end \in BOOLEAN /\ Sound(run.w, h)
                /\ ~run.end => run.w.ec = "ok"

LEMMA TriedKeeps ==
  ASSUME NEW run, NEW h, Goes(run, h), NEW connecting \in BOOLEAN,
         NEW next \in Tried(run, connecting)
  PROVE  Goes(next, h)
<1>1. CASE run.end
  BY <1>1 DEF Tried
<1>2. CASE ~run.end
  <2> DEFINE Success(u) == [u EXCEPT !.callback = IF connecting THEN "connected" ELSE @]
  <2>1. PICK u \in (IF connecting THEN ConnectOne(run.w) ELSE BindOne(run.w)) :
          next = IF u.ec = "ok" THEN [end |-> TRUE, w |-> Success(u)]
                 ELSE [end |-> FALSE, w |-> With(u, "ok")]
    BY <1>2 DEF Tried
  <2>2. Sound(u, h)
    <3>1. u \in ConnectOne(run.w) \cup BindOne(run.w)
      BY <2>1
    <3>2. Sound(run.w, h) /\ run.w.ec = "ok"
      BY <1>2 DEF Goes
    <3> QED BY <3>1, <3>2, AttemptKeeps
  <2>3. u \in Worlds
    BY <2>2 DEF Sound, Holds
  <2>4. CASE u.ec = "ok"
    <3>1. /\ Success(u) \in Worlds /\ Success(u).own = u.own
          /\ Success(u).kernel = u.kernel /\ Success(u).unset = u.unset
          /\ Success(u).started = u.started
      BY <2>3 DEF Worlds
    <3>2. next.end = TRUE /\ next.w = Success(u)
      BY <2>1, <2>4
    <3> HIDE DEF Success
    <3>3. Sound(Success(u), h)
      BY <2>2, <3>1 DEF Sound, Holds, Agrees
    <3> QED BY <3>2, <3>3 DEF Goes
  <2>5. CASE u.ec # "ok"
    <3>1. Sound(With(u, "ok"), h) /\ With(u, "ok").ec = "ok"
      <4>1. \A e \in Codes : Sound(With(u, e), h) /\ With(u, e).ec = e
        BY <2>2, <2>3, WithError
      <4> QED BY <4>1 DEF Codes
    <3>2. next.end = FALSE /\ next.w = With(u, "ok")
      BY <2>1, <2>5
    <3> QED BY <3>1, <3>2 DEF Goes
  <2> QED BY <2>4, <2>5
<1> QED BY <1>1, <1>2 DEF Goes

\* A list of any length.
LEMMA OverListKeeps ==
  ASSUME NEW w, NEW h, Sound(w, h), w.ec = "ok", NEW n \in Nat,
         NEW connecting \in BOOLEAN, NEW v \in OverList(w, n, connecting)
  PROVE  Sound(v, h)
<1> DEFINE base == {[end |-> FALSE, w |-> w]}
           More(s) == UNION {Tried(run, connecting) : run \in s}
           runs == CHOOSE f : f = [i \in 0..n |-> IF i = 0 THEN base ELSE More(f[i - 1])]
           T == {k \in Nat : k <= n => \A run \in runs[k] : Goes(run, h)}
<1>1. PICK run \in runs[n] : v = run.w
  BY DEF OverList
<1>2. runs = [i \in 0..n |-> IF i = 0 THEN base ELSE More(runs[i - 1])]
  <2>1. \E f : f = [i \in 0..n |-> IF i = 0 THEN base ELSE More(f[i - 1])]
    <3> HIDE DEF base
    <3>1. \E f : AreRuns(f, base, n, connecting)
      BY RunsExist
    <3> QED BY <3>1 DEF AreRuns
  <2> QED BY <2>1
<1> HIDE DEF runs
<1>3. runs[0] = base /\ \A i \in 1..n : runs[i] = More(runs[i - 1])
  <2> HIDE DEF base, More
  <2> QED BY <1>2
<1>4. 0 \in T
  <2>1. ASSUME NEW start \in runs[0] PROVE Goes(start, h)
    <3>1. start = [end |-> FALSE, w |-> w]
      BY <1>3, <2>1
    <3> QED BY <3>1 DEF Goes
  <2> QED BY <2>1
<1>5. ASSUME NEW k \in Nat, k \in T PROVE k + 1 \in T
  <2> SUFFICES ASSUME k + 1 <= n, NEW next \in runs[k + 1] PROVE Goes(next, h)
    OBVIOUS
  <2>1. next \in More(runs[k])
    BY <1>3
  <2>2. PICK last \in runs[k] : next \in Tried(last, connecting)
    BY <2>1
  <2>3. Goes(last, h)
    BY <1>5
  <2> QED BY <2>2, <2>3, TriedKeeps
<1> HIDE DEF T
<1>6. n \in T
  BY <1>4, <1>5, Induction
<1> QED BY <1>1, <1>6 DEF T, Goes

\* listen() and disconnect().
LEMMA OthersKeep ==
  ASSUME NEW w, NEW h, Sound(w, h), NEW v \in Listens(w) \cup Disconnects(w)
  PROVE  Sound(v, h)
<1>1. \A u : \A e \in Codes : Sound(u, h) => Sound(With(u, e), h)
  BY WithError
<1>2. w \in Worlds /\ w.own \in Owners
  BY DEF Sound, Holds, Worlds
<1>3. CASE v \in Listens(w)
  <2>1. CASE v = With(w, "not_connected") \/ v = With(w, "error")
    BY <1>1, <2>1 DEF Codes
  <2>2. CASE v = [w EXCEPT !.own.s = "listening", !.kernel[w.own.sock].is = "listening",
                           !.started = FALSE]
             /\ w.own.s = "bound"
    <3> DEFINE fd == w.own.sock
               o == [w.own EXCEPT !.s = "listening"]
               k == [w.kernel EXCEPT ![fd].is = "listening"]
    <3>1. fd \in Fds /\ fd # invalid_socket /\ w.kernel[fd] \in Files
      BY <1>2, <2>2 DEF Sound, Agrees, Owners, Worlds
    <3>2. "listening" \in States
      BY DEF States
    <3>3. o \in Owners /\ o.sock = fd /\ o.s = "listening" /\ o.blocking = w.own.blocking
      BY <1>2, <3>2 DEF Owners
    <3>4. /\ k \in [Fds -> Files] /\ k[fd].is = "listening"
          /\ k[fd].waits = w.kernel[fd].waits /\ \A f \in Fds \ {fd} : k[f] = w.kernel[f]
      BY <1>2, <3>1, <3>2 DEF Worlds, Files
    <3>5. v = [w EXCEPT !.own = o, !.kernel = k, !.started = FALSE]
      BY <2>2
    <3> HIDE DEF o, k
    <3>6. v \in Worlds /\ v.own = o /\ v.kernel = k /\ v.unset = w.unset
      BY <1>2, <3>3, <3>4, <3>5 DEF Worlds
    <3>7. Holds(v, h)
      BY <3>1, <3>3, <3>4, <3>6 DEF Sound, Holds
    <3>8. Agrees(v)
      BY <2>2, <3>1, <3>3, <3>4, <3>6 DEF Sound, Agrees, AsItSays
    <3> QED BY <3>7, <3>8 DEF Sound
  <2> QED BY <1>3, <2>1, <2>2 DEF Listens
<1>4. CASE v \in Disconnects(w)
  <2>1. CASE w.own.sock = invalid_socket
    BY <1>4, <2>1 DEF Disconnects
  <2>2. CASE w.own.sock # invalid_socket
    <3> DEFINE r == Release(w)
    <3>1. Sound(r, h)
      BY <2>2, ReleaseKeeps DEF Sound
    <3>2. \/ v = With(r, "error")
          \/ v = [r EXCEPT !.callback = IF w.own.blocking THEN "disconnected" ELSE @]
      BY <1>4, <2>2 DEF Disconnects
    <3> HIDE DEF r
    <3>3. CASE v = With(r, "error")
      BY <1>1, <3>1, <3>3 DEF Codes
    <3>4. CASE v = [r EXCEPT !.callback = IF w.own.blocking THEN "disconnected" ELSE @]
      <4>1. r \in Worlds
        BY <3>1 DEF Sound, Holds
      <4>2. /\ v \in Worlds /\ v.own = r.own /\ v.kernel = r.kernel /\ v.unset = r.unset
            /\ v.started = r.started
        BY <3>4, <4>1 DEF Worlds
      <4> QED BY <3>1, <4>2 DEF Sound, Holds, Agrees
    <3> QED BY <3>2, <3>3, <3>4
  <2> QED BY <2>1, <2>2
<1> QED BY <1>3, <1>4

\* The invariant: the socket, the kernel and the rest of the program agree.
LifeInv == Sound(World, held)

\* A call that leaves such a world keeps it.
LEMMA EndsKeep ==
  ASSUME NEW outcomes, \A w \in outcomes : Sound(w, held), Ends(outcomes)
  PROVE  LifeInv'
<1>1. PICK w \in outcomes :
        /\ own' = w.own /\ kernel' = w.kernel /\ callback' = w.callback
        /\ unset' = w.unset /\ started' = w.started /\ held' = held
  BY DEF Ends
<1>2. Sound(w, held) /\ w \in Worlds
  BY DEF Sound, Holds
<1> DEFINE v == World'
<1>3. /\ v \in Worlds /\ v.own = w.own /\ v.kernel = w.kernel /\ v.unset = w.unset
      /\ v.started = w.started
  BY <1>1, <1>2 DEF World, Worlds, Codes
<1> HIDE DEF v
<1>4. Sound(v, held')
  BY <1>1, <1>2, <1>3 DEF Sound, Holds, Agrees
<1> QED BY <1>4 DEF LifeInv, v

\* The world at the beginning of a call.
LEMMA WorldParts ==
  /\ World.own = own /\ World.kernel = kernel /\ World.ec = "ok"
  /\ World.callback = callback /\ World.unset = unset /\ World.started = started
  BY DEF World

\* The destructor.
LEMMA DestroyKeeps == LifeInv /\ Destroy => LifeInv'
<1> SUFFICES ASSUME LifeInv, Destroy PROVE LifeInv'
  OBVIOUS
<1> DEFINE v == IF own.sock = invalid_socket THEN World ELSE Release(World)
           d == [v EXCEPT !.own = NoSocket(TRUE)]
<1>1. Ends({d})
  BY DEF Destroy
<1>2. Sound(v, held) /\ v.own.sock = invalid_socket
  <2>1. Sound(World, held) /\ Holds(World, held)
    BY DEF LifeInv, Sound
  <2>2. CASE own.sock = invalid_socket
    BY <2>1, <2>2, WorldParts
  <2>3. CASE own.sock # invalid_socket
    <3>1. World.own.sock # invalid_socket
      BY <2>3, WorldParts
    <3>2. Sound(Release(World), held) /\ Release(World).own = NoSocket(World.own.blocking)
      BY <2>1, <3>1, ReleaseKeeps
    <3> QED BY <2>3, <3>2 DEF NoSocket
  <2> QED BY <2>2, <2>3
<1> HIDE DEF v
<1>3. /\ NoSocket(TRUE) \in Owners /\ NoSocket(TRUE).sock = invalid_socket
      /\ NoSocket(TRUE).s = "invalid"
  BY DEF NoSocket, Owners, States
<1>4. v \in Worlds
  BY <1>2 DEF Sound, Holds
<1>5. /\ d \in Worlds /\ d.own = NoSocket(TRUE) /\ d.kernel = v.kernel
  BY <1>3, <1>4 DEF Worlds
<1> HIDE DEF d
<1>6. Sound(d, held)
  BY <1>2, <1>3, <1>5 DEF Sound, Holds, Agrees
<1> QED BY <1>1, <1>6, EndsKeep

\* A descriptor that was accepted.
LEMMA AcceptedKeeps ==
  ASSUME LifeInv, NEW fd \in Fds, Accepted(fd)
  PROVE  LifeInv'
<1> DEFINE o == [sock |-> fd, s |-> "connected", blocking |-> TRUE]
           d == [World EXCEPT !.kernel[fd] = Opened("connected"), !.own = o]
           k == [kernel EXCEPT ![fd] = Opened("connected")]
<1>1. Ends({d}) /\ own = NoSocket(TRUE) /\ kernel[fd].is = "closed"
  BY DEF Accepted, FreeFds
<1>2. World \in Worlds /\ Holds(World, held) /\ kernel \in [Fds -> Files]
  BY WorldParts DEF LifeInv, Sound, Holds, Worlds
<1>3. "connected" \in States /\ Opened("connected") \in Files
  BY DEF States, Files, Opened
<1>4. o \in Owners /\ Opened("connected").is = "connected" /\ Opened("connected").waits = TRUE
  BY <1>3 DEF Owners, Opened
<1>5. /\ k \in [Fds -> Files]
      /\ \A f \in Fds : k[f] = IF f = fd THEN Opened("connected") ELSE kernel[f]
  BY <1>2, <1>3
<1>6. d = [World EXCEPT !.kernel = k, !.own = o]
  BY WorldParts
<1>7. o.sock = fd /\ o.s = "connected" /\ o.blocking = TRUE
  OBVIOUS
<1> HIDE DEF o, k
<1>8. d \in Worlds /\ d.own = o /\ d.kernel = k
  BY <1>2, <1>4, <1>5, <1>6 DEF Worlds
<1> HIDE DEF d
<1>9. fd \notin held
  BY <1>1, <1>2, WorldParts DEF Holds
<1>10. \A f \in Fds : kernel[f].is # "closed" <=> f \in held
  BY <1>1, <1>2, WorldParts, LifeAssumption DEF Holds, NoSocket
<1>11. Holds(d, held)
  BY <1>2, <1>4, <1>5, <1>7, <1>8, <1>9, <1>10 DEF Holds
<1>12. Agrees(d)
  BY <1>4, <1>5, <1>7, <1>8, LifeAssumption DEF Agrees, AsItSays
<1> QED BY <1>1, <1>11, <1>12, EndsKeep DEF Sound

\* The rest of the program.
LEMMA ProgramKeeps ==
  ASSUME LifeInv, NEW fd \in Fds, OthersOpen(fd) \/ OthersClose(fd)
  PROVE  LifeInv'
<1> DEFINE v == World'
<1>1. World \in Worlds /\ Holds(World, held) /\ Agrees(World) /\ kernel \in [Fds -> Files]
  BY WorldParts DEF LifeInv, Sound, Holds, Worlds
<1>2. /\ v.own = own /\ v.kernel = kernel' /\ v.unset = unset /\ v.started = started
      /\ v = [own |-> own, kernel |-> kernel', ec |-> "ok", callback |-> callback,
              unset |-> unset, started |-> started]
  BY DEF World, OthersOpen, OthersClose
<1>3. /\ Opened("other") \in Files /\ Closed \in Files
      /\ Closed.is = "closed" /\ Opened("other").is = "other"
  BY DEF Opened, Closed, Files
<1>4. kernel' \in [Fds -> Files]
  BY <1>1, <1>3 DEF OthersOpen, OthersClose
<1>5. v \in Worlds
  BY <1>1, <1>2, <1>4, WorldParts DEF Worlds
<1> HIDE DEF v
<1>6. CASE OthersOpen(fd)
  <2>1. /\ kernel[fd].is = "closed" /\ held' = held \cup {fd}
        /\ kernel' = [kernel EXCEPT ![fd] = Opened("other")]
    BY <1>6 DEF OthersOpen, FreeFds
  <2>2. own.sock # fd
    BY <1>1, <2>1, WorldParts DEF Holds
  <2>3. \A f \in Fds : kernel'[f] = IF f = fd THEN Opened("other") ELSE kernel[f]
    BY <1>1, <2>1
  <2>4. Holds(v, held')
    BY <1>1, <1>2, <1>3, <1>5, <2>1, <2>2, <2>3, WorldParts DEF Holds
  <2>5. own.s # "invalid" => own.sock \in Fds
    BY <1>1, WorldParts DEF Agrees, Worlds, Owners
  <2>6. Agrees(v)
    BY <1>1, <1>2, <2>2, <2>3, <2>5, WorldParts DEF Agrees, AsItSays
  <2> QED BY <2>4, <2>6 DEF LifeInv, Sound, v
<1>7. CASE OthersClose(fd)
  <2>1. /\ fd \in held /\ held' = held \ {fd}
        /\ kernel' = [kernel EXCEPT ![fd] = Closed]
    BY <1>7 DEF OthersClose
  <2>2. own.sock # fd
    BY <1>1, <2>1, WorldParts DEF Holds
  <2>3. \A f \in Fds : kernel'[f] = IF f = fd THEN Closed ELSE kernel[f]
    BY <1>1, <2>1
  <2>4. Holds(v, held')
    BY <1>1, <1>2, <1>3, <1>5, <2>1, <2>2, <2>3, WorldParts DEF Holds
  <2>5. own.s # "invalid" => own.sock \in Fds
    BY <1>1, WorldParts DEF Agrees, Worlds, Owners
  <2>6. Agrees(v)
    BY <1>1, <1>2, <2>2, <2>3, <2>5, WorldParts DEF Agrees, AsItSays
  <2> QED BY <2>4, <2>6 DEF LifeInv, Sound, v
<1> QED BY <1>6, <1>7

\* The kernel, which comes to an end with a connection.
LEMMA ConnectingKeeps ==
  ASSUME LifeInv, NEW is \in {"connected", "bound"}, KernelConnects(is)
  PROVE  LifeInv'
<1> DEFINE v == World'
           fd == own.sock
<1>1. /\ World \in Worlds /\ Holds(World, held) /\ Agrees(World) /\ kernel \in [Fds -> Files]
      /\ own \in Owners
  BY WorldParts DEF LifeInv, Sound, Holds, Worlds
<1>2. /\ fd \in Fds /\ kernel[fd].is = "connecting" /\ kernel[fd] \in Files
      /\ kernel' = [kernel EXCEPT ![fd].is = is] /\ held' = held /\ own' = own
  BY <1>1, LifeAssumption DEF KernelConnects, Owners
<1>3. /\ v.own = own /\ v.kernel = kernel' /\ v.unset = unset /\ v.started = started
      /\ v = [own |-> own, kernel |-> kernel', ec |-> "ok", callback |-> callback,
              unset |-> unset, started |-> started]
  BY DEF World, KernelConnects
<1>4. /\ kernel' \in [Fds -> Files] /\ kernel'[fd].is = is /\ kernel'[fd].waits = kernel[fd].waits
      /\ \A f \in Fds \ {fd} : kernel'[f] = kernel[f]
  BY <1>1, <1>2 DEF Files, States
<1>5. v \in Worlds
  BY <1>1, <1>3, <1>4, WorldParts DEF Worlds
<1> HIDE DEF v
<1>6. Holds(v, held')
  BY <1>1, <1>2, <1>3, <1>4, <1>5, WorldParts DEF Holds
<1>7. own.s = "bound" /\ started
  BY <1>1, <1>2, LifeAssumption, WorldParts DEF Agrees, AsItSays, Owners, States
<1>8. AsItSays(own, kernel', started)
  BY <1>2, <1>4, <1>7 DEF AsItSays
<1>9. Agrees(v)
  BY <1>1, <1>3, <1>4, <1>8, WorldParts DEF Agrees
<1> QED BY <1>6, <1>9 DEF LifeInv, Sound, v

\* Every call.
LEMMA LifeKept == LifeInv /\ [LifeNext]_lifeVars => LifeInv'
<1> SUFFICES ASSUME LifeInv, [LifeNext]_lifeVars PROVE LifeInv'
  OBVIOUS
<1>1. Sound(World, held) /\ World.ec = "ok"
  BY WorldParts DEF LifeInv
<1>2. CASE Connect \/ Bind
  <2>1. \A w \in ConnectOne(World) \cup BindOne(World) : Sound(w, held)
    BY <1>1, AttemptKeeps
  <2>2. Ends(ConnectOne(World)) \/ Ends(BindOne(World))
    BY <1>2 DEF Connect, Bind
  <2>3. \A w \in ConnectOne(World) : Sound(w, held)
    BY <2>1
  <2>4. \A w \in BindOne(World) : Sound(w, held)
    BY <2>1
  <2> QED BY <2>2, <2>3, <2>4, EndsKeep
<1>3. ASSUME NEW n \in 1..MaxAddresses, ConnectAny(n) \/ BindAny(n) PROVE LifeInv'
  <2>1. n \in Nat
    BY LifeAssumption
  <2>2. ASSUME NEW connecting \in BOOLEAN, Ends(OverList(World, n, connecting))
        PROVE  LifeInv'
    <3>1. \A w \in OverList(World, n, connecting) : Sound(w, held)
      BY <1>1, <2>1, OverListKeeps
    <3> QED BY <2>2, <3>1, EndsKeep
  <2> QED BY <1>3, <2>2 DEF ConnectAny, BindAny
<1>4. CASE Listen \/ DisconnectSocket
  <2>1. \A w \in Listens(World) \cup Disconnects(World) : Sound(w, held)
    BY <1>1, OthersKeep
  <2>2. Ends(Listens(World)) \/ Ends(Disconnects(World))
    BY <1>4 DEF Listen, DisconnectSocket
  <2>3. \A w \in Listens(World) : Sound(w, held)
    BY <2>1
  <2>4. \A w \in Disconnects(World) : Sound(w, held)
    BY <2>1
  <2> QED BY <2>2, <2>3, <2>4, EndsKeep
<1>5. ASSUME NEW b \in BOOLEAN, SetBlocking(b) PROVE LifeInv'
  <2>1. \A w \in SetMode(World, b) : Sound(w, held)
    BY <1>1, SetModeKeeps
  <2> QED BY <1>5, <2>1, EndsKeep DEF SetBlocking
<1>6. ASSUME NEW is \in {"connected", "bound"}, KernelConnects(is) PROVE LifeInv'
  BY <1>6, ConnectingKeeps
<1>7. CASE UNCHANGED lifeVars
  <2>1. World' = World /\ held' = held
    BY <1>7 DEF lifeVars, World
  <2> QED BY <2>1 DEF LifeInv
<1> QED BY <1>2, <1>3, <1>4, <1>5, <1>6, <1>7, DestroyKeeps, AcceptedKeeps, ProgramKeeps
        DEF LifeNext

\* A socket that was never opened.
LEMMA LifeAtFirst == LifeInit => LifeInv
<1> SUFFICES ASSUME LifeInit PROVE LifeInv
  OBVIOUS
<1>1. /\ World.own = NoSocket(TRUE) /\ World.kernel = [fd \in Fds |-> Closed]
      /\ World = [own |-> NoSocket(TRUE), kernel |-> [fd \in Fds |-> Closed], ec |-> "ok",
                  callback |-> "nothing", unset |-> FALSE, started |-> FALSE]
  BY DEF World, LifeInit
<1>2. /\ NoSocket(TRUE) \in Owners /\ NoSocket(TRUE).sock = invalid_socket
      /\ NoSocket(TRUE).s = "invalid" /\ Closed \in Files /\ Closed.is = "closed"
  BY DEF NoSocket, Owners, States, Closed, Files
<1>3. World \in Worlds
  BY <1>1, <1>2 DEF Worlds, Codes
<1>4. held = {}
  BY DEF LifeInit
<1> QED BY <1>1, <1>2, <1>3, <1>4, LifeAssumption DEF LifeInv, Sound, Holds, Agrees

\* Through every sequence of calls that fail half-way, the socket has the
\* descriptor it says, it waits as it says, no descriptor is left open and none
\* of the rest of the program's is closed.
THEOREM SocketOwnsItsDescriptor == SocketsSpec => []KeepsItsDescriptor
<1>1. SocketsInit => LifeInv
  BY LifeAtFirst DEF SocketsInit
<1>2. LifeInv /\ [SocketsNext]_<<type, vars, datagramVars, lifeVars, watcherVars>> => LifeInv'
  <2>1. ASSUME [SocketsNext]_<<type, vars, datagramVars, lifeVars, watcherVars>>
        PROVE  [LifeNext]_lifeVars
    BY <2>1 DEF SocketsNext
  <2> QED BY <2>1, LifeKept
<1>3. LifeInv => KeepsItsDescriptor
  <2> SUFFICES ASSUME LifeInv PROVE KeepsItsDescriptor
    OBVIOUS
  <2>1. /\ held \subseteq Fds /\ own.sock \notin held /\ own \in Owners
        /\ \A fd \in Fds : kernel[fd].is # "closed" <=> fd \in held \cup {own.sock}
        /\ own.sock = invalid_socket <=> own.s = "invalid"
        /\ own.s # "invalid" => /\ AsItSays(own, kernel, started)
                                /\ ~unset => kernel[own.sock].waits = own.blocking
    BY WorldParts DEF LifeInv, Sound, Holds, Agrees, Worlds
  <2>2. {fd \in Fds : kernel[fd].is # "closed"} = held \cup ({own.sock} \ {invalid_socket})
    BY <2>1, LifeAssumption DEF Owners
  <2> QED BY <2>1, <2>2 DEF KeepsItsDescriptor, OwnsItsDescriptor, ModeIsTheKernels
<1> QED BY <1>1, <1>2, <1>3, PTL DEF SocketsSpec

-----------------------------------------------------------------------------
(* Sending.                                                                *)

\* The keys of s increase, between a and b.
Ordered(s, S, key, a, b) ==
  /\ s \in Seq(S)
  /\ \A i \in 1..Len(s) : a < key[s[i]] /\ key[s[i]] <= b
  /\ \A i, j \in 1..Len(s) : i < j => key[s[i]] < key[s[j]]

LEMMA OrderedWiden ==
  ASSUME NEW S, NEW key, \A x \in S : key[x] \in Int, NEW a \in Int, NEW b \in Int,
         NEW c \in Int, NEW d \in Int, c <= a, b <= d, NEW s, Ordered(s, S, key, a, b)
  PROVE  Ordered(s, S, key, c, d)
<1>1. /\ s \in Seq(S) /\ \A i \in 1..Len(s) : a < key[s[i]] /\ key[s[i]] <= b
      /\ \A i, j \in 1..Len(s) : i < j => key[s[i]] < key[s[j]]
  BY DEF Ordered
<1>2. ASSUME NEW i \in 1..Len(s) PROVE c < key[s[i]] /\ key[s[i]] <= d
  <2>1. key[s[i]] \in Int /\ a < key[s[i]] /\ key[s[i]] <= b
    BY <1>1
  <2> QED BY <2>1
<1> QED BY <1>1, <1>2 DEF Ordered

LEMMA OrderedConcat ==
  ASSUME NEW S, NEW key, \A x \in S : key[x] \in Int, NEW a \in Int, NEW b \in Int, NEW c \in Int,
         a <= b, b <= c, NEW u, NEW v, Ordered(u, S, key, a, b), Ordered(v, S, key, b, c)
  PROVE  Ordered(u \o v, S, key, a, c)
<1> DEFINE w == u \o v
           m == Len(u)
           n == Len(v)
<1>1. u \in Seq(S) /\ v \in Seq(S) /\ m \in Nat /\ n \in Nat
  BY DEF Ordered
<1>2. /\ w \in Seq(S) /\ Len(w) = m + n
      /\ \A i \in 1..(m + n) : w[i] = IF i <= m THEN u[i] ELSE v[i - m]
  BY <1>1, ConcatParts
<1>3. /\ \A i \in 1..m : key[u[i]] \in Int /\ a < key[u[i]] /\ key[u[i]] <= b
      /\ \A i, j \in 1..m : i < j => key[u[i]] < key[u[j]]
  BY <1>1 DEF Ordered
<1>4. /\ \A i \in 1..n : key[v[i]] \in Int /\ b < key[v[i]] /\ key[v[i]] <= c
      /\ \A i, j \in 1..n : i < j => key[v[i]] < key[v[j]]
  BY <1>1 DEF Ordered
<1> HIDE DEF w, m, n
<1>5. ASSUME NEW i \in 1..(m + n)
      PROVE  \/ i \in 1..m /\ w[i] = u[i]
             \/ i - m \in 1..n /\ w[i] = v[i - m] /\ i > m
  BY <1>1, <1>2
<1>6. ASSUME NEW i \in 1..Len(w) PROVE a < key[w[i]] /\ key[w[i]] <= c
  <2>1. \/ i \in 1..m /\ w[i] = u[i]
        \/ i - m \in 1..n /\ w[i] = v[i - m]
    BY <1>2, <1>5
  <2> QED BY <1>3, <1>4, <2>1
<1>7. ASSUME NEW i \in 1..Len(w), NEW j \in 1..Len(w), i < j
      PROVE  key[w[i]] < key[w[j]]
  <2>1. \/ i \in 1..m /\ w[i] = u[i]
        \/ i - m \in 1..n /\ w[i] = v[i - m] /\ i > m
    BY <1>2, <1>5
  <2>2. \/ j \in 1..m /\ w[j] = u[j]
        \/ j - m \in 1..n /\ w[j] = v[j - m] /\ j > m
    BY <1>2, <1>5
  <2>3. CASE i \in 1..m /\ w[i] = u[i] /\ j \in 1..m /\ w[j] = u[j]
    BY <1>3, <1>7, <2>3
  <2>4. CASE i \in 1..m /\ w[i] = u[i] /\ j - m \in 1..n /\ w[j] = v[j - m]
    BY <1>3, <1>4, <2>4
  <2>5. CASE i - m \in 1..n /\ w[i] = v[i - m] /\ j - m \in 1..n /\ w[j] = v[j - m]
    <3>1. i - m < j - m
      BY <1>1, <1>7
    <3> QED BY <1>4, <2>5, <3>1
  <2> QED BY <1>1, <1>7, <2>1, <2>2, <2>3, <2>4, <2>5
<1> QED BY <1>2, <1>6, <1>7 DEF Ordered, w

\* The two parts of a sequence.
LEMMA PartsOf ==
  ASSUME NEW S, NEW s \in Seq(S), NEW n \in 0..Len(s)
  PROVE  /\ First(s, n) \in Seq(S) /\ Len(First(s, n)) = n
         /\ \A i \in 1..n : First(s, n)[i] = s[i]
         /\ From(s, n) \in Seq(S) /\ Len(From(s, n)) = Len(s) - n
         /\ \A i \in 1..(Len(s) - n) : From(s, n)[i] = s[n + i]
<1>1. Len(s) \in Nat /\ n \in Nat /\ n <= Len(s)
  OBVIOUS
<1>2. /\ First(s, n) \in Seq(S) /\ Len(First(s, n)) = n
      /\ \A i \in 1..n : First(s, n)[i] = s[i]
  BY <1>1 DEF First
<1>3. /\ From(s, n) \in Seq(S) /\ Len(From(s, n)) = Len(s) - n
      /\ \A i \in 1..(Len(s) - n) : From(s, n)[i] = s[n + i]
  BY <1>1 DEF From
<1> QED BY <1>2, <1>3

LEMMA OrderedSplit ==
  ASSUME NEW S, NEW key, \A x \in S : key[x] \in Int, NEW a \in Int, NEW b \in Int, a <= b,
         NEW s, Ordered(s, S, key, a, b), NEW n \in 0..Len(s)
  PROVE  \E x \in a..b : /\ Ordered(First(s, n), S, key, a, x)
                         /\ Ordered(From(s, n), S, key, x, b)
<1> DEFINE u == First(s, n)
           v == From(s, n)
           x == IF n = 0 THEN a ELSE key[s[n]]
           q == Len(s)
<1>1. s \in Seq(S) /\ q \in Nat /\ n \in Nat /\ n <= q
  BY DEF Ordered
<1>2. /\ u \in Seq(S) /\ Len(u) = n /\ \A i \in 1..n : u[i] = s[i]
      /\ v \in Seq(S) /\ Len(v) = q - n /\ \A i \in 1..(q - n) : v[i] = s[n + i]
  BY <1>1, PartsOf
<1>3. /\ \A i \in 1..q : key[s[i]] \in Int /\ a < key[s[i]] /\ key[s[i]] <= b
      /\ \A i, j \in 1..q : i < j => key[s[i]] < key[s[j]]
  BY <1>1 DEF Ordered
<1> HIDE DEF u, v, q
<1>4. x \in a..b
  BY <1>1, <1>3
<1>5. \A i \in 1..n : key[s[i]] <= x
  BY <1>1, <1>3
<1>6. \A i \in 1..(q - n) : n + i \in 1..q /\ x < key[s[n + i]]
  BY <1>1, <1>3
<1> HIDE DEF x
<1>7. Ordered(u, S, key, a, x)
  <2>1. \A i \in 1..n : i \in 1..q
    BY <1>1
  <2>2. \A i \in 1..n : a < key[u[i]] /\ key[u[i]] <= x
    BY <1>2, <1>3, <1>5, <2>1
  <2>3. \A i, j \in 1..n : i < j => key[u[i]] < key[u[j]]
    BY <1>2, <1>3, <2>1
  <2> QED BY <1>2, <2>2, <2>3 DEF Ordered
<1>8. ASSUME NEW i \in 1..(q - n), NEW j \in 1..(q - n), i < j
      PROVE  key[v[i]] < key[v[j]]
  <2>1. n + i \in 1..q /\ n + j \in 1..q /\ n + i < n + j
    BY <1>1, <1>8
  <2> QED BY <1>2, <1>3, <2>1
<1>9. Ordered(v, S, key, x, b)
  BY <1>1, <1>2, <1>3, <1>6, <1>8, ZenonT(60) DEF Ordered
<1> QED BY <1>4, <1>7, <1>9 DEF u, v

\* The first n of what waits are sent.
LEMMA SentBefore ==
  ASSUME NEW S, NEW key, \A x \in S : key[x] \in Int, NEW k \in Nat, NEW o \in Nat, k <= o,
         NEW w, Ordered(w, S, key, 0, k), NEW p, Ordered(p, S, key, k, o), NEW n \in 0..Len(p)
  PROVE  Ordered(w \o First(p, n), S, key, 0, o)
<1>1. PICK y \in k..o : Ordered(First(p, n), S, key, k, y)
  BY OrderedSplit
<1>2. Ordered(w \o First(p, n), S, key, 0, y)
  <2>1. y \in Int /\ k \in Int /\ 0 <= k /\ k <= y
    OBVIOUS
  <2> QED BY <1>1, <2>1, OrderedConcat
<1> DEFINE u == w \o First(p, n)
<1> HIDE DEF u
<1>3. y \in Int /\ o \in Int /\ y <= o
  OBVIOUS
<1>4. Ordered(u, S, key, 0, y)
  BY <1>2 DEF u
<1>5. Ordered(u, S, key, 0, o)
  BY <1>3, <1>4, OrderedWiden
<1> QED BY <1>5 DEF u

\* Then the first m of what is new; the rest of that waits.
LEMMA SentOn ==
  ASSUME NEW S, NEW key, \A x \in S : key[x] \in Int, NEW k \in Nat, NEW o \in Nat, NEW q \in Nat,
         k <= o, o <= q, NEW w, Ordered(w, S, key, 0, k), NEW p, Ordered(p, S, key, k, o),
         NEW s, Ordered(s, S, key, o, q), NEW n \in 0..Len(p), NEW m \in 0..Len(s)
  PROVE  \E x \in 0..q : /\ Ordered(w \o First(p, n) \o First(s, m), S, key, 0, x)
                         /\ Ordered(From(s, m), S, key, x, q)
<1>3. Ordered(w \o First(p, n), S, key, 0, o)
  BY SentBefore
<1>4. PICK x \in o..q : /\ Ordered(First(s, m), S, key, o, x)
                        /\ Ordered(From(s, m), S, key, x, q)
  BY OrderedSplit
<1> DEFINE u == w \o First(p, n)
           v == First(s, m)
<1> HIDE DEF u, v
<1>5. Ordered(u \o v, S, key, 0, x)
  <2>1. Ordered(u, S, key, 0, o) /\ Ordered(v, S, key, o, x)
    BY <1>3, <1>4 DEF u, v
  <2>2. x \in Int /\ o \in Int /\ 0 <= o /\ o <= x
    BY <1>4
  <2> QED BY <2>1, <2>2, OrderedConcat
<1>6. x \in 0..q
  BY <1>4
<1> QED BY <1>4, <1>5, <1>6 DEF u, v

\* A buffer of which everything is taken at a time, so that it starts at slot 0.
Queue(b, S) == /\ b \in Buffers(S \cup {Moved}, {0}) /\ Geometry(b) /\ Live(b, S)
               /\ b.first = 0 /\ b.closed = FALSE

LEMMA QueueParts ==
  ASSUME NEW S, NEW b, Queue(b, S)
  PROVE  /\ b.size \in Nat /\ b.limit = 0
         /\ Contents(b) \in Seq(S) /\ Len(Contents(b)) = b.size
<1>1. b.size \in Nat /\ b.limit = 0 /\ Live(b, S)
  BY DEF Queue, Buffers
<1> QED BY <1>1, ContentsOfLive

\* All of it leaves the buffer, however much was sent.
LEMMA QueueEmptied ==
  ASSUME NEW S, NEW b, Queue(b, S), NEW n \in 0..b.size, NEW r \in Consumed(b, b.size, n)
  PROVE  Queue(r, S) /\ r.size = 0
<1>1. /\ b \in Buffers(S \cup {Moved}, {0}) /\ Geometry(b) /\ b.size \in Nat
      /\ n \in Nat /\ n <= b.size /\ b.size <= b.size /\ Moved \in S \cup {Moved}
      /\ b.closed = FALSE
  <2>1. b.size \in Nat
    BY QueueParts
  <2>2. b \in Buffers(S \cup {Moved}, {0}) /\ Geometry(b) /\ b.closed = FALSE
    BY DEF Queue
  <2> QED BY <2>1, <2>2
<1>2. r \in Buffers(S \cup {Moved}, {0}) /\ LeftBy(r, b, b.size, n)
  BY <1>1, ConsumedGeometry
<1>3. r.size = 0 /\ Geometry(r) /\ r.closed = FALSE
  BY <1>1, <1>2 DEF LeftBy
<1>4. r.first = 0 /\ Live(r, S)
  BY <1>3 DEF Geometry, Live
<1> QED BY <1>2, <1>3, <1>4 DEF Queue

\* What is new goes into the empty buffer.
LEMMA QueueFilled ==
  ASSUME NEW S, NEW b, Queue(b, S), b.size = 0, NEW s \in Seq(S), Len(s) <= VectorMax
  PROVE  Queue(Written(b, s), S) /\ Contents(Written(b, s)) = s
<1> DEFINE r == Written(b, s)
<1>1. /\ b \in Buffers(S \cup {Moved}, {0}) /\ Geometry(b) /\ Live(b, S)
      /\ b.first = 0 /\ b.closed = FALSE /\ b.limit = 0
  BY QueueParts DEF Queue
<1>2. Accepts(b, s)
  BY <1>1, BufferAssumption DEF Accepts, FreeSpace, MaxSize
<1>3. s \in Seq(S \cup {Moved}) /\ b.limit \in Nat
  BY <1>1
<1>4. r \in Buffers(S \cup {Moved}, {0}) /\ GrownBy(r, b, s)
  BY <1>1, <1>2, <1>3, WrittenGeometry
<1> HIDE DEF r
<1>5. r.first = 0 /\ Contents(r) = Contents(b) \o s
  BY <1>1, <1>4, GrownAppends
<1>6. Contents(b) = <<>>
  BY DEF Contents
<1>7. Contents(r) = s
  BY <1>5, <1>6
<1>8. Geometry(r) /\ Live(r, S) /\ r.closed = FALSE
  BY <1>1, <1>4 DEF GrownBy
<1> QED BY <1>4, <1>5, <1>7, <1>8 DEF Queue, r

\* A byte is its place in its stream.
Byte == 1..MaxBytes
Position == [x \in Byte |-> x]

\* What was sent comes before what waits, and that before what will be written.
SendsInOrder ==
  /\ Queue(write_buffer, Byte) /\ offered \in 0..MaxBytes
  /\ \E k \in 0..offered : /\ Ordered(wire, Byte, Position, 0, k)
                           /\ Ordered(Contents(write_buffer), Byte, Position, k, offered)

LEMMA BytesInOrder ==
  ASSUME NEW o \in Nat, NEW n \in Nat, o + n <= MaxBytes
  PROVE  /\ Ordered(Bytes(o + 1, n), Byte, Position, o, o + n) /\ Len(Bytes(o + 1, n)) = n
         /\ \A i \in 1..n : Bytes(o + 1, n)[i] = o + i
<1> DEFINE s == Bytes(o + 1, n)
<1>1. /\ s \in Seq(Byte) /\ Len(s) = n /\ \A i \in 1..n : s[i] = o + i
  <2>1. \A i \in 1..n : o + 1 + i - 1 = o + i /\ o + i \in Byte
    BY SocketAssumption DEF Byte
  <2>2. s = [i \in 1..n |-> o + i]
    BY <2>1 DEF Bytes
  <2> QED BY <2>1, <2>2
<1>2. \A i \in 1..n : Position[s[i]] = o + i
  BY <1>1, SocketAssumption DEF Position, Byte
<1> HIDE DEF s
<1>3. Ordered(s, Byte, Position, o, o + n)
  BY <1>1, <1>2 DEF Ordered
<1> QED BY <1>1, <1>3 DEF s

\* A step that sends.
LEMMA SentThroughKeeps ==
  ASSUME SendsInOrder, NEW q \in 0..MaxBytes, offered <= q, offered' = q,
         NEW s, Ordered(s, Byte, Position, offered, q), Len(s) <= MaxBytes, SentThrough(s)
  PROVE  SendsInOrder'
<1> DEFINE p == Contents(write_buffer)
           wb == write_buffer
<1>1. /\ Queue(wb, Byte) /\ wb.size \in Nat /\ p \in Seq(Byte) /\ Len(p) = wb.size
      /\ offered \in Nat /\ q \in Nat
  BY QueueParts, SocketAssumption DEF SendsInOrder
<1>2. PICK k \in 0..offered : /\ Ordered(wire, Byte, Position, 0, k)
                              /\ Ordered(p, Byte, Position, k, offered)
  BY DEF SendsInOrder
<1>3. s \in Seq(Byte) /\ Len(s) \in Nat
  BY DEF Ordered
<1>4. PICK n \in Transferred(Len(p)), m \in Transferred(Len(s)) :
        \E b \in Consumed(wb, Len(p), n) :
          /\ wire' = wire \o First(p, n) \o First(s, m)
          /\ write_buffer' = Written(b, From(s, m))
  BY DEF SentThrough
<1>5. PICK b \in Consumed(wb, Len(p), n) : /\ wire' = wire \o First(p, n) \o First(s, m)
                                           /\ write_buffer' = Written(b, From(s, m))
  BY <1>4
<1>6. n \in 0..Len(p) /\ m \in 0..Len(s)
  BY <1>1, <1>3 DEF Transferred
<1> HIDE DEF p, wb
<1>7. Queue(b, Byte) /\ b.size = 0
  BY <1>1, <1>5, <1>6, QueueEmptied
<1>8. From(s, m) \in Seq(Byte) /\ Len(From(s, m)) <= VectorMax
  <2>1. From(s, m) \in Seq(Byte) /\ Len(From(s, m)) = Len(s) - m
    BY <1>3, <1>6, PartsOf
  <2> QED BY <1>3, <1>6, <2>1, SocketAssumption, BufferAssumption
<1>9. Queue(write_buffer', Byte) /\ Contents(write_buffer') = From(s, m)
  BY <1>5, <1>7, <1>8, QueueFilled
<1>10. \A x \in Byte : Position[x] \in Int
  BY DEF Position, Byte
<1>11. \E x \in 0..q : /\ Ordered(wire \o First(p, n) \o First(s, m), Byte, Position, 0, x)
                       /\ Ordered(From(s, m), Byte, Position, x, q)
  <2>1. k \in Nat /\ k <= offered
    BY <1>1
  <2> HIDE DEF Byte, Position
  <2> QED BY <1>1, <1>2, <1>6, <1>10, <2>1, SentOn
<1> QED BY <1>5, <1>9, <1>11 DEF SendsInOrder

LEMMA SendingKept == SendsInOrder /\ [Next]_vars => SendsInOrder'
<1> SUFFICES ASSUME SendsInOrder, [Next]_vars PROVE SendsInOrder'
  OBVIOUS
<1>1. offered \in Nat /\ offered <= MaxBytes /\ MaxBytes \in Nat
  BY SocketAssumption DEF SendsInOrder
<1>2. ASSUME NEW n \in 1..MaxRequest, Write(n) PROVE SendsInOrder'
  <2> DEFINE s == Bytes(offered + 1, n)
             q == offered + n
  <2>1. /\ SentThrough(s) /\ offered' = q /\ q <= MaxBytes /\ n \in Nat
        /\ q \in 0..MaxBytes /\ offered <= q /\ n <= MaxBytes
    BY <1>1, <1>2, SocketAssumption DEF Write
  <2>2. Ordered(s, Byte, Position, offered, q) /\ Len(s) = n
    BY <1>1, <2>1, BytesInOrder
  <2> HIDE DEF s, q
  <2> QED BY <2>1, <2>2, SentThroughKeeps
<1>3. CASE Flush
  <2>1. Ordered(<<>>, Byte, Position, offered, offered) /\ Len(<<>>) <= MaxBytes
    BY <1>1, EmptySeq DEF Ordered
  <2>2. offered' = offered /\ SentThrough(<<>>) /\ offered \in 0..MaxBytes /\ offered <= offered
    BY <1>1, <1>3 DEF Flush
  <2> QED BY <2>1, <2>2, SentThroughKeeps
<1>4. CASE UNCHANGED sending
  BY <1>4 DEF sending, SendsInOrder
<1>5. \/ \E n \in 1..MaxRequest : Write(n)
      \/ Flush \/ UNCHANGED sending
  BY DEF Next, vars, sending, Arrive, FillReadBuffer, Read, ReadAll, Take, Disconnect
<1> QED BY <1>2, <1>3, <1>4, <1>5

\* The bytes of the wire and of the buffer behind each other.
LEMMA SentInOrderHolds == SendsInOrder => SentInOrder
<1> SUFFICES ASSUME SendsInOrder PROVE SentInOrder
  OBVIOUS
<1> DEFINE p == Contents(write_buffer)
           o == Outgoing
<1>1. offered \in Nat
  BY SocketAssumption DEF SendsInOrder
<1>2. PICK k \in 0..offered : /\ Ordered(wire, Byte, Position, 0, k)
                              /\ Ordered(p, Byte, Position, k, offered)
  BY DEF SendsInOrder
<1>3. Ordered(wire \o p, Byte, Position, 0, offered)
  <2>1. /\ 0 <= k /\ k <= offered /\ k \in Int /\ offered \in Int
        /\ \A x \in Byte : Position[x] \in Int
    BY <1>1 DEF Position, Byte
  <2> HIDE DEF p, Position, Byte
  <2> QED BY <1>2, <2>1, OrderedConcat
<1>4. Ordered(o, Byte, Position, 0, offered)
  BY <1>3 DEF Outgoing
<1> HIDE DEF o
<1>5. \A x \in Byte : Position[x] = x
  BY DEF Position
<1>6. o \in Seq(Byte) /\ DOMAIN o = 1..Len(o)
  BY <1>4 DEF Ordered
<1>7. \A i, j \in DOMAIN o : i < j => o[i] < o[j]
  BY <1>4, <1>5, <1>6 DEF Ordered
<1> QED BY <1>7 DEF SentInOrder, o

-----------------------------------------------------------------------------
(* Sending packets.                                                        *)

Packets == [id : Nat, to : {Unspecified, "a", "b"}]
Number == [p \in Packets |-> p.id]

\* The packets of g, each at the place of its number.
PacketsOf(g) == {p \in Packets : p.id \in 1..Len(g) /\ p = g[p.id]}

PacketsInOrder ==
  /\ given \in Seq(Packets) /\ Queue(outgoing, PacketsOf(given))
  /\ \E k \in 0..Len(given) :
       /\ Ordered(sent, PacketsOf(given), Number, 0, k)
       /\ Ordered(Contents(outgoing), PacketsOf(given), Number, k, Len(given))

LEMMA NumbersOf == \A g : \A x \in PacketsOf(g) : Number[x] \in Int /\ x \in Packets
  BY DEF PacketsOf, Number, Packets

\* One more packet.
LEMMA OneMorePacket ==
  ASSUME NEW g \in Seq(Packets), NEW p \in Packets, p.id = Len(g) + 1
  PROVE  /\ Append(g, p) \in Seq(Packets) /\ Len(Append(g, p)) = Len(g) + 1
         /\ PacketsOf(g) \subseteq PacketsOf(Append(g, p))
         /\ Ordered(<<p>>, PacketsOf(Append(g, p)), Number, Len(g), Len(g) + 1)
         /\ p \in PacketsOf(Append(g, p))
<1> DEFINE a == Append(g, p)
<1>1. /\ a \in Seq(Packets) /\ Len(a) = Len(g) + 1 /\ Len(g) \in Nat
      /\ a[Len(g) + 1] = p /\ \A i \in 1..Len(g) : a[i] = g[i]
  OBVIOUS
<1> HIDE DEF a
<1>2. PacketsOf(g) \subseteq PacketsOf(a)
  BY <1>1 DEF PacketsOf
<1>3. p \in PacketsOf(a) /\ Number[p] = Len(g) + 1
  BY <1>1 DEF PacketsOf, Number
<1>4. <<p>> \in Seq(PacketsOf(a)) /\ Len(<<p>>) = 1 /\ <<p>>[1] = p
  BY <1>3
<1>5. Ordered(<<p>>, PacketsOf(a), Number, Len(g), Len(g) + 1)
  BY <1>1, <1>3, <1>4 DEF Ordered
<1> QED BY <1>1, <1>2, <1>3, <1>5 DEF a

\* More packets to choose from.
LEMMA AmongMore ==
  ASSUME NEW S, NEW T, S \subseteq T
  PROVE  /\ \A b : Queue(b, S) => Queue(b, T)
         /\ \A s, key, x, y : Ordered(s, S, key, x, y) => Ordered(s, T, key, x, y)
<1>1. Seq(S) \subseteq Seq(T) /\ Seq(S \cup {Moved}) \subseteq Seq(T \cup {Moved})
  OBVIOUS
<1>2. \A b : Queue(b, S) => Queue(b, T)
  BY <1>1 DEF Queue, Buffers, Live
<1>3. \A s, key, x, y : Ordered(s, S, key, x, y) => Ordered(s, T, key, x, y)
  BY <1>1 DEF Ordered
<1> QED BY <1>2, <1>3

\* What was sent of the buffer, and the buffer afterwards.
LEMMA AfterTheFlush ==
  ASSUME PacketsInOrder, NEW n \in 0..outgoing.size, NEW b \in AfterFlush(n)
  PROVE  /\ Queue(b, PacketsOf(given)) /\ b.size = 0 /\ Contents(b) = <<>>
         /\ Ordered(sent \o SubSeq(Contents(outgoing), 1, n), PacketsOf(given), Number,
                    0, Len(given))
<1> DEFINE p == Contents(outgoing)
           S == PacketsOf(given)
           o == outgoing
<1>1. Queue(o, S) /\ Len(p) = o.size
  BY QueueParts DEF PacketsInOrder
<1>2. PICK k \in 0..Len(given) : /\ Ordered(sent, S, Number, 0, k)
                                 /\ Ordered(p, S, Number, k, Len(given))
  BY DEF PacketsInOrder
<1>3. Len(given) \in Nat /\ k \in Nat /\ k <= Len(given) /\ n \in 0..Len(p)
  BY <1>1 DEF PacketsInOrder
<1>4. \A x \in S : Number[x] \in Int
  BY NumbersOf
<1>5. b \in Consumed(o, o.size, n)
  BY DEF AfterFlush
<1> HIDE DEF p, S, o
<1>6. Queue(b, S) /\ b.size = 0
  <2>1. n \in 0..o.size
    BY <1>1, <1>3
  <2> QED BY <1>1, <1>5, <2>1, QueueEmptied
<1>7. Contents(b) = <<>>
  BY <1>6 DEF Contents
<1>8. Ordered(sent \o First(p, n), S, Number, 0, Len(given))
  BY <1>2, <1>3, <1>4, SentBefore
<1> QED BY <1>6, <1>7, <1>8 DEF First, p, S

\* Nothing lies between a and b.
LEMMA NothingInOrder == \A S, key, x, y : Ordered(<<>>, S, key, x, y)
  BY EmptySeq DEF Ordered

\* The new packet is sent, kept, or neither.
LEMMA PacketSentOrKept ==
  ASSUME NEW T, NEW key, \A x \in T : key[x] \in Int, NEW m \in Nat,
         NEW before, Ordered(before, T, key, 0, m),
         NEW p, Ordered(<<p>>, T, key, m, m + 1),
         NEW b, Queue(b, T), b.size = 0, Contents(b) = <<>>,
         NEW s, NEW o,
         \/ s = Append(before, p) /\ o = b
         \/ s = before /\ o \in {b, Written(b, <<p>>)}
  PROVE  /\ Queue(o, T)
         /\ \E k \in 0..(m + 1) : /\ Ordered(s, T, key, 0, k)
                                 /\ Ordered(Contents(o), T, key, k, m + 1)
<1>1. m \in 0..(m + 1) /\ m + 1 \in 0..(m + 1)
  OBVIOUS
<1>2. <<p>> \in Seq(T) /\ Len(<<p>>) = 1 /\ before \in Seq(T)
  BY DEF Ordered
<1>3. CASE s = Append(before, p) /\ o = b
  <2>1. Ordered(before \o <<p>>, T, key, 0, m + 1)
    <3>1. 0 <= m /\ m <= m + 1 /\ m \in Int /\ m + 1 \in Int
      OBVIOUS
    <3> QED BY <3>1, OrderedConcat
  <2>2. s = before \o <<p>>
    <3>1. p \in T
      <4>1. <<p>>[1] \in T
        BY <1>2
      <4> QED BY <4>1
    <3> QED BY <1>2, <1>3, <3>1
  <2>3. Ordered(Contents(o), T, key, m + 1, m + 1)
    BY <1>3, NothingInOrder
  <2> QED BY <1>1, <1>3, <2>1, <2>2, <2>3
<1>4. CASE s = before /\ o = b
  <2>1. Ordered(Contents(o), T, key, m, m + 1)
    BY <1>4, NothingInOrder
  <2> QED BY <1>1, <1>4, <2>1
<1>5. CASE s = before /\ o = Written(b, <<p>>)
  <2>1. Len(<<p>>) <= VectorMax
    BY <1>2, BufferAssumption
  <2>2. Queue(o, T) /\ Contents(o) = <<p>>
    BY <1>2, <1>5, <2>1, QueueFilled
  <2> QED BY <1>1, <1>5, <2>2
<1> QED BY <1>3, <1>4, <1>5

LEMMA PacketsKept == PacketsInOrder /\ [DatagramNext]_datagramVars => PacketsInOrder'
<1> SUFFICES ASSUME PacketsInOrder, [DatagramNext]_datagramVars PROVE PacketsInOrder'
  OBVIOUS
<1>1. given \in Seq(Packets) /\ Len(given) \in Nat
  BY DEF PacketsInOrder
<1>2. ASSUME NEW to \in {Unspecified, "a", "b"}, NEW queue_on_error \in BOOLEAN,
             Give(to, queue_on_error)
      PROVE  PacketsInOrder'
  <2> DEFINE p == [id |-> Len(given) + 1, to |-> to]
             S == PacketsOf(given)
             T == PacketsOf(given')
             c == Contents(outgoing)
             m == Len(given)
  <2>1. p \in Packets /\ p.id = m + 1 /\ given' = Append(given, p)
    BY <1>1, <1>2 DEF Packets, Give
  <2>2. WriteDatagram(p, queue_on_error)
    BY <1>2 DEF Give
  <2>3. PICK n \in 0..outgoing.size, flush \in {"sent", "would block", "error"} :
          \E answer \in IF flush = "error" THEN {"error"} ELSE Answers(p) :
            LET before == sent \o SubSeq(c, 1, n)
            IN  /\ sent' = IF answer = "sent" THEN Append(before, p) ELSE before
                /\ \E b \in AfterFlush(n) :
                     outgoing' = IF answer # "sent" /\ (queue_on_error \/ answer = "would block")
                                 THEN Written(b, <<p>>) ELSE b
    BY <2>2 DEF WriteDatagram
  <2> DEFINE before == sent \o SubSeq(c, 1, n)
  <2>4. PICK b \in AfterFlush(n) :
          \/ sent' = Append(before, p) /\ outgoing' = b
          \/ sent' = before /\ outgoing' \in {b, Written(b, <<p>>)}
    BY <2>3
  <2> HIDE DEF p
  <2>5. /\ given' \in Seq(Packets) /\ Len(given') = m + 1 /\ S \subseteq T
        /\ Ordered(<<p>>, T, Number, m, m + 1) /\ p \in T
    BY <1>1, <2>1, OneMorePacket
  <2>6. /\ Queue(b, S) /\ b.size = 0 /\ Contents(b) = <<>>
        /\ Ordered(before, S, Number, 0, m)
    BY AfterTheFlush
  <2> HIDE DEF S, before
  <2>7. Queue(b, T) /\ Ordered(before, T, Number, 0, m)
    BY <2>5, <2>6, AmongMore
  <2>8. \A x \in T : Number[x] \in Int
    BY NumbersOf
  <2>9. m \in Nat
    BY <1>1
  <2> HIDE DEF T, m
  <2>10. /\ Queue(outgoing', T)
         /\ \E k \in 0..(m + 1) : /\ Ordered(sent', T, Number, 0, k)
                                 /\ Ordered(Contents(outgoing'), T, Number, k, m + 1)
    <3>1. Ordered(before, T, Number, 0, m) /\ Ordered(<<p>>, T, Number, m, m + 1)
      BY <2>5, <2>7
    <3>2. Queue(b, T) /\ b.size = 0 /\ Contents(b) = <<>>
      BY <2>6, <2>7
    <3> HIDE DEF c
    <3> QED BY <2>4, <2>8, <2>9, <3>1, <3>2, PacketSentOrKept
  <2> QED BY <2>5, <2>10 DEF PacketsInOrder, T, m
<1>3. CASE FlushDatagrams
  <2>1. PICK n \in 0..outgoing.size :
          /\ sent' = sent \o SubSeq(Contents(outgoing), 1, n)
          /\ outgoing' \in AfterFlush(n)
    BY <1>3 DEF FlushDatagrams
  <2>2. given' = given
    BY <1>3 DEF FlushDatagrams
  <2>3. /\ Queue(outgoing', PacketsOf(given)) /\ Contents(outgoing') = <<>>
        /\ Ordered(sent', PacketsOf(given), Number, 0, Len(given))
    BY <2>1, AfterTheFlush
  <2>4. Ordered(Contents(outgoing'), PacketsOf(given), Number, Len(given), Len(given))
    BY <2>3, NothingInOrder
  <2>5. Len(given) \in 0..Len(given)
    BY <1>1
  <2> QED BY <1>1, <2>2, <2>3, <2>4, <2>5 DEF PacketsInOrder
<1>4. CASE UNCHANGED writing
  BY <1>4 DEF writing, PacketsInOrder
<1>5. \/ \E to \in {Unspecified, "a", "b"}, queue_on_error \in BOOLEAN : Give(to, queue_on_error)
      \/ FlushDatagrams \/ UNCHANGED writing
  BY DEF DatagramNext, datagramVars, writing, Come, FillPackets, ReadDatagram, CloseDatagrams
<1> QED BY <1>2, <1>3, <1>4, <1>5

LEMMA DatagramsGoInOrder == PacketsInOrder => DatagramsGoOnceInOrder
<1> SUFFICES ASSUME PacketsInOrder PROVE DatagramsGoOnceInOrder
  OBVIOUS
<1> DEFINE S == PacketsOf(given)
           c == Contents(outgoing)
           q == sent \o c
<1>1. PICK k \in 0..Len(given) : /\ Ordered(sent, S, Number, 0, k)
                                 /\ Ordered(c, S, Number, k, Len(given))
  BY DEF PacketsInOrder
<1>2. Ordered(q, S, Number, 0, Len(given))
  <2>1. /\ 0 <= k /\ k <= Len(given) /\ k \in Int /\ Len(given) \in Int
        /\ \A x \in S : Number[x] \in Int
    BY NumbersOf DEF PacketsInOrder
  <2> HIDE DEF S, c
  <2> QED BY <1>1, <2>1, OrderedConcat
<1> HIDE DEF q
<1>3. q \in Seq(S) /\ DOMAIN q = 1..Len(q) /\ Len(q) \in Nat
  BY <1>2 DEF Ordered
<1>4. \A x \in S : x = given[x.id] /\ Number[x] = x.id
  BY DEF PacketsOf, Number
<1> HIDE DEF S
<1>5. ASSUME NEW i \in DOMAIN q PROVE q[i] = given[q[i].id]
  BY <1>3, <1>4
<1>6. ASSUME NEW i \in DOMAIN q, i > 1 PROVE q[i - 1].id < q[i].id
  <2>1. i - 1 \in 1..Len(q) /\ i \in 1..Len(q) /\ i - 1 < i
    BY <1>3, <1>6
  <2>2. Number[q[i - 1]] < Number[q[i]]
    BY <1>2, <2>1 DEF Ordered
  <2> QED BY <1>3, <1>4, <2>1, <2>2
<1> QED BY <1>5, <1>6 DEF DatagramsGoOnceInOrder, q

\* An empty buffer.
LEMMA EmptyParts ==
  ASSUME NEW V, NEW L, NEW l \in L
  PROVE  /\ EmptyBuffer(l) \in Buffers(V, L) /\ Geometry(EmptyBuffer(l))
         /\ \A S : Live(EmptyBuffer(l), S)
         /\ EmptyBuffer(l).first = 0 /\ EmptyBuffer(l).size = 0
         /\ EmptyBuffer(l).limit = l /\ EmptyBuffer(l).closed = FALSE
         /\ Contents(EmptyBuffer(l)) = <<>>
<1> DEFINE b == EmptyBuffer(l)
<1>1. <<>> \in Seq(V) /\ Len(<<>>) = 0
  BY EmptySeq
<1>2. /\ b \in Buffers(V, L) /\ b.data = <<>> /\ b.first = 0 /\ b.size = 0
      /\ b.limit = l /\ b.closed = FALSE
  BY <1>1 DEF EmptyBuffer, Buffers
<1> HIDE DEF b
<1>3. Geometry(b)
  BY <1>1, <1>2 DEF Geometry, Capacity
<1>4. \A S : Live(b, S)
  BY <1>2 DEF Live
<1>5. Contents(b) = <<>>
  BY <1>2 DEF Contents
<1> QED BY <1>2, <1>3, <1>4, <1>5 DEF b

\* Both directions start empty.
LEMMA SendingAtFirst == SocketsInit => SendsInOrder /\ PacketsInOrder
<1> SUFFICES ASSUME SocketsInit PROVE SendsInOrder /\ PacketsInOrder
  OBVIOUS
<1>1. /\ write_buffer = EmptyBuffer(0) /\ offered = 0 /\ wire = <<>>
      /\ outgoing = EmptyBuffer(0) /\ given = <<>> /\ sent = <<>>
  BY DEF SocketsInit, Init, DatagramInit
<1>2. ASSUME NEW S PROVE Queue(EmptyBuffer(0), S) /\ Contents(EmptyBuffer(0)) = <<>>
  BY EmptyParts DEF Queue
<1>3. /\ Ordered(<<>>, Byte, Position, 0, 0)
      /\ Ordered(<<>>, PacketsOf(<<>>), Number, 0, 0)
  BY NothingInOrder
<1>4. SendsInOrder
  <2>1. 0 \in 0..0 /\ 0 \in 0..MaxBytes
    BY SocketAssumption
  <2> QED BY <1>1, <1>2, <1>3, <2>1 DEF SendsInOrder
<1>5. PacketsInOrder
  <2>1. 0 \in 0..Len(<<>>) /\ Len(<<>>) = 0 /\ <<>> \in Seq(Packets)
    OBVIOUS
  <2> QED BY <1>1, <1>2, <1>3, <2>1 DEF PacketsInOrder
<1> QED BY <1>4, <1>5

\* Whatever the kernel takes of it and when, no byte and no packet is sent twice or
\* before one that was written earlier, and every packet goes where it was meant to.
THEOREM NothingIsSentTwice == SocketsSpec => []SentOnceInOrder
<1>1. SocketsInit => SendsInOrder /\ PacketsInOrder
  BY SendingAtFirst
<1>2. /\ SendsInOrder /\ PacketsInOrder
      /\ [SocketsNext]_<<type, vars, datagramVars, lifeVars, watcherVars>>
      => SendsInOrder' /\ PacketsInOrder'
  <2>1. ASSUME [SocketsNext]_<<type, vars, datagramVars, lifeVars, watcherVars>>
        PROVE  [Next]_vars /\ [DatagramNext]_datagramVars
    BY <2>1 DEF SocketsNext
  <2> QED BY <2>1, SendingKept, PacketsKept
<1>3. SendsInOrder /\ PacketsInOrder => SentOnceInOrder
  BY SentInOrderHolds, DatagramsGoInOrder DEF SentOnceInOrder
<1> QED BY <1>1, <1>2, <1>3, PTL DEF SocketsSpec


-----------------------------------------------------------------------------
(* Receiving bytes.                                                        *)

\* What is left of the bytes the kernel had is a part of them.
LEMMA Halves ==
  ASSUME NEW S, NEW s \in Seq(S), NEW n \in 0..Len(s)
  PROVE  /\ First(s, n) \in Seq(S) /\ From(s, n) \in Seq(S)
         /\ Len(First(s, n)) = n /\ Len(From(s, n)) = Len(s) - n
         /\ First(s, n) \o From(s, n) = s
<1>1. /\ First(s, n) \in Seq(S) /\ From(s, n) \in Seq(S)
      /\ Len(First(s, n)) = n /\ Len(From(s, n)) = Len(s) - n
  BY PartsOf, SMTT(30)
<1>2. First(s, n) \o From(s, n) = s
  <2>1. /\ 1 \in 1..(Len(s) + 1) /\ n \in (1 - 1)..Len(s) /\ Len(s) \in n..Len(s)
    OBVIOUS
  <2>2. SubSeq(s, 1, n) \o SubSeq(s, n + 1, Len(s)) = SubSeq(s, 1, Len(s))
    BY <2>1, ConcatAdjacentSubSeq
  <2>3. SubSeq(s, 1, Len(s)) = s
    BY SubSeqFull
  <2> QED BY <2>2, <2>3 DEF First, From
<1> QED BY <1>1, <1>2

\* What a concatenation offers.
LEMMA OffersConcat ==
  ASSUME NEW S, NEW u \in Seq(S), NEW v \in Seq(S)
  PROVE  Offers(u \o v) = Offers(u) \cup Offers(v)
<1> DEFINE w == u \o v
           m == Len(u)
           n == Len(v)
<1>1. /\ w \in Seq(S) /\ Len(w) = m + n /\ m \in Nat /\ n \in Nat
      /\ \A k \in 1..(m + n) : w[k] = IF k <= m THEN u[k] ELSE v[k - m]
  BY ConcatParts
<1> HIDE DEF w
<1>2. Offers(w) \subseteq Offers(u) \cup Offers(v)
  <2> SUFFICES ASSUME NEW k \in 1..(m + n) PROVE w[k] \in Offers(u) \cup Offers(v)
    BY <1>1 DEF Offers
  <2>1. CASE k <= m
    <3>1. k \in 1..Len(u) /\ w[k] = u[k]
      BY <1>1, <2>1
    <3> QED BY <3>1 DEF Offers
  <2>2. CASE k > m
    <3>1. k - m \in 1..Len(v) /\ w[k] = v[k - m]
      BY <1>1, <2>2
    <3> QED BY <3>1 DEF Offers
  <2> QED BY <1>1, <2>1, <2>2
<1>3. ASSUME NEW k \in 1..Len(u) PROVE u[k] \in Offers(w)
  <2>1. k \in 1..Len(w) /\ w[k] = u[k]
    BY <1>1
  <2> QED BY <2>1 DEF Offers
<1>4. ASSUME NEW k \in 1..Len(v) PROVE v[k] \in Offers(w)
  <2>1. m + k \in 1..Len(w) /\ w[m + k] = v[k]
    BY <1>1
  <2> QED BY <2>1 DEF Offers
<1>5. Offers(u) \cup Offers(v) \subseteq Offers(w)
  BY <1>3, <1>4 DEF Offers
<1> QED BY <1>2, <1>5 DEF w

\* A read buffer r that took s after b: nothing of either is lost, and if it had
\* always been emptied before, s comes behind what was in it.
Holding(b, S, L) == /\ b \in Buffers(S \cup {Moved}, L) /\ Geometry(b) /\ Live(b, S)
                    /\ b.closed = FALSE

Took(r, b, s, S, L) ==
  /\ Holding(r, S, L) /\ r.limit = b.limit /\ r.size = b.size + Len(s)
  /\ Waiting(r) = Waiting(b) \cup Offers(s)
  /\ b.first = 0 => r.first = 0 /\ Contents(r) = Contents(b) \o s

LEMMA HoldingParts ==
  ASSUME NEW S, NEW L, NEW b, Holding(b, S, L)
  PROVE  /\ b.size \in Nat /\ b.limit \in L
         /\ Contents(b) \in Seq(S) /\ Len(Contents(b)) = b.size
         /\ Offers(Contents(b)) = Waiting(b)
<1>1. b.size \in Nat /\ b.limit \in L /\ Live(b, S)
  BY DEF Holding, Buffers
<1>2. Contents(b) \in Seq(S) /\ Len(Contents(b)) = b.size
  BY <1>1, ContentsOfLive
<1>3. Offers(Contents(b)) = Waiting(b)
  BY <1>2 DEF Offers, Waiting
<1> QED BY <1>1, <1>2, <1>3

LEMMA TookNone ==
  ASSUME NEW S, NEW L, NEW b, Holding(b, S, L)
  PROVE  Took(b, b, <<>>, S, L)
<1>1. b.size \in Nat /\ Contents(b) \in Seq(S)
  BY HoldingParts
<1>2. Contents(b) \o <<>> = Contents(b)
  BY <1>1, ConcatEmptySeq
<1>3. Offers(<<>>) = {} /\ Len(<<>>) = 0
  BY DEF Offers
<1> QED BY <1>1, <1>2, <1>3 DEF Took

LEMMA TookOne ==
  ASSUME NEW S, NEW L, L \subseteq Nat, NEW b, Holding(b, S, L), NEW s \in Seq(S), Accepts(b, s)
  PROVE  Took(Written(b, s), b, s, S, L)
<1> DEFINE r == Written(b, s)
<1>1. /\ b \in Buffers(S \cup {Moved}, L) /\ Geometry(b) /\ Live(b, S) /\ b.closed = FALSE
      /\ b.size \in Nat /\ b.limit \in L /\ b.limit \in Nat
  BY HoldingParts DEF Holding
<1>2. s \in Seq(S \cup {Moved})
  OBVIOUS
<1>3. r \in Buffers(S \cup {Moved}, L) /\ GrownBy(r, b, s)
  BY <1>1, <1>2, WrittenGeometry
<1> HIDE DEF r
<1>4. /\ Geometry(r) /\ r.size = b.size + Len(s) /\ r.limit = b.limit /\ r.closed = b.closed
      /\ Live(r, S)
  BY <1>1, <1>3 DEF GrownBy
<1>5. Waiting(r) = Waiting(b) \cup Offers(s)
  BY <1>1, <1>3, GrownRange
<1>6. b.first = 0 => r.first = 0 /\ Contents(r) = Contents(b) \o s
  BY <1>1, <1>3, GrownAppends
<1>7. Took(r, b, s, S, L)
  BY <1>1, <1>3, <1>4, <1>5, <1>6 DEF Took, Holding
<1> QED BY <1>7 DEF r

LEMMA TookMore ==
  ASSUME NEW S, NEW L, L \subseteq Nat, NEW b, Holding(b, S, L), NEW s \in Seq(S),
         NEW r, Took(r, b, s, S, L), NEW t \in Seq(S), Len(s) + Len(t) <= FreeSpace(b)
  PROVE  Took(Written(r, t), b, s \o t, S, L)
<1> DEFINE q == Written(r, t)
           st == s \o t
<1>1. /\ b.size \in Nat /\ b.limit \in Nat /\ Len(s) \in Nat /\ Len(t) \in Nat
      /\ Contents(b) \in Seq(S)
  <2>1. b.size \in Nat /\ b.limit \in L /\ Contents(b) \in Seq(S)
    BY HoldingParts
  <2>2. b.limit \in Nat
    BY <2>1
  <2>3. Len(s) \in Nat /\ Len(t) \in Nat
    OBVIOUS
  <2> QED BY <2>1, <2>2, <2>3
<1>2. /\ Holding(r, S, L) /\ r.limit = b.limit /\ r.size = b.size + Len(s)
      /\ Waiting(r) = Waiting(b) \cup Offers(s)
      /\ b.first = 0 => r.first = 0 /\ Contents(r) = Contents(b) \o s
  BY DEF Took
<1>3. Accepts(r, t)
  <2>1. MaxSize(r) = MaxSize(b) /\ MaxSize(b) \in Nat
    BY <1>1, <1>2, BufferAssumption DEF MaxSize
  <2>2. r.closed = FALSE
    BY <1>2 DEF Holding
  <2>3. Len(t) = 0 \/ Len(t) <= FreeSpace(r)
    BY <1>1, <1>2, <2>1 DEF FreeSpace
  <2>4. Len(t) = 0 => t = <<>>
    BY EmptySeq
  <2> QED BY <2>2, <2>3, <2>4 DEF Accepts
<1>4. Took(q, r, t, S, L)
  BY <1>2, <1>3, TookOne
<1> HIDE DEF q
<1>5. /\ st \in Seq(S) /\ Len(st) = Len(s) + Len(t)
      /\ Offers(st) = Offers(s) \cup Offers(t)
      /\ (Contents(b) \o s) \o t = Contents(b) \o st
  BY <1>1, ConcatParts, OffersConcat, ConcatAssociative, SMTT(30)
<1> HIDE DEF st
<1>6. /\ Holding(q, S, L) /\ q.limit = r.limit /\ q.size = r.size + Len(t)
      /\ Waiting(q) = Waiting(r) \cup Offers(t)
      /\ r.first = 0 => q.first = 0 /\ Contents(q) = Contents(r) \o t
  BY <1>4 DEF Took
<1>7. q.size = b.size + Len(st)
  BY <1>1, <1>2, <1>5, <1>6
<1>8. Waiting(q) = Waiting(b) \cup Offers(st)
  BY <1>2, <1>5, <1>6
<1>9. b.first = 0 => q.first = 0 /\ Contents(q) = Contents(b) \o st
  BY <1>2, <1>5, <1>6
<1> QED BY <1>2, <1>6, <1>7, <1>8, <1>9 DEF Took, q, st

\* The recursive function of Filled() exists.
AreFills(f, b, chunks, n) ==
  f = [i \in 0..n |-> IF i = 0 THEN b ELSE Written(f[i - 1], chunks[i])]

LEMMA FillsExist ==
  ASSUME NEW b, NEW chunks, NEW n \in Nat
  PROVE  \E f : AreFills(f, b, chunks, n)
<1> DEFINE More(x, i) == Written(x, chunks[i])
           Is(f, m) == f = [i \in 0..m |-> IF i = 0 THEN b ELSE More(f[i - 1], i)]
           T == {m \in Nat : \E f : Is(f, m)}
<1> HIDE DEF More
<1>1. 0 \in T
  <2>1. Is([i \in 0..0 |-> b], 0)
    OBVIOUS
  <2> QED BY <2>1
<1>2. ASSUME NEW m \in Nat, m \in T PROVE m + 1 \in T
  <2>1. PICK f : Is(f, m)
    BY <1>2
  <2> DEFINE g == [i \in 0..(m + 1) |-> IF i = m + 1 THEN More(f[m], m + 1) ELSE f[i]]
  <2>2. ASSUME NEW i \in 0..(m + 1), i # 0 PROVE i - 1 \in 0..m /\ g[i - 1] = f[i - 1]
    BY <2>2
  <2>3. ASSUME NEW i \in 0..(m + 1)
        PROVE  g[i] = IF i = 0 THEN b ELSE More(g[i - 1], i)
    BY <2>1, <2>2
  <2>4. g = [i \in 0..(m + 1) |-> g[i]]
    OBVIOUS
  <2> HIDE DEF g
  <2>5. Is(g, m + 1)
    BY <2>3, <2>4
  <2> QED BY <2>5
<1>3. n \in T
  BY <1>1, <1>2, Induction
<1> QED BY <1>3 DEF More, AreFills

\* The i-th chunk ends at i * ChunkSize or where the bytes end.
LEMMA ChunkBounds ==
  ASSUME NEW n \in Nat, NEW c \in Nat \ {0}
  PROVE  /\ (n + c - 1) \div c \in Nat
         /\ \A i \in 0..((n + c - 1) \div c - 1) : i * c \in Nat /\ i * c <= n
         /\ n <= ((n + c - 1) \div c) * c
<1> DEFINE a == n + c - 1
           q == a \div c
<1>1. a \in Nat /\ q \in Nat /\ q * c <= a /\ a < q * c + c
  OBVIOUS
<1> HIDE DEF q
<1>2. n <= q * c
  <2>1. q * c \in Nat
    BY <1>1
  <2> QED BY <1>1, <2>1
<1>3. ASSUME NEW i \in 0..(q - 1) PROVE i * c \in Nat /\ i * c <= n
  <2>1. i \in Nat /\ i + 1 <= q
    BY <1>1
  <2>2. (i + 1) * c <= q * c
    BY <1>1, <2>1
  <2>3. (i + 1) * c = i * c + c /\ i * c \in Nat /\ q * c \in Nat
    BY <1>1, <2>1
  <2> QED BY <1>1, <2>2, <2>3
<1> QED BY <1>1, <1>2, <1>3 DEF q

\* However many chunks they come in, the bytes get into the buffer.
LEMMA FilledTakes ==
  ASSUME NEW S, NEW L, L \subseteq Nat, NEW b, Holding(b, S, L), NEW s \in Seq(S),
         Len(s) <= FreeSpace(b)
  PROVE  Took(Filled(b, Chunks(s)), b, s, S, L)
<1> DEFINE n == Len(s)
           c == ChunkSize
           q == (n + c - 1) \div c
           chunks == Chunks(s)
           end(i) == Least(i * c, n)
           f == CHOOSE g : g = [i \in 0..q |-> IF i = 0 THEN b ELSE Written(g[i - 1], chunks[i])]
           T == {i \in Nat : i <= q => Took(f[i], b, First(s, end(i)), S, L)}
<1>1. n \in Nat /\ c \in Nat \ {0}
  BY SocketAssumption
<1>2. /\ q \in Nat /\ n <= q * c
      /\ \A i \in 0..(q - 1) : i * c \in Nat /\ i * c <= n
  <2> HIDE DEF n, c
  <2> QED BY <1>1, ChunkBounds
<1>3. /\ Len(chunks) = q
      /\ \A i \in 1..q : chunks[i] = SubSeq(s, (i - 1) * c + 1, end(i))
  <2>1. chunks = [i \in 1..q |-> SubSeq(s, (i - 1) * c + 1, end(i))]
    BY DEF Chunks
  <2> DEFINE part(i) == SubSeq(s, (i - 1) * c + 1, end(i))
  <2>2. chunks = [i \in 1..q |-> part(i)]
    BY <2>1
  <2> HIDE DEF chunks, q, part
  <2>3. Len(chunks) = q /\ \A i \in 1..q : chunks[i] = part(i)
    BY <1>2, <2>2
  <2> QED BY <2>3 DEF part
<1>4. Filled(b, chunks) = f[q]
  <2>1. Filled(b, chunks)
          = (CHOOSE g : g = [i \in 0..Len(chunks) |->
                               IF i = 0 THEN b ELSE Written(g[i - 1], chunks[i])])[Len(chunks)]
    BY DEF Filled
  <2> HIDE DEF chunks, q
  <2> QED BY <1>3, <2>1
<1> HIDE DEF chunks, n, c, q
<1>5. f = [i \in 0..q |-> IF i = 0 THEN b ELSE Written(f[i - 1], chunks[i])]
  <2>1. \E g : AreFills(g, b, chunks, q)
    BY <1>2, FillsExist
  <2>2. \E g : g = [i \in 0..q |-> IF i = 0 THEN b ELSE Written(g[i - 1], chunks[i])]
    BY <2>1 DEF AreFills
  <2> QED BY <2>2
<1> HIDE DEF f
<1>6. f[0] = b /\ \A i \in 1..q : f[i] = Written(f[i - 1], chunks[i])
  BY <1>2, <1>5
<1>7. 0 \in T
  <2>1. end(0) = 0
    BY <1>1 DEF Least
  <2>2. First(s, 0) = <<>>
    BY DEF First
  <2>3. Took(f[0], b, <<>>, S, L)
    BY <1>6, TookNone
  <2> QED BY <2>1, <2>2, <2>3
<1>8. ASSUME NEW i \in Nat, i \in T PROVE i + 1 \in T
  <2> SUFFICES ASSUME i + 1 <= q PROVE Took(f[i + 1], b, First(s, end(i + 1)), S, L)
    OBVIOUS
  <2>1. i \in 0..(q - 1) /\ i + 1 \in 1..q /\ (i + 1) - 1 = i /\ i <= q
    BY <1>2
  <2>2. i * c \in Nat /\ i * c <= n /\ end(i) = i * c
    <3>1. i * c \in Nat /\ i * c <= n
      BY <1>2, <2>1
    <3> QED BY <1>1, <3>1 DEF Least
  <2>3. end(i + 1) \in Nat /\ end(i + 1) <= n /\ i * c <= end(i + 1)
    <3>1. (i + 1) * c = i * c + c /\ (i + 1) * c \in Nat
      BY <1>1, <2>2
    <3> QED BY <1>1, <2>2, <3>1 DEF Least
  <2> DEFINE k == i * c
             e == end(i + 1)
             u == First(s, k)
             t == SubSeq(s, k + 1, e)
  <2>4. f[i + 1] = Written(f[i], t)
    BY <1>3, <1>6, <2>1
  <2>5. Took(f[i], b, u, S, L)
    BY <1>8, <2>1, <2>2
  <2>6. k \in Nat /\ e \in Nat /\ k <= e /\ e <= Len(s)
    BY <2>2, <2>3 DEF n
  <2> HIDE DEF k, e, end
  <2>7. /\ u \in Seq(S) /\ Len(u) = k /\ t \in Seq(S) /\ Len(t) = e - k
        /\ u \o t = First(s, e)
    <3>1. /\ SubSeq(s, 1, k) \in Seq(S) /\ Len(SubSeq(s, 1, k)) = k
          /\ t \in Seq(S) /\ Len(t) = e - k
      BY <2>6
    <3>2. SubSeq(s, 1, k) \o SubSeq(s, k + 1, e) = SubSeq(s, 1, e)
      <4>1. 1 \in 1..(Len(s) + 1) /\ k \in (1 - 1)..Len(s) /\ e \in k..Len(s)
        BY <2>6
      <4> QED BY <4>1, ConcatAdjacentSubSeq
    <3> QED BY <3>1, <3>2 DEF First
  <2> HIDE DEF u, t
  <2>8. Len(u) + Len(t) <= FreeSpace(b)
    <3>1. FreeSpace(b) \in Nat
      <4>1. b.size \in Nat /\ b.limit \in L
        BY HoldingParts
      <4>2. MaxSize(b) \in Nat
        BY <4>1, BufferAssumption DEF MaxSize
      <4> QED BY <4>1, <4>2 DEF FreeSpace
    <3> QED BY <2>6, <2>7, <3>1
  <2>9. Took(Written(f[i], t), b, u \o t, S, L)
    BY <2>5, <2>7, <2>8, TookMore
  <2> QED BY <2>4, <2>7, <2>9 DEF e
<1> HIDE DEF T
<1>9. q \in T
  BY <1>2, <1>7, <1>8, Induction
<1>10. First(s, end(q)) = s
  <2>1. end(q) = n
    <3>1. q * c \in Nat
      BY <1>1, <1>2
    <3> QED BY <1>1, <1>2, <3>1 DEF Least
  <2>2. SubSeq(s, 1, Len(s)) = s
    BY SubSeqFull
  <2> QED BY <2>1, <2>2 DEF First, n
<1> QED BY <1>2, <1>4, <1>9, <1>10 DEF T, chunks

\* Two and three sequences behind each other.
LEMMA Joined ==
  ASSUME NEW S
  PROVE  /\ \A u, v \in Seq(S) : /\ u \o v \in Seq(S) /\ Len(u \o v) = Len(u) + Len(v)
                                /\ Offers(u \o v) = Offers(u) \cup Offers(v)
         /\ \A u, v, w \in Seq(S) : (u \o v) \o w = u \o (v \o w)
<1>1. ASSUME NEW u \in Seq(S), NEW v \in Seq(S)
      PROVE  /\ u \o v \in Seq(S) /\ Len(u \o v) = Len(u) + Len(v)
             /\ Offers(u \o v) = Offers(u) \cup Offers(v)
  BY ConcatParts, OffersConcat
<1>2. ASSUME NEW u \in Seq(S), NEW v \in Seq(S), NEW w \in Seq(S)
      PROVE  (u \o v) \o w = u \o (v \o w)
  BY ConcatAssociative, SMTT(30)
<1> QED BY <1>1, <1>2

\* All that arrived is with the application, in the buffer or in the kernel.
AllReceived ==
  /\ Holding(read_buffer, Byte, ReadLimits)
  /\ got \in Seq(Byte) /\ arrived \in Seq(Byte) /\ coming \in 0..MaxBytes
  /\ connected \in BOOLEAN /\ reads \in Readers
  /\ Len(Incoming) = coming /\ 1..coming \subseteq Offers(Incoming)
  /\ reads = {"all"} => read_buffer.first = 0 /\ Incoming = Bytes(1, coming)

LEMMA BytesConcat ==
  ASSUME NEW o \in Nat, NEW n \in Nat, o + n <= MaxBytes
  PROVE  Bytes(1, o) \o Bytes(o + 1, n) = Bytes(1, o + n)
<1> DEFINE u == Bytes(1, o)
           v == Bytes(o + 1, n)
           w == Bytes(1, o + n)
<1>1. /\ u \in Seq(Int) /\ Len(u) = o /\ \A i \in 1..o : u[i] = i
      /\ v \in Seq(Int) /\ Len(v) = n /\ \A i \in 1..n : v[i] = o + i
      /\ w \in Seq(Int) /\ Len(w) = o + n /\ \A i \in 1..(o + n) : w[i] = i
  <2>1. ASSUME NEW a \in Nat, NEW k \in Nat
        PROVE  /\ Bytes(a + 1, k) \in Seq(Int) /\ Len(Bytes(a + 1, k)) = k
               /\ \A i \in 1..k : Bytes(a + 1, k)[i] = a + i
    <3>1. \A i \in 1..k : a + 1 + i - 1 = a + i /\ a + i \in Int
      OBVIOUS
    <3>2. Bytes(a + 1, k) = [i \in 1..k |-> a + i]
      BY <3>1 DEF Bytes
    <3> QED BY <3>1, <3>2
  <2>2. 0 \in Nat /\ 0 + 1 = 1 /\ o + n \in Nat /\ \A i \in Int : 0 + i = i
    OBVIOUS
  <2> HIDE DEF u, v, w
  <2>3. /\ u \in Seq(Int) /\ Len(u) = o /\ \A i \in 1..o : u[i] = 0 + i
        /\ w \in Seq(Int) /\ Len(w) = o + n /\ \A i \in 1..(o + n) : w[i] = 0 + i
    BY <2>1, <2>2 DEF u, w
  <2>4. v \in Seq(Int) /\ Len(v) = n /\ \A i \in 1..n : v[i] = o + i
    BY <2>1 DEF v
  <2> QED BY <2>3, <2>4
<1> HIDE DEF u, v, w
<1>2. /\ u \o v \in Seq(Int) /\ Len(u \o v) = o + n
      /\ \A i \in 1..(o + n) : (u \o v)[i] = IF i <= o THEN u[i] ELSE v[i - o]
  BY <1>1, ConcatParts
<1>3. ASSUME NEW i \in 1..(o + n) PROVE (u \o v)[i] = w[i]
  <2>1. CASE i <= o
    <3>1. i \in 1..o
      BY <2>1
    <3> QED BY <1>1, <1>2, <2>1, <3>1
  <2>2. CASE ~(i <= o)
    <3>1. i - o \in 1..n /\ o + (i - o) = i
      BY <2>2
    <3> QED BY <1>1, <1>2, <2>2, <3>1
  <2> QED BY <2>1, <2>2
<1>4. u \o v = w
  BY <1>1, <1>2, <1>3, SeqEqual
<1> QED BY <1>4 DEF u, v, w

LEMMA IncomingParts ==
  ASSUME AllReceived
  PROVE  /\ Contents(read_buffer) \in Seq(Byte) /\ got \o Contents(read_buffer) \in Seq(Byte)
         /\ Incoming \in Seq(Byte)
         /\ Len(Incoming) = Len(got) + read_buffer.size + Len(arrived)
         /\ Offers(Incoming) = Offers(got) \cup Waiting(read_buffer) \cup Offers(arrived)
         /\ read_buffer.size \in Nat /\ coming \in Nat /\ coming <= MaxBytes
<1> DEFINE s == Contents(read_buffer)
           gs == got \o s
           w == gs \o arrived
<1>1. /\ s \in Seq(Byte) /\ got \in Seq(Byte) /\ arrived \in Seq(Byte)
      /\ read_buffer.size \in Nat /\ Len(s) = read_buffer.size
      /\ Offers(s) = Waiting(read_buffer)
  BY HoldingParts DEF AllReceived
<1>2. coming \in Nat /\ coming <= MaxBytes
  BY SocketAssumption DEF AllReceived
<1> HIDE DEF s
<1>3. gs \in Seq(Byte) /\ Len(gs) = Len(got) + Len(s) /\ Offers(gs) = Offers(got) \cup Offers(s)
  BY <1>1, ConcatParts, OffersConcat
<1> HIDE DEF gs
<1>4. /\ w \in Seq(Byte) /\ Len(w) = Len(gs) + Len(arrived)
      /\ Offers(w) = Offers(gs) \cup Offers(arrived)
  BY <1>1, <1>3, ConcatParts, OffersConcat, SMTT(30)
<1> HIDE DEF w
<1>5. Incoming = w
  BY DEF Incoming, w, gs, s
<1> QED BY <1>1, <1>2, <1>3, <1>4, <1>5 DEF gs, s

\* More bytes arrive.
LEMMA ArriveKeeps ==
  ASSUME AllReceived, NEW n \in 1..MaxRequest, Arrive(n) PROVE AllReceived'
<1> DEFINE v == Bytes(coming + 1, n)
           gs == got \o Contents(read_buffer)
<1>1. /\ Incoming \in Seq(Byte) /\ gs \in Seq(Byte) /\ arrived \in Seq(Byte)
      /\ coming \in Nat /\ n \in Nat /\ coming + n <= MaxBytes
  BY IncomingParts, SocketAssumption DEF Arrive, AllReceived
<1>2. /\ v \in Seq(Byte) /\ Len(v) = n /\ \A i \in 1..n : v[i] = coming + i
  BY <1>1, BytesInOrder DEF Ordered
<1>3. /\ arrived' = arrived \o v /\ coming' = coming + n
      /\ UNCHANGED <<read_buffer, got, connected, reads>>
  BY DEF Arrive
<1> HIDE DEF v
<1>4. Incoming' = Incoming \o v
  <2>1. Incoming' = gs \o (arrived \o v)
    BY <1>3 DEF Incoming
  <2>2. (gs \o arrived) \o v = gs \o (arrived \o v)
    <3> HIDE DEF gs
    <3>1. \A x, y, z \in Seq(Byte) : (x \o y) \o z = x \o (y \o z)
      BY Joined
    <3> QED BY <1>1, <1>2, <3>1
  <2> QED BY <2>1, <2>2 DEF Incoming
<1>5. /\ arrived' \in Seq(Byte) /\ Len(Incoming') = Len(Incoming) + n
      /\ Offers(Incoming') = Offers(Incoming) \cup Offers(v)
  <2>1. arrived \o v \in Seq(Byte)
    BY <1>1, <1>2, Joined
  <2>2. /\ Len(Incoming \o v) = Len(Incoming) + Len(v)
        /\ Offers(Incoming \o v) = Offers(Incoming) \cup Offers(v)
    <3>1. \A x, y \in Seq(Byte) : /\ Len(x \o y) = Len(x) + Len(y)
                                  /\ Offers(x \o y) = Offers(x) \cup Offers(y)
      BY Joined
    <3> QED BY <1>1, <1>2, <3>1
  <2> QED BY <1>2, <1>3, <1>4, <2>1, <2>2
<1>6. coming' \in 0..MaxBytes /\ Len(Incoming') = coming'
  BY <1>1, <1>3, <1>5 DEF AllReceived
<1>7. 1..coming' \subseteq Offers(Incoming')
  <2> SUFFICES ASSUME NEW i \in 1..(coming + n) PROVE i \in Offers(Incoming')
    BY <1>3
  <2>1. CASE i <= coming
    <3>1. i \in 1..coming
      BY <1>1, <2>1
    <3> QED BY <1>5, <3>1 DEF AllReceived
  <2>2. CASE i > coming
    <3>1. i - coming \in 1..Len(v) /\ v[i - coming] = i
      BY <1>1, <1>2, <2>2
    <3>2. i \in Offers(v)
      BY <3>1 DEF Offers
    <3> QED BY <1>5, <3>2
  <2> QED BY <1>1, <2>1, <2>2
<1>8. reads' = {"all"} => read_buffer'.first = 0 /\ Incoming' = Bytes(1, coming')
  <2>1. Bytes(1, coming) \o v = Bytes(1, coming + n)
    BY <1>1, BytesConcat DEF v
  <2> QED BY <1>3, <1>4, <2>1 DEF AllReceived
<1> QED BY <1>3, <1>5, <1>6, <1>7, <1>8 DEF AllReceived

\* Bytes move from the kernel to the buffer.
LEMMA FillKeeps == AllReceived /\ FillReadBuffer => AllReceived'
<1> SUFFICES ASSUME AllReceived, FillReadBuffer PROVE AllReceived'
  OBVIOUS
<1> DEFINE b == read_buffer
           s == Contents(b)
<1>1. /\ Holding(b, Byte, ReadLimits) /\ got \in Seq(Byte) /\ arrived \in Seq(Byte)
      /\ s \in Seq(Byte) /\ got \o s \in Seq(Byte) /\ b.size \in Nat /\ Len(s) = b.size
  BY IncomingParts, HoldingParts DEF AllReceived
<1>2. PICK n \in Transferred(Least(Len(arrived), FreeSpace(b))) :
        /\ n > 0 /\ read_buffer' = Filled(b, Chunks(First(arrived, n)))
        /\ arrived' = From(arrived, n) /\ UNCHANGED <<sending, coming, got, connected, reads>>
  BY DEF FillReadBuffer
<1>3. n \in 0..Len(arrived) /\ n <= FreeSpace(b)
  <2>1. FreeSpace(b) \in Nat
    <3>1. b.limit \in ReadLimits
      BY <1>1, HoldingParts
    <3>2. MaxSize(b) \in Nat
      BY <3>1, BufferAssumption, SocketAssumption DEF MaxSize
    <3> QED BY <1>1, <3>2 DEF FreeSpace
  <2>2. Len(arrived) \in Nat
    BY <1>1
  <2>3. n \in 0..Least(Len(arrived), FreeSpace(b))
    BY <2>1, <2>2 DEF Transferred, Least
  <2> QED BY <2>1, <2>2, <2>3 DEF Least
<1> DEFINE u == First(arrived, n)
           v == From(arrived, n)
           r == read_buffer'
<1>4. u \in Seq(Byte) /\ v \in Seq(Byte) /\ Len(u) = n /\ u \o v = arrived
  BY <1>1, <1>3, Halves
<1> HIDE DEF u, v
<1>5. Took(r, b, u, Byte, ReadLimits)
  <2>1. Took(Filled(b, Chunks(u)), b, u, Byte, ReadLimits)
    BY <1>1, <1>3, <1>4, FilledTakes, SocketAssumption
  <2> QED BY <1>2, <2>1 DEF u
<1>6. arrived' = v /\ got' = got /\ coming' = coming /\ connected' = connected /\ reads' = reads
  BY <1>2 DEF v
<1> HIDE DEF r, b, s
<1>7. /\ Holding(r, Byte, ReadLimits) /\ r.size = b.size + n
      /\ Waiting(r) = Waiting(b) \cup Offers(u)
      /\ b.first = 0 => r.first = 0 /\ Contents(r) = s \o u
  BY <1>4, <1>5 DEF Took, s
<1>8. /\ Contents(r) \in Seq(Byte) /\ Len(Contents(r)) = r.size
      /\ Offers(Contents(r)) = Waiting(r) /\ r.size \in Nat
  BY <1>7, HoldingParts
<1> DEFINE w == Contents(r)
           gw == got \o w
<1>9. Incoming' = gw \o v
  BY <1>6 DEF Incoming, r
<1> HIDE DEF w
<1>10. gw \in Seq(Byte) /\ Len(gw) = Len(got) + Len(w) /\ Offers(gw) = Offers(got) \cup Offers(w)
  BY <1>1, <1>8, ConcatParts, OffersConcat DEF w
<1> HIDE DEF gw
<1>11. /\ Incoming' \in Seq(Byte) /\ Len(Incoming') = Len(gw) + Len(v)
       /\ Offers(Incoming') = Offers(gw) \cup Offers(v)
  <2>1. /\ gw \o v \in Seq(Byte) /\ Len(gw \o v) = Len(gw) + Len(v)
        /\ Offers(gw \o v) = Offers(gw) \cup Offers(v)
    <3>1. \A x, y \in Seq(Byte) : /\ x \o y \in Seq(Byte) /\ Len(x \o y) = Len(x) + Len(y)
                                  /\ Offers(x \o y) = Offers(x) \cup Offers(y)
      BY Joined
    <3> QED BY <1>4, <1>10, <3>1
  <2> QED BY <1>9, <2>1
<1>12. Len(arrived) = n + Len(v) /\ Offers(arrived) = Offers(u) \cup Offers(v)
  BY <1>4, ConcatParts, OffersConcat, ZenonT(60)
<1>13. Len(Incoming') = coming
  <2>1. coming = Len(got) + b.size + Len(arrived)
    BY IncomingParts DEF AllReceived, b
  <2>2. Len(got) \in Nat /\ Len(v) \in Nat /\ n \in Nat
    BY <1>1, <1>3, <1>4
  <2>3. Len(w) = b.size + n
    BY <1>7, <1>8 DEF w
  <2>4. b.size \in Nat
    BY <1>1 DEF b
  <2>5. Len(Incoming') = Len(gw) + Len(v) /\ Len(gw) = Len(got) + Len(w)
    BY <1>10, <1>11
  <2>6. Len(arrived) = n + Len(v)
    BY <1>12
  <2> QED BY <2>1, <2>2, <2>3, <2>4, <2>5, <2>6, SMTT(30)
<1>14. 1..coming \subseteq Offers(Incoming')
  <2>1. 1..coming \subseteq Offers(got) \cup Waiting(b) \cup Offers(arrived)
    BY IncomingParts DEF AllReceived, b
  <2>2. Offers(w) = Waiting(b) \cup Offers(u)
    BY <1>7, <1>8 DEF w
  <2> QED BY <1>10, <1>11, <1>12, <2>1, <2>2
<1>15. reads = {"all"} => r.first = 0 /\ Incoming' = Bytes(1, coming)
  <2> SUFFICES ASSUME reads = {"all"} PROVE r.first = 0 /\ Incoming' = Bytes(1, coming)
    OBVIOUS
  <2>1. b.first = 0 /\ Incoming = Bytes(1, coming)
    BY DEF AllReceived, b
  <2>2. w = s \o u /\ r.first = 0
    BY <1>7, <2>1 DEF w
  <2>5. s \in Seq(Byte) /\ got \o s \in Seq(Byte) /\ got \in Seq(Byte)
    BY <1>1 DEF b, s
  <2>3. (got \o (s \o u)) \o v = (got \o s) \o (u \o v)
    <3>1. \A x, y, z \in Seq(Byte) : (x \o y) \o z = x \o (y \o z)
      BY Joined
    <3>2. got \o (s \o u) = (got \o s) \o u
      BY <1>4, <2>5, <3>1, ZenonT(60)
    <3>3. ((got \o s) \o u) \o v = (got \o s) \o (u \o v)
      BY <1>4, <2>5, <3>1, ZenonT(60)
    <3> QED BY <3>2, <3>3
  <2>4. Incoming' = (got \o s) \o arrived
    BY <1>4, <1>9, <2>2, <2>3 DEF gw
  <2> QED BY <2>1, <2>2, <2>4 DEF Incoming, s, b
<1>16. coming \in 0..MaxBytes /\ connected \in BOOLEAN /\ reads \in Readers
  BY DEF AllReceived
<1> QED BY <1>1, <1>4, <1>6, <1>7, <1>13, <1>14, <1>15, <1>16 DEF AllReceived, r

\* What a read leaves in the buffer is the rest of what was in it.
LEMMA LeftIsTheRest ==
  ASSUME NEW S, NEW L, NEW b, Holding(b, S, L), NEW n \in 0..b.size, NEW r \in Consumed(b, n, n)
  PROVE  /\ Holding(r, S, L) /\ r.size = b.size - n
         /\ Contents(r) = From(Contents(b), n)
<1>1. /\ b \in Buffers(S \cup {Moved}, L) /\ Geometry(b) /\ Live(b, S) /\ b.closed = FALSE
      /\ b.size \in Nat /\ n \in Nat /\ n <= b.size /\ n <= n /\ Moved \in S \cup {Moved}
      /\ Contents(b) \in Seq(S) /\ Len(Contents(b)) = b.size
  <2>1. b.size \in Nat /\ Contents(b) \in Seq(S) /\ Len(Contents(b)) = b.size
    BY HoldingParts
  <2>2. n \in Nat /\ n <= b.size /\ n <= n
    BY <2>1
  <2> QED BY <2>1, <2>2 DEF Holding
<1>2. r \in Buffers(S \cup {Moved}, L) /\ LeftBy(r, b, n, n)
  BY <1>1, ConsumedGeometry
<1>3. Live(r, S)
  BY <1>1, <1>2, LeftLive
<1>4. /\ Holding(r, S, L) /\ r.size = b.size - n
  BY <1>1, <1>2, <1>3 DEF LeftBy, Holding
<1>5. Contents(r) = From(Contents(b), n)
  <2> DEFINE w == Contents(r)
             v == From(Contents(b), n)
  <2>1. /\ v \in Seq(S) /\ Len(v) = b.size - n
        /\ \A i \in 1..(b.size - n) : v[i] = Contents(b)[n + i]
    <3> DEFINE c == Contents(b)
    <3>1. c \in Seq(S) /\ Len(c) = b.size /\ n \in 0..Len(c)
      BY <1>1
    <3> HIDE DEF c
    <3>2. /\ From(c, n) \in Seq(S) /\ Len(From(c, n)) = Len(c) - n
          /\ \A i \in 1..(Len(c) - n) : From(c, n)[i] = c[n + i]
      BY <3>1, PartsOf
    <3> QED BY <3>1, <3>2 DEF c
  <2>2. w \in Seq(S) /\ Len(w) = b.size - n
    BY <1>4, HoldingParts
  <2>3. \A i \in 1..r.size : w[i] = Contents(b)[n + i]
    BY <1>1, <1>2, LeftRange
  <2> HIDE DEF v, w
  <2>4. Len(v) = Len(w) /\ \A i \in 1..Len(w) : w[i] = v[i]
    BY <1>4, <2>1, <2>2, <2>3
  <2>5. v = w
    BY <2>1, <2>2, <2>4, SeqEqual
  <2> QED BY <2>5 DEF v, w
<1> QED BY <1>4, <1>5

\* Reading hands out what comes first: all that is received stays as it was.
LEMMA TakeKeeps ==
  ASSUME AllReceived, NEW max \in Nat, Take(max),
         reads = {"all"} => max >= read_buffer.size
  PROVE  AllReceived'
<1> DEFINE b == read_buffer
           s == Contents(b)
           n == Least(max, b.size)
           r == read_buffer'
<1>1. /\ Holding(b, Byte, ReadLimits) /\ got \in Seq(Byte) /\ arrived \in Seq(Byte)
      /\ s \in Seq(Byte) /\ b.size \in Nat /\ Len(s) = b.size
  BY IncomingParts, HoldingParts DEF AllReceived
<1>2. PICK m \in Transferred(Least(max - n, Len(arrived))) :
        /\ r \in Consumed(b, n, n) /\ arrived' = From(arrived, m)
        /\ got' = got \o First(s, n) \o First(arrived, m)
        /\ UNCHANGED <<sending, coming, connected, reads>>
  BY DEF Take
<1> HIDE DEF b, s, r
<1>3. n \in 0..b.size /\ n <= max /\ (n = max \/ n = b.size)
  BY <1>1 DEF Least
<1>4. m \in 0..Len(arrived) /\ (m = 0 \/ n = b.size)
  <2>1. Len(arrived) \in Nat /\ max - n \in Nat
    BY <1>1, <1>3
  <2>2. m \in 0..Least(max - n, Len(arrived))
    BY <2>1 DEF Transferred, Least
  <2> HIDE DEF n
  <2>3. Least(max - n, Len(arrived)) \in Nat /\ Least(max - n, Len(arrived)) <= Len(arrived)
        /\ Least(max - n, Len(arrived)) <= max - n
    BY <2>1 DEF Least
  <2> QED BY <1>3, <2>1, <2>2, <2>3
<1> HIDE DEF n
<1> DEFINE u == First(s, n)
           v == From(s, n)
           x == First(arrived, m)
           y == From(arrived, m)
<1>5. /\ u \in Seq(Byte) /\ v \in Seq(Byte) /\ u \o v = s /\ Len(v) = b.size - n
      /\ x \in Seq(Byte) /\ y \in Seq(Byte) /\ x \o y = arrived /\ Len(x) = m
  <2>1. u \in Seq(Byte) /\ v \in Seq(Byte) /\ u \o v = s /\ Len(v) = b.size - n
    <3>1. n \in 0..Len(s)
      BY <1>1, <1>3
    <3> QED BY <1>1, <3>1, Halves
  <2>2. x \in Seq(Byte) /\ y \in Seq(Byte) /\ x \o y = arrived /\ Len(x) = m
    BY <1>1, <1>4, Halves
  <2> QED BY <2>1, <2>2
<1> HIDE DEF u, v, x, y
<1>6. Holding(r, Byte, ReadLimits) /\ r.size = b.size - n /\ Contents(r) = v
  BY <1>1, <1>2, <1>3, LeftIsTheRest DEF v, s
<1>7. got' = (got \o u) \o x /\ arrived' = y
  BY <1>2 DEF u, x, y
<1>8. \A p, q, w \in Seq(Byte) : (p \o q) \o w = p \o (q \o w)
  BY Joined, SMTT(30)
<1>15. \A p, q \in Seq(Byte) : p \o q \in Seq(Byte)
  BY Joined
<1>9. got' \in Seq(Byte) /\ got \o u \in Seq(Byte)
  BY <1>1, <1>5, <1>7, <1>15
<1>10. x \o v = v \o x
  <2>1. x = <<>> \/ v = <<>>
    BY <1>1, <1>3, <1>4, <1>5, EmptySeq
  <2>2. /\ x = <<>> => x \o v = v /\ v \o x = v
        /\ v = <<>> => x \o v = x /\ v \o x = x
    BY <1>5, ConcatEmptySeq
  <2> QED BY <2>1, <2>2
<1>11. Incoming' = Incoming
  <2>1. Incoming' = (((got \o u) \o x) \o v) \o y
    BY <1>6, <1>7 DEF Incoming, r
  <2>2. ((got \o u) \o x) \o v = (got \o u) \o (v \o x)
    <3>1. ((got \o u) \o x) \o v = (got \o u) \o (x \o v)
      BY <1>5, <1>8, <1>9, ZenonT(60)
    <3> QED BY <1>10, <3>1
  <2>3. (got \o u) \o (v \o x) = ((got \o u) \o v) \o x
    BY <1>5, <1>8, <1>9, ZenonT(60)
  <2>4. (got \o u) \o v = got \o s
    <3>1. (got \o u) \o v = got \o (u \o v)
      <4>1. got \in Seq(Byte) /\ u \in Seq(Byte) /\ v \in Seq(Byte)
        BY <1>1, <1>5
      <4> QED BY <1>8, <4>1
    <3> QED BY <1>5, <3>1
  <2>5. ((got \o s) \o x) \o y = (got \o s) \o (x \o y)
    <3>1. got \o s \in Seq(Byte)
      BY <1>1, <1>15
    <3> QED BY <1>5, <1>8, <3>1
  <2> QED BY <1>5, <2>1, <2>2, <2>3, <2>4, <2>5 DEF Incoming, s, b
<1>12. reads = {"all"} => r.first = 0
  <2> SUFFICES ASSUME reads = {"all"} PROVE r.first = 0
    OBVIOUS
  <2>1. n = b.size
    BY <1>1, <1>3 DEF b
  <2>2. r.size = 0 /\ Geometry(r)
    BY <1>1, <1>6, <2>1 DEF Holding
  <2> QED BY <2>2 DEF Geometry
<1>13. coming' = coming /\ connected' = connected /\ reads' = reads
  BY <1>2
<1>14. r.first = read_buffer'.first
  BY DEF r
<1> QED BY <1>5, <1>6, <1>7, <1>9, <1>11, <1>12, <1>13, <1>14 DEF AllReceived, r

LEMMA ReceivingKept == AllReceived /\ [Next]_vars => AllReceived'
<1> SUFFICES ASSUME AllReceived, [Next]_vars PROVE AllReceived'
  OBVIOUS
<1>1. ASSUME NEW n \in 1..MaxRequest, Arrive(n) PROVE AllReceived'
  BY <1>1, ArriveKeeps
<1>2. ASSUME NEW n \in 1..MaxRequest, Read(n) PROVE AllReceived'
  <2>1. n \in Nat /\ Take(n) /\ "max" \in reads
    BY <1>2, SocketAssumption DEF Read
  <2>2. reads # {"all"}
    BY <2>1
  <2> QED BY <2>1, <2>2, TakeKeeps
<1>3. CASE ReadAll
  <2> DEFINE max == read_buffer.size + Len(arrived)
  <2>1. read_buffer.size \in Nat /\ Len(arrived) \in Nat
    BY IncomingParts DEF AllReceived
  <2>2. max \in Nat /\ max >= read_buffer.size
    BY <2>1
  <2>3. Take(max)
    BY <1>3 DEF ReadAll
  <2> HIDE DEF max
  <2> QED BY <2>2, <2>3, TakeKeeps
<1>4. CASE FillReadBuffer
  BY <1>4, FillKeeps
<1>5. CASE UNCHANGED <<receiving, reads>> /\ connected' \in BOOLEAN
  <2>1. UNCHANGED <<read_buffer, arrived, coming, got, reads>> /\ connected' \in BOOLEAN
    BY <1>5 DEF receiving
  <2>2. Incoming' = Incoming
    BY <2>1 DEF Incoming
  <2> QED BY <2>1, <2>2 DEF AllReceived
<1>6. \/ \E n \in 1..MaxRequest : Arrive(n) \/ Read(n)
      \/ ReadAll \/ FillReadBuffer
      \/ UNCHANGED <<receiving, reads>> /\ connected' \in BOOLEAN
  BY DEF Next, vars, Write, Flush, Disconnect, AllReceived
<1> QED BY <1>1, <1>2, <1>3, <1>4, <1>5, <1>6

LEMMA ReceivedWholeHolds == AllReceived /\ SendsInOrder => ReceivedWhole
<1> SUFFICES ASSUME AllReceived, SendsInOrder PROVE ReceivedWhole
  OBVIOUS
<1>1. TypeOK
  <2>1. /\ write_buffer \in Buffers(Byte \cup {Moved}, {0}) /\ Geometry(write_buffer)
        /\ wire \in Seq(Byte) /\ offered \in 0..MaxBytes
    BY DEF SendsInOrder, Queue, Ordered
  <2>2. read_buffer \in Buffers(Byte \cup {Moved}, ReadLimits) /\ Geometry(read_buffer)
    BY DEF AllReceived, Holding
  <2>3. /\ connected \in BOOLEAN /\ reads \in Readers /\ coming \in 0..MaxBytes
        /\ got \in Seq(Byte) /\ arrived \in Seq(Byte)
    BY DEF AllReceived
  <2> QED BY <2>1, <2>2, <2>3 DEF TypeOK, Byte
<1>2. NothingLostReceiving
  <2>1. Incoming \in Seq(Byte) /\ 1..coming \subseteq Offers(Incoming) /\ Len(Incoming) = coming
    BY IncomingParts DEF AllReceived
  <2>2. DOMAIN Incoming = 1..Len(Incoming)
    BY <2>1
  <2>3. ASSUME NEW i \in 1..coming PROVE \E k \in DOMAIN Incoming : Incoming[k] = i
    BY <2>1, <2>2 DEF Offers
  <2> QED BY <2>1, <2>3 DEF NothingLostReceiving
<1>3. ReceivedInOrder
  BY DEF AllReceived, ReceivedInOrder
<1> QED BY <1>1, <1>2, <1>3 DEF ReceivedWhole

-----------------------------------------------------------------------------
(* Receiving packets.                                                      *)

\* No element comes twice.
Distinct(s) == \A i, j \in 1..Len(s) : s[i] = s[j] => i = j

\* That is so if there are as many elements as places.
LEMMA DistinctCount ==
  ASSUME NEW S, NEW s \in Seq(S)
  PROVE  /\ IsFiniteSet(Offers(s))
         /\ Distinct(s) <=> Cardinality(Offers(s)) = Len(s)
<1> DEFINE n == Len(s)
           D == 1..n
           T == Offers(s)
<1>1. n \in Nat /\ s \in [D -> S] /\ DOMAIN s = D
  OBVIOUS
<1>2. IsFiniteSet(D) /\ Cardinality(D) = n
  <2>1. 1 \in Int /\ n \in Int /\ (IF 1 > n THEN 0 ELSE n - 1 + 1) = n
    BY <1>1
  <2> HIDE DEF n
  <2> QED BY <2>1, FS_Interval
<1>3. s \in [D -> T]
  <2>1. \A i \in D : s[i] \in T
    BY DEF Offers
  <2>2. s = [i \in D |-> s[i]]
    BY <1>1
  <2> HIDE DEF T, D
  <2> QED BY <2>1, <2>2
<1>4. s \in Surjection(D, T)
  <2>1. \A t \in T : \E i \in D : s[i] = t
    BY DEF Offers
  <2> HIDE DEF T, D
  <2> QED BY <1>3, <2>1 DEF Surjection
<1>5. Distinct(s) <=> s \in Injection(D, T)
  <2>1. Distinct(s) <=> \A i, j \in D : s[i] = s[j] => i = j
    BY DEF Distinct
  <2> HIDE DEF D, T
  <2> QED BY <1>1, <1>3, <2>1 DEF Injection, IsInjective
<1> HIDE DEF D, T
<1>6. IsFiniteSet(T) /\ (Cardinality(T) = Cardinality(D) <=> s \in Injection(D, T))
  BY <1>2, <1>4, FS_Surjection
<1> QED BY <1>2, <1>5, <1>6 DEF T, n

\* Two sequences behind each other.
LEMMA DistinctConcat ==
  ASSUME NEW S, NEW u \in Seq(S), NEW v \in Seq(S)
  PROVE  Distinct(u \o v) <=> /\ Distinct(u) /\ Distinct(v)
                              /\ Offers(u) \cap Offers(v) = {}
<1> DEFINE w == u \o v
           m == Len(u)
           n == Len(v)
<1>1. /\ w \in Seq(S) /\ Len(w) = m + n /\ m \in Nat /\ n \in Nat
      /\ \A k \in 1..(m + n) : w[k] = IF k <= m THEN u[k] ELSE v[k - m]
  BY ConcatParts
<1> HIDE DEF w
<1>2. /\ \A i \in 1..m : i \in 1..(m + n) /\ w[i] = u[i]
      /\ \A i \in 1..n : m + i \in 1..(m + n) /\ w[m + i] = v[i]
  <2>1. ASSUME NEW i \in 1..m PROVE i \in 1..(m + n) /\ w[i] = u[i]
    BY <1>1
  <2>2. ASSUME NEW i \in 1..n PROVE m + i \in 1..(m + n) /\ w[m + i] = v[i]
    <3>1. m + i \in 1..(m + n) /\ ~(m + i <= m) /\ (m + i) - m = i
      BY <1>1
    <3> QED BY <1>1, <3>1
  <2> QED BY <2>1, <2>2
<1>3. ASSUME Distinct(w)
      PROVE  Distinct(u) /\ Distinct(v) /\ Offers(u) \cap Offers(v) = {}
  <2>1. \A i, j \in 1..(m + n) : w[i] = w[j] => i = j
    BY <1>1, <1>3 DEF Distinct
  <2>2. Distinct(u)
    BY <1>2, <2>1 DEF Distinct
  <2>3. ASSUME NEW i \in 1..n, NEW j \in 1..n, v[i] = v[j] PROVE i = j
    <3>1. m + i = m + j
      BY <1>2, <2>1, <2>3
    <3> QED BY <1>1, <3>1
  <2>4. ASSUME NEW i \in 1..m, NEW j \in 1..n, u[i] = v[j] PROVE FALSE
    <3>1. i = m + j
      BY <1>2, <2>1, <2>4
    <3> QED BY <1>1, <3>1
  <2> QED BY <2>2, <2>3, <2>4 DEF Distinct, Offers
<1>4. ASSUME Distinct(u), Distinct(v), Offers(u) \cap Offers(v) = {}
      PROVE  Distinct(w)
  <2>1. \A i \in 1..m, j \in 1..n : u[i] # v[j]
    BY <1>4 DEF Offers
  <2> SUFFICES ASSUME NEW i \in 1..(m + n), NEW j \in 1..(m + n), w[i] = w[j] PROVE i = j
    BY <1>1 DEF Distinct
  <2>2. CASE i <= m /\ j <= m
    <3>1. i \in 1..m /\ j \in 1..m /\ u[i] = u[j]
      BY <1>1, <2>2
    <3> QED BY <1>4, <3>1 DEF Distinct
  <2>3. CASE ~(i <= m) /\ ~(j <= m)
    <3>1. i - m \in 1..n /\ j - m \in 1..n /\ v[i - m] = v[j - m]
      BY <1>1, <2>3
    <3>2. i - m = j - m
      BY <1>4, <3>1 DEF Distinct
    <3> QED BY <1>1, <3>2
  <2>4. CASE i <= m /\ ~(j <= m)
    <3>1. i \in 1..m /\ j - m \in 1..n /\ u[i] = v[j - m]
      BY <1>1, <2>4
    <3> QED BY <2>1, <3>1
  <2>5. CASE ~(i <= m) /\ j <= m
    <3>1. j \in 1..m /\ i - m \in 1..n /\ u[j] = v[i - m]
      BY <1>1, <2>5
    <3> QED BY <2>1, <3>1
  <2> QED BY <2>2, <2>3, <2>4, <2>5
<1> QED BY <1>3, <1>4 DEF w

\* A packet p that is not in the buffer comes into it once, if it fits.
LEMMA StoreKeeps ==
  ASSUME NEW S, NEW L, L \subseteq Nat, NEW b, Holding(b, S, L), Distinct(Contents(b)),
         NEW p \in S, p \notin Waiting(b)
  PROVE  /\ Holding(Store(b, p), S, L) /\ Distinct(Contents(Store(b, p)))
         /\ Waiting(Store(b, p)) \subseteq Waiting(b) \cup {p}
<1>1. CASE ~Accepts(b, <<p>>)
  BY <1>1 DEF Store
<1>2. CASE Accepts(b, <<p>>)
  <2> DEFINE r == Written(b, <<p>>)
             t == <<p>>
  <2>1. t \in Seq(S) /\ Len(t) = 1 /\ Offers(t) = {p}
    BY DEF Offers
  <2>2. Took(r, b, t, S, L)
    BY <1>2, <2>1, TookOne
  <2> HIDE DEF r, t
  <2>3. /\ Holding(r, S, L) /\ r.size = b.size + 1 /\ Waiting(r) = Waiting(b) \cup {p}
    BY <2>1, <2>2 DEF Took
  <2>4. /\ b.size \in Nat /\ Contents(b) \in Seq(S) /\ Len(Contents(b)) = b.size
        /\ Offers(Contents(b)) = Waiting(b)
    BY HoldingParts
  <2>5. /\ Contents(r) \in Seq(S) /\ Len(Contents(r)) = r.size
        /\ Offers(Contents(r)) = Waiting(r)
    BY <2>3, HoldingParts
  <2>6. IsFiniteSet(Waiting(b)) /\ Cardinality(Waiting(b)) = b.size
    BY <2>4, DistinctCount
  <2>7. Cardinality(Waiting(b) \cup {p}) = b.size + 1
    BY <2>6, FS_AddElement
  <2>8. Distinct(Contents(r))
    BY <2>3, <2>5, <2>7, DistinctCount
  <2>9. Store(b, p) = r
    BY <1>2 DEF Store, r
  <2> QED BY <2>3, <2>8, <2>9
<1> QED BY <1>1, <1>2

\* The recursive function of StoredEach() exists.
AreStores(f, b, packets, n) ==
  f = [i \in 0..n |-> IF i = 0 THEN b ELSE Store(f[i - 1], packets[i])]

LEMMA StoresExist ==
  ASSUME NEW b, NEW packets, NEW n \in Nat
  PROVE  \E f : AreStores(f, b, packets, n)
<1> DEFINE More(x, i) == Store(x, packets[i])
           Is(f, m) == f = [i \in 0..m |-> IF i = 0 THEN b ELSE More(f[i - 1], i)]
           T == {m \in Nat : \E f : Is(f, m)}
<1> HIDE DEF More
<1>1. 0 \in T
  <2>1. Is([i \in 0..0 |-> b], 0)
    OBVIOUS
  <2> QED BY <2>1
<1>2. ASSUME NEW m \in Nat, m \in T PROVE m + 1 \in T
  <2>1. PICK f : Is(f, m)
    BY <1>2
  <2> DEFINE g == [i \in 0..(m + 1) |-> IF i = m + 1 THEN More(f[m], m + 1) ELSE f[i]]
  <2>2. ASSUME NEW i \in 0..(m + 1), i # 0 PROVE i - 1 \in 0..m /\ g[i - 1] = f[i - 1]
    BY <2>2
  <2>3. ASSUME NEW i \in 0..(m + 1)
        PROVE  g[i] = IF i = 0 THEN b ELSE More(g[i - 1], i)
    BY <2>1, <2>2
  <2>4. g = [i \in 0..(m + 1) |-> g[i]]
    OBVIOUS
  <2> HIDE DEF g
  <2>5. Is(g, m + 1)
    BY <2>3, <2>4
  <2> QED BY <2>5
<1>3. n \in T
  BY <1>1, <1>2, Induction
<1> QED BY <1>3 DEF More, AreStores

\* Every packet the kernel has comes into the buffer at most once.
LEMMA StoredEachKeeps ==
  ASSUME NEW S, NEW L, L \subseteq Nat, NEW b, Holding(b, S, L), Distinct(Contents(b)),
         NEW s \in Seq(S), Distinct(s), Waiting(b) \cap Offers(s) = {}
  PROVE  /\ Holding(StoredEach(b, s), S, L) /\ Distinct(Contents(StoredEach(b, s)))
         /\ Waiting(StoredEach(b, s)) \subseteq Waiting(b) \cup Offers(s)
<1> DEFINE n == Len(s)
           f == CHOOSE g : g = [i \in 0..n |-> IF i = 0 THEN b ELSE Store(g[i - 1], s[i])]
           Before(i) == {s[k] : k \in 1..i}
           Good(r, i) == /\ Holding(r, S, L) /\ Distinct(Contents(r))
                         /\ Waiting(r) \subseteq Waiting(b) \cup Before(i)
           T == {i \in Nat : i <= n => Good(f[i], i)}
<1>1. n \in Nat /\ \A i \in 1..n : s[i] \in S
  OBVIOUS
<1>2. StoredEach(b, s) = f[n]
  BY DEF StoredEach
<1> HIDE DEF n
<1>3. f = [i \in 0..n |-> IF i = 0 THEN b ELSE Store(f[i - 1], s[i])]
  <2>1. \E g : AreStores(g, b, s, n)
    BY <1>1, StoresExist
  <2>2. \E g : g = [i \in 0..n |-> IF i = 0 THEN b ELSE Store(g[i - 1], s[i])]
    BY <2>1 DEF AreStores
  <2> QED BY <2>2
<1> HIDE DEF f
<1>4. f[0] = b /\ \A i \in 1..n : f[i] = Store(f[i - 1], s[i])
  BY <1>1, <1>3
<1>5. 0 \in T
  BY <1>4
<1>6. ASSUME NEW i \in Nat, i \in T PROVE i + 1 \in T
  <2> SUFFICES ASSUME i + 1 <= n PROVE Good(f[i + 1], i + 1)
    OBVIOUS
  <2>1. i + 1 \in 1..n /\ (i + 1) - 1 = i /\ i <= n
    BY <1>1
  <2> DEFINE r == f[i]
             p == s[i + 1]
  <2>2. /\ Holding(r, S, L) /\ Distinct(Contents(r))
        /\ Waiting(r) \subseteq Waiting(b) \cup Before(i)
    BY <1>6, <2>1
  <2>3. p \in S /\ p \in Offers(s)
    BY <1>1, <2>1 DEF Offers, n
  <2>4. p \notin Before(i)
    <3> SUFFICES ASSUME NEW k \in 1..i, s[k] = s[i + 1] PROVE FALSE
      OBVIOUS
    <3>1. k \in 1..n /\ k # i + 1
      <4>1. k \in Int /\ 1 <= k /\ k <= i
        OBVIOUS
      <4> QED BY <1>1, <2>1, <4>1
    <3>2. \A x, y \in 1..n : s[x] = s[y] => x = y
      BY DEF Distinct, n
    <3> QED BY <2>1, <3>1, <3>2
  <2>5. Before(i) \cup {p} \subseteq Before(i + 1)
    <3>1. \A k \in 1..i : k \in 1..(i + 1)
      OBVIOUS
    <3>2. i + 1 \in 1..(i + 1)
      OBVIOUS
    <3> QED BY <3>1, <3>2
  <2>6. f[i + 1] = Store(r, p)
    BY <1>4, <2>1
  <2> HIDE DEF r, p, Before
  <2>7. p \notin Waiting(r)
    BY <2>2, <2>3, <2>4
  <2>8. /\ Holding(Store(r, p), S, L) /\ Distinct(Contents(Store(r, p)))
        /\ Waiting(Store(r, p)) \subseteq Waiting(r) \cup {p}
    BY <2>2, <2>3, <2>7, StoreKeeps
  <2> QED BY <2>2, <2>5, <2>6, <2>8
<1>7. n \in T
  <2> HIDE DEF T
  <2> QED BY <1>1, <1>5, <1>6, Induction
<1>8. Good(f[n], n)
  BY <1>1, <1>7
<1>9. Before(n) = Offers(s)
  BY DEF Offers, n
<1> QED BY <1>2, <1>8, <1>9

\* Every packet that arrived is with the application, in the buffer or in the kernel,
\* once, or it found the buffer full.
Received == taken \o Contents(incoming) \o ready

PacketsOnce ==
  /\ Holding(incoming, Nat, PacketLimits) /\ taken \in Seq(Nat) /\ ready \in Seq(Nat)
  /\ came \in Nat /\ overflowed \in Int
  /\ Distinct(Received) /\ Offers(Received) \subseteq 1..came
  /\ Len(Received) + overflowed = came

LEMMA JoinedNumbers ==
  \A u, v \in Seq(Nat) : /\ u \o v \in Seq(Nat) /\ Len(u \o v) = Len(u) + Len(v)
                         /\ Offers(u \o v) = Offers(u) \cup Offers(v)
  BY Joined

LEMMA ThreeNumbers == \A u, v, w \in Seq(Nat) : (u \o v) \o w = u \o (v \o w)
  BY Joined, SMTT(30)

LEMMA DistinctNumbers ==
  \A u, v \in Seq(Nat) : Distinct(u \o v) <=> /\ Distinct(u) /\ Distinct(v)
                                               /\ Offers(u) \cap Offers(v) = {}
<1>1. ASSUME NEW u \in Seq(Nat), NEW v \in Seq(Nat)
      PROVE  Distinct(u \o v) <=> /\ Distinct(u) /\ Distinct(v)
                                  /\ Offers(u) \cap Offers(v) = {}
  BY DistinctConcat
<1> QED BY <1>1

LEMMA ReceivedParts ==
  ASSUME PacketsOnce
  PROVE  /\ taken \in Seq(Nat) /\ Contents(incoming) \in Seq(Nat) /\ ready \in Seq(Nat)
         /\ taken \o Contents(incoming) \in Seq(Nat) /\ Received \in Seq(Nat)
         /\ incoming.size \in Nat /\ Len(Contents(incoming)) = incoming.size
         /\ Offers(Contents(incoming)) = Waiting(incoming)
         /\ Len(Received) = Len(taken) + incoming.size + Len(ready)
         /\ Offers(Received) = Offers(taken) \cup Waiting(incoming) \cup Offers(ready)
         /\ Distinct(taken) /\ Distinct(Contents(incoming)) /\ Distinct(ready)
         /\ Offers(taken) \cap Waiting(incoming) = {}
         /\ Offers(taken) \cap Offers(ready) = {}
         /\ Waiting(incoming) \cap Offers(ready) = {}
<1> DEFINE c == Contents(incoming)
           tc == taken \o c
<1>1. /\ taken \in Seq(Nat) /\ c \in Seq(Nat) /\ ready \in Seq(Nat)
      /\ incoming.size \in Nat /\ Len(c) = incoming.size /\ Offers(c) = Waiting(incoming)
  BY HoldingParts DEF PacketsOnce
<1>2. Distinct(tc \o ready)
  BY DEF PacketsOnce, Received
<1> HIDE DEF c
<1>3. /\ tc \in Seq(Nat) /\ Len(tc) = Len(taken) + Len(c)
      /\ Offers(tc) = Offers(taken) \cup Offers(c)
      /\ Distinct(tc) <=> /\ Distinct(taken) /\ Distinct(c) /\ Offers(taken) \cap Offers(c) = {}
  BY <1>1, JoinedNumbers, DistinctNumbers
<1> HIDE DEF tc
<1>4. /\ tc \o ready \in Seq(Nat) /\ Len(tc \o ready) = Len(tc) + Len(ready)
      /\ Offers(tc \o ready) = Offers(tc) \cup Offers(ready)
      /\ Distinct(tc) /\ Distinct(ready) /\ Offers(tc) \cap Offers(ready) = {}
  BY <1>1, <1>2, <1>3, JoinedNumbers, DistinctNumbers
<1>5. Received = tc \o ready
  BY DEF Received, tc, c
<1>6. Len(Received) = Len(taken) + incoming.size + Len(ready)
  BY <1>1, <1>3, <1>4, <1>5
<1>7. /\ Offers(Received) = Offers(taken) \cup Waiting(incoming) \cup Offers(ready)
      /\ Offers(taken) \cap Waiting(incoming) = {}
      /\ Offers(taken) \cap Offers(ready) = {}
      /\ Waiting(incoming) \cap Offers(ready) = {}
  BY <1>1, <1>3, <1>4, <1>5
<1> QED BY <1>1, <1>3, <1>4, <1>5, <1>6, <1>7 DEF c, tc

\* One more packet reaches the kernel.
LEMMA ComeKeeps == PacketsOnce /\ Come => PacketsOnce'
<1> SUFFICES ASSUME PacketsOnce, Come PROVE PacketsOnce'
  OBVIOUS
<1> DEFINE p == came + 1
           t == <<p>>
           tc == taken \o Contents(incoming)
<1>1. came \in Nat /\ p \in Nat /\ p \notin 1..came /\ 1..came \subseteq 1..p /\ p \in 1..p
  BY DEF PacketsOnce
<1>2. /\ came' = p /\ ready' = Append(ready, p)
      /\ UNCHANGED <<incoming, taken, overflowed>>
  BY DEF Come
<1> HIDE DEF p
<1>3. t \in Seq(Nat) /\ Len(t) = 1 /\ Offers(t) = {p} /\ Distinct(t)
  BY <1>1 DEF Offers, Distinct
<1>4. ready \in Seq(Nat) /\ tc \in Seq(Nat) /\ Received \in Seq(Nat)
  BY ReceivedParts
<1>5. ready' = ready \o t
  BY <1>1, <1>2, <1>4
<1> HIDE DEF t
<1>6. Received' = Received \o t
  <2>1. Received' = tc \o (ready \o t)
    BY <1>2, <1>5 DEF Received
  <2> HIDE DEF tc
  <2>2. (tc \o ready) \o t = tc \o (ready \o t)
    BY <1>3, <1>4, ThreeNumbers
  <2> QED BY <2>1, <2>2 DEF Received, tc
<1>7. Offers(Received) \subseteq 1..came /\ Distinct(Received) /\ Len(Received) + overflowed = came
  BY DEF PacketsOnce
<1>8. /\ Len(Received') = Len(Received) + 1 /\ Offers(Received') = Offers(Received) \cup {p}
      /\ ready' \in Seq(Nat)
  <2>1. /\ Len(Received \o t) = Len(Received) + Len(t)
        /\ Offers(Received \o t) = Offers(Received) \cup Offers(t)
    BY <1>3, <1>4, JoinedNumbers
  <2>2. ready \o t \in Seq(Nat)
    BY <1>3, <1>4, JoinedNumbers
  <2> QED BY <1>3, <1>5, <1>6, <2>1, <2>2
<1>9. Distinct(Received')
  <2>1. Offers(Received) \cap Offers(t) = {}
    BY <1>1, <1>3, <1>7
  <2> QED BY <1>3, <1>4, <1>6, <1>7, <2>1, DistinctNumbers
<1>10. Offers(Received') \subseteq 1..came'
  BY <1>1, <1>2, <1>7, <1>8
<1>11. Len(Received') + overflowed' = came'
  <2>1. Len(Received) \in Nat /\ overflowed \in Int
    BY <1>4 DEF PacketsOnce
  <2> QED BY <1>1, <1>2, <1>7, <1>8, <2>1 DEF p
<1>12. Holding(incoming, Nat, PacketLimits) /\ taken \in Seq(Nat) /\ overflowed \in Int
  BY DEF PacketsOnce
<1> QED BY <1>1, <1>2, <1>8, <1>9, <1>10, <1>11, <1>12 DEF PacketsOnce

\* What the kernel has is buffered or dropped.
LEMMA FillPacketsKeeps == PacketsOnce /\ FillPackets => PacketsOnce'
<1> SUFFICES ASSUME PacketsOnce, FillPackets PROVE PacketsOnce'
  OBVIOUS
<1> DEFINE b == incoming
           r == incoming'
           c == Contents(r)
           tc == taken \o c
<1>1. /\ r = StoredEach(b, ready) /\ ready' = <<>>
      /\ overflowed' = overflowed + Len(ready) - (r.size - b.size)
      /\ taken' = taken /\ came' = came
  BY DEF FillPackets
<1>2. /\ taken \in Seq(Nat) /\ ready \in Seq(Nat) /\ b.size \in Nat
      /\ Len(Received) = Len(taken) + b.size + Len(ready)
      /\ Offers(Received) = Offers(taken) \cup Waiting(b) \cup Offers(ready)
      /\ Distinct(taken) /\ Distinct(Contents(b)) /\ Distinct(ready)
      /\ Offers(taken) \cap Waiting(b) = {} /\ Offers(taken) \cap Offers(ready) = {}
      /\ Waiting(b) \cap Offers(ready) = {}
  BY ReceivedParts
<1>3. /\ Holding(b, Nat, PacketLimits) /\ came \in Nat /\ overflowed \in Int
      /\ Offers(Received) \subseteq 1..came /\ Len(Received) + overflowed = came
  BY DEF PacketsOnce
<1> HIDE DEF b, r
<1>4. /\ Holding(r, Nat, PacketLimits) /\ Distinct(c)
      /\ Waiting(r) \subseteq Waiting(b) \cup Offers(ready)
  BY <1>1, <1>2, <1>3, StoredEachKeeps, DatagramAssumption
<1>5. c \in Seq(Nat) /\ Len(c) = r.size /\ Offers(c) = Waiting(r) /\ r.size \in Nat
  BY <1>4, HoldingParts
<1> HIDE DEF c
<1>6. /\ tc \in Seq(Nat) /\ Len(tc) = Len(taken) + r.size
      /\ Offers(tc) = Offers(taken) \cup Waiting(r) /\ Distinct(tc)
  <2>1. Offers(taken) \cap Offers(c) = {}
    BY <1>2, <1>4, <1>5
  <2>2. /\ tc \in Seq(Nat) /\ Len(tc) = Len(taken) + Len(c)
        /\ Offers(tc) = Offers(taken) \cup Offers(c)
    BY <1>2, <1>5, JoinedNumbers
  <2>3. Distinct(tc)
    BY <1>2, <1>4, <1>5, <2>1, DistinctNumbers
  <2> QED BY <1>5, <2>2, <2>3
<1>7. Received' = tc
  <2>1. Received' = tc \o <<>>
    BY <1>1 DEF Received, tc, c, r
  <2> HIDE DEF tc
  <2> QED BY <1>6, <2>1, ConcatEmptySeq
<1> HIDE DEF tc
<1>8. Len(Received') + overflowed' = came'
  <2>1. Len(taken) \in Nat /\ Len(ready) \in Nat
    BY <1>2
  <2>2. Len(Received') = Len(taken) + r.size
    BY <1>6, <1>7
  <2>3. /\ overflowed' = overflowed + Len(ready) - (r.size - b.size) /\ came' = came
        /\ Len(Received) = Len(taken) + b.size + Len(ready)
        /\ Len(Received) + overflowed = came
    BY <1>1, <1>2, <1>3
  <2>4. b.size \in Nat /\ r.size \in Nat /\ overflowed \in Int /\ came \in Nat
    BY <1>2, <1>3, <1>5
  <2>5. ASSUME NEW x \in Nat, NEW y \in Nat, NEW z \in Nat, NEW w \in Nat, NEW o \in Int,
               NEW k \in Nat, (x + w + y) + o = k
        PROVE  (x + z) + (o + y - (z - w)) = k
    BY <2>5
  <2>6. (Len(taken) + b.size + Len(ready)) + overflowed = came
    BY <2>3
  <2>7. (Len(taken) + r.size) + (overflowed + Len(ready) - (r.size - b.size)) = came
    BY <2>1, <2>4, <2>5, <2>6
  <2> QED BY <2>2, <2>3, <2>7
<1>9. overflowed' \in Int
  <2>1. Len(ready) \in Nat
    BY <1>2
  <2> QED BY <1>1, <1>2, <1>3, <1>5, <2>1
<1>10. Offers(Received') \subseteq 1..came
  BY <1>2, <1>3, <1>4, <1>6, <1>7
<1>11. ready' \in Seq(Nat)
  BY <1>1
<1> QED BY <1>1, <1>2, <1>3, <1>4, <1>6, <1>7, <1>8, <1>9, <1>10, <1>11 DEF PacketsOnce, r

\* The application reads the packet that came first.
LEMMA ReadDatagramKeeps == PacketsOnce /\ ReadDatagram => PacketsOnce'
<1> SUFFICES ASSUME PacketsOnce, ReadDatagram PROVE PacketsOnce'
  OBVIOUS
<1> DEFINE b == incoming
           c == Contents(b)
<1>1. /\ Holding(b, Nat, PacketLimits) /\ taken \in Seq(Nat) /\ ready \in Seq(Nat)
      /\ c \in Seq(Nat) /\ b.size \in Nat /\ Len(c) = b.size
  BY ReceivedParts DEF PacketsOnce
<1>2. came' = came /\ overflowed' = overflowed
  BY DEF ReadDatagram
<1>3. \A s \in Seq(Nat) : s # <<>> => /\ First(s, 1) = <<Head(s)>> /\ From(s, 1) = Tail(s)
                                      /\ First(s, 1) \in Seq(Nat) /\ From(s, 1) \in Seq(Nat)
                                      /\ First(s, 1) \o From(s, 1) = s /\ Head(s) \in Nat
  <2> SUFFICES ASSUME NEW s \in Seq(Nat), s # <<>>
               PROVE  /\ First(s, 1) = <<Head(s)>> /\ From(s, 1) = Tail(s)
                      /\ First(s, 1) \in Seq(Nat) /\ From(s, 1) \in Seq(Nat)
                      /\ First(s, 1) \o From(s, 1) = s /\ Head(s) \in Nat
    OBVIOUS
  <2>1. 1 \in 0..Len(s) /\ Head(s) = s[1] /\ Head(s) \in Nat
    BY EmptySeq
  <2>2. /\ First(s, 1) \in Seq(Nat) /\ From(s, 1) \in Seq(Nat)
        /\ First(s, 1) \o From(s, 1) = s
    BY <2>1, Halves
  <2>3. First(s, 1) = <<Head(s)>>
    <3>1. SubSeq(s, 1, 1) = <<s[1]>> \o SubSeq(s, 2, 1)
      <4>1. 1 \in 1..Len(s) /\ 1 + 1 = 2
        BY <2>1
      <4> QED BY <4>1, SubSeqRecursiveFirst
    <3>2. SubSeq(s, 2, 1) = <<>>
      BY SubSeqEmpty
    <3>3. <<s[1]>> \o <<>> = <<s[1]>>
      OBVIOUS
    <3> QED BY <2>1, <3>1, <3>2, <3>3 DEF First
  <2>4. From(s, 1) = Tail(s)
    <3>1. Tail(s) = SubSeq(s, 2, Len(s))
      BY TailIsSubSeq
    <3> QED BY <3>1 DEF From
  <2> QED BY <2>1, <2>2, <2>3, <2>4
<1>4. CASE b.size > 0
  <2>1. taken' = Append(taken, Head(c)) /\ incoming' \in TakenOne(b) /\ ready' = ready
    BY <1>4 DEF ReadDatagram
  <2>2. c # <<>>
    BY <1>1, <1>4
  <2> DEFINE r == incoming'
             u == First(c, 1)
             v == From(c, 1)
  <2>3. r \in Consumed(b, 1, 1) /\ 1 \in 0..b.size
    BY <1>1, <1>4, <2>1 DEF TakenOne
  <2> HIDE DEF r, b, c
  <2>4. Holding(r, Nat, PacketLimits) /\ Contents(r) = v
    BY <1>1, <2>3, LeftIsTheRest DEF c
  <2>5. u = <<Head(c)>> /\ u \in Seq(Nat) /\ v \in Seq(Nat) /\ u \o v = c /\ Head(c) \in Nat
    BY <1>1, <1>3, <2>2
  <2> HIDE DEF u, v
  <2>6. taken' = taken \o u
    <3>1. Append(taken, Head(c)) = taken \o <<Head(c)>>
      BY <1>1, <2>5
    <3> QED BY <2>1, <2>5, <3>1
  <2>7. taken' \in Seq(Nat) /\ (taken \o u) \o v = taken \o c
    <3>1. taken \o u \in Seq(Nat)
      BY <1>1, <2>5, JoinedNumbers
    <3>2. (taken \o u) \o v = taken \o (u \o v)
      BY <1>1, <2>5, ThreeNumbers, ZenonT(60)
    <3> QED BY <2>5, <2>6, <3>1, <3>2
  <2>8. Received' = Received
    BY <2>1, <2>4, <2>6, <2>7 DEF Received, r, c, b
  <2> QED BY <1>1, <1>2, <2>1, <2>4, <2>7, <2>8 DEF PacketsOnce, r
<1>5. CASE ~(b.size > 0)
  <2>1. /\ ready # <<>> /\ taken' = Append(taken, Head(ready)) /\ ready' = Tail(ready)
        /\ incoming' = incoming
    BY <1>5 DEF ReadDatagram
  <2> DEFINE u == First(ready, 1)
             v == From(ready, 1)
  <2>2. /\ u = <<Head(ready)>> /\ v = Tail(ready) /\ u \in Seq(Nat) /\ v \in Seq(Nat)
        /\ u \o v = ready /\ Head(ready) \in Nat
    BY <1>1, <1>3, <2>1
  <2>3. c = <<>>
    BY <1>1, <1>5, EmptySeq
  <2> HIDE DEF u, v, c
  <2>4. taken' = taken \o u
    <3>1. Append(taken, Head(ready)) = taken \o <<Head(ready)>>
      BY <1>1, <2>2
    <3> QED BY <2>1, <2>2, <3>1
  <2>5. taken' \in Seq(Nat) /\ (taken \o u) \o v = taken \o ready
    <3>1. taken \o u \in Seq(Nat)
      BY <1>1, <2>2, JoinedNumbers
    <3>2. (taken \o u) \o v = taken \o (u \o v)
      BY <1>1, <2>2, ThreeNumbers, ZenonT(60)
    <3> QED BY <2>2, <2>4, <3>1, <3>2
  <2>6. Received = (taken \o c) \o ready /\ Received' = (taken' \o c) \o ready'
    BY <2>1 DEF Received, c, b
  <2>7. taken \o c = taken /\ taken' \o c = taken'
    BY <1>1, <2>3, <2>5, ConcatEmptySeq
  <2>8. Received' = Received
    BY <2>1, <2>2, <2>4, <2>5, <2>6, <2>7
  <2>9. ready' \in Seq(Nat)
    BY <2>1, <2>2
  <2> QED BY <1>1, <1>2, <2>1, <2>5, <2>8, <2>9 DEF PacketsOnce, b
<1> QED BY <1>4, <1>5

LEMMA PacketsOnceKept == PacketsOnce /\ [DatagramNext]_datagramVars => PacketsOnce'
<1> SUFFICES ASSUME PacketsOnce, [DatagramNext]_datagramVars PROVE PacketsOnce'
  OBVIOUS
<1>1. CASE UNCHANGED reading
  BY <1>1 DEF reading, PacketsOnce, Received
<1>2. Come \/ FillPackets \/ ReadDatagram \/ UNCHANGED reading
  BY DEF DatagramNext, datagramVars, Give, FlushDatagrams, CloseDatagrams
<1> QED BY <1>1, <1>2, ComeKeeps, FillPacketsKeeps, ReadDatagramKeeps

LEMMA DatagramsComeOnceHolds == PacketsOnce => DatagramsComeOnce
<1> SUFFICES ASSUME PacketsOnce PROVE DatagramsComeOnce
  OBVIOUS
<1>1. Received \in Seq(Nat) /\ DOMAIN Received = 1..Len(Received)
  BY ReceivedParts
<1>2. IsInjective(Received)
  BY <1>1 DEF PacketsOnce, Distinct, IsInjective
<1>3. Range(Received) \subseteq 1..came
  BY <1>1 DEF PacketsOnce, Offers, Range
<1> QED BY <1>2, <1>3 DEF PacketsOnce, DatagramsComeOnce, Received

-----------------------------------------------------------------------------
\* Nothing has arrived.
LEMMA ReceivingAtFirst == SocketsInit => AllReceived /\ PacketsOnce
<1> SUFFICES ASSUME SocketsInit PROVE AllReceived /\ PacketsOnce
  OBVIOUS
<1>1. AllReceived
  <2>1. PICK l \in ReadLimits : read_buffer = EmptyBuffer(l)
    BY DEF SocketsInit, Init
  <2>2. /\ reads \in Readers /\ connected = TRUE /\ arrived = <<>> /\ coming = 0 /\ got = <<>>
    BY DEF SocketsInit, Init
  <2>3. /\ Holding(read_buffer, Byte, ReadLimits) /\ read_buffer.first = 0
        /\ Contents(read_buffer) = <<>>
    BY <2>1, EmptyParts DEF Holding
  <2>4. Incoming = <<>>
    <3>1. (<<>> \o <<>>) \o <<>> = <<>>
      OBVIOUS
    <3> QED BY <2>2, <2>3, <3>1 DEF Incoming
  <2>5. Bytes(1, 0) = <<>> /\ 1..0 = {} /\ Len(<<>>) = 0 /\ 0 \in 0..MaxBytes
    BY SocketAssumption DEF Bytes
  <2>6. got \in Seq(Byte) /\ arrived \in Seq(Byte)
    BY <2>2
  <2> QED BY <2>2, <2>3, <2>4, <2>5, <2>6 DEF AllReceived
<1>2. PacketsOnce
  <2>1. PICK l \in PacketLimits : incoming = EmptyBuffer(l)
    BY DEF SocketsInit, DatagramInit
  <2>2. ready = <<>> /\ came = 0 /\ taken = <<>> /\ overflowed = 0
    BY DEF SocketsInit, DatagramInit
  <2>3. Holding(incoming, Nat, PacketLimits) /\ Contents(incoming) = <<>>
    BY <2>1, EmptyParts DEF Holding
  <2>4. Received = <<>>
    <3>1. (<<>> \o <<>>) \o <<>> = <<>>
      OBVIOUS
    <3> QED BY <2>2, <2>3, <3>1 DEF Received
  <2>5. Len(<<>>) = 0 /\ Distinct(<<>>) /\ Offers(<<>>) = {}
    BY DEF Distinct, Offers
  <2>6. taken \in Seq(Nat) /\ ready \in Seq(Nat)
    BY <2>2
  <2> QED BY <2>2, <2>3, <2>4, <2>5, <2>6 DEF PacketsOnce
<1> QED BY <1>1, <1>2

\* Every byte and every packet that arrived comes to the application once, or is in
\* a buffer or in the kernel, but for the packets that found the buffer full; an
\* application that reads all there is gets the bytes in order.
THEOREM NothingIsLostOrTwice == SocketsSpec => []ReceivedOnce
<1> DEFINE Inv == SendsInOrder /\ AllReceived /\ PacketsOnce
<1>1. SocketsInit => Inv
  BY SendingAtFirst, ReceivingAtFirst
<1>2. Inv /\ [SocketsNext]_<<type, vars, datagramVars, lifeVars, watcherVars>> => Inv'
  <2>1. ASSUME [SocketsNext]_<<type, vars, datagramVars, lifeVars, watcherVars>>
        PROVE  [Next]_vars /\ [DatagramNext]_datagramVars
    BY <2>1 DEF SocketsNext
  <2> QED BY <2>1, SendingKept, ReceivingKept, PacketsOnceKept
<1>3. Inv => ReceivedOnce
  BY ReceivedWholeHolds, DatagramsComeOnceHolds DEF ReceivedOnce
<1> QED BY <1>1, <1>2, <1>3, PTL DEF SocketsSpec

-----------------------------------------------------------------------------
(* What was written is kept.                                               *)

\* The bytes of a write are what the wire and the buffer end with.
LEMMA BytesAreKept ==
  ASSUME SendsInOrder, NEW n \in 1..MaxRequest, Write(n)
  PROVE  \E k \in 0..Len(Outgoing') : From(Outgoing', k) = Bytes(offered + 1, n)
<1> DEFINE s == Bytes(offered + 1, n)
           p == Contents(write_buffer)
           wb == write_buffer
<1>1. /\ Queue(wb, Byte) /\ p \in Seq(Byte) /\ Len(p) = wb.size /\ wb.size \in Nat
      /\ offered \in Nat /\ n \in Nat /\ offered + n <= MaxBytes /\ wire \in Seq(Byte)
  BY QueueParts, SocketAssumption DEF SendsInOrder, Ordered, Write
<1>2. s \in Seq(Byte) /\ Len(s) = n
  BY <1>1, BytesInOrder DEF Ordered
<1>3. PICK i \in Transferred(Len(p)), m \in Transferred(Len(s)) :
        \E b \in Consumed(wb, Len(p), i) :
          /\ wire' = wire \o First(p, i) \o First(s, m)
          /\ write_buffer' = Written(b, From(s, m))
  BY DEF Write, SentThrough
<1>4. PICK b \in Consumed(wb, Len(p), i) : /\ wire' = wire \o First(p, i) \o First(s, m)
                                           /\ write_buffer' = Written(b, From(s, m))
  BY <1>3
<1>5. i \in 0..Len(p) /\ m \in 0..Len(s)
  BY <1>1, <1>2 DEF Transferred
<1> HIDE DEF p, wb, s
<1>6. Queue(b, Byte) /\ b.size = 0
  BY <1>1, <1>4, <1>5, QueueEmptied
<1>7. /\ First(s, m) \in Seq(Byte) /\ From(s, m) \in Seq(Byte)
      /\ Len(From(s, m)) = Len(s) - m /\ First(s, m) \o From(s, m) = s
  BY <1>2, <1>5, Halves
<1>8. Len(From(s, m)) <= VectorMax
  <2>1. MaxBytes \in Nat /\ VectorMax \in Nat /\ n <= MaxBytes
    BY <1>1, SocketAssumption, BufferAssumption
  <2> QED BY <1>1, <1>2, <1>5, <1>7, <2>1, SocketAssumption
<1>9. Contents(write_buffer') = From(s, m)
  BY <1>4, <1>6, <1>7, <1>8, QueueFilled
<1> DEFINE u == First(p, i)
           x == First(s, m)
           y == From(s, m)
           w == wire \o u
<1>10. u \in Seq(Byte)
  BY <1>1, <1>5, Halves
<1> HIDE DEF u, x, y
<1>11. w \in Seq(Byte)
  BY <1>1, <1>10, Joined
<1>12. Outgoing' = (w \o x) \o y
  BY <1>4, <1>9 DEF Outgoing, u, x, y
<1> HIDE DEF w
<1>13. x \in Seq(Byte) /\ y \in Seq(Byte) /\ x \o y = s
  BY <1>7 DEF x, y
<1>14. (w \o x) \o y = w \o s
  <2>1. \A a, c, d \in Seq(Byte) : (a \o c) \o d = a \o (c \o d)
    BY Joined, SMTT(30)
  <2>2. (w \o x) \o y = w \o (x \o y)
    BY <1>11, <1>13, <2>1
  <2> QED BY <1>13, <2>2
<1>15. /\ w \o s \in Seq(Byte) /\ Len(w \o s) = Len(w) + Len(s)
       /\ \A k \in 1..(Len(w) + Len(s)) :
            (w \o s)[k] = IF k <= Len(w) THEN w[k] ELSE s[k - Len(w)]
  BY <1>2, <1>11, ConcatParts
<1> DEFINE o == w \o s
<1>16. Len(w) \in 0..Len(o) /\ Len(w) \in Nat /\ Len(o) - Len(w) = Len(s)
  BY <1>2, <1>11, <1>15
<1>17. From(o, Len(w)) = s
  <2> DEFINE l == Len(w)
             v == From(o, l)
  <2>1. /\ v \in Seq(Byte) /\ Len(v) = Len(o) - l
        /\ \A k \in 1..(Len(o) - l) : v[k] = o[l + k]
    <3> HIDE DEF o, l
    <3>1. o \in Seq(Byte) /\ l \in 0..Len(o)
      BY <1>15, <1>16 DEF o, l
    <3> QED BY <3>1, PartsOf
  <2>2. Len(v) = Len(s)
    BY <1>16, <2>1
  <2>3. ASSUME NEW k \in 1..Len(s) PROVE v[k] = s[k]
    <3>1. v[k] = o[l + k]
      BY <1>16, <2>1
    <3>2. l + k \in 1..(Len(w) + Len(s)) /\ ~(l + k <= Len(w)) /\ (l + k) - Len(w) = k
      BY <1>2, <1>16
    <3> QED BY <1>15, <3>1, <3>2
  <2> HIDE DEF v
  <2>4. v = s
    BY <1>2, <2>1, <2>2, <2>3, SeqEqual
  <2> QED BY <2>4 DEF v
<1> HIDE DEF o
<1>18. Outgoing' = o
  BY <1>12, <1>14 DEF o
<1> QED BY <1>16, <1>17, <1>18 DEF s

LEMMA MoreOf == ASSUME NEW S, NEW T, S \subseteq T PROVE \A x : x \in Seq(S) => x \in Seq(T)
  OBVIOUS

LEMMA OneFits == \A p : Len(<<p>>) <= VectorMax
  BY BufferAssumption

\* A packet that was sent last or waits.
LEMMA AmongAll ==
  ASSUME NEW S, NEW p \in S, NEW u \in Seq(S), NEW c \in Seq(S),
         (\E x \in Seq(S) : u = Append(x, p)) \/ c = <<p>>
  PROVE  p \in Range(u \o c)
<1> DEFINE q == u \o c
<1>1. /\ DOMAIN q = 1..Len(q) /\ Len(q) = Len(u) + Len(c) /\ Len(u) \in Nat /\ Len(c) \in Nat
      /\ \A k \in 1..(Len(u) + Len(c)) : q[k] = IF k <= Len(u) THEN u[k] ELSE c[k - Len(u)]
  <2>1. q \in Seq(S)
    OBVIOUS
  <2> QED BY <2>1, ConcatParts
<1> HIDE DEF q
<1>2. CASE \E x \in Seq(S) : u = Append(x, p)
  <2>1. Len(u) >= 1 /\ u[Len(u)] = p
    BY <1>2
  <2>2. Len(u) \in DOMAIN q /\ q[Len(u)] = p
    BY <1>1, <2>1
  <2> QED BY <2>2 DEF Range, q
<1>3. CASE c = <<p>>
  <2>1. Len(c) = 1 /\ c[1] = p
    BY <1>3
  <2>2. Len(u) + 1 \in DOMAIN q /\ q[Len(u) + 1] = p
    <3>1. /\ Len(u) + 1 \in 1..(Len(u) + Len(c)) /\ ~(Len(u) + 1 <= Len(u))
          /\ (Len(u) + 1) - Len(u) = 1
      BY <1>1, <2>1
    <3> QED BY <1>1, <2>1, <3>1
  <2> QED BY <2>2 DEF Range, q
<1> QED BY <1>2, <1>3

LEMMA PacketIsKept ==
  ASSUME PacketsInOrder, NEW to \in {Unspecified, "a", "b"}, NEW queue_on_error \in BOOLEAN,
         Give(to, queue_on_error), ~told'
  PROVE  Last(given') \in Range(sent' \o Contents(outgoing'))
<1> DEFINE p == [id |-> Len(given) + 1, to |-> to]
           S == PacketsOf(given')
<1>1. given \in Seq(Packets) /\ Len(given) \in Nat
  BY DEF PacketsInOrder
<1>2. p \in Packets /\ p.id = Len(given) + 1 /\ given' = Append(given, p)
  BY <1>1 DEF Packets, Give
<1>3. Last(given') = p
  BY <1>1, <1>2 DEF Last
<1>4. PacketsInOrder'
  <2>1. [DatagramNext]_datagramVars
    BY DEF DatagramNext
  <2> QED BY <2>1, PacketsKept
<1>5. /\ sent' \in Seq(S) /\ Contents(outgoing') \in Seq(S)
  <2>1. PICK k \in 0..Len(given') : Ordered(sent', S, Number, 0, k)
    BY <1>4 DEF PacketsInOrder
  <2>2. Queue(outgoing', S)
    BY <1>4 DEF PacketsInOrder
  <2> HIDE DEF S
  <2> QED BY <2>1, <2>2, QueueParts DEF Ordered
<1>6. PICK n \in 0..outgoing.size, flush \in {"sent", "would block", "error"} :
        \E answer \in IF flush = "error" THEN {"error"} ELSE Answers(p) :
          LET before == sent \o SubSeq(Contents(outgoing), 1, n)
          IN  /\ told' = (answer = "error")
              /\ sent' = IF answer = "sent" THEN Append(before, p) ELSE before
              /\ \E b \in AfterFlush(n) :
                   outgoing' = IF answer # "sent" /\ (queue_on_error \/ answer = "would block")
                               THEN Written(b, <<p>>) ELSE b
  BY DEF Give, WriteDatagram
<1> DEFINE before == sent \o SubSeq(Contents(outgoing), 1, n)
<1>7. PICK b \in AfterFlush(n) :
        sent' = Append(before, p) \/ outgoing' = Written(b, <<p>>)
  BY <1>6 DEF Answers
<1>8. /\ Queue(b, PacketsOf(given)) /\ b.size = 0
      /\ Ordered(before, PacketsOf(given), Number, 0, Len(given))
  BY AfterTheFlush
<1>9. /\ PacketsOf(given) \subseteq S /\ <<p>> \in Seq(S) /\ p \in S
  BY <1>1, <1>2, OneMorePacket DEF Ordered
<1> HIDE DEF p, S, before
<1>10. before \in Seq(S) /\ Queue(b, S)
  <2>1. before \in Seq(PacketsOf(given))
    BY <1>8 DEF Ordered
  <2>2. \A x : x \in Seq(PacketsOf(given)) => x \in Seq(S)
    BY <1>9, MoreOf
  <2> QED BY <1>8, <1>9, <2>1, <2>2, AmongMore
<1>11. CASE sent' = Append(before, p)
  BY <1>3, <1>5, <1>9, <1>10, <1>11, AmongAll
<1>12. CASE outgoing' = Written(b, <<p>>)
  <2>1. Len(<<p>>) <= VectorMax
    BY OneFits
  <2>2. Contents(outgoing') = <<p>>
    BY <1>8, <1>9, <1>10, <1>12, <2>1, QueueFilled
  <2> QED BY <1>3, <1>5, <1>9, <2>2, AmongAll
<1> QED BY <1>7, <1>11, <1>12

\* What write() and write_datagram() reported as written is sent or buffered when they
\* return.
THEOREM WrittenIsKept == SocketsSpec => WritesAreKept
<1> DEFINE Inv == SendsInOrder /\ PacketsInOrder
           Bytewise == offered' > offered =>
             \E k \in 0..Len(Outgoing') :
               From(Outgoing', k) = Bytes(offered + 1, offered' - offered)
           Packetwise == Len(given') > Len(given) /\ ~told' =>
             Last(given') \in Range(sent' \o Contents(outgoing'))
<1>1. SocketsInit => Inv
  BY SendingAtFirst
<1>2. Inv /\ [SocketsNext]_<<type, vars, datagramVars, lifeVars, watcherVars>>
      => Inv' /\ [Bytewise]_vars /\ [Packetwise]_datagramVars
  <2> SUFFICES ASSUME Inv, [SocketsNext]_<<type, vars, datagramVars, lifeVars, watcherVars>>
               PROVE  Inv' /\ [Bytewise]_vars /\ [Packetwise]_datagramVars
    OBVIOUS
  <2>1. [Next]_vars /\ [DatagramNext]_datagramVars
    BY DEF SocketsNext
  <2>2. Inv'
    BY <2>1, SendingKept, PacketsKept
  <2>3. ASSUME offered' > offered, [Next]_vars
        PROVE  \E k \in 0..Len(Outgoing') :
                 From(Outgoing', k) = Bytes(offered + 1, offered' - offered)
    <3>1. offered \in Nat
      BY SocketAssumption DEF SendsInOrder
    <3>2. offered' # offered
      BY <2>3, <3>1
    <3>3. PICK n \in 1..MaxRequest : Write(n)
      BY <2>3, <3>2 DEF Next, vars, sending, Arrive, Read, Take, Flush, FillReadBuffer, ReadAll,
                        Disconnect
    <3>4. offered' - offered = n
      BY <3>1, <3>3, SocketAssumption DEF Write
    <3> QED BY <3>3, <3>4, BytesAreKept
  <2>4. ASSUME Len(given') > Len(given), ~told'
        PROVE  Last(given') \in Range(sent' \o Contents(outgoing'))
    <3>1. Len(given) \in Nat
      BY DEF PacketsInOrder
    <3>2. given' # given
      BY <2>4, <3>1
    <3>3. PICK to \in {Unspecified, "a", "b"}, queue_on_error \in BOOLEAN :
            Give(to, queue_on_error)
      BY <2>1, <3>2 DEF DatagramNext, datagramVars, writing, FlushDatagrams, Come, FillPackets,
                        ReadDatagram, CloseDatagrams
    <3> QED BY <2>4, <3>3, PacketIsKept
  <2> QED BY <2>1, <2>2, <2>3, <2>4
<1> QED BY <1>1, <1>2, PTL DEF SocketsSpec, WritesAreKept, WriteKeepsItsBytes, AcceptedIsKept

-----------------------------------------------------------------------------
(* The tables of the watchers.                                             *)

\* The least element of a set of numbers.
LEMMA MinIs ==
  ASSUME NEW T \in SUBSET Nat, T # {}
  PROVE  Min(T) \in T /\ \A n \in T : Min(T) <= n
<1>1. \E n \in T : \A m \in T : n <= m
  BY LeastNumber
<1> QED BY <1>1 DEF Min

\* A sequence with one element more.
LEMMA OneMore ==
  ASSUME NEW S, NEW s \in Seq(S), NEW x \in S
  PROVE  /\ Append(s, x) \in Seq(S)
         /\ Offers(Append(s, x)) = Offers(s) \cup {x}
         /\ Distinct(s) /\ x \notin Offers(s) => Distinct(Append(s, x))
<1> DEFINE r == Append(s, x)
           n == Len(s)
<1>1. n \in Nat /\ r \in Seq(S) /\ Len(r) = n + 1
  OBVIOUS
<1>2. r[n + 1] = x /\ \A i \in 1..n : r[i] = s[i]
  OBVIOUS
<1> HIDE DEF r
<1>3. Offers(r) = Offers(s) \cup {x}
  <2>1. \A i \in 1..(n + 1) : i \in 1..n \/ i = n + 1
    BY <1>1
  <2>2. \A i \in 1..n : i \in 1..(n + 1)
    BY <1>1
  <2>3. n + 1 \in 1..(n + 1)
    BY <1>1
  <2> QED BY <1>1, <1>2, <2>1, <2>2, <2>3 DEF Offers
<1>4. ASSUME Distinct(s), x \notin Offers(s) PROVE Distinct(r)
  <2>1. \A i \in 1..n : s[i] # x
    BY <1>4 DEF Offers
  <2>2. \A i \in 1..(n + 1) : i \in 1..n \/ i = n + 1
    BY <1>1
  <2>3. \A i, j \in 1..n : s[i] = s[j] => i = j
    BY <1>4 DEF Distinct
  <2> QED BY <1>1, <1>2, <2>1, <2>2, <2>3 DEF Distinct
<1> QED BY <1>1, <1>3, <1>4 DEF r

\* The recursive function of Only() exists.
AreKept(f, s, keep, n) ==
  f = [i \in 0..n |-> IF i = 0 THEN <<>>
                      ELSE IF s[i] \in keep THEN Append(f[i - 1], s[i]) ELSE f[i - 1]]

\* What Only() builds exists.
LEMMA KeptExist ==
  ASSUME NEW s, NEW keep, NEW n \in Nat
  PROVE  \E f : AreKept(f, s, keep, n)
<1> DEFINE More(x, i) == IF s[i] \in keep THEN Append(x, s[i]) ELSE x
           Is(f, m) == f = [i \in 0..m |-> IF i = 0 THEN <<>> ELSE More(f[i - 1], i)]
           T == {m \in Nat : \E f : Is(f, m)}
<1> HIDE DEF More
<1>1. 0 \in T
  <2>1. Is([i \in 0..0 |-> <<>>], 0)
    OBVIOUS
  <2> QED BY <2>1
<1>2. ASSUME NEW m \in Nat, m \in T PROVE m + 1 \in T
  <2>1. PICK f : Is(f, m)
    BY <1>2
  <2> DEFINE g == [i \in 0..(m + 1) |-> IF i = m + 1 THEN More(f[m], m + 1) ELSE f[i]]
  <2>2. ASSUME NEW i \in 0..(m + 1), i # 0 PROVE i - 1 \in 0..m /\ g[i - 1] = f[i - 1]
    BY <2>2
  <2>3. ASSUME NEW i \in 0..(m + 1)
        PROVE  g[i] = IF i = 0 THEN <<>> ELSE More(g[i - 1], i)
    BY <2>1, <2>2
  <2>4. g = [i \in 0..(m + 1) |-> g[i]]
    OBVIOUS
  <2> HIDE DEF g
  <2>5. Is(g, m + 1)
    BY <2>3, <2>4
  <2> QED BY <2>5
<1>3. n \in T
  BY <1>1, <1>2, Induction
<1> QED BY <1>3 DEF More, AreKept

\* Only() is the elements of the set, each as often as it was.
LEMMA OnlyKeeps ==
  ASSUME NEW S, NEW s \in Seq(S), NEW keep
  PROVE  /\ Only(s, keep) \in Seq(S)
         /\ Offers(Only(s, keep)) = Offers(s) \cap keep
         /\ Distinct(s) => Distinct(Only(s, keep))
<1> DEFINE n == Len(s)
           f == CHOOSE g : g = [i \in 0..n |-> IF i = 0 THEN <<>>
                  ELSE IF s[i] \in keep THEN Append(g[i - 1], s[i]) ELSE g[i - 1]]
           Before(i) == {s[k] : k \in 1..i}
           Good(r, i) == /\ r \in Seq(S) /\ Offers(r) = Before(i) \cap keep
                         /\ Distinct(s) => Distinct(r)
           T == {i \in Nat : i <= n => Good(f[i], i)}
<1>1. n \in Nat /\ \A i \in 1..n : s[i] \in S
  OBVIOUS
<1>2. Only(s, keep) = f[n]
  BY SMTT(30) DEF Only
<1> HIDE DEF n
<1>3. f = [i \in 0..n |-> IF i = 0 THEN <<>>
             ELSE IF s[i] \in keep THEN Append(f[i - 1], s[i]) ELSE f[i - 1]]
  <2>1. \E g : AreKept(g, s, keep, n)
    BY <1>1, KeptExist
  <2>2. \E g : g = [i \in 0..n |-> IF i = 0 THEN <<>>
             ELSE IF s[i] \in keep THEN Append(g[i - 1], s[i]) ELSE g[i - 1]]
    BY <2>1 DEF AreKept
  <2> QED BY <2>2
<1> HIDE DEF f
<1>4. /\ f[0] = <<>>
      /\ \A i \in 1..n : f[i] = IF s[i] \in keep THEN Append(f[i - 1], s[i]) ELSE f[i - 1]
  <2>1. 0 \in 0..n /\ \A i \in 1..n : i \in 0..n /\ i # 0
    BY <1>1
  <2> QED BY <1>3, <2>1
<1>5. 0 \in T
  <2>1. <<>> \in Seq(S) /\ Offers(<<>>) = {} /\ Distinct(<<>>)
    BY DEF Offers, Distinct
  <2>2. Before(0) = {}
    OBVIOUS
  <2> QED BY <1>4, <2>1, <2>2
<1>6. ASSUME NEW i \in Nat, i \in T PROVE i + 1 \in T
  <2> SUFFICES ASSUME i + 1 <= n PROVE Good(f[i + 1], i + 1)
    OBVIOUS
  <2>1. i + 1 \in 1..n /\ (i + 1) - 1 = i /\ i <= n
    BY <1>1
  <2> DEFINE r == f[i]
             p == s[i + 1]
  <2>2. /\ r \in Seq(S) /\ Offers(r) = Before(i) \cap keep
        /\ Distinct(s) => Distinct(r)
    BY <1>6, <2>1
  <2>3. p \in S
    BY <1>1, <2>1
  <2>4. Distinct(s) => p \notin Before(i)
    <3> SUFFICES ASSUME Distinct(s), NEW k \in 1..i, s[k] = s[i + 1] PROVE FALSE
      OBVIOUS
    <3>1. k \in 1..n /\ k # i + 1
      <4>1. k \in Int /\ 1 <= k /\ k <= i
        OBVIOUS
      <4> QED BY <1>1, <2>1, <4>1
    <3>2. \A x, y \in 1..n : s[x] = s[y] => x = y
      BY DEF Distinct, n
    <3> QED BY <2>1, <3>1, <3>2
  <2>5. Before(i + 1) = Before(i) \cup {p}
    <3>1. \A k \in 1..i : k \in 1..(i + 1)
      OBVIOUS
    <3>2. i + 1 \in 1..(i + 1) /\ \A k \in 1..(i + 1) : k \in 1..i \/ k = i + 1
      OBVIOUS
    <3> QED BY <3>1, <3>2
  <2>6. f[i + 1] = IF p \in keep THEN Append(r, p) ELSE r
    BY <1>4, <2>1
  <2> HIDE DEF r, p, Before
  <2>7. CASE p \in keep
    <3>1. /\ Append(r, p) \in Seq(S) /\ Offers(Append(r, p)) = Offers(r) \cup {p}
          /\ Distinct(r) /\ p \notin Offers(r) => Distinct(Append(r, p))
      BY <2>2, <2>3, OneMore
    <3> QED BY <2>2, <2>4, <2>5, <2>6, <2>7, <3>1
  <2>8. CASE p \notin keep
    BY <2>2, <2>5, <2>6, <2>8
  <2> QED BY <2>7, <2>8
<1>7. n \in T
  <2> HIDE DEF T
  <2> QED BY <1>1, <1>5, <1>6, Induction
<1>8. Good(f[n], n)
  BY <1>1, <1>7
<1>9. Before(n) = Offers(s)
  BY DEF Offers, n
<1> QED BY <1>2, <1>8, <1>9

-----------------------------------------------------------------------------
(* poll.                                                                   *)

\* No descriptor comes twice.
OnceEach(s) == \A i, j \in 1..Len(s) : s[i].fd = s[j].fd => i = j
\* One entry of T for each descriptor.
OneOf(T) == \A d, e \in T : d.fd = e.fd => d = e

\* Once each means that neither an entry nor a descriptor comes twice.
LEMMA OnceEachIs ==
  ASSUME NEW S, NEW s \in Seq(S)
  PROVE  OnceEach(s) <=> Distinct(s) /\ OneOf(Offers(s))
<1>1. ASSUME OnceEach(s) PROVE Distinct(s) /\ OneOf(Offers(s))
  BY <1>1 DEF OnceEach, Distinct, OneOf, Offers
<1>2. ASSUME Distinct(s), OneOf(Offers(s)), NEW i \in 1..Len(s), NEW j \in 1..Len(s),
             s[i].fd = s[j].fd
      PROVE  i = j
  <2>1. s[i] \in Offers(s) /\ s[j] \in Offers(s)
    BY DEF Offers
  <2>2. s[i] = s[j]
    BY <1>2, <2>1 DEF OneOf
  <2> QED BY <1>2, <2>2 DEF Distinct
<1> QED BY <1>1, <1>2 DEF OnceEach

\* The calls of a round.
Events == [fd : Descriptors, flags : SUBSET (Kinds \cup {"error", "hangup"})]

\* The calls for what is expected of each descriptor.
CallsFor(expected) == {[fd |-> fd, flags |-> expected[fd]] :
                         fd \in {fd \in DOMAIN expected : expected[fd] # {}}}

\* A list of the calls that are expected, once each, is a round.
LEMMA RoundFrom ==
  ASSUME NEW calls \in Seq(Events), OnceEach(calls), NEW expected,
         Offers(calls) = CallsFor(expected)
  PROVE  IsRound(calls, expected)
<1>1. DOMAIN calls = 1..Len(calls)
  OBVIOUS
<1>2. Range(calls) = Offers(calls)
  BY <1>1 DEF Range, Offers
<1>3. IsInjective([i \in DOMAIN calls |-> calls[i].fd])
  BY <1>1 DEF OnceEach, IsInjective
<1> QED BY <1>2, <1>3 DEF IsRound, CallsFor

\* A vector of pollfds, each descriptor in it once.
Entries == [fd : Descriptors, events : SUBSET Kinds]
\* poll()'s vector: an entry for each descriptor, in some order.
Table(t) == t \in Seq(Entries) /\ OnceEach(t)

\* The place of a descriptor is that of its entry, and 0 when there is none.
LEMMA PlaceIs ==
  ASSUME NEW t, Table(t), NEW fd
  PROVE  /\ Place(t, fd) = 0 <=> \A e \in Offers(t) : e.fd # fd
         /\ Place(t, fd) # 0 => /\ Place(t, fd) \in 1..Len(t) /\ t[Place(t, fd)] \in Offers(t)
                                /\ t[Place(t, fd)].fd = fd
<1> DEFINE I == {i \in 1..Len(t) : t[i].fd = fd}
<1>1. Place(t, fd) = IF I # {} THEN Min(I) ELSE 0
  BY DEF Place, SelectInSeq
<1>2. I \subseteq 1..Len(t) /\ I \in SUBSET Nat
  BY DEF Table
<1>3. \A i \in I : t[i] \in Offers(t) /\ t[i].fd = fd
  BY DEF Offers
<1>4. I = {} <=> \A e \in Offers(t) : e.fd # fd
  BY DEF Offers
<1> HIDE DEF I
<1>5. CASE I = {}
  BY <1>1, <1>4, <1>5
<1>6. CASE I # {}
  <2>1. Min(I) \in I
    BY <1>2, <1>6, MinIs
  <2>2. Min(I) \in 1..Len(t) /\ 0 \notin 1..Len(t)
    <3>1. Len(t) \in Nat
      BY DEF Table
    <3>2. \A n \in Nat : 0 \notin 1..n
      OBVIOUS
    <3> QED BY <1>2, <2>1, <3>1, <3>2
  <2> QED BY <1>1, <1>3, <1>4, <1>6, <2>1, <2>2
<1> QED BY <1>5, <1>6

\* What a sequence is without the element in one place.
LEMMA RemoveAtIs ==
  ASSUME NEW S, NEW s \in Seq(S), NEW p \in 1..Len(s)
  PROVE  /\ RemoveAt(s, p) \in Seq(S)
         /\ Offers(RemoveAt(s, p)) \subseteq Offers(s)
         /\ Distinct(s) => /\ Distinct(RemoveAt(s, p))
                           /\ Offers(RemoveAt(s, p)) = Offers(s) \ {s[p]}
<1> DEFINE n == Len(s)
           r == RemoveAt(s, p)
           u == SubSeq(s, 1, p - 1)
           v == SubSeq(s, p + 1, n)
<1>1. n \in Nat /\ p \in Nat /\ 1 <= p /\ p <= n
  OBVIOUS
<1>2. u \in Seq(S) /\ Len(u) = p - 1 /\ \A j \in 1..(p - 1) : u[j] = s[j]
  OBVIOUS
<1>3. v \in Seq(S) /\ Len(v) = n - p /\ \A j \in 1..(n - p) : v[j] = s[p + j]
  OBVIOUS
<1>4. r = u \o v
  BY DEF RemoveAt
<1> HIDE DEF r, u, v
<1>5. /\ r \in Seq(S) /\ Len(r) = n - 1
      /\ \A k \in 1..(n - 1) : r[k] = IF k <= p - 1 THEN u[k] ELSE v[k - (p - 1)]
  <2> HIDE DEF n
  <2>1. Len(u) + Len(v) = n - 1 /\ Len(u) = p - 1
    BY <1>1, <1>2, <1>3
  <2> DEFINE w == u \o v
             k == Len(u)
             q == Len(u) + Len(v)
  <2>2. /\ w \in Seq(S) /\ Len(w) = q
        /\ \A i \in 1..q : w[i] = IF i <= k THEN u[i] ELSE v[i - k]
    BY <1>2, <1>3, ConcatParts
  <2> HIDE DEF w
  <2>3. r = w /\ q = n - 1 /\ k = p - 1
    BY <1>4, <2>1 DEF w
  <2> HIDE DEF q, k
  <2> QED BY <2>2, <2>3
<1>6. \A k \in 1..(n - 1) : r[k] = IF k < p THEN s[k] ELSE s[k + 1]
  <2> SUFFICES ASSUME NEW k \in 1..(n - 1) PROVE r[k] = IF k < p THEN s[k] ELSE s[k + 1]
    OBVIOUS
  <2>1. CASE k < p
    <3>1. k \in 1..(p - 1) /\ k <= p - 1
      BY <1>1, <2>1
    <3> QED BY <1>2, <1>5, <2>1, <3>1
  <2>2. CASE ~(k < p)
    <3>1. ~(k <= p - 1) /\ k - (p - 1) \in 1..(n - p) /\ p + (k - (p - 1)) = k + 1
      BY <1>1, <2>2
    <3> QED BY <1>3, <1>5, <2>2, <3>1
  <2> QED BY <2>1, <2>2
<1> HIDE DEF n
<1>7. Offers(r) = {r[k] : k \in 1..(n - 1)} /\ Offers(s) = {s[k] : k \in 1..n}
  BY <1>5 DEF Offers, n
<1>8. \A k \in 1..(n - 1) : k \in 1..n /\ k + 1 \in 1..n
  BY <1>1
<1>9. Offers(r) \subseteq Offers(s)
  BY <1>6, <1>7, <1>8
<1>10. ASSUME Distinct(s) PROVE Distinct(r) /\ Offers(r) = Offers(s) \ {s[p]}
  <2>1. \A i, j \in 1..n : s[i] = s[j] => i = j
    BY <1>10 DEF Distinct, n
  <2> DEFINE at(k) == IF k < p THEN k ELSE k + 1
  <2>2. \A k \in 1..(n - 1) : at(k) \in 1..n /\ at(k) # p /\ r[k] = s[at(k)]
    BY <1>1, <1>6
  <2>3. \A i, j \in 1..(n - 1) : at(i) = at(j) => i = j
    BY <1>1
  <2>4. \A k \in 1..n : k # p => \E j \in 1..(n - 1) : at(j) = k
    <3> SUFFICES ASSUME NEW k \in 1..n, k # p PROVE \E j \in 1..(n - 1) : at(j) = k
      OBVIOUS
    <3>1. CASE k < p
      BY <1>1, <3>1
    <3>2. CASE k > p
      <4>1. k - 1 \in 1..(n - 1) /\ ~(k - 1 < p) /\ (k - 1) + 1 = k
        BY <1>1, <3>2
      <4> QED BY <4>1
    <3> QED BY <1>1, <3>1, <3>2
  <2> HIDE DEF at
  <2>5. Distinct(r)
    <3>1. Len(r) = n - 1
      BY <1>5
    <3>2. \A i, j \in 1..(n - 1) : r[i] = r[j] => i = j
      BY <2>1, <2>2, <2>3
    <3> QED BY <3>1, <3>2 DEF Distinct
  <2>6. p \in 1..n
    BY <1>1
  <2>7. Offers(r) \subseteq Offers(s) \ {s[p]}
    BY <1>7, <2>1, <2>2, <2>6
  <2>8. Offers(s) \ {s[p]} \subseteq Offers(r)
    BY <1>7, <2>2, <2>4
  <2> QED BY <2>5, <2>7, <2>8
<1> QED BY <1>5, <1>9, <1>10 DEF r

\* What the operations do to the set of entries.
LEMMA PollWatchIs ==
  ASSUME NEW t, Table(t), NEW fd \in Descriptors, NEW kinds \in SUBSET Kinds, Place(t, fd) = 0
  PROVE  /\ Table(PollWatch(t, fd, kinds))
         /\ Offers(PollWatch(t, fd, kinds)) = Offers(t) \cup {[fd |-> fd, events |-> kinds]}
<1> DEFINE x == [fd |-> fd, events |-> kinds]
           r == Append(t, x)
<1>1. t \in Seq(Entries) /\ x \in Entries
  BY DEF Table, Entries
<1>2. x.fd = fd /\ \A e \in Offers(t) : e.fd # fd
  BY PlaceIs
<1> HIDE DEF x
<1>3. Distinct(t) /\ OneOf(Offers(t))
  BY <1>1, OnceEachIs DEF Table
<1>4. x \notin Offers(t)
  BY <1>2
<1>5. r \in Seq(Entries) /\ Offers(r) = Offers(t) \cup {x} /\ Distinct(r)
  BY <1>1, <1>3, <1>4, OneMore
<1> HIDE DEF r
<1>6. OneOf(Offers(r))
  BY <1>2, <1>3, <1>5 DEF OneOf
<1>7. Table(r)
  BY <1>5, <1>6, OnceEachIs DEF Table
<1> QED BY <1>5, <1>7 DEF PollWatch, r, x

\* modify() of poll() replaces the entry, which must be there.
LEMMA PollModifyIs ==
  ASSUME NEW t, Table(t), NEW fd \in Descriptors, NEW kinds \in SUBSET Kinds
  PROVE  /\ Table(PollModify(t, fd, kinds))
         /\ Place(t, fd) # 0 => Offers(PollModify(t, fd, kinds)) =
              {e \in Offers(t) : e.fd # fd} \cup {[fd |-> fd, events |-> kinds]}
<1> DEFINE p == Place(t, fd)
           x == [fd |-> fd, events |-> kinds]
           r == [t EXCEPT ![p].events = kinds]
<1>1. t \in Seq(Entries) /\ x \in Entries /\ x.fd = fd /\ OnceEach(t)
  BY DEF Table, Entries
<1>2. CASE p = 0
  BY <1>2 DEF PollModify
<1>3. CASE p # 0
  <2>1. p \in 1..Len(t) /\ t[p].fd = fd
    BY <1>3, PlaceIs
  <2>2. t[p] \in Entries
    BY <1>1, <2>1
  <2>3. [t[p] EXCEPT !.events = kinds] = x
    BY <2>1, <2>2 DEF Entries
  <2>4. r = [t EXCEPT ![p] = x]
    BY <2>3
  <2> HIDE DEF p, x, r
  <2>5. r \in Seq(Entries) /\ Len(r) = Len(t)
    BY <1>1, <2>1, <2>4
  <2>6. \A i \in 1..Len(t) : r[i] = IF i = p THEN x ELSE t[i]
    BY <1>1, <2>1, <2>4
  <2>7. \A i \in 1..Len(t) : r[i].fd = t[i].fd
    BY <1>1, <2>1, <2>6
  <2>8. OnceEach(r)
    BY <1>1, <2>5, <2>7 DEF OnceEach
  <2>9. \A i \in 1..Len(t) : i # p => t[i].fd # fd
    BY <1>1, <2>1 DEF OnceEach
  <2>10. Offers(r) = {e \in Offers(t) : e.fd # fd} \cup {x}
    BY <2>1, <2>5, <2>6, <2>9 DEF Offers
  <2>11. Table(r)
    BY <2>5, <2>8 DEF Table
  <2> QED BY <1>3, <2>10, <2>11 DEF PollModify, p, r, x
<1> QED BY <1>2, <1>3

\* Without the entry in fd's place the table has every other one.
LEMMA OthersRemain ==
  ASSUME NEW t, Table(t), NEW fd, Place(t, fd) # 0
  PROVE  Offers(t) \ {t[Place(t, fd)]} = {e \in Offers(t) : e.fd # fd}
<1>1. /\ t[Place(t, fd)] \in Offers(t) /\ t[Place(t, fd)].fd = fd
      /\ t \in Seq(Entries) /\ OnceEach(t)
  BY PlaceIs DEF Table
<1>2. OneOf(Offers(t))
  BY <1>1, OnceEachIs
<1> QED BY <1>1, <1>2 DEF OneOf

\* A part of a table is a table.
LEMMA SmallerTable ==
  ASSUME NEW t, Table(t), NEW r \in Seq(Entries), Distinct(r), Offers(r) \subseteq Offers(t)
  PROVE  Table(r)
<1>1. OneOf(Offers(t))
  BY OnceEachIs DEF Table
<1>2. OneOf(Offers(r))
  BY <1>1 DEF OneOf
<1> QED BY <1>2, OnceEachIs DEF Table

\* unwatch() on POSIX takes the entry out, wherever it is.
LEMMA PollUnwatchIs ==
  ASSUME NEW t, Table(t), NEW fd
  PROVE  /\ Table(PollUnwatch(t, fd))
         /\ Offers(PollUnwatch(t, fd)) = {e \in Offers(t) : e.fd # fd}
<1> DEFINE p == Place(t, fd)
           r == RemoveAt(t, p)
<1>1. CASE p = 0
  <2>1. \A e \in Offers(t) : e.fd # fd
    BY <1>1, PlaceIs
  <2> QED BY <1>1, <2>1 DEF PollUnwatch
<1>2. CASE p # 0
  <2>1. p \in 1..Len(t)
    BY <1>2, PlaceIs
  <2>2. t \in Seq(Entries) /\ Distinct(t)
    BY OnceEachIs DEF Table
  <2>3. r \in Seq(Entries) /\ Distinct(r) /\ Offers(r) = Offers(t) \ {t[p]}
    BY <2>1, <2>2, RemoveAtIs
  <2>4. Offers(r) = {e \in Offers(t) : e.fd # fd}
    BY <1>2, <2>3, OthersRemain
  <2>5. Table(r)
    BY <2>3, SmallerTable
  <2> QED BY <1>2, <2>4, <2>5 DEF PollUnwatch
<1> QED BY <1>1, <1>2

\* The last one takes the place of the one that goes.
LEMMA SwappedOut ==
  ASSUME NEW S, NEW s \in Seq(S), NEW p \in 1..Len(s), Distinct(s)
  PROVE  LET r == Front([s EXCEPT ![p] = s[Len(s)]])
         IN  r \in Seq(S) /\ Distinct(r) /\ Offers(r) = Offers(s) \ {s[p]}
<1> DEFINE n == Len(s)
           u == [s EXCEPT ![p] = s[n]]
           r == Front(u)
           at(k) == IF k = p THEN n ELSE k
<1>1. n \in Nat /\ p \in Nat /\ 1 <= p /\ p <= n
  OBVIOUS
<1>2. s[n] \in S
  BY <1>1
<1>3. u \in Seq(S) /\ Len(u) = n /\ \A k \in 1..n : u[k] = IF k = p THEN s[n] ELSE s[k]
  BY <1>2
<1> HIDE DEF u
<1>4. r = SubSeq(u, 1, n - 1)
  BY <1>3 DEF Front
<1> HIDE DEF r
<1>5. r \in Seq(S) /\ Len(r) = n - 1 /\ \A k \in 1..(n - 1) : r[k] = u[k]
  BY <1>1, <1>3, <1>4
<1>6. Offers(r) = {r[k] : k \in 1..(n - 1)} /\ Offers(s) = {s[k] : k \in 1..n}
  BY <1>5 DEF Offers
<1>7. \A i, j \in 1..n : s[i] = s[j] => i = j
  BY DEF Distinct
<1> HIDE DEF n
<1>8. \A k \in 1..(n - 1) : at(k) \in 1..n /\ at(k) # p /\ r[k] = s[at(k)]
  <2> SUFFICES ASSUME NEW k \in 1..(n - 1) PROVE at(k) \in 1..n /\ at(k) # p /\ r[k] = s[at(k)]
    OBVIOUS
  <2>1. k \in 1..n /\ n \in 1..n /\ k # n
    BY <1>1
  <2>2. r[k] = IF k = p THEN s[n] ELSE s[k]
    BY <1>3, <1>5, <2>1
  <2> QED BY <2>1, <2>2
<1>9. \A i, j \in 1..(n - 1) : at(i) = at(j) => i = j
  BY <1>1
<1>10. \A k \in 1..n : k # p => \E j \in 1..(n - 1) : at(j) = k
  <2> SUFFICES ASSUME NEW k \in 1..n, k # p PROVE \E j \in 1..(n - 1) : at(j) = k
    OBVIOUS
  <2>1. CASE k = n
    <3>1. p \in 1..(n - 1)
      BY <1>1, <2>1
    <3> QED BY <2>1, <3>1
  <2>2. CASE k # n
    <3>1. k \in 1..(n - 1)
      BY <1>1, <2>2
    <3> QED BY <3>1
  <2> QED BY <2>1, <2>2
<1> HIDE DEF at
<1>11. Distinct(r)
  <2>1. \A i, j \in 1..(n - 1) : r[i] = r[j] => i = j
    BY <1>7, <1>8, <1>9
  <2> QED BY <1>5, <2>1 DEF Distinct
<1>12. p \in 1..n
  BY <1>1
<1>13. Offers(r) \subseteq Offers(s) \ {s[p]}
  BY <1>6, <1>7, <1>8, <1>12
<1>14. Offers(s) \ {s[p]} \subseteq Offers(r)
  BY <1>6, <1>8, <1>10
<1> QED BY <1>5, <1>11, <1>13, <1>14 DEF r, u, n

\* unwatch() on Windows does too, though it moves the last one.
LEMMA DescsUnwatchIs ==
  ASSUME NEW t, Table(t), NEW fd
  PROVE  /\ Table(DescsUnwatch(t, fd))
         /\ Offers(DescsUnwatch(t, fd)) = {e \in Offers(t) : e.fd # fd}
<1> DEFINE p == Place(t, fd)
           r == Front([t EXCEPT ![p] = t[Len(t)]])
<1>1. CASE p = 0
  <2>1. \A e \in Offers(t) : e.fd # fd
    BY <1>1, PlaceIs
  <2> QED BY <1>1, <2>1 DEF DescsUnwatch
<1>2. CASE p # 0
  <2>1. p \in 1..Len(t)
    BY <1>2, PlaceIs
  <2>2. t \in Seq(Entries) /\ Distinct(t)
    BY OnceEachIs DEF Table
  <2>3. r \in Seq(Entries) /\ Distinct(r) /\ Offers(r) = Offers(t) \ {t[p]}
    BY <2>1, <2>2, SwappedOut
  <2> HIDE DEF r
  <2>4. Offers(r) = {e \in Offers(t) : e.fd # fd}
    BY <1>2, <2>3, OthersRemain
  <2>5. Table(r)
    BY <2>3, SmallerTable
  <2> QED BY <1>2, <2>4, <2>5 DEF DescsUnwatch, r
<1> QED BY <1>1, <1>2

\* What a table watches is given by its entries.
LEMMA WatchedIs ==
  ASSUME NEW t, Table(t)
  PROVE  /\ DOMAIN PollWatched(t) = {e.fd : e \in Offers(t)}
         /\ PollWatched(t) = [fd \in DOMAIN PollWatched(t) |-> PollWatched(t)[fd]]
         /\ \A e \in Offers(t) : PollWatched(t)[e.fd] = e.events
<1> DEFINE D == {t[i].fd : i \in DOMAIN t}
<1>1. t \in Seq(Entries) /\ DOMAIN t = 1..Len(t)
  BY DEF Table
<1>2. D = {e.fd : e \in Offers(t)}
  BY <1>1 DEF Offers
<1>3. PollWatched(t) = [fd \in D |-> t[Place(t, fd)].events]
  BY DEF PollWatched
<1> HIDE DEF D
<1>4. ASSUME NEW e \in Offers(t) PROVE PollWatched(t)[e.fd] = e.events
  <2>1. e.fd \in D
    BY <1>2
  <2>2. Place(t, e.fd) # 0
    BY PlaceIs
  <2>3. t[Place(t, e.fd)] \in Offers(t) /\ t[Place(t, e.fd)].fd = e.fd
    BY <2>2, PlaceIs
  <2>4. OneOf(Offers(t))
    BY <1>1, OnceEachIs DEF Table
  <2>5. t[Place(t, e.fd)] = e
    BY <2>3, <2>4 DEF OneOf
  <2> QED BY <1>3, <2>1, <2>5
<1> QED BY <1>2, <1>3, <1>4

\* The entries alone determine what is watched.
LEMMA SameWatched ==
  ASSUME NEW t, Table(t), NEW D, NEW w, w = [fd \in D |-> w[fd]],
         D = {e.fd : e \in Offers(t)}, \A e \in Offers(t) : w[e.fd] = e.events
  PROVE  PollWatched(t) = w
<1> DEFINE v == PollWatched(t)
<1>1. DOMAIN v = D /\ v = [fd \in DOMAIN v |-> v[fd]] /\ \A e \in Offers(t) : v[e.fd] = e.events
  BY WatchedIs
<1> HIDE DEF v
<1>2. \A fd \in D : v[fd] = w[fd]
  BY <1>1
<1>3. v = w
  BY <1>1, <1>2
<1> QED BY <1>3 DEF v

\* Its steps are those of a set of descriptors.
Plus(v, fd, kinds) == [other \in DOMAIN v \cup {fd} |-> IF other = fd THEN kinds ELSE v[other]]
Minus(v, fd) == [other \in DOMAIN v \ {fd} |-> v[other]]

\* One entry more watches one descriptor more.
LEMMA WatchedMore ==
  ASSUME NEW t, Table(t), NEW r, Table(r), NEW fd, NEW kinds, Place(t, fd) = 0,
         Offers(r) = Offers(t) \cup {[fd |-> fd, events |-> kinds]}
  PROVE  /\ fd \notin DOMAIN PollWatched(t)
         /\ PollWatched(r) = Plus(PollWatched(t), fd, kinds)
<1> DEFINE v == PollWatched(t)
           D == DOMAIN v \cup {fd}
           w == [other \in D |-> IF other = fd THEN kinds ELSE v[other]]
<1>1. DOMAIN v = {e.fd : e \in Offers(t)} /\ \A e \in Offers(t) : v[e.fd] = e.events
  BY WatchedIs
<1>2. \A e \in Offers(t) : e.fd # fd
  BY PlaceIs
<1> HIDE DEF v
<1>3. fd \notin DOMAIN v
  BY <1>1, <1>2
<1>4. w = [other \in D |-> w[other]]
  OBVIOUS
<1>5. D = {e.fd : e \in Offers(r)}
  <2>1. \A e : e \in Offers(r) <=> e \in Offers(t) \/ e = [fd |-> fd, events |-> kinds]
    OBVIOUS
  <2>2. [fd |-> fd, events |-> kinds].fd = fd
    OBVIOUS
  <2> QED BY <1>1, <2>1, <2>2
<1>6. ASSUME NEW e \in Offers(r) PROVE w[e.fd] = e.events
  <2>1. CASE e \in Offers(t)
    BY <1>1, <1>2, <2>1
  <2>2. CASE e = [fd |-> fd, events |-> kinds]
    BY <2>2
  <2> QED BY <2>1, <2>2
<1> HIDE DEF D, w
<1>7. PollWatched(r) = w
  BY <1>4, <1>5, <1>6, SameWatched
<1> QED BY <1>3, <1>7 DEF v, w, D, Plus

\* An entry that is replaced watches its descriptor for other kinds.
LEMMA WatchedOther ==
  ASSUME NEW t, Table(t), NEW r, Table(r), NEW fd, NEW kinds, Place(t, fd) # 0,
         Offers(r) = {e \in Offers(t) : e.fd # fd} \cup {[fd |-> fd, events |-> kinds]}
  PROVE  /\ fd \in DOMAIN PollWatched(t)
         /\ PollWatched(r) = [PollWatched(t) EXCEPT ![fd] = kinds]
<1> DEFINE v == PollWatched(t)
           D == DOMAIN v
           w == [v EXCEPT ![fd] = kinds]
<1>1. /\ D = {e.fd : e \in Offers(t)} /\ v = [other \in D |-> v[other]]
      /\ \A e \in Offers(t) : v[e.fd] = e.events
  BY WatchedIs
<1>2. fd \in D
  BY <1>1, PlaceIs
<1> HIDE DEF v
<1>3. /\ w = [other \in D |-> w[other]]
      /\ \A other \in D : w[other] = IF other = fd THEN kinds ELSE v[other]
  BY <1>1
<1>4. D = {e.fd : e \in Offers(r)}
  <2>1. \A e : e \in Offers(r) <=>
          (e \in Offers(t) /\ e.fd # fd) \/ e = [fd |-> fd, events |-> kinds]
    OBVIOUS
  <2>2. [fd |-> fd, events |-> kinds].fd = fd
    OBVIOUS
  <2> QED BY <1>1, <1>2, <2>1, <2>2, ZenonT(60)
<1>5. ASSUME NEW e \in Offers(r) PROVE w[e.fd] = e.events
  <2>1. CASE e \in Offers(t) /\ e.fd # fd
    BY <1>1, <1>3, <2>1
  <2>2. CASE e = [fd |-> fd, events |-> kinds]
    BY <1>2, <1>3, <2>2
  <2> QED BY <2>1, <2>2
<1> HIDE DEF D, w
<1>6. PollWatched(r) = w
  BY <1>3, <1>4, <1>5, SameWatched
<1> QED BY <1>2, <1>6 DEF v, w, D

\* Without its entry a descriptor is not watched.
LEMMA WatchedLess ==
  ASSUME NEW t, Table(t), NEW r, Table(r), NEW fd,
         Offers(r) = {e \in Offers(t) : e.fd # fd}
  PROVE  PollWatched(r) = Minus(PollWatched(t), fd)
<1> DEFINE v == PollWatched(t)
           D == DOMAIN v \ {fd}
           w == [other \in D |-> v[other]]
<1>1. DOMAIN v = {e.fd : e \in Offers(t)} /\ \A e \in Offers(t) : v[e.fd] = e.events
  BY WatchedIs
<1> HIDE DEF v
<1>2. w = [other \in D |-> w[other]]
  OBVIOUS
<1>3. D = {e.fd : e \in Offers(r)}
  BY <1>1
<1>4. ASSUME NEW e \in Offers(r) PROVE w[e.fd] = e.events
  <2>1. e.fd \in D /\ v[e.fd] = e.events
    BY <1>1
  <2> HIDE DEF D
  <2> QED BY <2>1
<1> HIDE DEF D, w
<1>5. PollWatched(r) = w
  BY <1>2, <1>3, <1>4, SameWatched
<1> QED BY <1>5 DEF v, w, D, Minus

\* poll() hands over each entry with revents once.
LEMMA PollRoundIs ==
  ASSUME NEW t, Table(t), NEW happens \in [Descriptors -> Happenings]
  PROVE  IsRound(PollRound(t, happens),
                 [fd \in DOMAIN PollWatched(t) |-> Triggered(PollWatched(t)[fd], happens[fd])])
<1> DEFINE event(e) == [fd |-> e.fd, flags |-> Triggered(e.events, happens[e.fd])]
           events == [i \in DOMAIN t |-> event(t[i])]
           keep == {e \in Range(events) : e.flags # {}}
           v == PollWatched(t)
           expected == [fd \in DOMAIN v |-> Triggered(v[fd], happens[fd])]
           calls == Only(events, keep)
<1>1. /\ t \in Seq(Entries) /\ DOMAIN t = 1..Len(t) /\ Len(t) \in Nat
      /\ \A i \in 1..Len(t) : t[i] \in Entries
      /\ \A i, j \in 1..Len(t) : t[i].fd = t[j].fd => i = j
  BY DEF Table, OnceEach
<1>2. \A e \in Entries : event(e) \in Events
  <2> SUFFICES ASSUME NEW e \in Entries PROVE event(e) \in Events
    OBVIOUS
  <2>1. e.fd \in Descriptors /\ e.events \subseteq Kinds
    BY DEF Entries
  <2>2. Triggered(e.events, happens[e.fd]) \subseteq Kinds \cup {"error", "hangup"}
    BY <2>1 DEF Triggered
  <2> QED BY <2>1, <2>2 DEF Events
<1>3. /\ events \in Seq(Events) /\ Len(events) = Len(t)
      /\ \A i \in 1..Len(t) : events[i] = event(t[i])
  <2> DEFINE n == Len(t)
  <2>1. \A i \in 1..n : event(t[i]) \in Events
    BY <1>1, <1>2
  <2>2. events = [i \in 1..n |-> event(t[i])] /\ n \in Nat
    BY <1>1
  <2> HIDE DEF events, event, n
  <2>3. events \in Seq(Events) /\ Len(events) = n
    BY <2>1, <2>2
  <2> QED BY <2>2, <2>3 DEF n
<1>4. \A e \in Offers(t) : v[e.fd] = e.events
  BY WatchedIs
<1>5. DOMAIN v = {e.fd : e \in Offers(t)}
  BY WatchedIs
<1>6. Offers(events) = {event(e) : e \in Offers(t)} /\ Range(events) = Offers(events)
  BY <1>1, <1>3 DEF Offers, Range
<1>7. \A e : event(e).fd = e.fd
  OBVIOUS
<1>8. OnceEach(events)
  BY <1>1, <1>3, <1>7 DEF OnceEach
<1> HIDE DEF events, event, v
<1>9. Distinct(events) /\ OneOf(Offers(events))
  BY <1>3, <1>8, OnceEachIs
<1>10. calls \in Seq(Events) /\ Offers(calls) = Offers(events) \cap keep /\ Distinct(calls)
  BY <1>3, <1>9, OnlyKeeps
<1>11. OnceEach(calls)
  <2>1. OneOf(Offers(calls))
    BY <1>9, <1>10 DEF OneOf
  <2> HIDE DEF calls
  <2> QED BY <1>10, <2>1, OnceEachIs
<1>12. Offers(calls) = {e \in {event(e) : e \in Offers(t)} : e.flags # {}}
  BY <1>6, <1>10
<1>13. {e \in {event(e) : e \in Offers(t)} : e.flags # {}} = CallsFor(expected)
  <2>1. \A e \in Offers(t) : e.fd \in DOMAIN expected
                             /\ event(e) = [fd |-> e.fd, flags |-> expected[e.fd]]
    BY <1>4, <1>5 DEF event
  <2>2. \A fd \in DOMAIN expected : \E e \in Offers(t) : e.fd = fd
    BY <1>5
  <2> HIDE DEF expected
  <2> QED BY <2>1, <2>2 DEF CallsFor
<1> HIDE DEF calls, expected
<1>14. IsRound(calls, expected)
  BY <1>10, <1>11, <1>12, <1>13, RoundFrom
<1> QED BY <1>14 DEF PollRound, calls, keep, events, event, expected, v

-----------------------------------------------------------------------------
(* What a table of sets by kind watches.                                   *)

\* What is watched when each kind has its set.
KindsOf(h) == [fd \in UNION {h[k] : k \in Kinds} |-> {k \in Kinds : fd \in h[k]}]
Added(h, fd, kinds) == [k \in Kinds |-> IF k \in kinds THEN h[k] \cup {fd} ELSE h[k]]
Removed(h, fd) == [k \in Kinds |-> h[k] \ {fd}]

\* A descriptor new to all the sets is watched for the kinds it is added to.
LEMMA KindsMore ==
  ASSUME NEW h, NEW fd, NEW kinds \in SUBSET Kinds, kinds # {}, fd \notin DOMAIN KindsOf(h)
  PROVE  KindsOf(Added(h, fd, kinds)) = Plus(KindsOf(h), fd, kinds)
<1> DEFINE r == Added(h, fd, kinds)
           D == UNION {h[k] : k \in Kinds}
<1>1. \A k \in Kinds : r[k] = IF k \in kinds THEN h[k] \cup {fd} ELSE h[k]
  BY DEF Added
<1>2. DOMAIN KindsOf(h) = D /\ \A other \in D : KindsOf(h)[other] = {k \in Kinds : other \in h[k]}
  BY DEF KindsOf
<1>3. \A k \in Kinds : fd \notin h[k]
  BY <1>2
<1> HIDE DEF r
<1>4. UNION {r[k] : k \in Kinds} = D \cup {fd}
  <2>1. ASSUME NEW k \in Kinds PROVE r[k] \subseteq D \cup {fd} /\ h[k] \subseteq r[k]
    BY <1>1
  <2>2. \E k \in Kinds : fd \in r[k]
    BY <1>1
  <2> QED BY <2>1, <2>2
<1>5. ASSUME NEW other \in D \cup {fd}
      PROVE  {k \in Kinds : other \in r[k]} = IF other = fd THEN kinds ELSE KindsOf(h)[other]
  <2>1. CASE other = fd
    BY <1>1, <1>3, <2>1
  <2>2. CASE other # fd
    <3>1. other \in D /\ \A k \in Kinds : other \in r[k] <=> other \in h[k]
      BY <1>1, <1>5, <2>2
    <3>2. {k \in Kinds : other \in r[k]} = {k \in Kinds : other \in h[k]}
      BY <3>1
    <3> HIDE DEF D
    <3> QED BY <1>2, <2>2, <3>1, <3>2
  <2> QED BY <2>1, <2>2
<1>6. KindsOf(r) = [other \in D \cup {fd} |-> {k \in Kinds : other \in r[k]}]
  BY <1>4 DEF KindsOf
<1> HIDE DEF D
<1>7. KindsOf(r) = [other \in D \cup {fd} |-> IF other = fd THEN kinds ELSE KindsOf(h)[other]]
  BY <1>5, <1>6
<1> QED BY <1>2, <1>7 DEF r, Plus

\* A descriptor removed from all the sets is not watched.
LEMMA KindsLess ==
  ASSUME NEW h, NEW fd
  PROVE  KindsOf(Removed(h, fd)) = Minus(KindsOf(h), fd)
<1> DEFINE r == Removed(h, fd)
           D == UNION {h[k] : k \in Kinds}
<1>1. \A k \in Kinds : r[k] = h[k] \ {fd}
  BY DEF Removed
<1>2. DOMAIN KindsOf(h) = D /\ \A other \in D : KindsOf(h)[other] = {k \in Kinds : other \in h[k]}
  BY DEF KindsOf
<1> HIDE DEF r
<1>3. UNION {r[k] : k \in Kinds} = D \ {fd}
  BY <1>1
<1>4. \A other \in D \ {fd} : {k \in Kinds : other \in r[k]} = KindsOf(h)[other]
  BY <1>1, <1>2
<1>5. KindsOf(r) = [other \in D \ {fd} |-> {k \in Kinds : other \in r[k]}]
  BY <1>3 DEF KindsOf
<1> HIDE DEF D
<1>6. KindsOf(r) = [other \in D \ {fd} |-> KindsOf(h)[other]]
  BY <1>4, <1>5
<1> QED BY <1>2, <1>6 DEF r, Minus

\* Removed and added, it is watched for the new kinds alone.
LEMMA KindsOther ==
  ASSUME NEW h, NEW fd, NEW kinds \in SUBSET Kinds, kinds # {}, fd \in DOMAIN KindsOf(h)
  PROVE  KindsOf(Added(Removed(h, fd), fd, kinds)) = [KindsOf(h) EXCEPT ![fd] = kinds]
<1> DEFINE v == KindsOf(h)
           u == Removed(h, fd)
           w == KindsOf(u)
<1>1. w = Minus(v, fd)
  BY KindsLess
<1>2. v = [other \in DOMAIN v |-> v[other]] /\ fd \in DOMAIN v
  BY DEF KindsOf
<1> HIDE DEF u, v
<1>3. DOMAIN w = DOMAIN v \ {fd} /\ \A other \in DOMAIN w : w[other] = v[other]
  BY <1>1 DEF Minus
<1>4. fd \notin DOMAIN KindsOf(u)
  BY <1>3
<1>5. KindsOf(Added(u, fd, kinds)) = Plus(w, fd, kinds)
  BY <1>4, KindsMore
<1> HIDE DEF w
<1>6. Plus(w, fd, kinds) = [v EXCEPT ![fd] = kinds]
  BY <1>2, <1>3 DEF Plus
<1> QED BY <1>5, <1>6 DEF u, v

-----------------------------------------------------------------------------
(* select on POSIX.                                                        *)

\* m is the highest of a set.
Topped(T, m) == (\A fd \in T : fd <= m) /\ (m = -1 \/ m \in T)

\* The maximum after one descriptor more.
LEMMA ToppedMore ==
  ASSUME NEW T \in SUBSET Nat, NEW m \in Int, Topped(T, m), NEW fd \in Nat
  PROVE  Larger(fd, m) \in Int /\ Topped(T \cup {fd}, Larger(fd, m))
<1>1. m \in Nat \/ m = -1
  BY DEF Topped
<1>2. CASE fd < m
  BY <1>1, <1>2 DEF Topped, Larger
<1>3. CASE ~(fd < m)
  BY <1>1, <1>3 DEF Topped, Larger
<1> QED BY <1>2, <1>3

\* The search for the maximum finds it.
LEMMA HighestIs ==
  ASSUME NEW T \in SUBSET Nat, NEW m \in Int, \A fd \in T : fd <= m
  PROVE  Highest(T, m) \in Int /\ Topped(T, Highest(T, m))
<1> DEFINE C == {fd \in T : fd <= m}
<1>1. C = T
  OBVIOUS
<1>2. Highest(T, m) = IF T = {} THEN -1 ELSE CHOOSE fd \in T : \A other \in T : other <= fd
  <2>1. Highest(T, m) = IF C = {} THEN -1 ELSE CHOOSE fd \in C : \A other \in C : other <= fd
    BY DEF Highest
  <2> HIDE DEF C
  <2> QED BY <1>1, <2>1
<1>3. CASE T = {}
  BY <1>2, <1>3 DEF Topped
<1>4. CASE T # {}
  <2>1. \E fd \in T : \A other \in T : other <= fd
    <3>1. T \in SUBSET Int
      OBVIOUS
    <3> QED BY <1>4, <3>1, GreatestNumber
  <2>2. Highest(T, m) \in T /\ \A other \in T : other <= Highest(T, m)
    BY <1>2, <1>4, <2>1
  <2> DEFINE top == Highest(T, m)
  <2>3. top \in T /\ \A other \in T : other <= top
    BY <2>2
  <2> HIDE DEF top
  <2>4. top \in Int /\ Topped(T, top)
    BY <2>3 DEF Topped
  <2> QED BY <2>4 DEF top
<1> QED BY <1>3, <1>4

\* The maximum after one descriptor less, which may have been the highest.
LEMMA ToppedLess ==
  ASSUME NEW T \in SUBSET Nat, NEW m \in Int, Topped(T, m), NEW fd \in Nat
  PROVE  LET top == IF fd = m THEN Highest(T \ {fd}, m) ELSE m
         IN  top \in Int /\ Topped(T \ {fd}, top)
<1>1. CASE fd = m
  <2>1. \A other \in T \ {fd} : other <= m
    BY DEF Topped
  <2> QED BY <1>1, <2>1, HighestIs
<1>2. CASE fd # m
  BY <1>2 DEF Topped
<1> QED BY <1>1, <1>2

\* The descriptors an fd_set has a bit for.
Small == {fd \in Descriptors : fd < SetSize}
\* select()'s sets: descriptors that fit, and their maxima.
SetsOk(s) == /\ s \in [has : [Kinds -> SUBSET Small], max : [Kinds -> Int]]
             /\ \A k \in Kinds : Topped(s.has[k], s.max[k])

\* The constants, as the proofs use them.
LEMMA DescriptorsAre == Descriptors \subseteq Nat /\ IsFiniteSet(Descriptors) /\ SetSize \in Nat
BY WatcherAssumption

\* watch() adds a descriptor that fits to the sets, and keeps the maxima.
LEMMA SelectWatchIs ==
  ASSUME NEW s, SetsOk(s), NEW fd \in Descriptors, NEW kinds \in SUBSET Kinds
  PROVE  /\ SetsOk(SelectWatch(s, fd, kinds))
         /\ fd < SetSize => SelectWatch(s, fd, kinds).has = Added(s.has, fd, kinds)
         /\ ~(fd < SetSize) => SelectWatch(s, fd, kinds) = s
<1> DEFINE r == [has |-> Added(s.has, fd, kinds),
                 max |-> [k \in Kinds |-> IF k \in kinds THEN Larger(fd, s.max[k]) ELSE s.max[k]]]
<1>1. fd \in Nat /\ SetSize \in Nat /\ Descriptors \subseteq Nat
  BY DescriptorsAre
<1>2. CASE ~(fd < SetSize)
  <2>1. fd >= SetSize
    BY <1>1, <1>2
  <2> QED BY <1>2, <2>1 DEF SelectWatch
<1>3. CASE fd < SetSize
  <2>1. ~(fd >= SetSize)
    BY <1>1, <1>3
  <2>2. SelectWatch(s, fd, kinds) = r
    BY <2>1 DEF SelectWatch, Added
  <2>3. ASSUME NEW k \in Kinds
        PROVE  r.has[k] \in SUBSET Small /\ r.max[k] \in Int /\ Topped(r.has[k], r.max[k])
    <3>1. s.has[k] \in SUBSET Small /\ s.max[k] \in Int /\ Topped(s.has[k], s.max[k])
      BY DEF SetsOk
    <3>2. fd \in Small /\ s.has[k] \in SUBSET Nat
      BY <1>1, <1>3, <3>1 DEF Small
    <3>3. CASE k \in kinds
      <4>1. r.has[k] = s.has[k] \cup {fd} /\ r.max[k] = Larger(fd, s.max[k])
        BY <3>3 DEF Added
      <4> QED BY <1>1, <3>1, <3>2, <4>1, ToppedMore, ZenonT(60)
    <3>4. CASE k \notin kinds
      <4>1. r.has[k] = s.has[k] /\ r.max[k] = s.max[k]
        BY <3>4 DEF Added
      <4> QED BY <3>1, <4>1
    <3> QED BY <3>3, <3>4
  <2>4. r.has = [k \in Kinds |-> r.has[k]] /\ r.max = [k \in Kinds |-> r.max[k]]
        /\ r = [has |-> r.has, max |-> r.max]
    BY DEF Added
  <2>5. r.has = Added(s.has, fd, kinds)
    OBVIOUS
  <2> HIDE DEF r
  <2>6. r.has \in [Kinds -> SUBSET Small] /\ r.max \in [Kinds -> Int]
    BY <2>3, <2>4
  <2>7. SetsOk(r)
    BY <2>3, <2>4, <2>6 DEF SetsOk
  <2> QED BY <1>3, <2>2, <2>5, <2>7
<1> QED BY <1>2, <1>3

\* unwatch() removes it from the sets, and keeps the maxima.
LEMMA SelectUnwatchIs ==
  ASSUME NEW s, SetsOk(s), NEW fd \in Descriptors
  PROVE  /\ SetsOk(SelectUnwatch(s, fd))
         /\ SelectUnwatch(s, fd).has = Removed(s.has, fd)
<1> DEFINE top(k) == IF fd = s.max[k] THEN Highest(s.has[k] \ {fd}, s.max[k]) ELSE s.max[k]
           r == [has |-> Removed(s.has, fd), max |-> [k \in Kinds |-> top(k)]]
<1>1. fd \in Nat /\ SetSize \in Nat /\ Descriptors \subseteq Nat
  BY DescriptorsAre
<1>2. CASE ~(fd < SetSize)
  <2>1. fd >= SetSize
    BY <1>1, <1>2
  <2>2. \A k \in Kinds : fd \notin s.has[k]
    BY <1>2 DEF SetsOk, Small
  <2>3. s.has = [k \in Kinds |-> s.has[k]]
    BY DEF SetsOk
  <2>4. s.has = Removed(s.has, fd)
    BY <2>2, <2>3 DEF Removed
  <2> QED BY <2>1, <2>4 DEF SelectUnwatch
<1>3. CASE fd < SetSize
  <2>1. ~(fd >= SetSize)
    BY <1>1, <1>3
  <2>2. SelectUnwatch(s, fd) = r
    BY <2>1 DEF SelectUnwatch, Removed
  <2>3. ASSUME NEW k \in Kinds
        PROVE  r.has[k] \in SUBSET Small /\ r.max[k] \in Int /\ Topped(r.has[k], r.max[k])
    <3>1. s.has[k] \in SUBSET Small /\ s.max[k] \in Int /\ Topped(s.has[k], s.max[k])
      BY DEF SetsOk
    <3>2. s.has[k] \in SUBSET Nat
      BY <1>1, <3>1 DEF Small
    <3>3. r.has[k] = s.has[k] \ {fd} /\ r.max[k] = top(k)
      BY DEF Removed
    <3>4. top(k) \in Int /\ Topped(s.has[k] \ {fd}, top(k))
      BY <1>1, <3>1, <3>2, ToppedLess
    <3> HIDE DEF r, top
    <3> QED BY <3>1, <3>3, <3>4
  <2>4. r.has = [k \in Kinds |-> r.has[k]] /\ r.max = [k \in Kinds |-> r.max[k]]
        /\ r = [has |-> r.has, max |-> r.max]
    BY DEF Removed
  <2>5. r.has = Removed(s.has, fd)
    OBVIOUS
  <2> HIDE DEF r
  <2>6. r.has \in [Kinds -> SUBSET Small] /\ r.max \in [Kinds -> Int]
    BY <2>3, <2>4
  <2>7. SetsOk(r)
    BY <2>3, <2>4, <2>6 DEF SetsOk
  <2> QED BY <2>2, <2>5, <2>7
<1> QED BY <1>2, <1>3

\* A call more in a round.
LEMMA OneMoreCall ==
  ASSUME NEW c \in Seq(Events), OnceEach(c), NEW e \in Events, \A d \in Offers(c) : d.fd # e.fd
  PROVE  /\ Append(c, e) \in Seq(Events) /\ OnceEach(Append(c, e))
         /\ Offers(Append(c, e)) = Offers(c) \cup {e} /\ Len(Append(c, e)) = Len(c) + 1
<1> DEFINE r == Append(c, e)
<1>1. Distinct(c) /\ OneOf(Offers(c)) /\ e \notin Offers(c)
  BY OnceEachIs
<1>2. r \in Seq(Events) /\ Offers(r) = Offers(c) \cup {e} /\ Distinct(r)
  BY <1>1, OneMore
<1>3. Len(r) = Len(c) + 1
  OBVIOUS
<1> HIDE DEF r
<1>4. OneOf(Offers(r))
  BY <1>1, <1>2 DEF OneOf
<1>5. OnceEach(r)
  BY <1>2, <1>4, OnceEachIs
<1> QED BY <1>2, <1>3, <1>5 DEF r

\* The recursive function of SelectRound() exists.
AreLooks(f, first, left, n) ==
  f = [i \in 0..n |-> IF i = 0 THEN first ELSE Look(f[i - 1], i - 1, left)]

\* The loop over the sets exists.
LEMMA LooksExist ==
  ASSUME NEW first, NEW left, NEW n \in Nat
  PROVE  \E f : AreLooks(f, first, left, n)
<1> DEFINE More(x, i) == Look(x, i - 1, left)
           Is(f, m) == f = [i \in 0..m |-> IF i = 0 THEN first ELSE More(f[i - 1], i)]
           T == {m \in Nat : \E f : Is(f, m)}
<1> HIDE DEF More
<1>1. 0 \in T
  <2>1. Is([i \in 0..0 |-> first], 0)
    OBVIOUS
  <2> QED BY <2>1
<1>2. ASSUME NEW m \in Nat, m \in T PROVE m + 1 \in T
  <2>1. PICK f : Is(f, m)
    BY <1>2
  <2> DEFINE g == [i \in 0..(m + 1) |-> IF i = m + 1 THEN More(f[m], m + 1) ELSE f[i]]
  <2>2. ASSUME NEW i \in 0..(m + 1), i # 0 PROVE i - 1 \in 0..m /\ g[i - 1] = f[i - 1]
    BY <2>2
  <2>3. ASSUME NEW i \in 0..(m + 1)
        PROVE  g[i] = IF i = 0 THEN first ELSE More(g[i - 1], i)
    BY <2>1, <2>2
  <2>4. g = [i \in 0..(m + 1) |-> g[i]]
    OBVIOUS
  <2> HIDE DEF g
  <2>5. Is(g, m + 1)
    BY <2>3, <2>4
  <2> QED BY <2>5
<1>3. n \in T
  BY <1>1, <1>2, Induction
<1> QED BY <1>3 DEF More, AreLooks

\* The call for a descriptor with the bits that are left, and the descriptors with one.
CallOf(left, fd) == [fd |-> fd, flags |-> {k \in Kinds : fd \in left[k]}]
AllOf(left) == UNION {left[k] : k \in Kinds}
AllCalls(left) == {CallOf(left, fd) : fd \in AllOf(left)}

\* After the descriptors below i.
Looked(done, left, bits, i) ==
  /\ done.ready \in Nat /\ done.calls \in Seq(Events) /\ OnceEach(done.calls)
  /\ done.ready + Len(done.calls) = bits
  /\ \A c \in Offers(done.calls) : c.fd < i /\ c.fd \in AllOf(left) /\ c = CallOf(left, c.fd)
  /\ done.ready # 0 => \A fd \in AllOf(left) : fd < i => CallOf(left, fd) \in Offers(done.calls)

\* The loop has called for every descriptor before i, unless the bits ran out.
LEMMA LookKeeps ==
  ASSUME NEW left, AllOf(left) \subseteq Descriptors, NEW bits, NEW i \in Nat,
         NEW done, Looked(done, left, bits, i)
  PROVE  Looked(Look(done, i, left), left, bits, i + 1)
<1> DEFINE flags == {k \in Kinds : i \in left[k]}
           e == CallOf(left, i)
           r == [ready |-> done.ready - 1, calls |-> Append(done.calls, e)]
<1>1. /\ done.ready \in Nat /\ done.calls \in Seq(Events) /\ OnceEach(done.calls)
      /\ done.ready + Len(done.calls) = bits
      /\ \A c \in Offers(done.calls) : c.fd < i /\ c.fd \in AllOf(left) /\ c = CallOf(left, c.fd)
      /\ done.ready # 0 => \A fd \in AllOf(left) : fd < i => CallOf(left, fd) \in Offers(done.calls)
  BY DEF Looked
<1>2. AllOf(left) \subseteq Nat
  BY DescriptorsAre
<1>3. flags # {} <=> i \in AllOf(left)
  BY DEF AllOf
<1>4. Look(done, i, left) = IF done.ready = 0 \/ flags = {} THEN done ELSE r
  BY DEF Look, CallOf
<1>5. \A fd \in AllOf(left) : fd < i + 1 => fd < i \/ fd = i
  BY <1>2
<1>6. \A c \in Offers(done.calls) : c.fd < i + 1
  BY <1>1, <1>2
<1>7. CASE done.ready = 0
  BY <1>1, <1>4, <1>6, <1>7 DEF Looked
<1>8. CASE flags = {}
  <2>1. i \notin AllOf(left)
    BY <1>3, <1>8
  <2>2. done.ready # 0 =>
          \A fd \in AllOf(left) : fd < i + 1 => CallOf(left, fd) \in Offers(done.calls)
    BY <1>1, <1>5, <2>1
  <2> QED BY <1>1, <1>4, <1>6, <1>8, <2>2 DEF Looked
<1>9. CASE done.ready # 0 /\ flags # {}
  <2>1. i \in AllOf(left) /\ Look(done, i, left) = r
    BY <1>3, <1>4, <1>9
  <2>2. e \in Events /\ e.fd = i
    BY <2>1 DEF CallOf, Events
  <2>3. \A d \in Offers(done.calls) : d.fd # e.fd
    <3>1. \A d \in Offers(done.calls) : d.fd < i
      BY <1>1
    <3>2. ~(i < i)
      OBVIOUS
    <3> QED BY <2>2, <3>1, <3>2
  <2>4. r.ready = done.ready - 1 /\ r.calls = Append(done.calls, e)
    OBVIOUS
  <2> HIDE DEF r, e, flags
  <2>5. /\ r.calls \in Seq(Events) /\ OnceEach(r.calls)
        /\ Offers(r.calls) = Offers(done.calls) \cup {e} /\ Len(r.calls) = Len(done.calls) + 1
    BY <1>1, <2>2, <2>3, <2>4, OneMoreCall
  <2>6. r.ready \in Nat /\ r.ready + Len(r.calls) = bits
    <3>1. Len(done.calls) \in Nat
      BY <1>1
    <3>2. \A a, b \in Nat : a # 0 => a - 1 \in Nat /\ (a - 1) + (b + 1) = a + b
      OBVIOUS
    <3> QED BY <1>1, <1>9, <2>4, <2>5, <3>1, <3>2
  <2>7. \A c \in Offers(r.calls) : c.fd < i + 1 /\ c.fd \in AllOf(left) /\ c = CallOf(left, c.fd)
    <3>1. e.fd < i + 1 /\ e.fd \in AllOf(left) /\ e = CallOf(left, e.fd)
      BY <2>1, <2>2 DEF e
    <3> QED BY <1>1, <1>6, <2>5, <3>1
  <2>8. \A fd \in AllOf(left) : fd < i + 1 => CallOf(left, fd) \in Offers(r.calls)
    BY <1>1, <1>5, <1>9, <2>5 DEF e
  <2>9. Looked(r, left, bits, i + 1)
    BY <2>5, <2>6, <2>7, <2>8 DEF Looked
  <2> QED BY <2>1, <2>9
<1> QED BY <1>7, <1>8, <1>9

\* There are no fewer bits than descriptors with one.
LEMMA BitsEnough ==
  ASSUME NEW left, \A k \in Kinds : left[k] \subseteq Descriptors
  PROVE  /\ IsFiniteSet(AllOf(left))
         /\ Cardinality(left["read"]) + Cardinality(left["write"]) + Cardinality(left["except"]) \in Nat
         /\ Cardinality(AllOf(left)) <=
              Cardinality(left["read"]) + Cardinality(left["write"]) + Cardinality(left["except"])
<1> DEFINE a == left["read"]
           b == left["write"]
           c == left["except"]
<1>1. AllOf(left) = (a \cup b) \cup c
  BY DEF AllOf, Kinds
<1>2. a \subseteq Descriptors /\ b \subseteq Descriptors /\ c \subseteq Descriptors
  BY DEF Kinds
<1> HIDE DEF a, b, c
<1>3. IsFiniteSet(a) /\ IsFiniteSet(b) /\ IsFiniteSet(c)
  BY <1>2, DescriptorsAre, FS_Subset
<1>4. /\ Cardinality(a) \in Nat /\ Cardinality(b) \in Nat /\ Cardinality(c) \in Nat
  BY <1>3, FS_CardinalityType
<1>5. /\ IsFiniteSet(a \cup b) /\ IsFiniteSet(a \cap b)
      /\ Cardinality(a \cup b) = Cardinality(a) + Cardinality(b) - Cardinality(a \cap b)
  <2>1. a \cap b \subseteq a
    OBVIOUS
  <2> QED BY <1>3, <2>1, FS_Union, FS_Subset
<1>6. /\ IsFiniteSet((a \cup b) \cup c) /\ IsFiniteSet((a \cup b) \cap c)
      /\ Cardinality((a \cup b) \cup c) =
           Cardinality(a \cup b) + Cardinality(c) - Cardinality((a \cup b) \cap c)
  <2>1. (a \cup b) \cap c \subseteq c
    OBVIOUS
  <2> QED BY <1>3, <1>5, <2>1, FS_Union, FS_Subset
<1>7. Cardinality(a \cap b) \in Nat /\ Cardinality((a \cup b) \cap c) \in Nat
      /\ Cardinality(a \cup b) \in Nat
  BY <1>5, <1>6, FS_CardinalityType
<1>8. Cardinality((a \cup b) \cup c) <= Cardinality(a) + Cardinality(b) + Cardinality(c)
  <2>1. \A p, q, r, x, y, u \in Nat : u = p + q - x => u + r - y <= p + q + r
    OBVIOUS
  <2> QED BY <1>4, <1>5, <1>6, <1>7, <2>1
<1> QED BY <1>1, <1>4, <1>6, <1>8 DEF a, b, c

\* When the loop ends, nobody was left out: all were looked at, or all are counted.
LEMMA LookedAll ==
  ASSUME NEW left, \A k \in Kinds : left[k] \subseteq Descriptors, NEW n \in Nat,
         \A fd \in AllOf(left) : fd < n,
         NEW done, Looked(done, left, Cardinality(left["read"]) + Cardinality(left["write"])
                                      + Cardinality(left["except"]), n)
  PROVE  Offers(done.calls) = AllCalls(left)
<1> DEFINE bits == Cardinality(left["read"]) + Cardinality(left["write"]) + Cardinality(left["except"])
           A == AllOf(left)
           E == {CallOf(left, fd) : fd \in A}
           O == Offers(done.calls)
<1>1. /\ done.ready \in Nat /\ done.calls \in Seq(Events) /\ OnceEach(done.calls)
      /\ done.ready + Len(done.calls) = bits
      /\ \A c \in O : c.fd \in A /\ c = CallOf(left, c.fd)
      /\ done.ready # 0 => \A fd \in A : CallOf(left, fd) \in O
  BY DEF Looked
<1>2. IsFiniteSet(A) /\ bits \in Nat /\ Cardinality(A) <= bits
  BY BitsEnough
<1>3. O \subseteq E
  BY <1>1
<1> SUFFICES O = E
  BY DEF AllCalls
<1> HIDE DEF A, O, bits
<1>4. CASE done.ready # 0
  BY <1>1, <1>3, <1>4
<1>5. CASE done.ready = 0
  <2>1. Distinct(done.calls)
    BY <1>1, OnceEachIs
  <2>2. IsFiniteSet(O) /\ Cardinality(O) = Len(done.calls)
    BY <1>1, <2>1, DistinctCount DEF O
  <2>3. Cardinality(O) = bits
    BY <1>1, <1>5, <2>2
  <2>4. IsFiniteSet(E) /\ Cardinality(E) <= Cardinality(A)
    <3> DEFINE f == [fd \in A |-> CallOf(left, fd)]
    <3>1. f \in Surjection(A, E)
      BY DEF Surjection
    <3> HIDE DEF E
    <3> QED BY <1>2, <3>1, FS_Surjection
  <2> HIDE DEF E
  <2>5. Cardinality(O) \in Nat /\ Cardinality(E) \in Nat /\ Cardinality(A) \in Nat
    BY <1>2, <2>2, <2>4, FS_CardinalityType
  <2>6. Cardinality(O) <= Cardinality(E)
    BY <1>3, <2>4, FS_Subset
  <2>7. Cardinality(O) = Cardinality(E)
    BY <1>2, <2>3, <2>4, <2>5, <2>6
  <2>8. O = E
    BY <1>3, <2>4, <2>7, FS_Subset
  <2> QED BY <2>8
<1> QED BY <1>4, <1>5

\* What happens to the watched descriptors, and the calls for it.
SeenOf(v, happens) == [fd \in DOMAIN v |-> {k \in v[fd] : Sees(k, happens[fd])}]

\* The calls for the bits that are left are those the round promises.
LEMMA CallsAreSeen ==
  ASSUME NEW h, NEW happens, NEW left,
         \A k \in Kinds : left[k] = {fd \in h[k] : Sees(k, happens[fd])},
         NEW expected, expected = SeenOf(KindsOf(h), happens)
  PROVE  AllCalls(left) = CallsFor(expected)
<1> DEFINE v == KindsOf(h)
           flags(fd) == {k \in Kinds : fd \in left[k]}
<1>1. DOMAIN expected = UNION {h[k] : k \in Kinds}
  BY DEF SeenOf, KindsOf
<1>2. ASSUME NEW fd \in DOMAIN expected PROVE expected[fd] = flags(fd)
  <2>1. fd \in DOMAIN v /\ v[fd] = {k \in Kinds : fd \in h[k]}
    BY <1>1, <1>2 DEF KindsOf
  <2>2. expected[fd] = {k \in v[fd] : Sees(k, happens[fd])}
    BY <2>1 DEF SeenOf
  <2> HIDE DEF v
  <2>3. expected[fd] = {k \in Kinds : fd \in h[k] /\ Sees(k, happens[fd])}
    BY <2>1, <2>2
  <2>4. \A k \in Kinds : fd \in left[k] <=> fd \in h[k] /\ Sees(k, happens[fd])
    OBVIOUS
  <2> QED BY <2>3, <2>4
<1>3. \A fd : fd \in AllOf(left) <=> flags(fd) # {}
  BY DEF AllOf
<1>4. AllOf(left) \subseteq DOMAIN expected
  <2>1. \A k \in Kinds : left[k] \subseteq h[k]
    OBVIOUS
  <2> QED BY <1>1, <2>1 DEF AllOf
<1>5. \A fd : CallOf(left, fd) = [fd |-> fd, flags |-> flags(fd)]
  BY DEF CallOf
<1> HIDE DEF flags
<1>6. AllOf(left) = {fd \in DOMAIN expected : expected[fd] # {}}
  BY <1>2, <1>3, <1>4
<1>7. \A fd \in AllOf(left) : CallOf(left, fd) = [fd |-> fd, flags |-> expected[fd]]
  BY <1>2, <1>4, <1>5
<1> QED BY <1>6, <1>7 DEF CallsFor, AllCalls

\* The highest of the three maxima.
LEMMA TopIs ==
  ASSUME NEW s, SetsOk(s)
  PROVE  LET top == Max({s.max[k] : k \in Kinds})
         IN  top \in Int /\ top + 1 \in Nat /\ \A k \in Kinds : s.max[k] <= top
<1> DEFINE T == {s.max[k] : k \in Kinds}
<1>1. \A k \in Kinds : s.max[k] \in Int /\ -1 <= s.max[k]
  <2> SUFFICES ASSUME NEW k \in Kinds PROVE s.max[k] \in Int /\ -1 <= s.max[k]
    OBVIOUS
  <2>1. /\ s.max[k] \in Int /\ (s.max[k] = -1 \/ s.max[k] \in s.has[k])
        /\ s.has[k] \in SUBSET Small
    BY DEF SetsOk, Topped
  <2>2. s.max[k] = -1 \/ s.max[k] \in Nat
    BY <2>1, DescriptorsAre DEF Small
  <2> QED BY <2>2
<1>2. T \in SUBSET Int /\ T # {} /\ \A x \in T : -1 <= x
  BY <1>1 DEF Kinds
<1>3. \E b \in Int : \A x \in T : x <= b
  <2> DEFINE larger == Larger(Larger(s.max["read"], s.max["write"]), s.max["except"])
  <2>1. s.max["read"] \in Int /\ s.max["write"] \in Int /\ s.max["except"] \in Int
    BY <1>1 DEF Kinds
  <2>2. /\ larger \in Int /\ s.max["read"] <= larger /\ s.max["write"] <= larger
        /\ s.max["except"] <= larger
    BY <2>1 DEF Larger
  <2> QED BY <2>2 DEF Kinds
<1> HIDE DEF T
<1>4. \E m \in T : \A x \in T : x <= m
  BY <1>2, <1>3, GreatestNumber
<1>5. Max(T) \in T /\ \A x \in T : x <= Max(T)
  <2>1. \E m \in T : \A x \in T : m >= x
    BY <1>2, <1>4
  <2>2. Max(T) \in T /\ \A x \in T : Max(T) >= x
    BY <2>1 DEF Max
  <2> QED BY <1>2, <2>2
<1> DEFINE m == Max(T)
<1>6. m \in T /\ \A x \in T : x <= m
  BY <1>5
<1> HIDE DEF m
<1>7. m \in Int /\ m + 1 \in Nat
  BY <1>2, <1>6
<1>8. \A k \in Kinds : s.max[k] <= m
  BY <1>6 DEF T
<1> QED BY <1>7, <1>8 DEF m, T

\* A round of select() on POSIX is complete.
LEMMA SelectRoundIs ==
  ASSUME NEW s, SetsOk(s), NEW happens
  PROVE  IsRound(SelectRound(s, happens), SeenOf(KindsOf(s.has), happens))
<1> DEFINE top == Max({s.max[k] : k \in Kinds})
           n == top + 1
           left == [k \in Kinds |-> {fd \in s.has[k] : fd <= top /\ Sees(k, happens[fd])}]
           bits == Cardinality(left["read"]) + Cardinality(left["write"]) + Cardinality(left["except"])
           first == [ready |-> bits, calls |-> <<>>]
           f == CHOOSE g : g = [i \in 0..n |-> IF i = 0 THEN first ELSE Look(g[i - 1], i - 1, left)]
           T == {i \in Nat : i <= n => Looked(f[i], left, bits, i)}
<1>1. SelectRound(s, happens) = f[n].calls
  BY DEF SelectRound
<1>2. top \in Int /\ n \in Nat /\ \A k \in Kinds : s.max[k] <= top
  BY TopIs
<1> HIDE DEF top
<1>3. ASSUME NEW k \in Kinds
      PROVE  /\ s.has[k] \subseteq Descriptors
             /\ \A fd \in s.has[k] : fd \in Nat /\ fd <= top
  <2>1. /\ s.has[k] \in SUBSET Small /\ s.max[k] \in Int /\ \A fd \in s.has[k] : fd <= s.max[k]
    BY DEF SetsOk, Topped
  <2>2. \A fd \in s.has[k] : fd \in Descriptors /\ fd \in Nat
    BY <2>1, DescriptorsAre DEF Small
  <2>3. \A fd \in s.has[k] : fd <= top
    BY <1>2, <2>1, <2>2
  <2> QED BY <2>2, <2>3
<1>4. \A k \in Kinds : left[k] = {fd \in s.has[k] : Sees(k, happens[fd])}
  BY <1>3
<1>5. \A k \in Kinds : left[k] \subseteq Descriptors
  BY <1>3
<1> HIDE DEF left
<1>6. AllOf(left) \subseteq Descriptors
  BY <1>5 DEF AllOf
<1>7. \A fd \in AllOf(left) : fd < n
  <2> SUFFICES ASSUME NEW fd \in AllOf(left) PROVE fd < n
    OBVIOUS
  <2>1. PICK k \in Kinds : fd \in left[k]
    BY DEF AllOf
  <2>2. fd \in Nat /\ fd <= top
    BY <1>3, <1>4, <2>1
  <2> QED BY <1>2, <2>2
<1>8. bits \in Nat
  BY <1>5, BitsEnough
<1> HIDE DEF n, bits
<1>9. f = [i \in 0..n |-> IF i = 0 THEN first ELSE Look(f[i - 1], i - 1, left)]
  <2>1. \E g : AreLooks(g, first, left, n)
    BY <1>2, LooksExist
  <2>2. \E g : g = [i \in 0..n |-> IF i = 0 THEN first ELSE Look(g[i - 1], i - 1, left)]
    BY <2>1 DEF AreLooks
  <2> HIDE DEF first
  <2> QED BY <2>2
<1> HIDE DEF f
<1>10. f[0] = first /\ \A i \in 1..n : f[i] = Look(f[i - 1], i - 1, left)
  <2>1. 0 \in 0..n /\ \A i \in 1..n : i \in 0..n /\ i # 0
    BY <1>2
  <2> HIDE DEF first
  <2> QED BY <1>9, <2>1
<1>11. 0 \in T
  <2>1. /\ first.calls \in Seq(Events) /\ Len(first.calls) = 0 /\ Offers(first.calls) = {}
        /\ OnceEach(first.calls)
    BY DEF Offers, OnceEach
  <2>2. \A fd \in AllOf(left) : ~(fd < 0)
    <3>1. AllOf(left) \subseteq Nat
      BY <1>6, DescriptorsAre
    <3>2. \A x \in Nat : ~(x < 0)
      OBVIOUS
    <3> QED BY <3>1, <3>2
  <2>3. Looked(first, left, bits, 0)
    BY <1>8, <2>1, <2>2 DEF Looked
  <2> QED BY <1>10, <2>3
<1>12. ASSUME NEW i \in Nat, i \in T PROVE i + 1 \in T
  <2> SUFFICES ASSUME i + 1 <= n PROVE Looked(f[i + 1], left, bits, i + 1)
    OBVIOUS
  <2>1. i + 1 \in 1..n /\ (i + 1) - 1 = i /\ i <= n
    BY <1>2
  <2>2. Looked(f[i], left, bits, i)
    BY <1>12, <2>1
  <2>3. f[i + 1] = Look(f[i], i, left)
    BY <1>10, <2>1
  <2>4. Looked(Look(f[i], i, left), left, bits, i + 1)
    BY <1>6, <2>2, LookKeeps
  <2> QED BY <2>3, <2>4
<1>13. n \in T
  <2> HIDE DEF T
  <2> QED BY <1>2, <1>11, <1>12, Induction
<1>14. Looked(f[n], left, bits, n)
  BY <1>2, <1>13
<1> DEFINE calls == f[n].calls
           expected == SeenOf(KindsOf(s.has), happens)
<1>15. calls \in Seq(Events) /\ OnceEach(calls)
  BY <1>14 DEF Looked
<1>16. Offers(calls) = AllCalls(left)
  BY <1>2, <1>5, <1>7, <1>14, LookedAll DEF bits
<1>17. AllCalls(left) = CallsFor(expected)
  BY <1>4, CallsAreSeen
<1> HIDE DEF calls, expected
<1>18. IsRound(calls, expected)
  BY <1>15, <1>16, <1>17, RoundFrom
<1> QED BY <1>1, <1>18 DEF calls, expected

-----------------------------------------------------------------------------
(* select on Windows.                                                      *)

\* The elements of a list.
LEMMA RangeIs == ASSUME NEW S, NEW s \in Seq(S) PROVE Range(s) = Offers(s)
<1>1. DOMAIN s = 1..Len(s)
  OBVIOUS
<1> QED BY <1>1 DEF Range, Offers

\* The lists as sets.
RangesOf(l) == [k \in Kinds |-> Range(l[k])]
\* The lists of Windows: no descriptor comes twice in one.
ListsOk(l) == l \in [Kinds -> Seq(Descriptors)] /\ \A k \in Kinds : Distinct(l[k])

\* FD_CLR: the descriptor is no longer in the list.
LEMMA RemoveFirstIs ==
  ASSUME NEW S, NEW s \in Seq(S), Distinct(s), NEW x
  PROVE  /\ RemoveFirst(s, x) \in Seq(S) /\ Distinct(RemoveFirst(s, x))
         /\ Offers(RemoveFirst(s, x)) = Offers(s) \ {x}
<1> DEFINE I == {i \in 1..Len(s) : s[i] = x}
           p == IF I # {} THEN Min(I) ELSE 0
<1>1. RemoveFirst(s, x) = IF \E i \in 1..Len(s) : s[i] = x THEN RemoveAt(s, p) ELSE s
  BY DEF RemoveFirst, SelectInSeq
<1>2. I \in SUBSET Nat /\ I \subseteq 1..Len(s) /\ \A i \in I : s[i] = x
  OBVIOUS
<1>3. I # {} <=> \E i \in 1..Len(s) : s[i] = x
  OBVIOUS
<1>4. I = {} <=> x \notin Offers(s)
  BY DEF Offers
<1> HIDE DEF I
<1>5. CASE I = {}
  <2>1. RemoveFirst(s, x) = s
    BY <1>1, <1>3, <1>5
  <2>2. Offers(s) = Offers(s) \ {x}
    BY <1>4, <1>5
  <2> QED BY <2>1, <2>2
<1>6. CASE I # {}
  <2>1. p \in I
    BY <1>2, <1>6, MinIs
  <2>2. RemoveFirst(s, x) = RemoveAt(s, p)
    BY <1>1, <1>3, <1>6
  <2> HIDE DEF p
  <2>3. p \in 1..Len(s) /\ s[p] = x
    BY <1>2, <2>1
  <2>4. /\ RemoveAt(s, p) \in Seq(S) /\ Distinct(RemoveAt(s, p))
        /\ Offers(RemoveAt(s, p)) = Offers(s) \ {s[p]}
    BY <2>3, RemoveAtIs
  <2> QED BY <2>2, <2>3, <2>4
<1> QED BY <1>5, <1>6

\* watch() on Windows adds a descriptor to the lists, or leaves them when one is full.
LEMMA ListsWatchIs ==
  ASSUME NEW l, ListsOk(l), NEW fd \in Descriptors, NEW kinds \in SUBSET Kinds
  PROVE  /\ ListsOk(ListsWatch(l, fd, kinds))
         /\ Full(l, kinds) => ListsWatch(l, fd, kinds) = l
         /\ ~Full(l, kinds) => RangesOf(ListsWatch(l, fd, kinds)) = Added(RangesOf(l), fd, kinds)
<1> DEFINE full == Full(l, kinds)
           r == [k \in Kinds |-> IF k \in kinds /\ fd \notin Range(l[k]) THEN Append(l[k], fd) ELSE l[k]]
<1>1. ListsWatch(l, fd, kinds) = IF full THEN l ELSE r
  BY DEF ListsWatch
<1>2. ASSUME NEW k \in Kinds
      PROVE  /\ r[k] \in Seq(Descriptors) /\ Distinct(r[k])
             /\ Range(r[k]) = IF k \in kinds THEN Range(l[k]) \cup {fd} ELSE Range(l[k])
  <2>1. l[k] \in Seq(Descriptors) /\ Distinct(l[k]) /\ Range(l[k]) = Offers(l[k])
    <3>1. l[k] \in Seq(Descriptors) /\ Distinct(l[k])
      BY DEF ListsOk
    <3> QED BY <3>1, RangeIs
  <2>2. CASE k \in kinds /\ fd \notin Range(l[k])
    <3> DEFINE longer == Append(l[k], fd)
    <3>1. r[k] = longer
      BY <2>2
    <3>2. fd \notin Offers(l[k])
      BY <2>1, <2>2
    <3>3. longer \in Seq(Descriptors) /\ Offers(longer) = Offers(l[k]) \cup {fd} /\ Distinct(longer)
      BY <2>1, <3>2, OneMore
    <3> HIDE DEF longer, r
    <3>4. Range(longer) = Offers(longer)
      BY <3>3, RangeIs
    <3> QED BY <2>1, <2>2, <3>1, <3>3, <3>4
  <2>3. CASE ~(k \in kinds /\ fd \notin Range(l[k]))
    <3>1. r[k] = l[k]
      BY <2>3
    <3> HIDE DEF r
    <3> QED BY <2>1, <2>3, <3>1
  <2> QED BY <2>2, <2>3
<1>3. r = [k \in Kinds |-> r[k]]
  OBVIOUS
<1> HIDE DEF r, full
<1>4. ListsOk(r)
  BY <1>2, <1>3 DEF ListsOk
<1>5. RangesOf(r) = Added(RangesOf(l), fd, kinds)
  BY <1>2 DEF RangesOf, Added
<1> QED BY <1>1, <1>4, <1>5 DEF full

\* unwatch() on Windows removes it from the lists.
LEMMA ListsUnwatchIs ==
  ASSUME NEW l, ListsOk(l), NEW fd
  PROVE  /\ ListsOk(ListsUnwatch(l, fd))
         /\ RangesOf(ListsUnwatch(l, fd)) = Removed(RangesOf(l), fd)
<1> DEFINE r == ListsUnwatch(l, fd)
<1>1. r = [k \in Kinds |-> RemoveFirst(l[k], fd)]
  BY DEF ListsUnwatch
<1> HIDE DEF r
<1>2. ASSUME NEW k \in Kinds
      PROVE  /\ r[k] \in Seq(Descriptors) /\ Distinct(r[k])
             /\ Range(r[k]) = Range(l[k]) \ {fd}
  <2>1. l[k] \in Seq(Descriptors) /\ Distinct(l[k])
    BY DEF ListsOk
  <2>2. r[k] = RemoveFirst(l[k], fd)
    BY <1>1
  <2>3. r[k] \in Seq(Descriptors) /\ Distinct(r[k]) /\ Offers(r[k]) = Offers(l[k]) \ {fd}
    BY <2>1, <2>2, RemoveFirstIs
  <2>4. Range(l[k]) = Offers(l[k]) /\ Range(r[k]) = Offers(r[k])
    BY <2>1, <2>3, RangeIs
  <2> QED BY <2>3, <2>4
<1>3. r = [k \in Kinds |-> r[k]]
  BY <1>1
<1>4. ListsOk(r)
  BY <1>2, <1>3 DEF ListsOk
<1>5. RangesOf(r) = Removed(RangesOf(l), fd)
  BY <1>2 DEF RangesOf, Removed
<1> QED BY <1>4, <1>5 DEF r

\* A list of numbers, each one greater than the one before.
Rising(r) == \A i, j \in 1..Len(r) : i < j => r[i] < r[j]

\* Every finite set of numbers is that of a rising list.
InOrderOf(r, T, n) == r \in [1..n -> T] /\ (\A x \in T : \E i \in 1..n : r[i] = x)
                     /\ \A i, j \in 1..n : i < j => r[i] < r[j]

\* A finite set of numbers has an order.
LEMMA SortedExists ==
  ASSUME NEW T \in SUBSET Nat, IsFiniteSet(T)
  PROVE  \E r : InOrderOf(r, T, Cardinality(T))
<1> DEFINE N == {n \in Nat : \A U \in SUBSET Nat :
                   IsFiniteSet(U) /\ Cardinality(U) = n => \E r : InOrderOf(r, U, n)}
<1>1. 0 \in N
  <2> SUFFICES ASSUME NEW U \in SUBSET Nat, IsFiniteSet(U), Cardinality(U) = 0
               PROVE  \E r : InOrderOf(r, U, 0)
    OBVIOUS
  <2>1. U = {}
    BY FS_EmptySet
  <2>2. InOrderOf([i \in 1..0 |-> 0], U, 0)
    BY <2>1 DEF InOrderOf
  <2> QED BY <2>2
<1>2. ASSUME NEW n \in Nat, n \in N PROVE n + 1 \in N
  <2> SUFFICES ASSUME NEW U \in SUBSET Nat, IsFiniteSet(U), Cardinality(U) = n + 1
               PROVE  \E r : InOrderOf(r, U, n + 1)
    OBVIOUS
  <2>1. U # {}
    <3> SUFFICES ASSUME U = {} PROVE FALSE
      OBVIOUS
    <3>1. Cardinality(U) = 0
      BY FS_EmptySet
    <3> QED BY <3>1
  <2>2. PICK m \in U : \A x \in U : m <= x
    BY <2>1, LeastNumber
  <2> DEFINE V == U \ {m}
  <2>3. IsFiniteSet(V) /\ Cardinality(V) = n
    <3>1. IsFiniteSet(V) /\ Cardinality(V) = Cardinality(U) - 1
      BY FS_RemoveElement
    <3> QED BY <3>1
  <2>4. PICK q : InOrderOf(q, V, n)
    BY <1>2, <2>3
  <2> DEFINE r == [i \in 1..(n + 1) |-> IF i = 1 THEN m ELSE q[i - 1]]
  <2>5. /\ \A i \in 1..n : q[i] \in V
        /\ \A x \in V : \E i \in 1..n : q[i] = x
        /\ \A i, j \in 1..n : i < j => q[i] < q[j]
    BY <2>4 DEF InOrderOf
  <2>6. \A i \in 1..(n + 1) : i = 1 \/ (i # 1 /\ i - 1 \in 1..n)
    OBVIOUS
  <2>7. \A i \in 1..n : i + 1 \in 1..(n + 1) /\ i + 1 # 1 /\ (i + 1) - 1 = i
    OBVIOUS
  <2>8. 1 \in 1..(n + 1) /\ r[1] = m
    OBVIOUS
  <2>9. \A i \in 1..(n + 1) : i # 1 => r[i] = q[i - 1]
    OBVIOUS
  <2>10. r = [i \in 1..(n + 1) |-> r[i]]
    OBVIOUS
  <2> HIDE DEF r
  <2>11. \A x \in V : m < x /\ x \in U
    BY <2>2
  <2>12. \A i \in 1..(n + 1) : r[i] \in U
    BY <2>2, <2>5, <2>6, <2>8, <2>9, <2>11
  <2>13. \A x \in U : \E i \in 1..(n + 1) : r[i] = x
    <3> SUFFICES ASSUME NEW x \in U PROVE \E i \in 1..(n + 1) : r[i] = x
      OBVIOUS
    <3>1. CASE x = m
      BY <2>8, <3>1
    <3>2. CASE x # m
      <4>1. PICK i \in 1..n : q[i] = x
        BY <2>5, <3>2
      <4>2. r[i + 1] = x
        BY <2>7, <2>9, <4>1
      <4> QED BY <2>7, <4>2
    <3> QED BY <3>1, <3>2
  <2>14. ASSUME NEW i \in 1..(n + 1), NEW j \in 1..(n + 1), i < j PROVE r[i] < r[j]
    <3>1. j # 1 /\ j - 1 \in 1..n /\ r[j] = q[j - 1]
      BY <2>9, <2>14
    <3>2. CASE i = 1
      BY <2>5, <2>8, <2>11, <3>1, <3>2
    <3>3. CASE i # 1
      <4>1. i - 1 \in 1..n /\ r[i] = q[i - 1] /\ i - 1 < j - 1
        BY <2>9, <2>14, <3>3
      <4> QED BY <2>5, <3>1, <4>1
    <3> QED BY <3>2, <3>3
  <2>15. r \in [1..(n + 1) -> U]
    BY <2>10, <2>12
  <2>16. InOrderOf(r, U, n + 1)
    BY <2>13, <2>14, <2>15 DEF InOrderOf
  <2> QED BY <2>16
<1>3. Cardinality(T) \in Nat
  BY FS_CardinalityType
<1>4. Cardinality(T) \in N
  <2> HIDE DEF N
  <2> QED BY <1>1, <1>2, <1>3, Induction
<1> QED BY <1>4

\* std::sort: the same descriptors, rising.
LEMMA SortedIs ==
  ASSUME NEW s \in Seq(Descriptors), Distinct(s)
  PROVE  /\ Sorted(s) \in Seq(Descriptors) /\ Len(Sorted(s)) = Len(s)
         /\ Offers(Sorted(s)) = Offers(s) /\ Rising(Sorted(s))
<1> DEFINE n == Len(s)
           T == Range(s)
           Fits(r) == /\ r \in [DOMAIN s -> T] /\ Range(r) = T
                      /\ \A i, j \in DOMAIN s : i < j => r[i] < r[j]
<1>1. n \in Nat /\ DOMAIN s = 1..n /\ T = Offers(s) /\ T \subseteq Descriptors
  <2>1. T = Offers(s)
    BY RangeIs
  <2>2. \A i \in 1..n : s[i] \in Descriptors
    OBVIOUS
  <2> QED BY <2>1, <2>2 DEF Offers
<1>2. IsFiniteSet(T) /\ Cardinality(T) = n
  BY <1>1, DistinctCount
<1>3. T \in SUBSET Nat
  BY <1>1, DescriptorsAre
<1> HIDE DEF T, n
<1>4. PICK q : InOrderOf(q, T, n)
  BY <1>2, <1>3, SortedExists
<1>5. Fits(q)
  <2>1. q \in [1..n -> T] /\ DOMAIN q = 1..n
    BY <1>4 DEF InOrderOf
  <2>2. Range(q) = T
    <3>1. \A i \in 1..n : q[i] \in T
      BY <2>1
    <3>2. \A x \in T : \E i \in 1..n : q[i] = x
      BY <1>4 DEF InOrderOf
    <3> QED BY <2>1, <3>1, <3>2 DEF Range
  <2> QED BY <1>1, <1>4, <2>1, <2>2 DEF InOrderOf
<1>6. Sorted(s) = CHOOSE r \in [DOMAIN s -> T] :
                    Range(r) = T /\ \A i, j \in DOMAIN s : i < j => r[i] < r[j]
  BY DEF Sorted, T
<1>7. Fits(Sorted(s))
  BY <1>5, <1>6
<1> DEFINE r == Sorted(s)
<1>8. r \in [1..n -> T] /\ Range(r) = T /\ \A i, j \in 1..n : i < j => r[i] < r[j]
  BY <1>1, <1>7
<1> HIDE DEF r
<1>9. r \in Seq(Descriptors) /\ Len(r) = n
  BY <1>1, <1>8
<1>10. Offers(r) = T
  BY <1>8, <1>9, RangeIs
<1> QED BY <1>1, <1>8, <1>9, <1>10 DEF Rising, r, n

\* The first of a rising list, and what follows it.
LEMMA TailIs ==
  ASSUME NEW s \in Seq(Descriptors), Rising(s), s # <<>>
  PROVE  /\ Head(s) \in Offers(s) /\ \A x \in Offers(s) : Head(s) <= x
         /\ Tail(s) \in Seq(Descriptors) /\ Rising(Tail(s)) /\ Len(Tail(s)) = Len(s) - 1
         /\ Offers(Tail(s)) = Offers(s) \ {Head(s)}
<1> DEFINE n == Len(s)
           r == Tail(s)
           x == Head(s)
<1>1. n \in Nat /\ n # 0 /\ x = s[1] /\ \A i \in 1..n : s[i] \in Nat
  <2>1. \A i \in 1..n : s[i] \in Descriptors
    OBVIOUS
  <2>2. n \in Nat /\ n # 0 /\ x = s[1]
    OBVIOUS
  <2> HIDE DEF n, x
  <2> QED BY <2>1, <2>2, DescriptorsAre
<1>2. r \in Seq(Descriptors) /\ Len(r) = n - 1 /\ \A i \in 1..(n - 1) : r[i] = s[i + 1]
  OBVIOUS
<1>3. \A i, j \in 1..n : i < j => s[i] < s[j]
  BY DEF Rising
<1>4. Offers(s) = {s[i] : i \in 1..n} /\ Offers(r) = {r[i] : i \in 1..(n - 1)}
  BY <1>2 DEF Offers
<1> HIDE DEF r, n, x
<1>5. 1 \in 1..n /\ \A i \in 1..n : i = 1 \/ (1 < i /\ i - 1 \in 1..(n - 1) /\ (i - 1) + 1 = i)
  BY <1>1
<1>6. \A i \in 1..(n - 1) : i + 1 \in 1..n /\ 1 < i + 1
  BY <1>1
<1>7. x \in Offers(s)
  BY <1>1, <1>4, <1>5
<1>8. \A i \in 1..n : i # 1 => x < s[i]
  BY <1>1, <1>3, <1>5
<1>9. \A y \in Offers(s) : x <= y
  <2> SUFFICES ASSUME NEW i \in 1..n PROVE x <= s[i]
    BY <1>4
  <2>1. x \in Nat /\ s[i] \in Nat
    BY <1>1, <1>5
  <2> QED BY <1>1, <1>8, <2>1
<1>10. Rising(r)
  <2> SUFFICES ASSUME NEW i \in 1..(n - 1), NEW j \in 1..(n - 1), i < j PROVE r[i] < r[j]
    BY <1>2 DEF Rising
  <2>1. i + 1 < j + 1
    OBVIOUS
  <2> QED BY <1>2, <1>3, <1>6, <2>1
<1>11. Offers(r) = Offers(s) \ {x}
  <2>1. ASSUME NEW i \in 1..(n - 1) PROVE r[i] \in Offers(s) /\ r[i] # x
    <3>1. r[i] = s[i + 1] /\ i + 1 \in 1..n /\ i + 1 # 1
      BY <1>2, <1>6
    <3>2. x < s[i + 1] /\ s[i + 1] \in Nat
      BY <1>1, <1>8, <3>1
    <3>3. \A y \in Nat : ~(y < y)
      OBVIOUS
    <3> QED BY <1>4, <3>1, <3>2, <3>3
  <2>2. ASSUME NEW i \in 1..n, s[i] # x PROVE s[i] \in Offers(r)
    <3>1. i - 1 \in 1..(n - 1) /\ (i - 1) + 1 = i
      BY <1>1, <1>5, <2>2
    <3>2. r[i - 1] = s[i]
      BY <1>2, <3>1
    <3> QED BY <1>4, <3>1, <3>2
  <2> QED BY <1>4, <2>1, <2>2
<1> QED BY <1>2, <1>7, <1>9, <1>10, <1>11 DEF r, n, x

\* The recursive function of Merged() exists.
AreMerges(f, first, n) == f = [i \in 0..n |-> IF i = 0 THEN first ELSE Advance(f[i - 1])]

\* The merge of the lists exists.
LEMMA MergesExist ==
  ASSUME NEW first, NEW n \in Nat
  PROVE  \E f : AreMerges(f, first, n)
<1> DEFINE Is(f, m) == f = [i \in 0..m |-> IF i = 0 THEN first ELSE Advance(f[i - 1])]
           T == {m \in Nat : \E f : Is(f, m)}
<1>1. 0 \in T
  <2>1. Is([i \in 0..0 |-> first], 0)
    OBVIOUS
  <2> QED BY <2>1
<1>2. ASSUME NEW m \in Nat, m \in T PROVE m + 1 \in T
  <2>1. PICK f : Is(f, m)
    BY <1>2
  <2> DEFINE g == [i \in 0..(m + 1) |-> IF i = m + 1 THEN Advance(f[m]) ELSE f[i]]
  <2>2. ASSUME NEW i \in 0..(m + 1), i # 0 PROVE i - 1 \in 0..m /\ g[i - 1] = f[i - 1]
    BY <2>2
  <2>3. ASSUME NEW i \in 0..(m + 1)
        PROVE  g[i] = IF i = 0 THEN first ELSE Advance(g[i - 1])
    BY <2>1, <2>2
  <2>4. g = [i \in 0..(m + 1) |-> g[i]]
    OBVIOUS
  <2> HIDE DEF g
  <2>5. Is(g, m + 1)
    BY <2>3, <2>4
  <2> QED BY <2>5
<1>3. n \in T
  <2> HIDE DEF T
  <2> QED BY <1>1, <1>2, Induction
<1> QED BY <1>3 DEF AreMerges

\* What is merged so far and what remains: for every kind a rising list, and a call for
\* every descriptor that is no longer in one.
Remaining(rest) == Len(rest["read"]) + Len(rest["write"]) + Len(rest["except"])
\* What the merge has called for and what it has left.
Merging(done, has) ==
  /\ done.rest \in [Kinds -> Seq(Descriptors)] /\ \A k \in Kinds : Rising(done.rest[k])
  /\ done.calls \in Seq(Events) /\ OnceEach(done.calls)
  /\ \A k \in Kinds : Offers(done.rest[k]) \subseteq has[k]
  /\ \A k \in Kinds : \A fd \in has[k] \ Offers(done.rest[k]) :
       CallOf(has, fd) \in Offers(done.calls)
  /\ \A c \in Offers(done.calls) : /\ c.fd \in AllOf(has) /\ c = CallOf(has, c.fd)
                                   /\ \A k \in Kinds : c.fd \notin Offers(done.rest[k])
Finished(done) == \A k \in Kinds : done.rest[k] = <<>>

\* A step of the merge calls for the lowest descriptor and leaves less to merge.
LEMMA AdvanceKeeps ==
  ASSUME NEW has, AllOf(has) \subseteq Descriptors, NEW done, Merging(done, has), ~Finished(done)
  PROVE  /\ Merging(Advance(done), has)
         /\ Remaining(Advance(done).rest) <= Remaining(done.rest) - 1
<1> DEFINE waiting == {k \in Kinds : done.rest[k] # <<>>}
           lowest == Min({Head(done.rest[k]) : k \in waiting})
           flags == {k \in waiting : Head(done.rest[k]) = lowest}
           e == [fd |-> lowest, flags |-> flags]
           rest == [k \in Kinds |-> IF k \in flags THEN Tail(done.rest[k]) ELSE done.rest[k]]
           calls == Append(done.calls, e)
<1>1. /\ done.rest \in [Kinds -> Seq(Descriptors)] /\ \A k \in Kinds : Rising(done.rest[k])
      /\ done.calls \in Seq(Events) /\ OnceEach(done.calls)
      /\ \A k \in Kinds : Offers(done.rest[k]) \subseteq has[k]
      /\ \A k \in Kinds : \A fd \in has[k] \ Offers(done.rest[k]) :
           CallOf(has, fd) \in Offers(done.calls)
      /\ \A c \in Offers(done.calls) : /\ c.fd \in AllOf(has) /\ c = CallOf(has, c.fd)
                                       /\ \A k \in Kinds : c.fd \notin Offers(done.rest[k])
  BY DEF Merging
<1>2. waiting # {}
  BY DEF Finished
<1>3. Advance(done) = [rest |-> rest, calls |-> calls]
  BY <1>2 DEF Advance
<1>4. ASSUME NEW k \in waiting
      PROVE  /\ k \in Kinds /\ Head(done.rest[k]) \in Offers(done.rest[k])
             /\ \A x \in Offers(done.rest[k]) : Head(done.rest[k]) <= x
             /\ Tail(done.rest[k]) \in Seq(Descriptors) /\ Rising(Tail(done.rest[k]))
             /\ Len(Tail(done.rest[k])) = Len(done.rest[k]) - 1
             /\ Offers(Tail(done.rest[k])) = Offers(done.rest[k]) \ {Head(done.rest[k])}
             /\ Head(done.rest[k]) \in AllOf(has)
  <2>1. done.rest[k] \in Seq(Descriptors) /\ Rising(done.rest[k]) /\ done.rest[k] # <<>> /\ k \in Kinds
    BY <1>1
  <2>2. /\ Head(done.rest[k]) \in Offers(done.rest[k])
        /\ \A x \in Offers(done.rest[k]) : Head(done.rest[k]) <= x
        /\ Tail(done.rest[k]) \in Seq(Descriptors) /\ Rising(Tail(done.rest[k]))
        /\ Len(Tail(done.rest[k])) = Len(done.rest[k]) - 1
        /\ Offers(Tail(done.rest[k])) = Offers(done.rest[k]) \ {Head(done.rest[k])}
    BY <2>1, TailIs
  <2>3. Head(done.rest[k]) \in AllOf(has)
    BY <1>1, <2>1, <2>2 DEF AllOf
  <2> QED BY <2>1, <2>2, <2>3
<1>5. \A k \in Kinds : k \notin waiting => done.rest[k] = <<>> /\ Offers(done.rest[k]) = {}
  BY DEF Offers
<1>6. /\ lowest \in Nat /\ lowest \in AllOf(has)
      /\ \E k \in waiting : Head(done.rest[k]) = lowest
      /\ \A k \in waiting : lowest <= Head(done.rest[k])
  <2> DEFINE H == {Head(done.rest[k]) : k \in waiting}
  <2>1. H \in SUBSET Nat /\ H # {} /\ H \subseteq AllOf(has)
    <3>1. \A k \in waiting : Head(done.rest[k]) \in AllOf(has)
      BY <1>4
    <3>2. AllOf(has) \subseteq Nat
      BY DescriptorsAre
    <3> HIDE DEF waiting
    <3> QED BY <1>2, <3>1, <3>2
  <2>2. Min(H) \in H /\ \A x \in H : Min(H) <= x
    <3> HIDE DEF H
    <3> QED BY <2>1, MinIs
  <2> HIDE DEF waiting
  <2> QED BY <2>1, <2>2
<1> HIDE DEF lowest
<1>7. flags # {} /\ flags \subseteq waiting /\ flags \subseteq Kinds
  BY <1>6
<1>8. ASSUME NEW k \in Kinds PROVE lowest \in Offers(done.rest[k]) <=> k \in flags
  <2>1. CASE k \in waiting
    <3>1. /\ Head(done.rest[k]) \in Offers(done.rest[k])
          /\ \A x \in Offers(done.rest[k]) : Head(done.rest[k]) <= x
      BY <1>4, <2>1
    <3>2. Head(done.rest[k]) \in Nat /\ lowest <= Head(done.rest[k])
      BY <1>4, <1>6, <2>1, DescriptorsAre
    <3>3. lowest \in Offers(done.rest[k]) => Head(done.rest[k]) = lowest
      <4> SUFFICES ASSUME lowest \in Offers(done.rest[k]) PROVE Head(done.rest[k]) = lowest
        OBVIOUS
      <4>1. Head(done.rest[k]) <= lowest
        BY <3>1
      <4>2. \A x, y \in Nat : x <= y /\ y <= x => x = y
        OBVIOUS
      <4> QED BY <1>6, <3>2, <4>1, <4>2
    <3>4. k \in flags <=> Head(done.rest[k]) = lowest
      BY <2>1
    <3> QED BY <3>1, <3>3, <3>4
  <2>2. CASE k \notin waiting
    BY <1>5, <1>7, <2>2
  <2> QED BY <2>1, <2>2
<1>9. ASSUME NEW k \in Kinds
      PROVE  /\ rest[k] \in Seq(Descriptors) /\ Rising(rest[k])
             /\ Offers(rest[k]) = Offers(done.rest[k]) \ {lowest}
             /\ Len(rest[k]) = IF k \in flags THEN Len(done.rest[k]) - 1 ELSE Len(done.rest[k])
  <2>1. CASE k \in flags
    <3>1. rest[k] = Tail(done.rest[k]) /\ k \in waiting /\ Head(done.rest[k]) = lowest
      BY <2>1
    <3> HIDE DEF rest, flags, waiting
    <3> QED BY <1>4, <2>1, <3>1
  <2>2. CASE k \notin flags
    <3>1. rest[k] = done.rest[k]
      BY <2>2
    <3>2. lowest \notin Offers(done.rest[k])
      BY <1>8, <2>2
    <3> HIDE DEF rest, flags
    <3> QED BY <1>1, <2>2, <3>1, <3>2
  <2> QED BY <2>1, <2>2
<1>10. rest = [k \in Kinds |-> rest[k]]
  OBVIOUS
<1> HIDE DEF rest, flags, waiting
<1>11. e = CallOf(has, lowest)
  <2>1. ASSUME NEW k \in Kinds PROVE k \in flags <=> lowest \in has[k]
    <3>1. k \in flags => lowest \in has[k]
      BY <1>1, <1>8
    <3>2. ASSUME k \notin flags, lowest \in has[k] PROVE FALSE
      <4>1. CallOf(has, lowest) \in Offers(done.calls)
        BY <1>1, <1>8, <3>2
      <4>2. CallOf(has, lowest).fd = lowest
        BY DEF CallOf
      <4>3. \A j \in Kinds : lowest \notin Offers(done.rest[j])
        BY <1>1, <4>1, <4>2
      <4> QED BY <1>7, <1>8, <4>3
    <3> QED BY <3>1, <3>2
  <2>2. flags = {k \in Kinds : lowest \in has[k]}
    BY <1>7, <2>1
  <2> QED BY <2>2 DEF CallOf
<1>12. e \in Events /\ e.fd = lowest
  BY <1>6, <1>7 DEF Events
<1> HIDE DEF e
<1>13. \A d \in Offers(done.calls) : d.fd # e.fd
  BY <1>1, <1>7, <1>8, <1>12
<1>14. calls \in Seq(Events) /\ OnceEach(calls) /\ Offers(calls) = Offers(done.calls) \cup {e}
  BY <1>1, <1>12, <1>13, OneMoreCall
<1> HIDE DEF calls
<1> DEFINE r == [rest |-> rest, calls |-> calls]
<1>15. r.rest = rest /\ r.calls = calls
  OBVIOUS
<1> HIDE DEF r
<1>16. r.rest \in [Kinds -> Seq(Descriptors)] /\ \A k \in Kinds : Rising(r.rest[k])
  BY <1>9, <1>10, <1>15
<1>17. \A k \in Kinds : Offers(r.rest[k]) \subseteq has[k]
  BY <1>1, <1>9, <1>15
<1>18. \A k \in Kinds : \A fd \in has[k] \ Offers(r.rest[k]) : CallOf(has, fd) \in Offers(r.calls)
  BY <1>1, <1>9, <1>11, <1>14, <1>15
<1>19. \A c \in Offers(r.calls) : /\ c.fd \in AllOf(has) /\ c = CallOf(has, c.fd)
                                 /\ \A k \in Kinds : c.fd \notin Offers(r.rest[k])
  <2>1. ASSUME NEW c \in Offers(done.calls)
        PROVE  /\ c.fd \in AllOf(has) /\ c = CallOf(has, c.fd)
               /\ \A k \in Kinds : c.fd \notin Offers(r.rest[k])
    BY <1>1, <1>9, <1>15
  <2>2. e.fd \in AllOf(has) /\ e = CallOf(has, e.fd) /\ \A k \in Kinds : e.fd \notin Offers(r.rest[k])
    BY <1>6, <1>9, <1>11, <1>12, <1>15
  <2> QED BY <1>14, <1>15, <2>1, <2>2
<1>20. Merging(r, has)
  BY <1>14, <1>15, <1>16, <1>17, <1>18, <1>19 DEF Merging
<1>21. Remaining(rest) <= Remaining(done.rest) - 1
  <2> DEFINE more(k) == Len(done.rest[k])
             less(k) == Len(rest[k])
  <2>1. \A k \in Kinds : more(k) \in Nat /\ less(k) \in Nat
    BY <1>1, <1>9
  <2>2. \A k \in Kinds : less(k) = IF k \in flags THEN more(k) - 1 ELSE more(k)
    BY <1>9
  <2>3. "read" \in flags \/ "write" \in flags \/ "except" \in flags
    BY <1>7 DEF Kinds
  <2> HIDE DEF more, less
  <2>4. /\ more("read") \in Nat /\ more("write") \in Nat /\ more("except") \in Nat
        /\ less("read") = IF "read" \in flags THEN more("read") - 1 ELSE more("read")
        /\ less("write") = IF "write" \in flags THEN more("write") - 1 ELSE more("write")
        /\ less("except") = IF "except" \in flags THEN more("except") - 1 ELSE more("except")
    BY <2>1, <2>2 DEF Kinds
  <2>5. less("read") + less("write") + less("except") <=
          more("read") + more("write") + more("except") - 1
    BY <2>3, <2>4
  <2>6. Remaining(rest) = less("read") + less("write") + less("except")
    BY DEF Remaining, less
  <2>7. Remaining(done.rest) = more("read") + more("write") + more("except")
    BY DEF Remaining, more
  <2>8. ASSUME NEW x, NEW y, x = less("read") + less("write") + less("except"),
               y = more("read") + more("write") + more("except")
        PROVE  x <= y - 1
    BY <2>4, <2>5, <2>8
  <2> QED BY <2>6, <2>7, <2>8
<1> QED BY <1>3, <1>15, <1>20, <1>21 DEF r

\* Every descriptor in a list is called once, with the lists it is in.
LEMMA MergedIs ==
  ASSUME NEW left, ListsOk(left)
  PROVE  /\ Merged(left) \in Seq(Events) /\ OnceEach(Merged(left))
         /\ Offers(Merged(left)) = AllCalls(RangesOf(left))
<1> DEFINE has == RangesOf(left)
           used == {k \in Kinds : left[k] # <<>>}
           n == Len(left["read"]) + Len(left["write"]) + Len(left["except"])
           first == [rest |-> [k \in Kinds |-> Sorted(left[k])], calls |-> <<>>]
           f == CHOOSE g : g = [i \in 0..n |-> IF i = 0 THEN first ELSE Advance(g[i - 1])]
           one == \E k \in Kinds : used \subseteq {k}
           only == CHOOSE k \in Kinds : used \subseteq {k}
           alone == [i \in DOMAIN left[only] |-> [fd |-> left[only][i], flags |-> {only}]]
<1>1. Merged(left) = IF one THEN alone ELSE f[n].calls
  BY DEF Merged
<1>2. ASSUME NEW k \in Kinds
      PROVE  /\ left[k] \in Seq(Descriptors) /\ Distinct(left[k]) /\ Len(left[k]) \in Nat
             /\ has[k] = Offers(left[k]) /\ has[k] \subseteq Descriptors
  <2>1. left[k] \in Seq(Descriptors) /\ Distinct(left[k])
    BY DEF ListsOk
  <2>2. has[k] = Offers(left[k])
    BY <2>1, RangeIs DEF RangesOf
  <2>3. \A i \in 1..Len(left[k]) : left[k][i] \in Descriptors
    BY <2>1
  <2>4. Offers(left[k]) \subseteq Descriptors
    BY <2>3 DEF Offers
  <2> QED BY <2>1, <2>2, <2>4
<1>3. AllOf(has) \subseteq Descriptors
  BY <1>2 DEF AllOf
<1>4. n \in Nat
  <2>1. Len(left["read"]) \in Nat /\ Len(left["write"]) \in Nat /\ Len(left["except"]) \in Nat
    <3>1. "read" \in Kinds /\ "write" \in Kinds /\ "except" \in Kinds
      BY DEF Kinds
    <3> QED BY <1>2, <3>1
  <2>2. \A a, b, c \in Nat : a + b + c \in Nat
    OBVIOUS
  <2> QED BY <2>1, <2>2
<1> HIDE DEF has
<1>5. CASE one
  <2>1. only \in Kinds /\ used \subseteq {only}
    BY <1>5
  <2>2. \A k \in Kinds : k # only => has[k] = {}
    <3>1. \A k \in Kinds : k # only => left[k] = <<>>
      BY <2>1
    <3> HIDE DEF only
    <3> QED BY <1>2, <3>1 DEF Offers
  <2> HIDE DEF only
  <2> DEFINE s == left[only]
             m == Len(s)
  <2>3. /\ s \in Seq(Descriptors) /\ m \in Nat /\ DOMAIN s = 1..m
        /\ \A i, j \in 1..m : s[i] = s[j] => i = j
        /\ \A i \in 1..m : s[i] \in Descriptors
        /\ has[only] = {s[i] : i \in 1..m}
    BY <1>2, <2>1 DEF Offers, Distinct
  <2>4. alone = [i \in 1..m |-> [fd |-> s[i], flags |-> {only}]]
    BY <2>3
  <2> HIDE DEF s, m, alone
  <2>5. \A i \in 1..m : [fd |-> s[i], flags |-> {only}] \in Events
    BY <2>1, <2>3 DEF Events
  <2>6. alone \in Seq(Events) /\ Len(alone) = m
    BY <2>3, <2>4, <2>5
  <2>7. \A i \in 1..m : alone[i] = [fd |-> s[i], flags |-> {only}] /\ alone[i].fd = s[i]
    BY <2>4
  <2>8. OnceEach(alone)
    BY <2>3, <2>6, <2>7 DEF OnceEach
  <2>9. AllOf(has) = has[only]
    BY <2>1, <2>2 DEF AllOf
  <2>10. \A fd \in has[only] : CallOf(has, fd) = [fd |-> fd, flags |-> {only}]
    BY <2>1, <2>2 DEF CallOf
  <2>11. Offers(alone) = {[fd |-> fd, flags |-> {only}] : fd \in has[only]}
    <3>1. Offers(alone) = {alone[i] : i \in 1..m}
      BY <2>6 DEF Offers
    <3>2. \A i \in 1..m : s[i] \in has[only]
      BY <2>3
    <3>3. \A fd \in has[only] : \E i \in 1..m : s[i] = fd
      BY <2>3
    <3> DEFINE call(fd) == [fd |-> fd, flags |-> {only}]
    <3>4. \A i \in 1..m : alone[i] = call(s[i])
      BY <2>7
    <3> HIDE DEF call
    <3>5. Offers(alone) = {call(fd) : fd \in has[only]}
      BY <3>1, <3>2, <3>3, <3>4
    <3> QED BY <3>5 DEF call
  <2>12. Offers(alone) = AllCalls(has)
    BY <2>9, <2>10, <2>11 DEF AllCalls
  <2> QED BY <1>1, <1>5, <2>6, <2>8, <2>12 DEF has
<1>6. CASE ~one
  <2> HIDE DEF n, one
  <2>1. f = [i \in 0..n |-> IF i = 0 THEN first ELSE Advance(f[i - 1])]
    <3>1. \E g : AreMerges(g, first, n)
      BY <1>4, MergesExist
    <3>2. \E g : g = [i \in 0..n |-> IF i = 0 THEN first ELSE Advance(g[i - 1])]
      BY <3>1 DEF AreMerges
    <3> HIDE DEF first
    <3> QED BY <3>2
  <2> HIDE DEF f
  <2>2. f[0] = first /\ \A i \in 1..n : f[i] = Advance(f[i - 1])
    <3>1. 0 \in 0..n /\ \A i \in 1..n : i \in 0..n /\ i # 0
      BY <1>4
    <3> HIDE DEF first
    <3> QED BY <2>1, <3>1
  <2>3. ASSUME NEW k \in Kinds
        PROVE  /\ first.rest[k] \in Seq(Descriptors) /\ Len(first.rest[k]) = Len(left[k])
               /\ Offers(first.rest[k]) = has[k] /\ Rising(first.rest[k])
    BY <1>2, SortedIs
  <2>4. first.rest = [k \in Kinds |-> first.rest[k]] /\ first.calls = <<>>
    OBVIOUS
  <2> HIDE DEF first
  <2>5. first.calls \in Seq(Events) /\ OnceEach(first.calls) /\ Offers(first.calls) = {}
    BY <2>4 DEF OnceEach, Offers
  <2>6. Merging(first, has)
    BY <2>3, <2>4, <2>5 DEF Merging
  <2>7. Remaining(first.rest) = n
    BY <2>3 DEF Remaining, n, Kinds
  <2> DEFINE Good(i) == Merging(f[i], has) /\ (Finished(f[i]) \/ Remaining(f[i].rest) + i <= n)
             T == {i \in Nat : i <= n => Good(i)}
  <2>8. 0 \in T
    BY <1>4, <2>2, <2>6, <2>7
  <2>9. ASSUME NEW i \in Nat, i \in T PROVE i + 1 \in T
    <3> SUFFICES ASSUME i + 1 <= n PROVE Good(i + 1)
      OBVIOUS
    <3>1. i + 1 \in 1..n /\ (i + 1) - 1 = i /\ i <= n
      BY <1>4
    <3>2. Merging(f[i], has) /\ (Finished(f[i]) \/ Remaining(f[i].rest) + i <= n)
      BY <2>9, <3>1
    <3>3. f[i + 1] = Advance(f[i])
      BY <2>2, <3>1
    <3>4. CASE Finished(f[i])
      <4>1. Advance(f[i]) = f[i]
        BY <3>4 DEF Finished, Advance
      <4> QED BY <3>2, <3>3, <3>4, <4>1
    <3>5. CASE ~Finished(f[i])
      <4>1. Merging(f[i + 1], has) /\ Remaining(f[i + 1].rest) <= Remaining(f[i].rest) - 1
        BY <1>3, <3>2, <3>3, <3>5, AdvanceKeeps
      <4>2. Remaining(f[i + 1].rest) \in Nat /\ Remaining(f[i].rest) \in Nat
        <5>1. \A done : Merging(done, has) => Remaining(done.rest) \in Nat
          <6> SUFFICES ASSUME NEW done, Merging(done, has) PROVE Remaining(done.rest) \in Nat
            OBVIOUS
          <6>1. \A k \in Kinds : Len(done.rest[k]) \in Nat
            BY DEF Merging
          <6>2. "read" \in Kinds /\ "write" \in Kinds /\ "except" \in Kinds
            BY DEF Kinds
          <6>3. \A a, b, c \in Nat : a + b + c \in Nat
            OBVIOUS
          <6> QED BY <6>1, <6>2, <6>3 DEF Remaining
        <5> QED BY <3>2, <4>1, <5>1
      <4>3. \A x, y \in Nat : y <= x - 1 /\ x + i <= n => y + (i + 1) <= n
        BY <1>4
      <4> QED BY <3>2, <3>5, <4>1, <4>2, <4>3
    <3> QED BY <3>4, <3>5
  <2>10. n \in T
    <3> HIDE DEF T
    <3> QED BY <1>4, <2>8, <2>9, Induction
  <2>11. Merging(f[n], has) /\ (Finished(f[n]) \/ Remaining(f[n].rest) + n <= n)
    BY <1>4, <2>10
  <2> DEFINE done == f[n]
  <2>12. /\ done.calls \in Seq(Events) /\ OnceEach(done.calls)
         /\ \A k \in Kinds : done.rest[k] \in Seq(Descriptors)
         /\ \A k \in Kinds : \A fd \in has[k] \ Offers(done.rest[k]) :
              CallOf(has, fd) \in Offers(done.calls)
         /\ \A c \in Offers(done.calls) : c.fd \in AllOf(has) /\ c = CallOf(has, c.fd)
    BY <2>11 DEF Merging
  <2>13. \A k \in Kinds : done.rest[k] = <<>>
    <3>1. CASE Finished(done)
      BY <3>1 DEF Finished
    <3>2. CASE Remaining(done.rest) + n <= n
      <4> DEFINE lengths(k) == Len(done.rest[k])
      <4>1. \A k \in Kinds : lengths(k) \in Nat
        BY <2>12
      <4>2. Remaining(done.rest) = lengths("read") + lengths("write") + lengths("except")
        BY DEF Remaining
      <4> HIDE DEF lengths, done
      <4>3. lengths("read") \in Nat /\ lengths("write") \in Nat /\ lengths("except") \in Nat
        BY <4>1 DEF Kinds
      <4>4. lengths("read") = 0 /\ lengths("write") = 0 /\ lengths("except") = 0
        BY <1>4, <3>2, <4>2, <4>3
      <4>5. \A k \in Kinds : lengths(k) = 0
        BY <4>4 DEF Kinds
      <4>6. \A k \in Kinds : Len(done.rest[k]) = 0
        BY <4>5 DEF lengths
      <4> QED BY <2>12, <4>6
    <3> QED BY <2>11, <3>1, <3>2
  <2> HIDE DEF done
  <2>14. \A k \in Kinds : \A fd \in has[k] : CallOf(has, fd) \in Offers(done.calls)
    BY <2>12, <2>13 DEF Offers
  <2>15. \A fd \in AllOf(has) : CallOf(has, fd) \in Offers(done.calls)
    BY <2>14 DEF AllOf
  <2>16. Offers(done.calls) = AllCalls(has)
    BY <2>12, <2>15 DEF AllCalls
  <2> QED BY <1>1, <1>6, <2>12, <2>16 DEF done, has
<1> QED BY <1>5, <1>6

\* A round of select() on Windows is complete.
LEMMA ListsRoundIs ==
  ASSUME NEW l, ListsOk(l), NEW happens
  PROVE  IsRound(ListsRound(l, happens), SeenOf(KindsOf(RangesOf(l)), happens))
<1> DEFINE seen(k) == {fd \in Descriptors : Sees(k, happens[fd])}
           left == [k \in Kinds |-> Only(l[k], seen(k))]
           has == RangesOf(left)
           h == RangesOf(l)
           expected == SeenOf(KindsOf(h), happens)
           calls == Merged(left)
<1>1. ASSUME NEW k \in Kinds
      PROVE  /\ left[k] \in Seq(Descriptors) /\ Distinct(left[k])
             /\ has[k] = {fd \in h[k] : Sees(k, happens[fd])}
  <2>1. l[k] \in Seq(Descriptors) /\ Distinct(l[k])
    BY DEF ListsOk
  <2> DEFINE s == l[k]
             keep == seen(k)
             r == Only(s, keep)
  <2>2. r \in Seq(Descriptors) /\ Offers(r) = Offers(s) \cap keep /\ Distinct(r)
    <3> HIDE DEF keep
    <3> QED BY <2>1, OnlyKeeps
  <2>3. left[k] = r
    OBVIOUS
  <2> HIDE DEF r, left
  <2>4. has[k] = Offers(r)
    BY <2>2, <2>3, RangeIs DEF RangesOf
  <2>5. h[k] = Offers(s)
    BY <2>1, RangeIs DEF RangesOf
  <2>6. Offers(s) \subseteq Descriptors
    <3>1. \A i \in 1..Len(s) : s[i] \in Descriptors
      BY <2>1
    <3> QED BY <3>1 DEF Offers
  <2> HIDE DEF has, h, s
  <2> QED BY <2>2, <2>3, <2>4, <2>5, <2>6
<1>2. left = [k \in Kinds |-> left[k]]
  OBVIOUS
<1>3. ListsRound(l, happens) = calls
  BY DEF ListsRound
<1> HIDE DEF left
<1>4. ListsOk(left)
  BY <1>1, <1>2 DEF ListsOk
<1>5. calls \in Seq(Events) /\ OnceEach(calls) /\ Offers(calls) = AllCalls(has)
  BY <1>4, MergedIs
<1> HIDE DEF calls, has, h
<1>6. AllCalls(has) = CallsFor(expected)
  BY <1>1, CallsAreSeen
<1> HIDE DEF expected
<1>7. IsRound(calls, expected)
  BY <1>5, <1>6, RoundFrom
<1> QED BY <1>3, <1>7 DEF expected, h

-----------------------------------------------------------------------------
(* The tables after every call.                                            *)

\* What a caller asks for is never empty.
LEMMA WantedAre == ASSUME NEW kinds \in Wanted PROVE kinds \in SUBSET Kinds /\ kinds # {}
BY WatcherAssumption

\* A table, a function and a tuple with nothing are the same.
LEMMA NothingWatched ==
  /\ Table(<<>>) /\ PollWatched(<<>>) = <<>>
  /\ SetsOk(NoSets) /\ KindsOf(NoSets.has) = <<>>
  /\ ListsOk(NoLists) /\ KindsOf(RangesOf(NoLists)) = <<>>
<1>1. Table(<<>>)
  BY DEF Table, OnceEach
<1>2. ASSUME NEW v, v = [x \in DOMAIN v |-> v[x]], DOMAIN v = {} PROVE v = <<>>
  <2>1. DOMAIN <<>> = {} /\ <<>> = [x \in DOMAIN <<>> |-> <<>>[x]]
    OBVIOUS
  <2> QED BY <1>2, <2>1
<1>3. PollWatched(<<>>) = <<>>
  <2>1. Offers(<<>>) = {}
    BY DEF Offers
  <2>2. DOMAIN PollWatched(<<>>) = {}
    BY <1>1, <2>1, WatchedIs
  <2> QED BY <1>1, <1>2, <2>2, WatchedIs
<1>4. ASSUME NEW h, \A k \in Kinds : h[k] = {} PROVE KindsOf(h) = <<>>
  <2> DEFINE v == KindsOf(h)
  <2>1. v = [x \in DOMAIN v |-> v[x]] /\ DOMAIN v = {}
    BY <1>4 DEF KindsOf
  <2> HIDE DEF v
  <2>2. v = <<>>
    BY <1>2, <2>1
  <2> QED BY <2>2 DEF v
<1>5. SetsOk(NoSets) /\ KindsOf(NoSets.has) = <<>>
  <2>1. NoSets.has = [k \in Kinds |-> {}] /\ NoSets.max = [k \in Kinds |-> -1]
        /\ NoSets \in [has : [Kinds -> SUBSET Small], max : [Kinds -> Int]]
    BY DEF NoSets
  <2>2. \A k \in Kinds : NoSets.has[k] = {} /\ NoSets.max[k] = -1
    BY <2>1
  <2>3. \A k \in Kinds : Topped(NoSets.has[k], NoSets.max[k])
    BY <2>2 DEF Topped
  <2> QED BY <1>4, <2>1, <2>2, <2>3 DEF SetsOk
<1>6. ListsOk(NoLists) /\ KindsOf(RangesOf(NoLists)) = <<>>
  <2>1. NoLists \in [Kinds -> Seq(Descriptors)] /\ \A k \in Kinds : NoLists[k] = <<>>
    BY DEF NoLists
  <2>2. \A k \in Kinds : Distinct(NoLists[k]) /\ RangesOf(NoLists)[k] = {}
    BY <2>1 DEF Distinct, RangesOf, Range
  <2> QED BY <1>4, <2>1, <2>2 DEF ListsOk
<1> QED BY <1>1, <1>3, <1>5, <1>6

\* What is watched after one descriptor more, less or other, and what poll() on Windows
\* is asked for.
Other(v, fd, kinds) == IF fd \in DOMAIN v THEN [v EXCEPT ![fd] = kinds] ELSE v
Polled(v) == [fd \in DOMAIN v |-> v[fd] \ {"except"}]

LEMMA PolledIs ==
  ASSUME NEW v, NEW fd, NEW kinds
  PROVE  /\ Polled(Plus(v, fd, kinds)) = Plus(Polled(v), fd, kinds \ {"except"})
         /\ Polled(Other(v, fd, kinds)) = Other(Polled(v), fd, kinds \ {"except"})
         /\ Polled(Minus(v, fd)) = Minus(Polled(v), fd)
<1>1. Polled(Plus(v, fd, kinds)) = Plus(Polled(v), fd, kinds \ {"except"})
  BY DEF Polled, Plus
<1>2. Polled(Other(v, fd, kinds)) = Other(Polled(v), fd, kinds \ {"except"})
  BY DEF Polled, Other
<1>3. Polled(Minus(v, fd)) = Minus(Polled(v), fd)
  BY DEF Polled, Minus
<1> QED BY <1>1, <1>2, <1>3

\* A descriptor has a place if it is watched.
LEMMA PlaceWatched ==
  ASSUME NEW t, Table(t), NEW fd
  PROVE  Place(t, fd) = 0 <=> fd \notin DOMAIN PollWatched(t)
<1> DEFINE S == Offers(t)
<1>1. DOMAIN PollWatched(t) = {e.fd : e \in S}
  BY WatchedIs
<1>2. Place(t, fd) = 0 <=> \A e \in S : e.fd # fd
  BY PlaceIs
<1> HIDE DEF S
<1> QED BY <1>1, <1>2

\* watch(), modify() and unwatch() of a vector, for what is watched.
LEMMA TableWatch ==
  ASSUME NEW t, Table(t), NEW fd \in Descriptors, NEW kinds \in SUBSET Kinds, Place(t, fd) = 0
  PROVE  /\ Table(PollWatch(t, fd, kinds))
         /\ PollWatched(PollWatch(t, fd, kinds)) = Plus(PollWatched(t), fd, kinds)
<1> DEFINE r == PollWatch(t, fd, kinds)
<1>1. Table(r) /\ Offers(r) = Offers(t) \cup {[fd |-> fd, events |-> kinds]}
  BY PollWatchIs
<1> HIDE DEF r
<1>2. PollWatched(r) = Plus(PollWatched(t), fd, kinds)
  BY <1>1, WatchedMore
<1> QED BY <1>1, <1>2 DEF r

LEMMA TableModify ==
  ASSUME NEW t, Table(t), NEW fd \in Descriptors, NEW kinds \in SUBSET Kinds
  PROVE  /\ Table(PollModify(t, fd, kinds))
         /\ PollWatched(PollModify(t, fd, kinds)) = Other(PollWatched(t), fd, kinds)
<1> DEFINE r == PollModify(t, fd, kinds)
<1>1. Table(r) /\ (Place(t, fd) # 0 =>
        Offers(r) = {e \in Offers(t) : e.fd # fd} \cup {[fd |-> fd, events |-> kinds]})
  BY PollModifyIs
<1>2. Place(t, fd) = 0 => r = t
  BY DEF PollModify
<1> HIDE DEF r
<1>3. ASSUME Place(t, fd) = 0 PROVE PollWatched(r) = Other(PollWatched(t), fd, kinds)
  BY <1>2, <1>3, PlaceWatched DEF Other
<1>4. ASSUME Place(t, fd) # 0 PROVE PollWatched(r) = Other(PollWatched(t), fd, kinds)
  <2>1. fd \in DOMAIN PollWatched(t) /\ PollWatched(r) = [PollWatched(t) EXCEPT ![fd] = kinds]
    BY <1>1, <1>4, WatchedOther
  <2> QED BY <2>1 DEF Other
<1> QED BY <1>1, <1>3, <1>4 DEF r

LEMMA TableUnwatch ==
  ASSUME NEW t, Table(t), NEW fd, NEW r, r = PollUnwatch(t, fd) \/ r = DescsUnwatch(t, fd)
  PROVE  Table(r) /\ PollWatched(r) = Minus(PollWatched(t), fd)
<1>1. Table(r) /\ Offers(r) = {e \in Offers(t) : e.fd # fd}
  BY PollUnwatchIs, DescsUnwatchIs
<1> QED BY <1>1, WatchedLess

\* The vectors, in whichever order, and the kernel's set hold the same, but for what
\* poll() on Windows cannot be asked for.
VectorsOk ==
  /\ Table(fds) /\ Table(descs) /\ queue = fdsWatched /\ descsWatched = Polled(fdsWatched)

\* The kinds that are asked for there.
LEMMA FlagsAre ==
  ASSUME NEW kinds \in Wanted
  PROVE  KernelFlags(kinds) \in SUBSET Kinds /\ KernelFlags(kinds) = kinds \ {"except"}
BY WantedAre DEF KernelFlags

\* watch() of the vectors and the kernel's set.
LEMMA VectorsWatch ==
  ASSUME VectorsOk, NEW fd \in Descriptors, NEW kinds \in Wanted, Watch(fd, kinds)
  PROVE  /\ VectorsOk'
         /\ fd \notin DOMAIN fdsWatched /\ fdsWatched' = Plus(fdsWatched, fd, kinds)
<1>1. /\ Place(fds, fd) = 0 /\ queue' = QueueWatch(queue, fd, kinds)
      /\ fds' = PollWatch(fds, fd, kinds) /\ descs' = PollWatch(descs, fd, KernelFlags(kinds))
  BY DEF Watch, DescsWatch
<1>2. fd \notin DOMAIN fdsWatched
  BY <1>1, PlaceWatched DEF VectorsOk, fdsWatched
<1>3. Table(fds') /\ fdsWatched' = Plus(fdsWatched, fd, kinds)
  <2>1. kinds \in SUBSET Kinds
    BY WantedAre
  <2>2. PollWatched(fds') = Plus(PollWatched(fds), fd, kinds) /\ Table(fds')
    BY <1>1, <2>1, TableWatch DEF VectorsOk
  <2> QED BY <2>2 DEF fdsWatched
<1>4. Table(descs') /\ descsWatched' = Plus(descsWatched, fd, kinds \ {"except"})
  <2>1. fd \notin DOMAIN descsWatched
    BY <1>2 DEF VectorsOk, Polled
  <2>2. Place(descs, fd) = 0
    BY <2>1, PlaceWatched DEF VectorsOk, descsWatched
  <2>3. /\ PollWatched(descs') = Plus(PollWatched(descs), fd, KernelFlags(kinds))
        /\ Table(descs')
    BY <1>1, <2>2, FlagsAre, TableWatch DEF VectorsOk
  <2> QED BY <2>3, FlagsAre DEF descsWatched
<1>5. descsWatched' = Polled(fdsWatched')
  BY <1>3, <1>4, PolledIs DEF VectorsOk
<1>6. queue' = fdsWatched'
  BY <1>1, <1>2, <1>3 DEF QueueWatch, Plus, VectorsOk
<1> QED BY <1>2, <1>3, <1>4, <1>5, <1>6 DEF VectorsOk

\* modify() of the vectors and the kernel's set.
LEMMA VectorsModify ==
  ASSUME VectorsOk, NEW fd \in Descriptors, NEW kinds \in Wanted, Modify(fd, kinds)
  PROVE  VectorsOk' /\ fdsWatched' = Other(fdsWatched, fd, kinds)
<1>1. /\ queue' = QueueModify(queue, fd, kinds)
      /\ fds' = PollModify(fds, fd, kinds) /\ descs' = PollModify(descs, fd, KernelFlags(kinds))
  BY DEF Modify, DescsModify
<1>2. Table(fds') /\ fdsWatched' = Other(fdsWatched, fd, kinds)
  <2>1. kinds \in SUBSET Kinds
    BY WantedAre
  <2>2. PollWatched(fds') = Other(PollWatched(fds), fd, kinds) /\ Table(fds')
    BY <1>1, <2>1, TableModify DEF VectorsOk
  <2> QED BY <2>2 DEF fdsWatched
<1>3. Table(descs') /\ descsWatched' = Other(descsWatched, fd, kinds \ {"except"})
  <2>1. /\ PollWatched(descs') = Other(PollWatched(descs), fd, KernelFlags(kinds))
        /\ Table(descs')
    BY <1>1, FlagsAre, TableModify DEF VectorsOk
  <2> QED BY <2>1, FlagsAre DEF descsWatched
<1>4. descsWatched' = Polled(fdsWatched')
  BY <1>2, <1>3, PolledIs DEF VectorsOk
<1>5. queue' = fdsWatched'
  BY <1>1, <1>2 DEF QueueModify, Other, VectorsOk
<1> QED BY <1>2, <1>3, <1>4, <1>5 DEF VectorsOk

\* unwatch() of the vectors and the kernel's set.
LEMMA VectorsUnwatch ==
  ASSUME VectorsOk, NEW fd \in Descriptors, Unwatch(fd)
  PROVE  VectorsOk' /\ fdsWatched' = Minus(fdsWatched, fd)
<1>1. /\ queue' = QueueUnwatch(queue, fd)
      /\ fds' = PollUnwatch(fds, fd) /\ descs' = DescsUnwatch(descs, fd)
  BY DEF Unwatch
<1>2. Table(fds') /\ PollWatched(fds') = Minus(PollWatched(fds), fd)
  BY <1>1, TableUnwatch DEF VectorsOk
<1>3. Table(descs') /\ PollWatched(descs') = Minus(PollWatched(descs), fd)
  BY <1>1, TableUnwatch DEF VectorsOk
<1>4. fdsWatched' = Minus(fdsWatched, fd) /\ descsWatched' = Minus(descsWatched, fd)
  BY <1>2, <1>3 DEF fdsWatched, descsWatched
<1>5. descsWatched' = Polled(fdsWatched')
  BY <1>4, PolledIs DEF VectorsOk
<1>6. queue' = fdsWatched'
  BY <1>1, <1>4 DEF QueueUnwatch, Minus, VectorsOk
<1> QED BY <1>2, <1>3, <1>4, <1>5, <1>6 DEF VectorsOk

\* They are empty together.
LEMMA VectorsCleared ==
  ASSUME NEW t, t = <<>>
  PROVE  Table(t) /\ PollWatched(t) = <<>> /\ Polled(<<>>) = <<>>
<1>1. \A v : v = [fd \in DOMAIN v |-> v[fd]] /\ DOMAIN v = {} => v = <<>>
  <2>1. DOMAIN <<>> = {} /\ <<>> = [x \in DOMAIN <<>> |-> <<>>[x]]
    OBVIOUS
  <2> QED BY <2>1
<1>2. DOMAIN Polled(<<>>) = {} /\ Polled(<<>>) = [fd \in DOMAIN Polled(<<>>) |-> Polled(<<>>)[fd]]
  BY DEF Polled
<1>3. Polled(<<>>) = <<>>
  <2> DEFINE v == Polled(<<>>)
  <2>1. v = [fd \in DOMAIN v |-> v[fd]] /\ DOMAIN v = {}
    BY <1>2
  <2> HIDE DEF v
  <2>2. v = <<>>
    BY <1>1, <2>1
  <2> QED BY <2>2 DEF v
<1> QED BY <1>3, NothingWatched

-----------------------------------------------------------------------------
(* The sets and the lists of select().                                     *)

\* watch() of select() on POSIX, which a descriptor that does not fit leaves as it was.
LEMMA SetsAfterWatch ==
  ASSUME NEW s, SetsOk(s), NEW fd \in Descriptors, NEW kinds \in Wanted,
         NEW r, r = SelectWatch(s, fd, kinds)
  PROVE  /\ SetsOk(r)
         /\ fd \notin DOMAIN KindsOf(s.has) =>
              KindsOf(r.has) = IF fd < SetSize THEN Plus(KindsOf(s.has), fd, kinds)
                               ELSE KindsOf(s.has)
<1>1. kinds \in SUBSET Kinds /\ kinds # {}
  BY WantedAre
<1>2. SetsOk(r) /\ (fd < SetSize => r.has = Added(s.has, fd, kinds)) /\ (~(fd < SetSize) => r = s)
  BY <1>1, SelectWatchIs
<1> QED BY <1>1, <1>2, KindsMore

\* unwatch() of select() on POSIX.
LEMMA SetsAfterUnwatch ==
  ASSUME NEW s, SetsOk(s), NEW fd \in Descriptors, NEW r, r = SelectUnwatch(s, fd)
  PROVE  SetsOk(r) /\ KindsOf(r.has) = Minus(KindsOf(s.has), fd)
<1>1. SetsOk(r) /\ r.has = Removed(s.has, fd)
  BY SelectUnwatchIs
<1> QED BY <1>1, KindsLess

\* A descriptor that is taken out and put in is put in.
LEMMA PlusAfterMinus ==
  ASSUME NEW v, NEW fd, NEW kinds
  PROVE  Plus(Minus(v, fd), fd, kinds) = Plus(v, fd, kinds) /\ fd \notin DOMAIN Minus(v, fd)
<1>1. fd \notin DOMAIN Minus(v, fd) /\ DOMAIN Minus(v, fd) \cup {fd} = DOMAIN v \cup {fd}
  BY DEF Minus
<1>2. \A other \in DOMAIN v \ {fd} : Minus(v, fd)[other] = v[other]
  BY DEF Minus
<1> QED BY <1>1, <1>2 DEF Plus

\* modify() of select() on POSIX, whether or not the descriptor is in the sets.
LEMMA SetsAfterModify ==
  ASSUME NEW s, SetsOk(s), NEW fd \in Descriptors, NEW kinds \in Wanted,
         NEW r, r = SelectModify(s, fd, kinds)
  PROVE  /\ SetsOk(r)
         /\ fd >= SetSize => KindsOf(r.has) = KindsOf(s.has) /\ fd \notin DOMAIN KindsOf(s.has)
         /\ ~(fd >= SetSize) => KindsOf(r.has) = IF fd \in DOMAIN KindsOf(s.has)
                                                 THEN [KindsOf(s.has) EXCEPT ![fd] = kinds]
                                                 ELSE Plus(KindsOf(s.has), fd, kinds)
<1>1. kinds \in SUBSET Kinds /\ kinds # {}
  BY WantedAre
<1> DEFINE u == SelectUnwatch(s, fd)
           v == KindsOf(s.has)
<1>2. SetsOk(u) /\ u.has = Removed(s.has, fd)
  BY SelectUnwatchIs
<1>3. r = SelectWatch(u, fd, kinds) /\ (fd >= SetSize => u = s)
  BY DEF SelectModify, SelectUnwatch
<1>4. fd \in Nat /\ SetSize \in Nat /\ (fd >= SetSize <=> ~(fd < SetSize))
  BY DescriptorsAre
<1> HIDE DEF u
<1>5. SetsOk(r) /\ (fd < SetSize => r.has = Added(u.has, fd, kinds)) /\ (~(fd < SetSize) => r = u)
  BY <1>1, <1>2, <1>3, SelectWatchIs
<1>6. fd \in DOMAIN v => fd < SetSize
  <2> SUFFICES ASSUME fd \in DOMAIN v PROVE fd < SetSize
    OBVIOUS
  <2>1. PICK k \in Kinds : fd \in s.has[k]
    BY DEF KindsOf
  <2>2. s.has[k] \subseteq Small
    BY DEF SetsOk
  <2> QED BY <2>1, <2>2 DEF Small
<1>7. CASE fd >= SetSize
  BY <1>3, <1>4, <1>5, <1>6, <1>7
<1>8. CASE fd < SetSize /\ fd \in DOMAIN v
  BY <1>1, <1>2, <1>4, <1>5, <1>8, KindsOther
<1>9. CASE fd < SetSize /\ fd \notin DOMAIN v
  <2>1. KindsOf(u.has) = Minus(v, fd)
    BY <1>2, KindsLess
  <2>2. fd \notin DOMAIN KindsOf(u.has)
    BY <2>1, PlusAfterMinus
  <2>3. KindsOf(r.has) = Plus(KindsOf(u.has), fd, kinds)
    BY <1>1, <1>5, <1>9, <2>2, KindsMore
  <2>4. KindsOf(r.has) = Plus(v, fd, kinds)
    BY <2>1, <2>3, PlusAfterMinus
  <2> QED BY <1>4, <1>5, <1>9, <2>4
<1> QED BY <1>4, <1>7, <1>8, <1>9

\* watch() of select() on Windows, which full lists leave as they were.
LEMMA ListsAfterWatch ==
  ASSUME NEW l, ListsOk(l), NEW fd \in Descriptors, NEW kinds \in Wanted,
         NEW r, r = ListsWatch(l, fd, kinds)
  PROVE  /\ ListsOk(r)
         /\ fd \notin DOMAIN KindsOf(RangesOf(l)) =>
              KindsOf(RangesOf(r)) = IF Full(l, kinds) THEN KindsOf(RangesOf(l))
                                     ELSE Plus(KindsOf(RangesOf(l)), fd, kinds)
<1>1. kinds \in SUBSET Kinds /\ kinds # {}
  BY WantedAre
<1>2. /\ ListsOk(r) /\ (Full(l, kinds) => r = l)
      /\ ~Full(l, kinds) => RangesOf(r) = Added(RangesOf(l), fd, kinds)
  BY <1>1, ListsWatchIs
<1> QED BY <1>1, <1>2, KindsMore

\* unwatch() of select() on Windows.
LEMMA ListsAfterUnwatch ==
  ASSUME NEW l, ListsOk(l), NEW fd \in Descriptors, NEW r, r = ListsUnwatch(l, fd)
  PROVE  ListsOk(r) /\ KindsOf(RangesOf(r)) = Minus(KindsOf(RangesOf(l)), fd)
<1>1. ListsOk(r) /\ RangesOf(r) = Removed(RangesOf(l), fd)
  BY ListsUnwatchIs
<1> QED BY <1>1, KindsLess

\* When a list is full, only the first half of modify() happens.
LEMMA ListsAfterModify ==
  ASSUME NEW l, ListsOk(l), NEW fd \in Descriptors, NEW kinds \in Wanted,
         NEW r, r = ListsModify(l, fd, kinds)
  PROVE  /\ ListsOk(r)
         /\ Full(ListsUnwatch(l, fd), kinds) =>
              KindsOf(RangesOf(r)) = Minus(KindsOf(RangesOf(l)), fd)
         /\ ~Full(ListsUnwatch(l, fd), kinds) =>
              KindsOf(RangesOf(r)) = IF fd \in DOMAIN KindsOf(RangesOf(l))
                                     THEN [KindsOf(RangesOf(l)) EXCEPT ![fd] = kinds]
                                     ELSE Plus(KindsOf(RangesOf(l)), fd, kinds)
<1>1. kinds \in SUBSET Kinds /\ kinds # {}
  BY WantedAre
<1> DEFINE u == ListsUnwatch(l, fd)
           v == KindsOf(RangesOf(l))
<1>2. ListsOk(u) /\ RangesOf(u) = Removed(RangesOf(l), fd)
  BY ListsUnwatchIs
<1>3. r = ListsWatch(u, fd, kinds)
  BY DEF ListsModify
<1>4. KindsOf(RangesOf(u)) = Minus(v, fd)
  BY <1>2, KindsLess
<1> HIDE DEF u
<1>5. /\ ListsOk(r) /\ (Full(u, kinds) => r = u)
      /\ ~Full(u, kinds) => RangesOf(r) = Added(RangesOf(u), fd, kinds)
  BY <1>1, <1>2, <1>3, ListsWatchIs
<1>6. CASE Full(u, kinds)
  BY <1>4, <1>5, <1>6 DEF u
<1>7. CASE ~Full(u, kinds) /\ fd \in DOMAIN v
  <2>1. KindsOf(RangesOf(r)) = [v EXCEPT ![fd] = kinds]
    BY <1>1, <1>2, <1>5, <1>7, KindsOther
  <2> QED BY <1>5, <1>7, <2>1 DEF u
<1>8. CASE ~Full(u, kinds) /\ fd \notin DOMAIN v
  <2>1. fd \notin DOMAIN KindsOf(RangesOf(u))
    BY <1>4, PlusAfterMinus
  <2>2. KindsOf(RangesOf(r)) = Plus(KindsOf(RangesOf(u)), fd, kinds)
    BY <1>1, <1>5, <1>8, <2>1, KindsMore
  <2>3. KindsOf(RangesOf(r)) = Plus(v, fd, kinds)
    BY <1>4, <2>2, PlusAfterMinus
  <2> QED BY <1>5, <1>8, <2>3 DEF u
<1> QED BY <1>6, <1>7, <1>8

\* The inductive invariant of the tables.
TablesOk == VectorsOk /\ SetsOk(sets) /\ ListsOk(lists)

\* The tables are empty at first.
LEMMA TablesAtFirst == ASSUME WatchersInit PROVE TablesOk
BY VectorsCleared, NothingWatched DEF WatchersInit, TablesOk, VectorsOk, fdsWatched, descsWatched

\* Every call keeps the tables right.
LEMMA TablesKept == ASSUME TablesOk, [WatchersNext]_watcherVars PROVE TablesOk'
<1>1. CASE UNCHANGED watcherVars
  BY <1>1 DEF TablesOk, VectorsOk, watcherVars, fdsWatched, descsWatched
<1>2. ASSUME NEW fd \in Descriptors, NEW kinds \in Wanted, Watch(fd, kinds) PROVE TablesOk'
  BY <1>2, VectorsWatch, SetsAfterWatch, ListsAfterWatch DEF TablesOk, Watch
<1>3. ASSUME NEW fd \in Descriptors, NEW kinds \in Wanted, Modify(fd, kinds) PROVE TablesOk'
  BY <1>3, VectorsModify, SetsAfterModify, ListsAfterModify DEF TablesOk, Modify
<1>4. ASSUME NEW fd \in Descriptors, Unwatch(fd) PROVE TablesOk'
  BY <1>4, VectorsUnwatch, SetsAfterUnwatch, ListsAfterUnwatch DEF TablesOk, Unwatch
<1>5. CASE ClearAll
  BY <1>5, VectorsCleared, NothingWatched DEF ClearAll, TablesOk, VectorsOk, fdsWatched, descsWatched
<1> QED BY <1>1, <1>2, <1>3, <1>4, <1>5 DEF WatchersNext

\* What the sets hold.
LEMMA SelectWatchedIs == SelectWatched = KindsOf(sets.has) /\ InSets(sets) = DOMAIN SelectWatched
BY DEF SelectWatched, KindsOf, InSets

\* What lists hold, as sets.
LEMMA KindsInLists ==
  ASSUME NEW l
  PROVE  /\ [fd \in InLists(l) |-> {k \in Kinds : fd \in Range(l[k])}] = KindsOf(RangesOf(l))
         /\ InLists(l) = DOMAIN KindsOf(RangesOf(l))
<1>1. \A k \in Kinds : RangesOf(l)[k] = Range(l[k])
  BY DEF RangesOf
<1>2. InLists(l) = UNION {RangesOf(l)[k] : k \in Kinds}
  BY <1>1 DEF InLists
<1>3. \A fd : {k \in Kinds : fd \in Range(l[k])} = {k \in Kinds : fd \in RangesOf(l)[k]}
  BY <1>1
<1> QED BY <1>2, <1>3 DEF KindsOf

\* What the lists hold.
LEMMA ListsWatchedIs ==
  ListsWatched = KindsOf(RangesOf(lists)) /\ InLists(lists) = DOMAIN ListsWatched
BY KindsInLists DEF ListsWatched

\* Tables that are right make rounds that are complete.
LEMMA NothingIsMissed == ASSUME TablesOk PROVE MaxIsHighest /\ RoundsAreComplete
<1>1. MaxIsHighest
  BY DescriptorsAre DEF TablesOk, SetsOk, Topped, Small, MaxIsHighest
<1>2. RoundsAreComplete
  <2> DEFINE Asked(without, happens) ==
               [fd \in DOMAIN fdsWatched |-> Triggered(fdsWatched[fd] \ without, happens[fd])]
  <2> SUFFICES ASSUME NEW happens \in [Descriptors -> Happenings]
      PROVE  /\ IsRound(PollRound(fds, happens), Asked({}, happens))
             /\ IsRound(PollRound(descs, happens), Asked({"except"}, happens))
             /\ IsRound(SelectRound(sets, happens), SeenOf(SelectWatched, happens))
             /\ IsRound(ListsRound(lists, happens), SeenOf(ListsWatched, happens))
    BY DEF RoundsAreComplete, SeenOf
  <2>1. Table(fds) /\ Table(descs) /\ SetsOk(sets) /\ ListsOk(lists)
    BY DEF TablesOk, VectorsOk
  <2>2. IsRound(PollRound(fds, happens), Asked({}, happens))
    <3>1. IsRound(PollRound(fds, happens),
                  [fd \in DOMAIN fdsWatched |-> Triggered(fdsWatched[fd], happens[fd])])
      BY <2>1, PollRoundIs DEF fdsWatched
    <3>2. \A fd \in DOMAIN fdsWatched : fdsWatched[fd] \ {} = fdsWatched[fd]
      OBVIOUS
    <3>3. Asked({}, happens) =
            [fd \in DOMAIN fdsWatched |-> Triggered(fdsWatched[fd], happens[fd])]
      BY <3>2
    <3> QED BY <3>1, <3>3
  <2>3. IsRound(PollRound(descs, happens), Asked({"except"}, happens))
    <3>1. IsRound(PollRound(descs, happens),
                  [fd \in DOMAIN descsWatched |-> Triggered(descsWatched[fd], happens[fd])])
      BY <2>1, PollRoundIs DEF descsWatched
    <3>2. /\ DOMAIN descsWatched = DOMAIN fdsWatched
          /\ \A fd \in DOMAIN fdsWatched : descsWatched[fd] = fdsWatched[fd] \ {"except"}
      BY DEF TablesOk, VectorsOk, Polled
    <3>3. Asked({"except"}, happens) =
            [fd \in DOMAIN descsWatched |-> Triggered(descsWatched[fd], happens[fd])]
      BY <3>2
    <3> QED BY <3>1, <3>3
  <2>4. IsRound(SelectRound(sets, happens), SeenOf(SelectWatched, happens))
    BY <2>1, SelectRoundIs, SelectWatchedIs
  <2>5. IsRound(ListsRound(lists, happens), SeenOf(ListsWatched, happens))
    BY <2>1, ListsRoundIs, ListsWatchedIs
  <2> QED BY <2>2, <2>3, <2>4, <2>5
<1> QED BY <1>1, <1>2

\* A step of the sockets leaves the watchers alone or is one of theirs.
LEMMA WatchersStep ==
  ASSUME [SocketsNext]_<<type, vars, datagramVars, lifeVars, watcherVars>>
  PROVE  [WatchersNext]_watcherVars
BY DEF SocketsNext

\* After any sequence of calls, select()'s maxima are the highest descriptors of its
\* sets, and a round of any watcher hands over every watched descriptor something
\* happens to, once, with all of it.
THEOREM WatchersAreComplete == SocketsSpec => []WatchersMissNothing
<1>1. SocketsInit => TablesOk
  BY TablesAtFirst DEF SocketsInit
<1>2. TablesOk /\ [SocketsNext]_<<type, vars, datagramVars, lifeVars, watcherVars>> => TablesOk'
  BY WatchersStep, TablesKept
<1>3. TablesOk => WatchersMissNothing
  BY NothingIsMissed DEF WatchersMissNothing
<1> QED BY <1>1, <1>2, <1>3, PTL DEF SocketsSpec

-----------------------------------------------------------------------------
(* The tables are the set of descriptors of the base class.                *)

\* What the sets and the lists hold after a call.
LEMMA HeldAfter ==
  SelectWatched' = KindsOf(sets'.has) /\ ListsWatched' = KindsOf(RangesOf(lists'))
<1>1. SelectWatched' = KindsOf(sets'.has)
  BY DEF SelectWatched, KindsOf, InSets
<1>2. ListsWatched' = KindsOf(RangesOf(lists'))
  BY KindsInLists DEF ListsWatched
<1> QED BY <1>1, <1>2

\* What a call does to the vectors, it does to what poll() on Windows is asked for.
LEMMA DescsFollow ==
  ASSUME VectorsOk, VectorsOk', NEW fd, NEW kinds
  PROVE  /\ fd \in DOMAIN descsWatched <=> fd \in DOMAIN fdsWatched
         /\ fdsWatched' = Plus(fdsWatched, fd, kinds) =>
              descsWatched' = Plus(descsWatched, fd, kinds \ {"except"})
         /\ fdsWatched' = Other(fdsWatched, fd, kinds) =>
              descsWatched' = Other(descsWatched, fd, kinds \ {"except"})
         /\ fdsWatched' = Minus(fdsWatched, fd) => descsWatched' = Minus(descsWatched, fd)
<1>1. descsWatched = Polled(fdsWatched) /\ descsWatched' = Polled(fdsWatched')
  BY DEF VectorsOk
<1>2. fd \in DOMAIN descsWatched <=> fd \in DOMAIN fdsWatched
  BY <1>1 DEF Polled
<1> QED BY <1>1, <1>2, PolledIs

\* watch() does to each table what is said of it.
LEMMA WatchDoes ==
  ASSUME TablesOk, NEW fd \in Descriptors, NEW kinds \in Wanted, Watch(fd, kinds)
  PROVE  WatchIsWatch(fd, kinds)
<1>1. VectorsOk /\ VectorsOk' /\ SetsOk(sets) /\ ListsOk(lists)
  BY VectorsWatch DEF TablesOk
<1>2. /\ fd \notin DOMAIN fdsWatched /\ fdsWatched' = Plus(fdsWatched, fd, kinds)
      /\ queue = fdsWatched /\ queue' = fdsWatched'
  BY <1>1, VectorsWatch DEF VectorsOk
<1>3. /\ fd \notin DOMAIN descsWatched
      /\ descsWatched' = Plus(descsWatched, fd, kinds \ {"except"})
  BY <1>1, <1>2, DescsFollow
<1>4. /\ fd \notin DOMAIN SelectWatched /\ fd \notin DOMAIN ListsWatched
      /\ sets' = SelectWatch(sets, fd, kinds) /\ lists' = ListsWatch(lists, fd, kinds)
  BY SelectWatchedIs, ListsWatchedIs DEF Watch
<1>5. SelectWatched' = IF fd < SetSize THEN Plus(SelectWatched, fd, kinds) ELSE SelectWatched
  BY <1>1, <1>4, SetsAfterWatch, SelectWatchedIs, HeldAfter
<1>6. ListsWatched' = IF Full(lists, kinds) THEN ListsWatched ELSE Plus(ListsWatched, fd, kinds)
  BY <1>1, <1>4, ListsAfterWatch, ListsWatchedIs, HeldAfter
<1>7. OfPoll!Watch(fd, kinds) /\ OfQueue!Watch(fd, kinds) /\ OfDescs!Watch(fd, kinds \ {"except"})
  BY <1>2, <1>3 DEF Plus, OfPoll!Watch, OfQueue!Watch, OfDescs!Watch
<1>8. IF fd < SetSize THEN OfSelect!Watch(fd, kinds) ELSE UNCHANGED SelectWatched
  BY <1>4, <1>5 DEF Plus, OfSelect!Watch
<1>9. IF Full(lists, kinds) THEN UNCHANGED ListsWatched ELSE OfLists!Watch(fd, kinds)
  BY <1>4, <1>6 DEF Plus, OfLists!Watch
<1> QED BY <1>7, <1>8, <1>9 DEF WatchIsWatch

\* modify() does to each table what is said of it.
LEMMA ModifyDoes ==
  ASSUME TablesOk, NEW fd \in Descriptors, NEW kinds \in Wanted, Modify(fd, kinds)
  PROVE  ModifyIsModify(fd, kinds)
<1> DEFINE without == ListsUnwatch(lists, fd)
<1>1. VectorsOk /\ VectorsOk' /\ SetsOk(sets) /\ ListsOk(lists)
  BY VectorsModify DEF TablesOk
<1>2. /\ fdsWatched' = Other(fdsWatched, fd, kinds)
      /\ queue = fdsWatched /\ queue' = fdsWatched'
  BY <1>1, VectorsModify DEF VectorsOk
<1>3. descsWatched' = Other(descsWatched, fd, kinds \ {"except"})
  BY <1>1, <1>2, DescsFollow
<1>4. sets' = SelectModify(sets, fd, kinds) /\ lists' = ListsModify(lists, fd, kinds)
  BY DEF Modify
<1>5. /\ fd >= SetSize => SelectWatched' = SelectWatched /\ fd \notin DOMAIN SelectWatched
      /\ ~(fd >= SetSize) => SelectWatched' = IF fd \in DOMAIN SelectWatched
                                              THEN [SelectWatched EXCEPT ![fd] = kinds]
                                              ELSE Plus(SelectWatched, fd, kinds)
  BY <1>1, <1>4, SetsAfterModify, SelectWatchedIs, HeldAfter
<1>6. /\ Full(without, kinds) => ListsWatched' = Minus(ListsWatched, fd)
      /\ ~Full(without, kinds) => ListsWatched' = IF fd \in DOMAIN ListsWatched
                                                  THEN [ListsWatched EXCEPT ![fd] = kinds]
                                                  ELSE Plus(ListsWatched, fd, kinds)
  BY <1>1, <1>4, ListsAfterModify, ListsWatchedIs, HeldAfter
<1> HIDE DEF without
<1>7. OfPoll!Modify(fd, kinds) /\ OfQueue!Modify(fd, kinds) /\ OfDescs!Modify(fd, kinds \ {"except"})
  BY <1>2, <1>3 DEF Other, OfPoll!Modify, OfQueue!Modify, OfDescs!Modify
<1>8. IF fd \in DOMAIN SelectWatched \/ fd >= SetSize
      THEN OfSelect!Modify(fd, kinds) ELSE OfSelect!Watch(fd, kinds)
  BY <1>5 DEF Plus, OfSelect!Modify, OfSelect!Watch
<1>9. CASE Full(without, kinds)
  <2>1. OfLists!Unwatch(fd)
    BY <1>6, <1>9 DEF Minus, OfLists!Unwatch
  <2> QED BY <1>7, <1>8, <1>9, <2>1 DEF ModifyIsModify, without
<1>10. CASE ~Full(without, kinds) /\ fd \in DOMAIN ListsWatched
  <2>1. OfLists!Modify(fd, kinds)
    BY <1>6, <1>10 DEF OfLists!Modify
  <2> QED BY <1>7, <1>8, <1>10, <2>1 DEF ModifyIsModify, without
<1>11. CASE ~Full(without, kinds) /\ fd \notin DOMAIN ListsWatched
  <2>1. OfLists!Watch(fd, kinds)
    BY <1>6, <1>11 DEF Plus, OfLists!Watch
  <2> QED BY <1>7, <1>8, <1>11, <2>1 DEF ModifyIsModify, without
<1> QED BY <1>9, <1>10, <1>11

\* unwatch() does to each table what is said of it.
LEMMA UnwatchDoes ==
  ASSUME TablesOk, NEW fd \in Descriptors, Unwatch(fd)
  PROVE  UnwatchIsUnwatch(fd)
<1>1. VectorsOk /\ VectorsOk' /\ SetsOk(sets) /\ ListsOk(lists)
  BY VectorsUnwatch DEF TablesOk
<1>2. /\ fdsWatched' = Minus(fdsWatched, fd) /\ queue = fdsWatched /\ queue' = fdsWatched'
  BY <1>1, VectorsUnwatch DEF VectorsOk
<1>3. descsWatched' = Minus(descsWatched, fd)
  BY <1>1, <1>2, DescsFollow
<1>4. sets' = SelectUnwatch(sets, fd) /\ lists' = ListsUnwatch(lists, fd)
  BY DEF Unwatch
<1>5. SelectWatched' = Minus(SelectWatched, fd)
  BY <1>1, <1>4, SetsAfterUnwatch, SelectWatchedIs, HeldAfter
<1>6. ListsWatched' = Minus(ListsWatched, fd)
  BY <1>1, <1>4, ListsAfterUnwatch, ListsWatchedIs, HeldAfter
<1> QED BY <1>2, <1>3, <1>5, <1>6
        DEF Minus, UnwatchIsUnwatch, OfPoll!Unwatch, OfDescs!Unwatch, OfQueue!Unwatch,
            OfSelect!Unwatch, OfLists!Unwatch

\* clear() empties each table.
LEMMA ClearDoes == ASSUME ClearAll PROVE ClearIsClear
<1>1. fdsWatched' = <<>> /\ descsWatched' = <<>> /\ queue' = <<>>
  BY NothingWatched DEF ClearAll, fdsWatched, descsWatched
<1>2. SelectWatched' = <<>> /\ ListsWatched' = <<>>
  BY NothingWatched, HeldAfter DEF ClearAll
<1> QED BY <1>1, <1>2 DEF ClearIsClear, OfPoll!Clear, OfDescs!Clear, OfQueue!Clear, OfSelect!Clear,
                          OfLists!Clear

\* Each watcher's table implements the set of descriptors that the base class
\* describes, call by call, as far as the system's interface lets it.
THEOREM TablesImplementTheSet == SocketsSpec => TablesAreWatchSets
<1> DEFINE Calls == /\ \A fd \in Descriptors, kinds \in Wanted :
                         /\ Watch(fd, kinds) => WatchIsWatch(fd, kinds)
                         /\ Modify(fd, kinds) => ModifyIsModify(fd, kinds)
                    /\ \A fd \in Descriptors : Unwatch(fd) => UnwatchIsUnwatch(fd)
                    /\ ClearAll => ClearIsClear
<1>1. SocketsInit => /\ TablesOk /\ OfPoll!Init /\ OfDescs!Init /\ OfSelect!Init /\ OfLists!Init
                     /\ OfQueue!Init
  <2> SUFFICES ASSUME WatchersInit
               PROVE  /\ TablesOk /\ OfPoll!Init /\ OfDescs!Init /\ OfSelect!Init /\ OfLists!Init
                      /\ OfQueue!Init
    BY DEF SocketsInit
  <2>1. fdsWatched = <<>> /\ descsWatched = <<>> /\ queue = <<>>
    BY NothingWatched DEF WatchersInit, fdsWatched, descsWatched
  <2>2. SelectWatched = <<>> /\ ListsWatched = <<>>
    BY NothingWatched, SelectWatchedIs, ListsWatchedIs DEF WatchersInit
  <2> QED BY <2>1, <2>2, TablesAtFirst
          DEF OfPoll!Init, OfDescs!Init, OfSelect!Init, OfLists!Init, OfQueue!Init
<1>2. TablesOk => Calls
  BY WatchDoes, ModifyDoes, UnwatchDoes, ClearDoes
<1>3. TablesOk /\ [SocketsNext]_<<type, vars, datagramVars, lifeVars, watcherVars>> => TablesOk'
  BY WatchersStep, TablesKept
<1> HIDE DEF Calls
<1>4. TablesOk => [Calls]_watcherVars
  BY <1>2
<1>5. SocketsSpec => /\ OfPoll!Init /\ OfDescs!Init /\ OfSelect!Init /\ OfLists!Init /\ OfQueue!Init
                     /\ [][Calls]_watcherVars
  BY <1>1, <1>3, <1>4, PTL DEF SocketsSpec
<1> QED BY <1>5 DEF TablesAreWatchSets, Calls

=============================================================================
