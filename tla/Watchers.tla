------------------------------ MODULE Watchers ------------------------------
(***************************************************************************)
(* The tables behind the socket watchers, given the same calls: poll()'s   *)
(* vectors (socket/poll.h), the sets of select() on POSIX and on Windows   *)
(* (socket/select.h), and epoll()'s, which the kernel keeps                *)
(* (socket/epoll.h).                                                       *)
(***************************************************************************)
EXTENDS Integers, Sequences, FiniteSets, SequencesExt, FiniteSetsExt

CONSTANTS Descriptors,  \* descriptors the program has open or may have again
          SetSize,      \* FD_SETSIZE
          Wanted,       \* the sets of kinds a caller asks for
          Happenings    \* what may be the matter with a descriptor

Kinds == {"read", "write", "except"}

ASSUME WatcherAssumption ==
  /\ Descriptors \subseteq Nat /\ IsFiniteSet(Descriptors) /\ SetSize \in Nat
  /\ Wanted \subseteq (SUBSET Kinds) \ {{}}
  /\ Happenings \subseteq SUBSET (Kinds \cup {"error", "hangup"})

VARIABLES
  fds,   \* poll on POSIX: the pollfds, in the order they were pushed
  descs, \* poll on Windows: the same, where the last one takes an erased one's place
  sets,  \* select on POSIX: the three fd_sets and the highest descriptor in each
  lists, \* select on Windows: the array of each fd_set
  queue  \* epoll: the kernel's descriptors and the kinds they are watched for

watcherVars == <<fds, descs, sets, lists, queue>>

-----------------------------------------------------------------------------
\* SelectSeq for a set of elements.
Only(s, keep) ==
  LET kept[i \in 0..Len(s)] == IF i = 0 THEN <<>>
                               ELSE IF s[i] \in keep THEN Append(kept[i - 1], s[i]) ELSE kept[i - 1]
  IN  kept[Len(s)]

-----------------------------------------------------------------------------
(* poll.                                                                   *)

Place(t, fd) == SelectInSeq(t, LAMBDA entry : entry.fd = fd)

PollWatch(t, fd, kinds) == Append(t, [fd |-> fd, events |-> kinds])
PollModify(t, fd, kinds) ==
  IF Place(t, fd) = 0 THEN t ELSE [t EXCEPT ![Place(t, fd)].events = kinds]
PollUnwatch(t, fd) == IF Place(t, fd) = 0 THEN t ELSE RemoveAt(t, Place(t, fd))

\* On Windows, exceptional events cannot be asked for, and are left out.
KernelFlags(kinds) == kinds \ {"except"}

DescsWatch(t, fd, kinds) == PollWatch(t, fd, KernelFlags(kinds))
DescsModify(t, fd, kinds) == PollModify(t, fd, KernelFlags(kinds))

\* There, too: swapped with the last one, and the vector resized.
DescsUnwatch(t, fd) ==
  IF Place(t, fd) = 0 THEN t ELSE Front([t EXCEPT ![Place(t, fd)] = t[Len(t)]])

\* revents: what was asked for and happens, errors and hangups in any case.
Triggered(kinds, happens) == happens \cap (kinds \cup {"error", "hangup"})

\* The calls of fn, from the copies of the entries with revents.
PollRound(t, happens) ==
  LET events == [i \in DOMAIN t |-> [fd |-> t[i].fd, flags |-> Triggered(t[i].events, happens[t[i].fd])]]
  IN  Only(events, {event \in Range(events) : event.flags # {}})

-----------------------------------------------------------------------------
(* select on POSIX.                                                        *)

NoSets == [has |-> [k \in Kinds |-> {}], max |-> [k \in Kinds |-> -1]]

\* The highest member up to start, -1 if there is none.
Highest(members, start) ==
  LET candidates == {fd \in members : fd <= start}
  IN  IF candidates = {} THEN -1 ELSE CHOOSE fd \in candidates : \A other \in candidates : other <= fd

Larger(a, b) == IF a < b THEN b ELSE a

SelectWatch(s, fd, kinds) ==
  IF fd >= SetSize THEN s
  ELSE [has |-> [k \in Kinds |-> IF k \in kinds THEN s.has[k] \cup {fd} ELSE s.has[k]],
        max |-> [k \in Kinds |-> IF k \in kinds THEN Larger(fd, s.max[k]) ELSE s.max[k]]]

\* Mutant: the search for the new maximum is left out.
SelectUnwatchResets(s, fd) ==
  IF fd >= SetSize THEN s
  ELSE [has |-> [k \in Kinds |-> s.has[k] \ {fd}],
        max |-> [k \in Kinds |-> IF fd = s.max[k] THEN -1 ELSE s.max[k]]]

SelectUnwatch(s, fd) ==
  IF fd >= SetSize THEN s
  ELSE [has |-> [k \in Kinds |-> s.has[k] \ {fd}],
        max |-> [k \in Kinds |-> IF fd = s.max[k] THEN Highest(s.has[k] \ {fd}, s.max[k]) ELSE s.max[k]]]

\* The base class: unwatch() and watch(), whether or not the descriptor is in the sets.
SelectModify(s, fd, kinds) == SelectWatch(SelectUnwatch(s, fd), fd, kinds)

\* The kernel's answer: a hangup is readable, an error readable and writable.
Sees(k, happens) ==
  CASE k = "read" -> happens \cap {"read", "error", "hangup"} # {}
    [] k = "write" -> happens \cap {"write", "error"} # {}
    [] k = "except" -> "except" \in happens

\* The loop comes to one descriptor, unless all that had a bit are counted out.
Look(done, fd, left) ==
  LET flags == {k \in Kinds : fd \in left[k]}
  IN  IF done.ready = 0 \/ flags = {} THEN done
      ELSE [ready |-> done.ready - 1, calls |-> Append(done.calls, [fd |-> fd, flags |-> flags])]

\* The bits that are left in the copies of the sets, and the loop up to the highest
\* descriptor, which counts down from the number of bits.
SelectRound(s, happens) ==
  LET top == Max({s.max[k] : k \in Kinds})
      left == [k \in Kinds |-> {fd \in s.has[k] : fd <= top /\ Sees(k, happens[fd])}]
      bits == Cardinality(left["read"]) + Cardinality(left["write"]) + Cardinality(left["except"])
      done[i \in 0..(top + 1)] == IF i = 0 THEN [ready |-> bits, calls |-> <<>>]
                                  ELSE Look(done[i - 1], i - 1, left)
  IN  done[top + 1].calls

-----------------------------------------------------------------------------
(* select on Windows, where an fd_set is a list of at most FD_SETSIZE.     *)

NoLists == [k \in Kinds |-> <<>>]

Full(l, kinds) == \E k \in kinds : Len(l[k]) = SetSize

ListsWatch(l, fd, kinds) ==
  IF Full(l, kinds) THEN l
  ELSE [k \in Kinds |-> IF k \in kinds /\ fd \notin Range(l[k]) THEN Append(l[k], fd) ELSE l[k]]

\* Mutant: only the first list is cleared of it.
ListsUnwatchFirst(l, fd) == [l EXCEPT !["read"] = RemoveFirst(@, fd)]

ListsUnwatch(l, fd) == [k \in Kinds |-> RemoveFirst(l[k], fd)]

\* The base class's modify(), as select's on POSIX.
ListsModify(l, fd, kinds) == ListsWatch(ListsUnwatch(l, fd), fd, kinds)

\* The descriptors of a list, lowest first.
Sorted(s) == CHOOSE r \in [DOMAIN s -> Range(s)] :
               Range(r) = Range(s) /\ \A i, j \in DOMAIN s : i < j => r[i] < r[j]

\* The lowest descriptor that a list begins with is taken from every list that does.
Advance(done) ==
  LET waiting == {k \in Kinds : done.rest[k] # <<>>}
      lowest == Min({Head(done.rest[k]) : k \in waiting})
      flags == {k \in waiting : Head(done.rest[k]) = lowest}
  IN  IF waiting = {} THEN done
      ELSE [rest |-> [k \in Kinds |-> IF k \in flags THEN Tail(done.rest[k]) ELSE done.rest[k]],
            calls |-> Append(done.calls, [fd |-> lowest, flags |-> flags])]

\* for_all_descriptors(): one list as it is, several of them merged, lowest first.
Merged(left) ==
  LET lengths == Len(left["read"]) + Len(left["write"]) + Len(left["except"])
      used == {k \in Kinds : left[k] # <<>>}
      done[i \in 0..lengths] ==
        IF i = 0 THEN [rest |-> [k \in Kinds |-> Sorted(left[k])], calls |-> <<>>] ELSE Advance(done[i - 1])
  IN  IF \E k \in Kinds : used \subseteq {k}
      THEN LET k == CHOOSE k \in Kinds : used \subseteq {k}
           IN  [i \in DOMAIN left[k] |-> [fd |-> left[k][i], flags |-> {k}]]
      ELSE done[lengths].calls

\* The kernel leaves the descriptors in the lists for which something happens.
ListsRound(l, happens) ==
  Merged([k \in Kinds |-> Only(l[k], {fd \in Descriptors : Sees(k, happens[fd])})])

-----------------------------------------------------------------------------
(* epoll: what is already in the kernel's set cannot be added, and what is *)
(* not cannot be modified; a descriptor that is closed leaves by itself.   *)

QueueWatch(q, fd, kinds) ==
  IF fd \in DOMAIN q THEN q
  ELSE [other \in DOMAIN q \cup {fd} |-> IF other = fd THEN kinds ELSE q[other]]
QueueModify(q, fd, kinds) == IF fd \in DOMAIN q THEN [q EXCEPT ![fd] = kinds] ELSE q
QueueUnwatch(q, fd) == [other \in DOMAIN q \ {fd} |-> q[other]]

-----------------------------------------------------------------------------
InSets(s) == UNION {s.has[k] : k \in Kinds}
InLists(l) == UNION {Range(l[k]) : k \in Kinds}

WatchersInit == fds = <<>> /\ descs = <<>> /\ sets = NoSets /\ lists = NoLists /\ queue = <<>>

\* "The descriptor must not already exist in the set", whichever the watcher is.
Watch(fd, kinds) ==
  /\ Place(fds, fd) = 0 /\ fd \notin InSets(sets) \cup InLists(lists)
  /\ fds' = PollWatch(fds, fd, kinds) /\ descs' = DescsWatch(descs, fd, kinds)
  /\ sets' = SelectWatch(sets, fd, kinds)
  /\ lists' = ListsWatch(lists, fd, kinds)
  /\ queue' = QueueWatch(queue, fd, kinds)

Modify(fd, kinds) ==
  /\ fds' = PollModify(fds, fd, kinds) /\ descs' = DescsModify(descs, fd, kinds)
  /\ sets' = SelectModify(sets, fd, kinds)
  /\ lists' = ListsModify(lists, fd, kinds)
  /\ queue' = QueueModify(queue, fd, kinds)

\* unwatch() of an open descriptor, or unwatch_dead_descriptor() of one that is closed.
Unwatch(fd) ==
  /\ fds' = PollUnwatch(fds, fd) /\ descs' = DescsUnwatch(descs, fd)
  /\ sets' = SelectUnwatch(sets, fd)
  /\ lists' = ListsUnwatch(lists, fd)
  /\ queue' = QueueUnwatch(queue, fd)

ClearAll == fds' = <<>> /\ descs' = <<>> /\ sets' = NoSets /\ lists' = NoLists /\ queue' = <<>>

WatchersNext ==
  \/ \E fd \in Descriptors, kinds \in Wanted : Watch(fd, kinds) \/ Modify(fd, kinds)
  \/ \E fd \in Descriptors : Unwatch(fd)
  \/ ClearAll

WatchersSpec == WatchersInit /\ [][WatchersNext]_watcherVars

-----------------------------------------------------------------------------
(* Properties.                                                             *)

(* The highest descriptor of each fd_set, which the kernel and the loop stop at, is    *)
(* the highest one after any sequence of calls (watch and unwatch of select).          *)
MaxIsHighest ==
  \A k \in Kinds :
    /\ sets.has[k] \subseteq {fd \in Descriptors : fd < SetSize}
    /\ \A fd \in sets.has[k] : fd <= sets.max[k]
    /\ sets.max[k] = -1 \/ sets.max[k] \in sets.has[k]

IsRound(calls, expected) ==
  /\ IsInjective([i \in DOMAIN calls |-> calls[i].fd])
  /\ Range(calls) = {[fd |-> fd, flags |-> expected[fd]] : fd \in {fd \in DOMAIN expected : expected[fd] # {}}}

PollWatched(t) == [fd \in {t[i].fd : i \in DOMAIN t} |-> t[Place(t, fd)].events]
fdsWatched == PollWatched(fds)
descsWatched == PollWatched(descs)
SelectWatched == [fd \in InSets(sets) |-> {k \in Kinds : fd \in sets.has[k]}]
ListsWatched == [fd \in InLists(lists) |-> {k \in Kinds : fd \in Range(lists[k])}]

(* A round hands over every watched descriptor something happens to, once, with all   *)
(* of what happens, in whichever order and however full the tables are: select's loop  *)
(* does not count its answers out too early, and merging misses nothing.  poll() on    *)
(* Windows hands over all of what was asked for but the exceptional events.            *)
RoundsAreComplete ==
  \A happens \in [Descriptors -> Happenings] :
    LET Seen(watched) == [fd \in DOMAIN watched |-> {k \in watched[fd] : Sees(k, happens[fd])}]
        Asked(without) ==
          [fd \in DOMAIN fdsWatched |-> Triggered(fdsWatched[fd] \ without, happens[fd])]
    IN  /\ IsRound(PollRound(fds, happens), Asked({}))
        /\ IsRound(PollRound(descs, happens), Asked({"except"}))
        /\ IsRound(SelectRound(sets, happens), Seen(SelectWatched))
        /\ IsRound(ListsRound(lists, happens), Seen(ListsWatched))

OfPoll == INSTANCE WatchSet WITH watched <- fdsWatched
OfDescs == INSTANCE WatchSet WITH watched <- descsWatched
OfSelect == INSTANCE WatchSet WITH watched <- SelectWatched
OfLists == INSTANCE WatchSet WITH watched <- ListsWatched
OfQueue == INSTANCE WatchSet WITH watched <- queue

WatchIsWatch(fd, kinds) ==
  /\ OfPoll!Watch(fd, kinds) /\ OfQueue!Watch(fd, kinds)
  /\ OfDescs!Watch(fd, kinds \ {"except"})
  /\ IF fd < SetSize THEN OfSelect!Watch(fd, kinds) ELSE UNCHANGED SelectWatched
  /\ IF Full(lists, kinds) THEN UNCHANGED ListsWatched ELSE OfLists!Watch(fd, kinds)

ModifyIsModify(fd, kinds) ==
  LET without == ListsUnwatch(lists, fd)
  IN  /\ OfPoll!Modify(fd, kinds) /\ OfQueue!Modify(fd, kinds)
      /\ OfDescs!Modify(fd, kinds \ {"except"})
      /\ IF fd \in DOMAIN SelectWatched \/ fd >= SetSize
         THEN OfSelect!Modify(fd, kinds) ELSE OfSelect!Watch(fd, kinds)
      /\ CASE Full(without, kinds) -> OfLists!Unwatch(fd)
           [] ~Full(without, kinds) /\ fd \in DOMAIN ListsWatched -> OfLists!Modify(fd, kinds)
           [] ~Full(without, kinds) /\ fd \notin DOMAIN ListsWatched -> OfLists!Watch(fd, kinds)

UnwatchIsUnwatch(fd) ==
  /\ OfPoll!Unwatch(fd) /\ OfDescs!Unwatch(fd) /\ OfQueue!Unwatch(fd)
  /\ OfSelect!Unwatch(fd) /\ OfLists!Unwatch(fd)

ClearIsClear == OfPoll!Clear /\ OfDescs!Clear /\ OfSelect!Clear /\ OfLists!Clear /\ OfQueue!Clear

(* Each table is the set of descriptors that the base class describes, and each call   *)
(* does to it what is said of that call, whatever the vector, the bits or the lists    *)
(* look like, except that:  poll() on Windows is never asked for exceptional events;   *)
(* select() cannot take every descriptor, and says so; its modify() is the base        *)
(* class's, which watches a descriptor that was not in the set ("nothing happens"),    *)
(* and which only unwatches one when there is no room for its new kinds.               *)
TablesAreWatchSets ==
  /\ OfPoll!Init /\ OfDescs!Init /\ OfSelect!Init /\ OfLists!Init /\ OfQueue!Init
  /\ [][/\ \A fd \in Descriptors, kinds \in Wanted :
              /\ Watch(fd, kinds) => WatchIsWatch(fd, kinds)
              /\ Modify(fd, kinds) => ModifyIsModify(fd, kinds)
        /\ \A fd \in Descriptors : Unwatch(fd) => UnwatchIsUnwatch(fd)
        /\ ClearAll => ClearIsClear]_watcherVars

=============================================================================
