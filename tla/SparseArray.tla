---------------------------- MODULE SparseArray ----------------------------
(***************************************************************************)
(* sparse_array (containers/sparse_array.h): a map from the first index of *)
(* every run of consecutive keys to the vector of its values.              *)
(***************************************************************************)
EXTENDS Integers, Sequences, FiniteSetsExt

CONSTANTS MinKey, MaxKey,     \* the keys that are used
          Values,             \* the values that are stored
          Default,            \* Value()
          NewChunkValue,      \* the element of std::vector<Value>{size_t(1)}
          RangesMayStartInGap \* whether callers name ranges whose first key lies between two runs

ASSUME SparseArrayAssumption ==
  /\ MinKey \in Int /\ MaxKey \in Int /\ MinKey <= 0 /\ 0 <= MaxKey
  /\ Default \in Values /\ NewChunkValue \in Values /\ RangesMayStartInGap \in BOOLEAN

VARIABLES
  chunks,    \* m_data
  stored     \* m_stored

arrayVars == <<chunks, stored>>

Keys == MinKey..MaxKey

-----------------------------------------------------------------------------
(* Chunks.                                                                 *)

NoChunks == [k \in {} |-> <<>>]

LastIndex(c, k) == k + Len(c[k])                      \* chunk_last_index
InChunk(c, k, idx) == k <= idx /\ idx < LastIndex(c, k)

\* The chunks before upper_bound(idx), the last one of them, and those from it on.
UpTo(c, idx) == {k \in DOMAIN c : k <= idx}
Above(c, idx) == {k \in DOMAIN c : idx < k}
Greatest(set) == CHOOSE k \in set : \A other \in set : other <= k
Least(set) == CHOOSE k \in set : \A other \in set : k <= other
Chunk(c, idx) == Greatest(UpTo(c, idx))

IsStored(c, idx) == UpTo(c, idx) # {} /\ InChunk(c, Chunk(c, idx), idx)
At(c, idx) == IF IsStored(c, idx) THEN c[Chunk(c, idx)][idx - Chunk(c, idx) + 1] ELSE Default

SpanBegin(c) == IF DOMAIN c = {} THEN 0 ELSE Least(DOMAIN c)
SpanEnd(c) == IF DOMAIN c = {} THEN 0 ELSE LastIndex(c, Greatest(DOMAIN c))

PutChunk(c, k, values) == [i \in DOMAIN c \cup {k} |-> IF i = k THEN values ELSE c[i]]
DropChunks(c, ks) == [i \in DOMAIN c \ ks |-> c[i]]

\* Mutant: runs that touch stay two chunks.
CompactNever(c, first) == c

\* compact_chunks(): the chunk is joined with the one after it if they touch.
Compact(c, first) ==
  LET above == Above(c, first)
      second == Least(above)
  IN  IF above # {} /\ LastIndex(c, first) = second
      THEN DropChunks(PutChunk(c, first, c[first] \o c[second]), {second})
      ELSE c

-----------------------------------------------------------------------------
(* The operations.                                                         *)

\* ref(): an element that is not stored yet is appended to the chunk before it or
\* makes a chunk of its own, which may close the gap to the next one.
Ref(c, idx) ==
  LET k == Chunk(c, idx)
      appends == UpTo(c, idx) # {} /\ idx = LastIndex(c, k)
  IN  IF IsStored(c, idx) THEN c
      ELSE IF appends THEN Compact(PutChunk(c, k, Append(c[k], Default)), k)
      ELSE Compact(PutChunk(c, idx, <<NewChunkValue>>), idx)

Assign(c, idx, v) == LET k == Chunk(c, idx) IN [c EXCEPT ![k] = [@ EXCEPT ![idx - k + 1] = v]]

\* unstore(): pops the last element of a chunk, or its first under a new key, or splits it.
Unstore(c, idx) ==
  LET k == Chunk(c, idx)
      rest == SubSeq(c[k], idx - k + 2, Len(c[k]))
      head == SubSeq(c[k], 1, idx - k)
      left == IF head = <<>> THEN DropChunks(c, {k}) ELSE PutChunk(c, k, head)
  IN  IF ~IsStored(c, idx) THEN c
      ELSE IF rest = <<>> THEN left ELSE PutChunk(left, idx + 1, rest)

ClampFirst(c, first) == IF first < SpanBegin(c) THEN SpanBegin(c) ELSE first
ClampLast(c, last) == IF SpanEnd(c) < last THEN SpanEnd(c) ELSE last

\* Mutant: the chunk that reaches into the range is left as it is.
UnstoreRangeWhole(c, from, to) ==
  LET first == ClampFirst(c, from)
      last == ClampLast(c, to) - 1
      within == {k \in DOMAIN c : first <= k /\ k <= last}
  IN  IF last < first THEN c ELSE DropChunks(Unstore(c, last), within)

\* unstore(first, last): the last element, then every chunk that begins in the range;
\* the chunk before them is cut off at first, or, should it end before, extended to it.
UnstoreRange(c, from, to) ==
  LET first == ClampFirst(c, from)
      last == ClampLast(c, to) - 1
      d == Unstore(c, last)
      within == {k \in DOMAIN d : first <= k /\ k < last}
      k == Chunk(d, first)
      Resized(values, n) == [i \in 1..n |-> IF i <= Len(values) THEN values[i] ELSE Default]
  IN  IF last < first THEN c
      ELSE IF last = first \/ first \in within \/ UpTo(d, first) = {} THEN DropChunks(d, within)
      ELSE PutChunk(DropChunks(d, within), k, Resized(d[k], first - k))

\* The chunks from last on, renumbered, and the one at first joined with the one before.
Shift(c, first, last) ==
  LET Old(k) == IF k < first THEN k ELSE k + (last - first)
      moved == {IF k < last THEN k ELSE k - (last - first) : k \in DOMAIN c}
  IN  [k \in moved |-> c[Old(k)]]

EraseRange(c, first, last) ==
  LET d == Shift(UnstoreRange(c, first, last), first, last)
      before == UpTo(d, first - 1)
  IN  IF ~(first < last) THEN c
      ELSE IF first \in DOMAIN d /\ before # {} THEN Compact(d, Greatest(before)) ELSE d

\* How many elements leave the count in unstore(first, last): one for every element of a
\* chunk that is dropped, and what the chunk before it loses, be it less than nothing.
Removed(c, from, to) ==
  LET first == ClampFirst(c, from)
      last == ClampLast(c, to) - 1
      d == Unstore(c, last)
      within == {k \in DOMAIN d : first <= k /\ k < last}
      k == Chunk(d, first)
      one == IF IsStored(c, last) THEN 1 ELSE 0
      whole == MapThenSumSet(LAMBDA i : Len(d[i]), within)
  IN  IF last < first THEN 0
      ELSE IF last = first \/ first \in within \/ UpTo(d, first) = {} THEN one + whole
      ELSE one + whole + LastIndex(d, k) - first

-----------------------------------------------------------------------------

ArrayInit == chunks = NoChunks /\ stored = 0

\* array[idx], without and with an assignment to it.
Touch(idx) == /\ chunks' = Ref(chunks, idx)
              /\ stored' = stored + (IF IsStored(chunks, idx) THEN 0 ELSE 1)

Store(idx, v) == /\ chunks' = Assign(Ref(chunks, idx), idx, v)
                 /\ stored' = stored + (IF IsStored(chunks, idx) THEN 0 ELSE 1)

PushBack(v) == SpanEnd(chunks) \in Keys /\ Store(SpanEnd(chunks), v)

UnstoreOne(idx) == /\ chunks' = Unstore(chunks, idx)
                   /\ stored' = stored - (IF IsStored(chunks, idx) THEN 1 ELSE 0)

\* The range, cut to the span, has a first key that nothing is stored under.
StartsInGap(first, last) ==
  ClampFirst(chunks, first) + 1 < ClampLast(chunks, last) /\ ~IsStored(chunks, ClampFirst(chunks, first))

Allowed(first, last) == RangesMayStartInGap \/ ~StartsInGap(first, last)

UnstoreMany(first, last) ==
  /\ Allowed(first, last)
  /\ chunks' = UnstoreRange(chunks, first, last)
  /\ stored' = stored - Removed(chunks, first, last)

\* erase(idx) is the range of one key.
Erase(first, last) ==
  /\ Allowed(first, last) /\ first < last
  /\ chunks' = EraseRange(chunks, first, last)
  /\ stored' = stored - Removed(chunks, first, last)

PopBack == Erase(SpanEnd(chunks) - 1, SpanEnd(chunks))

ClearArray == chunks' = NoChunks /\ stored' = 0

ArrayNext ==
  \/ \E idx \in Keys : Touch(idx) \/ UnstoreOne(idx)
  \/ \E idx \in Keys, v \in Values : Store(idx, v)
  \/ \E v \in Values : PushBack(v)
  \/ \E first, last \in MinKey..(MaxKey + 1) : UnstoreMany(first, last) \/ Erase(first, last)
  \/ PopBack
  \/ ClearArray

ArraySpec == ArrayInit /\ [][ArrayNext]_arrayVars

-----------------------------------------------------------------------------
(* Properties.                                                             *)

StoredKeys(c) == {i \in (MinKey - 1)..(MaxKey + 1) : IsStored(c, i)}

(* Every chunk holds a run of keys that cannot be longer: no chunk is empty, overlaps  *)
(* another or ends where the next one begins.  Otherwise upper_bound() would find the  *)
(* wrong chunk and runs() would not count the runs (ref, unstore, erase).              *)
ChunksAreRuns ==
  \A k \in DOMAIN chunks :
    /\ Len(chunks[k]) > 0
    /\ \A other \in DOMAIN chunks : k < other => LastIndex(chunks, k) < other

(* The counter of stored elements agrees with the chunks, on which empty() and with    *)
(* it every bound of the array depend, after any sequence of operations.               *)
StoredIsCounted == stored = Cardinality(StoredKeys(chunks))

Elements == [i \in StoredKeys(chunks) |-> At(chunks, i)]
Map == INSTANCE ArrayMap WITH elements <- Elements

(* Seen through at() the array is a partial function from keys to values: writing,    *)
(* splitting, joining and renumbering chunks never touches another element, and what a *)
(* key that is only touched gets depends on the key before it and on nothing else.     *)
ArrayIsMap == Map!Init /\ [][Map!Next]_Elements

(* "Unstores [first, last)" (the comment on unstore()): no other key changes.          *)
RangeIsUnstored ==
  \A first, last \in MinKey..(MaxKey + 1) :
    StoredKeys(UnstoreRange(chunks, first, last)) = StoredKeys(chunks) \ (first..(last - 1))

(* The chunks and the counter fit together.                                            *)
ArrayConsistent == ChunksAreRuns /\ StoredIsCounted

=============================================================================
