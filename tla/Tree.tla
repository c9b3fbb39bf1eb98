-------------------------------- MODULE Tree --------------------------------
(***************************************************************************)
(* tree (containers/tree.h): nodes on a heap, each with a pointer to its   *)
(* parent and to its children, which it owns.  With a fixed number of      *)
(* children a node has that many places, of which some are empty; with     *)
(* zero of them (the specialisation, "dynamic" here) it has a vector.      *)
(*                                                                         *)
(* Copying is as C++98 compiles it: later standards have a variadic        *)
(* constructor that takes its place and does not compile.  operator== and  *)
(* follow_path() compile in no standard and are left out, as are the       *)
(* sibling iterators.                                                      *)
(***************************************************************************)
EXTENDS Integers, SequencesExt, FiniteSetsExt

CONSTANTS Nodes,         \* the addresses there are, 1..n
          Marks          \* what a node holds; 0 is T()

\* Two tree objects of the application and the one that functions make on the stack.
A == 1
B == 2
Temp == 3
Roots == {A, B, Temp}

ASSUME TreeAssumption == Nodes = 1..Cardinality(Nodes) /\ Roots \subseteq Nodes /\ 0 \in Marks

Arity == 2       \* children_per_node of a tree that is not dynamic
Null == 0        \* NULL, which is no address

VARIABLES
  dynamic,   \* whether the trees are of the specialisation
  heap,      \* what is at every address
  it         \* an iterator the application keeps

treeVars == <<dynamic, heap, it>>

-----------------------------------------------------------------------------
(* Nodes.                                                                  *)

NoChildren == IF dynamic THEN <<>> ELSE <<Null, Null>>

Node(value, parent) == [live |-> TRUE, parent |-> parent, children |-> NoChildren, value |-> value]
Dead == [live |-> FALSE, parent |-> Null, children |-> NoChildren, value |-> 0]

IsEmpty(h, n) == h[n].parent = Null
IsRoot(h, n) == h[n].parent \in {Null, n}
Kids(h, n) == SelectSeq(h[n].children, LAMBDA c : c # Null)
HasChild(h, n, i) == i \in DOMAIN h[n].children /\ h[n].children[i] # Null
IsLeaf(h, n) == Kids(h, n) = <<>>
IndexInParent(h, n) == CHOOSE i \in DOMAIN h[h[n].parent].children : h[h[n].parent].children[i] = n

\* Nodes that could still be allocated, and the next one.
Free(h) == {n \in Nodes \ Roots : ~h[n].live}
Fresh(h) == Min(Free(h))

RECURSIVE Subtree(_, _)
Subtree(h, n) == {n} \cup UNION {Subtree(h, h[n].children[i]) : i \in {j \in DOMAIN h[n].children : h[n].children[j] # Null}}

\* What a tree looks like, wherever its nodes are.
RECURSIVE Shape(_, _)
Shape(h, n) == IF n = Null THEN <<>>
               ELSE <<h[n].value, [i \in DOMAIN h[n].children |-> Shape(h, h[n].children[i])]>>

Upgrade(h, n) == IF IsEmpty(h, n) THEN [h EXCEPT ![n].parent = n] ELSE h

-----------------------------------------------------------------------------
(* Building and destroying.                                                *)

Delete(h, nodes) == [m \in Nodes |-> IF m \in nodes THEN Dead ELSE h[m]]

\* ~tree() by recursion, followed by the release of the node itself.
Destroy(h, n) == IF n = Null THEN h ELSE Delete(h, Subtree(h, n))

\* ~tree() by iteration: down to a child whose place is cleared, and from a node
\* without children back to its parent, deleting it.
RECURSIVE DestroyStep(_, _, _)
DestroyStep(h, this, n) ==
  LET places == {i \in DOMAIN h[n].children : h[n].children[i] # Null}
      i == IF dynamic THEN Max(places) ELSE Min(places)
      Without == IF dynamic THEN RemoveAt(h[n].children, i) ELSE [h[n].children EXCEPT ![i] = Null]
  IN  IF places # {} THEN DestroyStep([h EXCEPT ![n].children = Without], this, h[n].children[i])
      ELSE IF n = this THEN Delete(h, {n})
      ELSE DestroyStep(Delete(h, {n}), this, h[n].parent)
DestroyIteratively(h, n) == DestroyStep(h, n, n)

EraseChild(h, n, i) ==
  LET d == Destroy(h, h[n].children[i])
  IN  [d EXCEPT ![n].children = IF dynamic THEN RemoveAt(@, i) ELSE [@ EXCEPT ![i] = Null]]

EraseChildren(h, n) ==
  LET d == Delete(h, Subtree(h, n) \ {n}) IN [d EXCEPT ![n].children = NoChildren]

\* erase(value), which the specialisation gets wrong by one place.
EraseValue(h, n, v) ==
  LET places == {i \in 1..Arity : HasChild(h, n, i) /\ h[h[n].children[i]].value = v}
  IN  FoldSet(LAMBDA i, d : EraseChild(d, n, i), h, places)

\* A child is looked for among its siblings; the specialisation looks at no more places
\* than the child itself has children.
ClearToEmpty(h, n) ==
  LET p == h[n].parent
      places == IF dynamic THEN 1..Len(h[n].children) ELSE 1..Arity
  IN  CASE p = Null -> h
        [] p = n -> [EraseChildren(h, n) EXCEPT ![n].parent = Null]
        [] p \notin {Null, n} /\ (\E i \in places : HasChild(h, p, i) /\ h[p].children[i] = n) ->
             EraseChild(h, p, IndexInParent(h, n))
        [] OTHER -> h

\* A node that holds v at the end of a vector or at an empty place.
Add(h, n, i, v) ==
  LET new == Fresh(h)
  IN  [h EXCEPT ![new] = Node(v, n),
                ![n].children = IF dynamic THEN Append(@, new) ELSE [@ EXCEPT ![i] = new]]

\* child(index): the vector grows up to the index.
RECURSIVE Child(_, _, _)
Child(h, n, i) == IF HasChild(h, n, i) THEN h ELSE Child(Add(h, n, i, 0), n, i)

SetValue(h, n, v) == [Upgrade(h, n) EXCEPT ![n].value = v]

\* Copies the children of a node to another one that has none yet, by recursion.
RECURSIVE CopyChildren(_, _, _, _)
CopyChildren(h, from, to, i) ==
  LET c == h[from].children[i]
      new == Fresh(h)
  IN  IF i > Len(h[from].children) THEN h
      ELSE IF c = Null THEN CopyChildren(h, from, to, i + 1)
      ELSE CopyChildren(CopyChildren(Add(h, to, i, h[c].value), c, new, 1), from, to, i + 1)

\* The same by iteration, with a clone that follows the original.
RECURSIVE CopyStep(_, _, _, _)
CopyStep(h, this, original, clone) ==
  LET missing == {i \in DOMAIN h[original].children :
                    HasChild(h, original, i) /\ ~HasChild(h, clone, i)}
      i == Min(missing)
      c == h[original].children[i]
  IN  IF missing # {} THEN CopyStep(Add(h, clone, i, h[c].value), this, c, Fresh(h))
      ELSE IF original = this THEN h
      ELSE CopyStep(h, this, h[original].parent, h[clone].parent)
CopyIteratively(h, from, to) == CopyStep(h, from, from, to)

CopyAssign(h, n, other) ==
  LET d == [EraseChildren(h, n) EXCEPT ![n].value = h[other].value]
      copied == CopyChildren(d, other, n, 1)
  IN  IF n = other THEN h
      ELSE IF IsRoot(h, n)
           THEN [copied EXCEPT ![n].parent = IF IsEmpty(h, other) THEN Null ELSE n] ELSE copied

\* Mutant: the children are not told.
AdoptSilently(h, n) == h

\* Every child of a node gets the node as its parent.
Adopt(h, n) == FoldLeft(LAMBDA d, c : [d EXCEPT ![c].parent = n], h, Kids(h, n))

\* The source keeps its parent, so that it does not become empty.
MoveAssign(h, n, other) ==
  LET d == [EraseChildren(h, n) EXCEPT ![n].value = h[other].value, ![n].children = h[other].children,
                                       ![other].children = NoChildren]
      moved == Adopt(d, n)
  IN  IF n = other THEN h
      ELSE IF IsRoot(h, n)
           THEN [moved EXCEPT ![n].parent = IF IsEmpty(h, other) THEN Null ELSE n] ELSE moved

\* Values and children change places; whether they are empty only between two roots.
Swap(h, n, other) ==
  LET s == [h EXCEPT ![n].value = h[other].value, ![other].value = h[n].value,
                     ![n].children = h[other].children, ![other].children = h[n].children]
      t == Adopt(Adopt(s, n), other)
  IN  IF IsRoot(h, n) /\ IsRoot(h, other)
      THEN [t EXCEPT ![n].parent = IF IsEmpty(h, other) THEN Null ELSE n,
                     ![other].parent = IF IsEmpty(h, n) THEN Null ELSE other] ELSE t

\* append_child(std::move(value)), unless the value is empty.
AppendChild(h, n, value) ==
  LET new == Fresh(h)
      d == [Add(h, n, 0, h[value].value) EXCEPT ![new].children = h[value].children,
                                                ![value].children = NoChildren]
  IN  IF IsEmpty(h, value) THEN h ELSE Adopt(d, new)

\* result = this->slice(n): the subtree changes places with an empty tree, which is deleted.
Slice(h, this, n, result) ==
  LET made == [h EXCEPT ![Temp] = Node(0, Null)]
      unlinked == [made EXCEPT ![h[n].parent].children = [@ EXCEPT ![IndexInParent(h, n)] = Null]]
      taken == IF n = this THEN Swap(made, Temp, n) ELSE Delete(Swap(unlinked, Temp, n), {n})
  IN  Delete(MoveAssign(taken, result, Temp), {Temp})

-----------------------------------------------------------------------------
(* Iterators: the node, its depth, and the indexes by which it was reached *)
(* as far as they are remembered.  The top, where the walk began, is not   *)
(* part of the code's iterator.                                            *)

Iterator(n, depth, indexes, order, top) ==
  [n |-> n, depth |-> depth, indexes |-> indexes, order |-> order, top |-> top]
End == Iterator(Null, 0, <<>>, "preorder", Null)

MoveToChild(h, i, k) == [i EXCEPT !.n = h[i.n].children[k], !.depth = @ + 1, !.indexes = Append(@, k)]

ToParent(h, i) == [i EXCEPT !.n = h[i.n].parent, !.depth = @ - 1,
                            !.indexes = IF @ = <<>> THEN @ ELSE Front(@)]

\* child_index(), remembered or looked for.
ChildIndex(h, i) == IF i.depth = 0 THEN 0
                    ELSE IF i.indexes # <<>> THEN Last(i.indexes) ELSE IndexInParent(h, i.n)

ChildrenFrom(h, n, k) == {j \in DOMAIN h[n].children : j >= k /\ h[n].children[j] # Null}

RECURSIVE UpAndRight(_, _)
UpAndRight(h, i) ==
  LET up == ToParent(h, i)
      right == ChildrenFrom(h, up.n, ChildIndex(h, i) + 1)
  IN  IF i.depth = 0 THEN End
      ELSE IF right # {} THEN MoveToChild(h, up, Min(right)) ELSE UpAndRight(h, up)

PreorderNext(h, i) == LET below == ChildrenFrom(h, i.n, 1)
                      IN  IF below # {} THEN MoveToChild(h, i, Min(below)) ELSE UpAndRight(h, i)

RECURSIVE LeftmostLeaf(_, _)
LeftmostLeaf(h, i) == LET below == ChildrenFrom(h, i.n, 1)
                      IN  IF below = {} THEN i ELSE LeftmostLeaf(h, MoveToChild(h, i, Min(below)))

PostorderNext(h, i) ==
  LET up == ToParent(h, i)
      right == ChildrenFrom(h, up.n, ChildIndex(h, i) + 1)
  IN  IF i.depth = 0 THEN End
      ELSE IF right # {} THEN LeftmostLeaf(h, MoveToChild(h, up, Min(right))) ELSE up

Advanced(h, i) == IF i.order = "preorder" THEN PreorderNext(h, i) ELSE PostorderNext(h, i)

Begin(h, n, order) ==
  IF IsEmpty(h, n) THEN End
  ELSE IF order = "preorder" THEN Iterator(n, 0, <<>>, order, n)
  ELSE LeftmostLeaf(h, Iterator(n, 0, <<>>, order, n))

\* The iterators of a whole walk.
RECURSIVE WalkFrom(_, _)
WalkFrom(h, i) == IF i.n = Null THEN <<>> ELSE <<i>> \o WalkFrom(h, Advanced(h, i))
Walk(h, n, order) == WalkFrom(h, Begin(h, n, order))

\* height(), size(), leaf_count(), branch_count().
Height(h, n) == Max({0} \cup {i.depth + 1 : i \in Range(Walk(h, n, "preorder"))})
Size(h, n) == Len(Walk(h, n, "preorder"))
LeafCount(h, n) == Len(SelectSeq(Walk(h, n, "preorder"), LAMBDA i : IsLeaf(h, i.n)))
BranchCount(h, n) == Len(SelectSeq(Walk(h, n, "preorder"), LAMBDA i : ~IsLeaf(h, i.n)))

-----------------------------------------------------------------------------
(* What an application does with two trees and an iterator.                *)

TreeInit ==
  /\ dynamic \in BOOLEAN
  /\ heap = [n \in Nodes |-> IF n \in {A, B} THEN Node(0, Null) ELSE Dead]
  /\ it = End

Live == {n \in Nodes : heap[n].live}
Apart(n, other) == n \notin Subtree(heap, other) /\ other \notin Subtree(heap, n)
Room(nodes) == Cardinality(Free(heap)) >= nodes

\* An iterator that may no longer be used is given up.
Becomes(h, unusable) ==
  /\ heap' = h /\ dynamic' = dynamic
  /\ it' = IF it.n \in unusable THEN End ELSE it

MakeChild(n, i) ==
  /\ Room(IF dynamic THEN i - Len(heap[n].children) ELSE IF HasChild(heap, n, i) THEN 0 ELSE 1)
  /\ Becomes(Child(heap, n, i), {})
SetMark(n, v) == Becomes(SetValue(heap, n, v), {})

\* What is deleted; in a vector also what moves to another index, or is below it.
Invalidated(n, i) == IF dynamic THEN Subtree(heap, n) \ {n} ELSE Subtree(heap, heap[n].children[i])

EraseAt(n, i) == HasChild(heap, n, i) /\ Becomes(EraseChild(heap, n, i), Invalidated(n, i))

\* Not the specialisation's, which erases the next child or one past the last.
EraseEqual(n, v) == ~dynamic /\ Becomes(EraseValue(heap, n, v), Subtree(heap, n) \ {n})

\* Not if the specialisation would look past its parent's children.
ClearNode(n) ==
  /\ dynamic /\ ~IsRoot(heap, n) => Len(heap[n].children) <= Len(heap[heap[n].parent].children)
  /\ Becomes(ClearToEmpty(heap, n), Nodes)

Copy(n, other) ==
  /\ Apart(n, other)
  /\ Room(Cardinality(Subtree(heap, other)) - Cardinality(Subtree(heap, n)))
  /\ Becomes(CopyAssign(heap, n, other), Nodes)
Move(n, other) == Apart(n, other) /\ Becomes(MoveAssign(heap, n, other), Nodes)
Exchange(n, other) == Apart(n, other) /\ Becomes(Swap(heap, n, other), Nodes)

Append_(n, value) ==
  /\ dynamic /\ Len(heap[n].children) < Arity /\ Room(1) /\ n \notin Subtree(heap, value)
  /\ Becomes(AppendChild(heap, n, value), Nodes)

\* The specialisation's slice() does not compile.
SliceOff(this, n, result) ==
  /\ ~dynamic /\ n \in Subtree(heap, this) /\ ~IsEmpty(heap, n)
  /\ Becomes(Slice(heap, this, n, result), Nodes)

BeginWalk(n, order) == it' = Begin(heap, n, order) /\ UNCHANGED <<heap, dynamic>>

RECURSIVE Depth(_, _)
Depth(h, n) == IF h[n].parent \in {Null, n} THEN 0 ELSE Depth(h, h[n].parent) + 1
RECURSIVE Top(_, _)
Top(h, n) == IF h[n].parent \in {Null, n} THEN n ELSE Top(h, h[n].parent)

\* An iterator that was found by root() and child(), which remember no indexes.
WalkFromHere(n, order) ==
  /\ ~IsEmpty(heap, Top(heap, n))
  /\ it' = Iterator(n, Depth(heap, n), <<>>, order, Top(heap, n))
  /\ UNCHANGED <<heap, dynamic>>

Advance == it.n # Null /\ it' = Advanced(heap, it) /\ UNCHANGED <<heap, dynamic>>

Change ==
  \/ \E n \in Live, i \in 1..Arity : MakeChild(n, i) \/ EraseAt(n, i)
  \/ \E n \in Live, v \in Marks : SetMark(n, v) \/ EraseEqual(n, v)
  \/ \E n \in Live : ClearNode(n)
  \/ \E n, other \in Live : Copy(n, other) \/ Move(n, other) \/ Exchange(n, other) \/ Append_(n, other)
  \/ \E this, n \in Live, result \in {A, B} : SliceOff(this, n, result)

WalkOn ==
  \/ \E n \in Live, order \in {"preorder", "postorder"} : BeginWalk(n, order) \/ WalkFromHere(n, order)
  \/ Advance

TreeNext == Change \/ WalkOn

TreeSpec == TreeInit /\ [][TreeNext]_treeVars

-----------------------------------------------------------------------------
(* Properties.                                                             *)

(* Every node that is allocated is the child of exactly one node, knows it as its      *)
(* parent and belongs to one of the two trees; no pointer leads to a node that is gone *)
(* (erase, clear_to_empty, slice, swap, the assignments, append_child).                *)
EveryNodeHasItsPlace ==
  /\ \A n \in Live : \A i \in DOMAIN heap[n].children :
       HasChild(heap, n, i) => LET c == heap[n].children[i] IN heap[c].live /\ heap[c].parent = n
  /\ \A n \in Live \ Roots :
       Cardinality({<<p, i>> \in Live \X (1..Arity) : HasChild(heap, p, i) /\ heap[p].children[i] = n}) = 1
  /\ Live = Subtree(heap, A) \cup Subtree(heap, B)
  /\ IsRoot(heap, A) /\ IsRoot(heap, B)

\* The order of a walk by its definition.
RECURSIVE Order(_, _, _)
Order(h, n, order) ==
  LET below == FlattenSeq([k \in DOMAIN Kids(h, n) |-> Order(h, Kids(h, n)[k], order)])
  IN  IF order = "preorder" THEN <<n>> \o below ELSE Append(below, n)

(* A tree that is not empty() is walked in the order its name promises, every node     *)
(* once, however it came about and whatever was added behind the iterator's back; the  *)
(* depth and the index an iterator remembers are those of its node ("Invariant should  *)
(* always hold that depth_ refers to the number of unique parents of n").              *)
IteratorMissesNothing ==
  it.n # Null =>
    LET nodes == Order(heap, it.top, it.order)
        at == CHOOSE k \in DOMAIN nodes : nodes[k] = it.n
        above == Depth(heap, it.n) - Depth(heap, it.top)
    IN  /\ it.n \in Range(nodes) /\ it.depth = above
        /\ ChildIndex(heap, it) = IF above = 0 THEN 0 ELSE IndexInParent(heap, it.n)
        /\ Advanced(heap, it).n = IF at = Len(nodes) THEN Null ELSE nodes[at + 1]

(* What is counted by walking agrees with the definition of the counts, unless a tree  *)
(* is empty().  Such a tree counts none of its nodes, though it may have some: child() *)
(* adds them to a tree that was never given a value, and swap() and slice() leave them *)
(* in one.                                                                             *)
CountsAgree ==
  \A n \in Live :
    LET nodes == IF IsEmpty(heap, n) THEN {} ELSE Subtree(heap, n)
        leaves == {m \in nodes : IsLeaf(heap, m)}
    IN  /\ Size(heap, n) = Cardinality(nodes) /\ LeafCount(heap, n) = Cardinality(leaves)
        /\ BranchCount(heap, n) = Cardinality(nodes \ leaves)
        /\ Height(heap, n) = Max({0} \cup {1 + Depth(heap, m) - Depth(heap, n) : m \in nodes})

\* A tree looks like another one, and shows its nodes if that one did.
TakesAfter(h, n, other, empty) == Shape(h, n) = Shape(heap, other) /\ (IsEmpty(h, n) <=> empty)

(* Copying and deleting by iteration, for trees too deep to recurse, do what recursion *)
(* does.  A tree that is copied, moved or exchanged keeps its shape, and whether it is *)
(* empty() goes with it as far as it can: a child is not empty(), and a root that is   *)
(* exchanged with a child stays what it was.  Hence a child that was cut off comes out *)
(* empty(), against "returns it" on slice(): it shows none of its nodes until somebody *)
(* takes its value(), and all of them from then on.                                    *)
TreesStayWhole ==
  /\ \A n \in Live : DestroyIteratively(heap, n) = Destroy(heap, n)
  /\ \A n, other \in Live :
       Apart(n, other) =>
         LET s == Swap(heap, n, other)
             cleared == EraseChildren(heap, n)
             free == Cardinality(Free(cleared))
             roots == IsRoot(heap, n) /\ IsRoot(heap, other)
             empty == IsRoot(heap, n) /\ IsEmpty(heap, other)
         IN  /\ TakesAfter(MoveAssign(heap, n, other), n, other, empty)
             /\ TakesAfter(s, n, other, IsEmpty(heap, IF roots THEN other ELSE n))
             /\ TakesAfter(s, other, n, IsEmpty(heap, IF roots THEN n ELSE other))
             /\ free >= Cardinality(Subtree(heap, other)) - 1 =>
                  /\ TakesAfter(CopyAssign(heap, n, other), n, other, empty)
                  /\ Shape(CopyIteratively(SetValue(cleared, n, heap[other].value), other, n), n)
                     = Shape(heap, other)
  /\ ~dynamic => \A this, n \in Live, result \in {A, B} :
       n \in Subtree(heap, this) /\ ~IsEmpty(heap, n) =>
         LET s == Slice(heap, this, n, result)
         IN  /\ TakesAfter(s, result, n, ~IsRoot(heap, n))
             /\ Size(Upgrade(s, result), result) = Cardinality(Subtree(heap, n))

(* Links, counts, copies and iterators agree about the shape of the trees.             *)
TreesConsistent == EveryNodeHasItsPlace /\ CountsAgree /\ TreesStayWhole /\ IteratorMissesNothing

=============================================================================
