---------------------------- MODULE MCContainers ----------------------------
(***************************************************************************)
(* The containers, one at a time: an io_buffer; a sparse array; small trees*)
(* whose nodes hold different values; larger trees of equal nodes, with an *)
(* iterator.                                                               *)
(***************************************************************************)
EXTENDS IoBuffer, SparseArray, Tree

VARIABLE used

mcMinKey == -1

vars == <<used, bufferVars, arrayVars, treeVars>>

\* A and B, two nodes of theirs and the one that a function makes.
Small == Cardinality(Live) <= 4
Unmarked == \A n \in Nodes : heap[n].value = 0

Init == /\ used \in {"buffer", "array", "trees", "walks"}
        /\ BufferInit /\ ArrayInit /\ TreeInit
        /\ used # "buffer" => buf.limit = 0 /\ uses = {"all", "swap"}
        /\ used \in {"buffer", "array"} => dynamic

Next ==
  /\ used' = used
  /\ \/ used = "buffer" /\ BufferNext /\ UNCHANGED <<arrayVars, treeVars>>
     \/ used = "array" /\ ArrayNext /\ UNCHANGED <<bufferVars, treeVars>>
     \/ used = "trees" /\ Change /\ Small' /\ UNCHANGED <<bufferVars, arrayVars>>
     \/ used = "walks" /\ Change /\ Unmarked' /\ UNCHANGED <<bufferVars, arrayVars>>
     \/ used = "walks" /\ WalkOn /\ UNCHANGED <<bufferVars, arrayVars>>

Spec == Init /\ [][Next]_vars

=============================================================================
