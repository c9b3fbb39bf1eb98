----------------------------- MODULE BoundedFifo -----------------------------
(***************************************************************************)
(* What a one-way buffer promises its clients: a queue with a maximum      *)
(* length.  A write is accepted whole or not at all, a read hands out the  *)
(* oldest elements in the order they were written and removes exactly what *)
(* it hands out.                                                           *)
(***************************************************************************)
EXTENDS Integers, Sequences

CONSTANTS Batches,     \* the sequences of elements a client may write
          QueueLimits, \* the maximum lengths a client may set, 0 for none
          QueueMax     \* the length that bounds an unlimited queue

VARIABLES queue,   \* the elements not read yet, oldest first
          maxLen,  \* the maximum length in force
          shut,    \* whether writes are refused for good
          answer   \* what the last call answered its caller

vars == <<queue, maxLen, shut, answer>>

-----------------------------------------------------------------------------
Room == (IF maxLen # 0 THEN maxLen ELSE QueueMax) - Len(queue)

Fits(s) == s = <<>> \/ (Len(s) <= Room /\ ~shut)

Answer(op, ok, put, got) == [op |-> op, ok |-> ok, put |-> put, got |-> got]

Init == /\ queue = <<>>
        /\ maxLen \in QueueLimits
        /\ shut = FALSE
        /\ answer = Answer("none", TRUE, <<>>, <<>>)

Put(s) == /\ Fits(s)
          /\ queue' = queue \o s
          /\ answer' = Answer("write", TRUE, s, <<>>)
          /\ UNCHANGED <<maxLen, shut>>

Refuse(s) == /\ ~Fits(s)
             /\ answer' = Answer("write", FALSE, <<>>, <<>>)
             /\ UNCHANGED <<queue, maxLen, shut>>

Get(n) == /\ n <= Len(queue)
          /\ queue' = SubSeq(queue, n + 1, Len(queue))
          /\ answer' = Answer("read", n > 0, <<>>, SubSeq(queue, 1, n))
          /\ UNCHANGED <<maxLen, shut>>

Discard == /\ queue' = <<>>
           /\ answer' = Answer("clear", TRUE, <<>>, <<>>)
           /\ UNCHANGED <<maxLen, shut>>

Resize(l) == /\ maxLen' = l
             /\ answer' = Answer("resize", TRUE, <<>>, <<>>)
             /\ UNCHANGED <<queue, shut>>

Shut == /\ shut' = TRUE
        /\ answer' = Answer("close", TRUE, <<>>, <<>>)
        /\ UNCHANGED <<queue, maxLen>>

Next == \/ \E s \in Batches : Put(s) \/ Refuse(s)
        \/ \E n \in 0..Len(queue) : Get(n)
        \/ Discard
        \/ \E l \in QueueLimits : Resize(l)
        \/ Shut

Spec == Init /\ [][Next]_vars

=============================================================================
