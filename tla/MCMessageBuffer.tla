-------------------------- MODULE MCMessageBuffer --------------------------
(***************************************************************************)
(* The programs MessageBufferInterface is checked with.                    *)
(***************************************************************************)
EXTENDS MessageBuffer

CONSTANTS r1, r2

\* Blocked senders and readers, batches, and a queue that is closed.
Blocking ==
  [sends |-> {"BlockUntilSent", "Immediate"}, reads |-> {"BlockUntilDone"},
   consumes |-> {"AndRemove"}, closes |-> {FALSE}, readers |-> {r1, r2},
   limit |-> 2, batch |-> 2]

\* Single messages, every queue type.
Single ==
  [sends |-> QueueTypes, reads |-> QueueTypes, consumes |-> {"AndRemove"},
   closes |-> {FALSE}, readers |-> {r1, r2}, limit |-> 2, batch |-> 1]

\* Senders that never block; the queue may be cancelled.
Forcing ==
  [sends |-> {"Immediate", "ForceSend"}, reads |-> {"BlockUntilDone"},
   consumes |-> {"AndRemove"}, closes |-> BOOLEAN, readers |-> {r1, r2},
   limit |-> 2, batch |-> 2]

\* One reader that leaves messages in the queue while it works on them.
Leaving ==
  [sends |-> {"BlockUntilSent", "ForceSend"},
   reads |-> {"BlockUntilSent", "ForceSend"},
   consumes |-> {"WithoutRemoving", "AndRemove"}, closes |-> {FALSE},
   readers |-> {r1}, limit |-> 2, batch |-> 2]

\* The same without blocked senders; the queue may be cancelled.
LeavingCancelled == [Leaving EXCEPT !.sends = {"Immediate", "ForceSend"}, !.closes = BOOLEAN]

\* A queue without a limit.
Unlimited ==
  [sends |-> {"BlockUntilDone", "ForceSend"}, reads |-> {"BlockUntilDone"},
   consumes |-> {"AndRemove"}, closes |-> {FALSE}, readers |-> {r1, r2},
   limit |-> 0, batch |-> 2]

\* Blocked senders while the queue is cancelled.
Cancelling ==
  [sends |-> {"BlockUntilSent"}, reads |-> {"BlockUntilDone"},
   consumes |-> {"AndRemove"}, closes |-> {TRUE}, readers |-> {r1},
   limit |-> 1, batch |-> 1]

\* The programs of the runs.
AllUsages == {Blocking, Single, Forcing, Leaving, LeavingCancelled, Unlimited}
CancellingOnly == {Cancelling}

=============================================================================
