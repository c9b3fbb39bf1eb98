------------------------- MODULE MCMessageHandlers -------------------------
(***************************************************************************)
(* The programs MessageHandlers is checked with.                           *)
(***************************************************************************)
EXTENDS MessageHandlers

CONSTANTS hc, hb,     \* the handlers
          t1, t2, t3  \* the clients

\* A callback with room for one message and a buffer with room for two.
Plain ==
  [clients |-> {t1, t2}, writers |-> <<hc, hb>>, kind |-> (hc :> "callback" @@ hb :> "buffer"),
   limit |-> (hc :> 1 @@ hb :> 2), consume |-> [h \in {hb, hc} |-> "AndRemove"],
   ops |-> {"send"}, types |-> {"BlockUntilSent", "Immediate"}, direct |-> {},
   closes |-> {FALSE}, fails |-> FALSE, close_on_exit |-> TRUE]

\* Vectors of messages, one by one and atomically.
Vectors == [Plain EXCEPT !.ops = {"sendMessagesAtomically", "sendMessages"},
                         !.types = {"BlockUntilSent"}]

\* A message for one of the handlers, which displaces others; the worker leaves
\* the message it works on in the queue, and the handlers may be cancelled.
One == [Plain EXCEPT !.ops = ToOne, !.types = {"Immediate", "ForceSend"},
                     !.consume = [h \in {hb, hc} |-> "WithoutRemoving"],
                     !.closes = {TRUE}]

\* Two callbacks whose functions run in the senders' threads too; the clients
\* also use the handlers without the broadcaster, which closes nothing.
Done == [Plain EXCEPT !.ops = {"sendMessagesAtomically"},
                      !.types = {"BlockUntilDone"},
                      !.kind = [h \in {hb, hc} |-> "callback"],
                      !.direct = {hb, hc}, !.fails = TRUE, !.close_on_exit = FALSE]

Mixed == [Done EXCEPT !.ops = {"send"}, !.types = {"BlockUntilDone", "BlockUntilSent"},
                      !.direct = {}, !.closes = {}]

\* Clients that send to the handlers and close them, around the broadcaster.
Shared == [Plain EXCEPT !.types = {"BlockUntilSent"}, !.direct = {hb, hc}]

\* A message for one of the handlers, whose function fails and leaves the message,
\* moved from or not, to the buffer that follows.
OneDone == [Plain EXCEPT !.ops = ToOne, !.types = {"BlockUntilDone"},
                         !.limit = [h \in {hb, hc} |-> 0], !.fails = TRUE]

\* Three clients of one buffer with room for a single message, which sleep in it
\* when it is closed.
Crowd == [Shared EXCEPT !.clients = {t1, t2, t3}, !.writers = <<hb>>, !.direct = {hb}, !.ops = {},
                        !.limit = [h \in {hb, hc} |-> 1],
                        !.kind = [h \in {hb, hc} |-> "buffer"]]

AllUsages == {Plain, Shared, Vectors, One, OneDone, Done, Mixed, Crowd}

=============================================================================
