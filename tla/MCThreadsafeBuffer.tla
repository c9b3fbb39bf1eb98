------------------------- MODULE MCThreadsafeBuffer -------------------------
(***************************************************************************)
(* The programs io_threadsafe_buffer is checked with.                      *)
(***************************************************************************)
EXTENDS ThreadsafeBuffer

Piecemeal == [reads |-> {"one", "upto"}, limits |-> {}, clears |-> FALSE,
              early |-> TRUE]

Draining == [reads |-> {"all", "swap"}, limits |-> {}, clears |-> TRUE,
             early |-> TRUE]

Resizing == [reads |-> {"one"}, limits |-> {1, 2}, clears |-> FALSE,
             early |-> TRUE]

Careful == {Piecemeal, Draining, Resizing}

=============================================================================
