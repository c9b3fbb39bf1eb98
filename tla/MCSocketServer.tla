--------------------------- MODULE MCSocketServer ---------------------------
(* SocketServer for TLC. *)
EXTENDS SocketServer, TLC

AllPolicies == {{"cancels"}, {"blocking"}, {"errors", "serves"}, {"ends", "serves"},
                {"crosses", "declines"}, {"linux", "serves", "declines"},
                {"errors", "leaves", "rejects"}}
=============================================================================
