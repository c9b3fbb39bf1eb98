------------------------------ MODULE WatchSet ------------------------------
(***************************************************************************)
(* What a socket_watcher promises (socket/common.h): a set of descriptors, *)
(* each with the kinds of events it is watched for, and what each call     *)
(* does to it.                                                             *)
(***************************************************************************)
VARIABLE watched \* a function from some of the descriptors to sets of kinds

Init == watched = <<>>

\* "The descriptor must not already exist in the set."
Watch(fd, kinds) ==
  /\ fd \notin DOMAIN watched
  /\ watched' = [other \in DOMAIN watched \cup {fd} |-> IF other = fd THEN kinds ELSE watched[other]]

\* "If the descriptor is not in the set, nothing happens."
Modify(fd, kinds) ==
  watched' = IF fd \in DOMAIN watched THEN [watched EXCEPT ![fd] = kinds] ELSE watched

Unwatch(fd) == watched' = [other \in DOMAIN watched \ {fd} |-> watched[other]]

Clear == watched' = <<>>

=============================================================================
