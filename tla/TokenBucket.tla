---------------------------- MODULE TokenBucket ----------------------------
(***************************************************************************)
(* What the token bucket of weatherlink-kafka's rate limiter promises:     *)
(* a token comes with every tick of time, at most Burst of them are kept,  *)
(* and whoever is let through takes one.                                   *)
(***************************************************************************)
EXTENDS Naturals

CONSTANT Burst       \* size of the bucket

VARIABLES
  available,  \* tokens in it
  admitted    \* how many have been let through

vars == <<available, admitted>>

Init == available = Burst /\ admitted = 0

Drip ==
  /\ available' = IF available < Burst THEN available + 1 ELSE Burst
  /\ UNCHANGED admitted

Take ==
  /\ available > 0
  /\ available' = available - 1
  /\ admitted' = admitted + 1

Next == Drip \/ Take

Spec == Init /\ [][Next]_vars
============================================================================
