---------------------------- MODULE MCDropletPool ----------------------------
(* TLC instances of DropletPool: two or three names under a cap of one or   *)
(* two, with the timeouts a few instants long.                              *)
EXTENDS DropletPool
MCTwo == 1..2
MCThree == 1..3

\* Bound: a new build is deployed in behaviours without faults.
Story == build = 0 \/ faults = 0
=============================================================================
