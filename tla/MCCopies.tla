------------------------------ MODULE MCCopies ------------------------------
(* Instances of ClipCopies: two clips, one of them in the cleanup plan and      *)
(* being restored, the other with a test restore.                             *)
EXTENDS ClipCopies

ReqOf == [r \in Requests |-> IF r = "original" THEN "c1" ELSE "c2"]

Unused(r) == req[r].state = "none"

\* Bound: what is explored together.  Cleanup and purge of both clips; cleanup, purge
\* and restore of one, the other purged, with a second attempt of the restore or a
\* second command and attempt of the cleanup; or a test restore next to a purge.
Story ==
  \/ Unused("original") /\ Unused("test")
  \/ /\ Unused("test") /\ purged["c2"] /\ r2["c2"] = "none"
     /\ req["original"].attempts < 2 \/ (plan.runs < 2 /\ item["c1"].attempt < 2)
  \/ plan.mode = "none" /\ Unused("original")
=============================================================================
