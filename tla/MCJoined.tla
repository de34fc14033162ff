------------------------------ MODULE MCJoined ------------------------------
(* Instances of JoinedWork: one stream day with a source hour, and a gap hour   *)
(* or an hour that no worker has room for.                                     *)
EXTENDS JoinedWork

OneDay   == [h \in Hours |-> "d1"]
Gap      == {"gap"} \cap Hours
Canary   == Hours
Denied   == IF Gap = {} THEN {Ledger("d1"), Manifest("h1")} ELSE {Manifest("gap")}
Scratch  == [w \in Workers |-> Hours \ (IF w = "w2" THEN {"gap"} ELSE {"large"})]

\* Bound: what is explored together.  Two workers that race for the source hour and its
\* documents; or one worker and the gap hour, where at most one task is at its last attempt.
Untouched(h) == attempt[Hour(h)] = 0 /\ attempt[Manifest(h)] = 0 /\ auth[h] = {}
Story ==
  \/ Untouched("gap")
  \/ worker["w2"] = NoTask /\ Cardinality({t \in Tasks : attempt[t] = MaxAttempts}) <= 1
=============================================================================
