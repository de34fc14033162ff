----------------------------- MODULE MCInference -----------------------------
(* Instance of InferenceWork: two frames, two claims of the run, two outside   *)
(* it, and two boxers.                                                         *)
EXTENDS InferenceWork, TLC

CONSTANTS a1, a2, b1, b2, c1, c2

\* The boxers, and the claims of the run, are told apart by nothing but their names.
Alike == Permutations({b1, b2}) \cup Permutations({c1, c2})

\* Bound: the second claim outside the run comes where the run is not worked on.
TwiceAlone ==
  claim[a2].status # "none" => \A c \in Claims \ AdhocClaims : claim[c].status = "none"
=============================================================================
