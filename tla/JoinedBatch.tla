---------------------------- MODULE JoinedBatch ----------------------------
(***************************************************************************)
(* What a joined batch promises its reader, with no leases, workers or      *)
(* retries: documents are published once and in dependency order (a day's   *)
(* allocation ledger, the manifests of its hours, the batch index last),    *)
(* and the source clips of an hour are given up only after its manifest.    *)
(***************************************************************************)
CONSTANTS Days, Hours, DayOf, GapHours

VARIABLES
  published,   \* published documents
  released     \* hours whose source clips are gone

vars == <<published, released>>

Ledger(d)   == <<"ledger", d>>
Manifest(h) == <<"manifest", h>>
Index       == <<"index", "batch">>

Init == published = {} /\ released = GapHours

\* A document is published for the first time.
Publish(doc) ==
  /\ doc \notin published
  /\ published' = published \cup {doc}
  /\ UNCHANGED released

PublishLedger(d)   == Publish(Ledger(d))
PublishManifest(h) == Ledger(DayOf[h]) \in published /\ Publish(Manifest(h))

PublishIndex ==
  /\ \A d \in Days : Ledger(d) \in published
  /\ \A h \in Hours : Manifest(h) \in published
  /\ Publish(Index)

Release(h) ==
  /\ h \notin released
  /\ Manifest(h) \in published
  /\ released' = released \cup {h}
  /\ UNCHANGED published

Next ==
  \/ \E d \in Days : PublishLedger(d)
  \/ \E h \in Hours : PublishManifest(h) \/ Release(h)
  \/ PublishIndex

Spec == Init /\ [][Next]_vars
=============================================================================
