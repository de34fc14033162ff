------------------------------ MODULE MCWindow ------------------------------
(* One continuous recording with one daily-window job, and two recorders   *)
(* (a relay and a cloud droplet).  A schedule is named by the close it     *)
(* gives the window; the recording may end inside the window or after it.  *)
EXTENDS RecordingJobs, TLC

CONSTANTS r1, j1, w1, w2, k1

MCRecOf == j1 :> r1
MCKindOf == j1 :> "continuous_window"
MCKeysOf == [j \in Jobs |-> Segments]
MCFireAt == j1 :> 1
MCCloseOf == [schedule \in Schedules |-> j1 :> schedule]
MCJitter == r1 :> 0
MCCapacity == [w \in Workers |-> 1]
MCSurrenderBackoff == <<1, 1, 2>>
=============================================================================
