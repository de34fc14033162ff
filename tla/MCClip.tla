------------------------------- MODULE MCClip -------------------------------
(* One sampled recording with two cron fires, each a clip of one object    *)
(* key, and one cloud recorder.                                            *)
EXTENDS RecordingJobs, TLC

CONSTANTS r1, c1, c2, w1, k1

MCRecOf == [j \in Jobs |-> r1]
MCKindOf == [j \in Jobs |-> "clip"]
MCKeysOf == [j \in Jobs |-> Segments]
MCFireAt == c1 :> 1 @@ c2 :> 3
MCCloseOf == [schedule \in Schedules |-> [j \in Jobs |-> IF j \in schedule THEN 1 ELSE 0]]
MCJitter == r1 :> 1
MCCapacity == w1 :> 1
MCSurrenderBackoff == <<1, 1, 2>>
=============================================================================
