----------------------------- MODULE FencedJobs -----------------------------
(***************************************************************************)
(* What the job ledger promises, with no clock, retries, envelopes or      *)
(* half-finished requests.  A job waits, is leased to one holder at a time, *)
(* each under a newer token than any before, and is closed with an outcome. *)
(* Footage is written once per key, by the holder; a job is done only with  *)
(* footage; jobs are open only while their recording is active; and a job   *)
(* that is captured once is never opened again.                             *)
(***************************************************************************)
EXTENDS Naturals

CONSTANTS
    Jobs, Keys,
    OneShot   \* the jobs that are captured once

VARIABLES
    state,    \* recording_jobs.status
    holder,   \* token of the lease a leased job is with; 0 is none
    last,     \* the last token handed out
    footage,  \* token under which a key was ingested; 0 is not yet
    active    \* is the job's recording active?

vars == <<state, holder, last, footage, active>>

Init ==
    /\ state = [j \in Jobs |-> "absent"]
    /\ holder = [j \in Jobs |-> 0]
    /\ last = 0
    /\ footage = [j \in Jobs |-> [k \in Keys |-> 0]]
    /\ active = [j \in Jobs |-> TRUE]

(* The holder of a lease is told apart from all earlier ones.              *)
Grant(j) ==
    /\ state[j] = "pending" /\ active[j]
    /\ last' = last + 1
    /\ state' = [state EXCEPT ![j] = "leased"]
    /\ holder' = [holder EXCEPT ![j] = last + 1]
    /\ UNCHANGED <<footage, active>>

Deliver(j, k) ==
    /\ state[j] = "leased" /\ active[j]
    /\ footage[j][k] = 0
    /\ footage' = [footage EXCEPT ![j][k] = holder[j]]
    /\ UNCHANGED <<state, holder, last, active>>

Outcomes(j) ==
    {"error", "canceled"} \cup IF \E k \in Keys : footage[j][k] # 0 THEN {"done"} ELSE {}

(* Where a job may go without being handed out.                            *)
Onward(j) ==
    CASE state[j] = "absent" -> {"absent", "pending"}
      [] state[j] \in {"pending", "leased"} -> {state[j], "pending"} \cup Outcomes(j)
      [] OTHER -> {state[j]} \cup IF j \in OneShot THEN {} ELSE {"pending"}

(* Jobs and recordings move together: a sweep or a request takes several.  *)
Move ==
    /\ active' \in [Jobs -> BOOLEAN]
    /\ state' = [j \in Jobs |-> state'[j]]
    /\ \A j \in Jobs : /\ state'[j] \in Onward(j)
                       /\ state'[j] \in {"pending", "leased"} => active'[j]
    /\ holder' = [j \in Jobs |-> IF state'[j] = "leased" THEN holder[j] ELSE 0]
    /\ UNCHANGED <<last, footage>>

Next ==
    \/ \E j \in Jobs : Grant(j)
    \/ \E j \in Jobs, k \in Keys : Deliver(j, k)
    \/ Move

Spec == Init /\ [][Next]_vars
=============================================================================
