------------------------ MODULE RecordingJobsProofs ------------------------
(***************************************************************************)
(* What the recording-job ledger guarantees for any number of recordings,  *)
(* jobs, recorders, object keys, leases and instants.                      *)
(***************************************************************************)
EXTENDS RecordingJobs, TLAPS, WellFoundedInduction, FiniteSetTheorems

-----------------------------------------------------------------------------
(* Facts about the helpers.                                                *)

(* The smaller of two naturals is one of them and bounds both.             *)
LEMMA MinPair ==
    ASSUME NEW a \in Nat, NEW b \in Nat
    PROVE  /\ Min({a, b}) \in Nat
           /\ Min({a, b}) <= a
           /\ Min({a, b}) <= b
           /\ Min({a, b}) \in {a, b}
<1>1. \E x \in {a, b} : \A y \in {a, b} : x <= y
  OBVIOUS
<1>2. Min({a, b}) \in {a, b} /\ \A y \in {a, b} : Min({a, b}) <= y
  BY <1>1 DEF Min
<1> QED
  BY <1>2

(* A non-empty set of naturals with an upper bound has a maximum.          *)
LEMMA MaxBounded ==
    ASSUME NEW bound \in Nat, NEW S, S \subseteq Nat, S # {},
           \A x \in S : x <= bound
    PROVE  Max(S) \in S /\ \A y \in S : Max(S) >= y
<1> DEFINE T == {bound - x : x \in S}
           Less == {p \in Nat \X Nat : p[1] < p[2]}
<1>1. T \subseteq Nat /\ T # {}
  OBVIOUS
<1>2. IsWellFoundedOn(Less, Nat)
  <2>1. OpToRel(<, Nat) = Less
    BY Zenon DEF OpToRel
  <2> QED
    BY <2>1, NatLessThanWellFounded
<1>3. PICK t \in T : \A u \in T : t <= u
  <2> HIDE DEF T
  <2>1. PICK t \in T : \A u \in T : ~ (<<u, t>> \in Less)
    <3> HIDE DEF Less
    <3> QED
      BY <1>1, <1>2, WFMin
  <2>2. ASSUME NEW u \in T PROVE t <= u
    <3>1. u \in Nat /\ t \in Nat
      BY <1>1
    <3>2. u < t => <<u, t>> \in Less
      BY <3>1
    <3> QED
      BY <2>1, <3>1, <3>2
  <2> QED
    BY <2>2
<1>4. PICK x \in S : t = bound - x
  OBVIOUS
<1>5. \A y \in S : x >= y
  BY <1>3, <1>4
<1>6. \E z \in S : \A y \in S : z >= y
  BY <1>5
<1> QED
  BY <1>6 DEF Max

-----------------------------------------------------------------------------
(* The inductive invariant.                                                *)

(* Generations are granted in order; an unused one is blank, a used one    *)
(* names its job; whoever asked for completion has stopped capturing; no   *)
(* recorder was promised more than a lease term from now.                  *)
GrantOK ==
    \A g \in Gens :
        /\ (lease[g].worker = NoWorker \/ g > lastGen) => lease[g] = NoGrant
        /\ lease[g].worker # NoWorker => lease[g].job \in Jobs
        /\ lease[g].handler \in {"completing", "completing_empty"} => lease[g].stopped
        /\ lease[g].until <= now + LeaseTerm

(* An open window ends where the schedule of its recording now says.       *)
WindowEndOK ==
    \A j \in Jobs :
        IsWindow(j) /\ job[j].status \in Open => job[j].windowEnd = EffectiveEnd(j)

(* The row is with lease g for as long as its recorder will capture, and   *)
(* no renewal will cut that short.                                         *)
Held(g) ==
    LET row == job[lease[g].job] IN
    /\ row.status = "leased" /\ row.token = g /\ row.owner = lease[g].worker
    /\ lease[g].until <= row.expires
    /\ IsWindow(lease[g].job) => lease[g].until <= row.windowEnd + PostWindow

(* A recorder that captures under an unrevoked lease has the row.          *)
HolderOK ==
    \A g \in Gens : Capturing(g) /\ ~lease[g].revoked => Held(g)

Inv ==
    /\ TypeOK
    /\ GrantOK
    /\ WorkOnlyWhenActive
    /\ WindowEndOK
    /\ HolderOK
    /\ NoOverlappingCapture

-----------------------------------------------------------------------------
(* Type correctness.                                                       *)

(* Updating one row, or one grant, with a well-typed one.                  *)
LEMMA RowUpdate ==
    ASSUME NEW f \in [Jobs -> Row], NEW j, NEW row \in Row
    PROVE  [f EXCEPT ![j] = row] \in [Jobs -> Row]
OBVIOUS

LEMMA GrantUpdate ==
    ASSUME NEW f \in [Gens -> Grant], NEW g, NEW l \in Grant
    PROVE  [f EXCEPT ![g] = l] \in [Gens -> Grant]
OBVIOUS

LEMMA RecordingUpdate ==
    ASSUME NEW f \in [Recordings -> RecordingRow], NEW r, NEW row \in RecordingRow
    PROVE  [f EXCEPT ![r] = row] \in [Recordings -> RecordingRow]
OBVIOUS

(* The edits of a row that set several columns.                            *)
LEMMA RowEdits ==
    ASSUME NEW row \in Row
    PROVE  /\ \A w \in Workers, g \in Gens, e \in Nat :
                 [row EXCEPT !.status = "leased", !.owner = w, !.token = g,
                     !.expires = e, !.attempts = row.attempts + 1,
                     !.handoff = NoWorker, !.handoffUntil = 0] \in Row
           /\ \A st \in JobStatus, s \in Nat, c \in Nat :
                 [row EXCEPT !.status = st, !.sched = s, !.completed = c] \in Row
           /\ \A s \in Nat, w \in Workers, u \in Nat :
                 [row EXCEPT !.status = "pending", !.sched = s, !.completed = 0,
                     !.handoff = w, !.handoffUntil = u] \in Row
<1>1. ASSUME NEW w \in Workers, NEW g \in Gens, NEW e \in Nat
      PROVE  [row EXCEPT !.status = "leased", !.owner = w, !.token = g,
                     !.expires = e, !.attempts = row.attempts + 1,
                     !.handoff = NoWorker, !.handoffUntil = 0] \in Row
  <2>1. row.attempts + 1 \in Nat
    BY DEF Row
  <2>2. \A m \in Nat : [row EXCEPT !.status = "leased", !.owner = w, !.token = g,
                     !.expires = e, !.attempts = m,
                     !.handoff = NoWorker, !.handoffUntil = 0] \in Row
    BY Zenon DEF Row, JobStatus
  <2> QED
    BY <2>1, <2>2
<1>2. ASSUME NEW st \in JobStatus, NEW s \in Nat, NEW c \in Nat
      PROVE  [row EXCEPT !.status = st, !.sched = s, !.completed = c] \in Row
  BY DEF Row
<1>3. ASSUME NEW s \in Nat, NEW w \in Workers, NEW u \in Nat
      PROVE  [row EXCEPT !.status = "pending", !.sched = s, !.completed = 0,
                     !.handoff = w, !.handoffUntil = u] \in Row
  BY DEF Row, JobStatus
<1> QED
  BY <1>1, <1>2, <1>3

(* The edits the handlers make to a grant keep it a grant.                 *)
LEMMA GrantTypes ==
    ASSUME NEW l \in Grant
    PROVE  /\ [l EXCEPT !.stopped = TRUE] \in Grant
           /\ [l EXCEPT !.revoked = TRUE] \in Grant
           /\ \A h \in Handler : [l EXCEPT !.handler = h] \in Grant
           /\ \A h \in Handler : [l EXCEPT !.stopped = TRUE, !.handler = h] \in Grant
           /\ \A u \in Nat : [l EXCEPT !.until = u] \in Grant
           /\ \A h \in Handler, s \in Segments :
                 [l EXCEPT !.handler = h, !.urls = l.urls \cup {s}] \in Grant
<1>1. [l EXCEPT !.stopped = TRUE] \in Grant
  BY Zenon DEF Grant
<1>2. [l EXCEPT !.revoked = TRUE] \in Grant
  BY Zenon DEF Grant
<1>3. ASSUME NEW h \in Handler PROVE [l EXCEPT !.handler = h] \in Grant
  BY DEF Grant
<1>4. ASSUME NEW h \in Handler PROVE [l EXCEPT !.stopped = TRUE, !.handler = h] \in Grant
  BY DEF Grant
<1>5. ASSUME NEW u \in Nat PROVE [l EXCEPT !.until = u] \in Grant
  BY DEF Grant
<1>6. ASSUME NEW h \in Handler, NEW s \in Segments
      PROVE  [l EXCEPT !.handler = h, !.urls = l.urls \cup {s}] \in Grant
  BY DEF Grant
<1> QED
  BY <1>1, <1>2, <1>3, <1>4, <1>5, <1>6

(* The close in force and the end of the recording bound the window.       *)
LEMMA EndTypes ==
    ASSUME TypeOK, NEW j \in Jobs
    PROVE  /\ RecOf[j] \in Recordings /\ rec[RecOf[j]].endAt \in Nat
           /\ CloseNow(j) \in Nat /\ EffectiveEnd(j) \in Nat
           /\ EffectiveEnd(j) <= CloseNow(j)
           /\ EffectiveEnd(j) \in {CloseNow(j), rec[RecOf[j]].endAt}
<1>1. RecOf[j] \in Recordings /\ rec[RecOf[j]] \in RecordingRow
  BY JobsAssumption DEF TypeOK
<1>2. rec[RecOf[j]].endAt \in Nat /\ rec[RecOf[j]].schedule \in Schedules
  BY <1>1 DEF RecordingRow
<1>3. CloseNow(j) \in Nat
  BY <1>2, JobsAssumption DEF CloseNow
<1> QED
  BY <1>1, <1>2, <1>3, MinPair DEF EffectiveEnd

(* The edits to a row: releases, withdrawals and the scheduler's passes.   *)
LEMMA RowTypes ==
    ASSUME TypeOK, NEW j \in Jobs, NEW row \in Row
    PROVE  /\ Released(row) \in Row
           /\ Withdrawn(row) \in Row
           /\ CancelCompleted(j, row) \in Row
           /\ ReclaimExpired(row) \in Row
           /\ MarkStaleMissed(j, row) \in Row
           /\ EffectiveEnd(j) \in Nat
           /\ Enqueue(j, row) \in Row
<1> USE DEF Row, JobStatus
<1>0. now \in Nat
  BY DEF TypeOK
<1>1. Released(row) \in Row
  BY DEF Released
<1>2. Withdrawn(row) \in Row
  BY DEF Withdrawn
<1>3. CancelCompleted(j, row) \in Row
  BY DEF CancelCompleted
<1>4. ReclaimExpired(row) \in Row
  BY <1>1 DEF ReclaimExpired
<1>5. MarkStaleMissed(j, row) \in Row
  BY <1>0, <1>1 DEF MarkStaleMissed
<1>6. EffectiveEnd(j) \in Nat
  BY EndTypes
<1>7. Enqueue(j, row) \in Row
  <2>1. FireAt[j] \in Nat /\ FireAt[j] + Jitter[RecOf[j]] \in Nat
    BY JobsAssumption
  <2>2. EnqueueWindow(j, row) \in Row
    BY <1>0, <1>1, <1>6, <2>1 DEF EnqueueWindow
  <2>3. EnqueueFire(j, row) \in Row
    BY <2>1 DEF EnqueueFire
  <2> QED
    BY <2>2, <2>3 DEF Enqueue
<1> QED
  BY <1>1, <1>2, <1>3, <1>4, <1>5, <1>6, <1>7

LEMMA NoGrantType == NoGrant \in Grant
BY DEF NoGrant, Grant, Handler

LEMMA TypeInit == Init => TypeOK
<1> SUFFICES ASSUME Init PROVE TypeOK
  OBVIOUS
<1> USE DEF Init
<1>1. NoRow \in Row
  BY DEF NoRow, Row, JobStatus
<1>2. NoGrant \in Grant
  BY NoGrantType
<1>3. rec \in [Recordings -> RecordingRow]
  <2>1. Ends \subseteq Nat
    BY JobsAssumption
  <2>2. ASSUME NEW x \in [status: {"active"}, schedule: Schedules, endAt: Ends, lastFire: {0}]
        PROVE  x \in RecordingRow
    <3>1. x = [status |-> "active", schedule |-> x.schedule, endAt |-> x.endAt, lastFire |-> 0]
      OBVIOUS
    <3>2. x.endAt \in Nat /\ x.schedule \in Schedules /\ "active" \in RecStatus
      BY <2>1 DEF RecStatus
    <3> QED
      BY <3>1, <3>2 DEF RecordingRow
  <2> QED
    BY <2>2
<1>4. job \in [Jobs -> Row]
  BY <1>1
<1>5. lease \in [Gens -> Grant]
  BY <1>2
<1> QED
  BY <1>3, <1>4, <1>5 DEF TypeOK

(* Every step keeps the types; one case per action.                        *)
LEMMA TypeNext ==
    ASSUME TypeOK, GrantOK, [Next]_vars
    PROVE  TypeOK'
<1>t. /\ now \in Nat
      /\ job \in [Jobs -> Row]
      /\ lease \in [Gens -> Grant]
      /\ lastGen \in {0} \cup Gens
  BY DEF TypeOK
<1>g. \A g \in Gens : lease[g].worker # NoWorker => lease[g].job \in Jobs
  BY DEF GrantOK
<1>o. ASSUME NEW g \in Gens, Owns(g)
      PROVE  lease[g].job \in Jobs /\ job[lease[g].job] \in Row /\ lease[g].worker \in Workers
  <2>1. lease[g].worker # NoWorker /\ lease[g].worker \in Workers \cup {NoWorker}
    BY <1>o, <1>t DEF Owns, Grant
  <2> QED
    BY <2>1, <1>t, <1>g
<1>1. ASSUME NEW w \in Workers, NEW j \in Jobs, Lease(w, j) PROVE TypeOK'
  <2>1. lastGen + 1 \in Gens /\ now + LeaseTerm \in Nat
    <3>1. MaxLeases \in Nat /\ LeaseTerm \in Nat
      BY TimesAssumption
    <3>2. lastGen < MaxLeases
      BY <1>1 DEF Lease
    <3> QED
      BY <1>t, <3>1, <3>2 DEF Gens
  <2>2. job' \in [Jobs -> Row]
    <3>1. [job[j] EXCEPT !.status = "leased", !.owner = w, !.token = lastGen + 1,
                  !.expires = now + LeaseTerm, !.attempts = job[j].attempts + 1,
                  !.handoff = NoWorker, !.handoffUntil = 0] \in Row
      BY <1>t, <2>1, RowEdits
    <3> QED
      BY <1>1, <1>t, <3>1, RowUpdate DEF Lease
  <2>3. lease' \in [Gens -> Grant]
    <3>1. [NoGrant EXCEPT !.worker = w, !.job = j,
               !.until = now + LeaseTerm, !.stopped = FALSE] \in Grant
      BY <2>1 DEF Grant, NoGrant, Handler
    <3> QED
      BY <1>1, <1>t, <3>1, GrantUpdate DEF Lease
  <2> QED
    BY <1>1, <2>1, <2>2, <2>3 DEF Lease, TypeOK
<1>2. ASSUME NEW g \in Gens, NEW heard \in BOOLEAN, Heartbeat(g, heard) PROVE TypeOK'
  <2> DEFINE j == lease[g].job
  <2>1. j \in Jobs /\ job[j] \in Row
    BY <1>2, <1>o DEF Heartbeat, OwnsUnexpired
  <2>2. RenewedExpiry(j) \in Nat
    <3>1. now + LeaseTerm \in Nat /\ job[j].windowEnd + PostWindow \in Nat
      BY <1>t, <2>1, TimesAssumption DEF Row
    <3> QED
      BY <3>1, MinPair DEF RenewedExpiry
  <2>3. job' \in [Jobs -> Row]
    <3>1. [job[j] EXCEPT !.expires = RenewedExpiry(j)] \in Row
      BY <2>1, <2>2 DEF Row
    <3> QED
      BY <1>2, <1>t, <3>1, RowUpdate DEF Heartbeat
  <2>4. lease' \in [Gens -> Grant]
    <3>1. [lease[g] EXCEPT !.until = RenewedExpiry(j)] \in Grant
      BY <1>t, <2>2, GrantTypes
    <3> QED
      BY <1>2, <1>t, <3>1, GrantUpdate DEF Heartbeat
  <2> QED
    BY <1>2, <2>3, <2>4 DEF Heartbeat, TypeOK
<1>3. ASSUME NEW g \in Gens, HeartbeatRefused(g) PROVE TypeOK'
  <2>1. lease' \in [Gens -> Grant]
    BY <1>3, <1>t, GrantTypes, GrantUpdate DEF HeartbeatRefused
  <2> QED
    BY <1>3, <2>1 DEF HeartbeatRefused, TypeOK
<1>4. ASSUME NEW g \in Gens, ReserveCheck(g) PROVE TypeOK'
  <2>1. lease' \in [Gens -> Grant]
    BY <1>4, <1>t, GrantTypes, GrantUpdate DEF ReserveCheck, Handler
  <2> QED
    BY <1>4, <2>1 DEF ReserveCheck, TypeOK
<1>5. ASSUME NEW g \in Gens, NEW s \in Segments, ReserveCommit(g, s) PROVE TypeOK'
  <2>1. lease' \in [Gens -> Grant]
    <3>1. /\ [lease[g] EXCEPT !.handler = "idle"] \in Grant
          /\ [lease[g] EXCEPT !.handler = "idle", !.urls = lease[g].urls \cup {s}] \in Grant
      BY <1>t, GrantTypes DEF Handler
    <3>2. CASE intent[lease[g].job][s] = "consumed"
      BY <1>5, <1>t, <3>1, <3>2, GrantUpdate DEF ReserveCommit
    <3>3. CASE intent[lease[g].job][s] # "consumed"
      BY <1>5, <1>t, <3>1, <3>3, GrantUpdate DEF ReserveCommit
    <3> QED
      BY <3>2, <3>3
  <2>2. intent' \in [Jobs -> [Segments -> {"none", "pending", "consumed", "expired"}]]
    <3>1. intent' \in {intent, [intent EXCEPT ![lease[g].job][s] = "pending"]}
      BY <1>5 DEF ReserveCommit
    <3>2. intent \in [Jobs -> [Segments -> {"none", "pending", "consumed", "expired"}]]
      BY DEF TypeOK
    <3>3. [intent EXCEPT ![lease[g].job][s] = "pending"]
             \in [Jobs -> [Segments -> {"none", "pending", "consumed", "expired"}]]
      BY <3>2
    <3> QED
      BY <3>1, <3>2, <3>3
  <2> QED
    BY <1>5, <2>1, <2>2 DEF ReserveCommit, TypeOK
<1>6. ASSUME NEW g \in Gens, NEW s \in Segments, Put(g, s) PROVE TypeOK'
  BY <1>6 DEF Put, TypeOK
<1>7. ASSUME NEW g \in Gens, NEW s \in Segments, Ingest(g, s) PROVE TypeOK'
  BY <1>7 DEF Ingest, TypeOK
<1>8. ASSUME NEW g \in Gens, CompleteRead(g) PROVE TypeOK'
  <2>1. lease' \in [Gens -> Grant]
    BY <1>8, <1>t, GrantTypes, GrantUpdate DEF CompleteRead, Handler
  <2>2. UNCHANGED <<now, rec, job, lastGen, requests, intent, object, clip>>
    BY <1>8 DEF CompleteRead
  <2> QED
    BY <2>1, <2>2 DEF TypeOK
<1>9. ASSUME NEW g \in Gens, CompleteWrite(g) PROVE TypeOK'
  <2>1. lease' \in [Gens -> Grant]
    BY <1>9, <1>t, GrantTypes, GrantUpdate DEF CompleteWrite, Handler
  <2>2. job' \in [Jobs -> Row]
    <3>1. CASE ~Owns(g)
      BY <1>9, <1>t, <3>1 DEF CompleteWrite
    <3>2. CASE Owns(g)
      <4>1. \A st \in {"done", "error"} :
               [job[lease[g].job] EXCEPT !.status = st, !.completed = now, !.expires = 0] \in Row
        BY <1>o, <1>t, <3>2 DEF Row, JobStatus
      <4> QED
        BY <1>9, <1>t, <3>2, <4>1, RowUpdate DEF CompleteWrite
    <3> QED
      BY <3>1, <3>2
  <2> QED
    BY <1>9, <2>1, <2>2 DEF CompleteWrite, TypeOK
<1>10. ASSUME NEW g \in Gens, Fail(g) PROVE TypeOK'
  <2>1. lease' \in [Gens -> Grant]
    BY <1>10, <1>t, GrantTypes, GrantUpdate DEF Fail
  <2>2. job' \in [Jobs -> Row]
    <3> DEFINE row == job[lease[g].job]
               again == row.attempts < MaxAttempts
    <3>1. Released(row) \in Row /\ row \in Row
      BY <1>10, <1>o, RowTypes DEF Fail
    <3>2. /\ now + RetryDelay \in Nat /\ now \in Nat /\ 0 \in Nat
          /\ row.sched \in Nat
          /\ "pending" \in JobStatus /\ "error" \in JobStatus
      BY <1>t, <3>1, TimesAssumption DEF Row, JobStatus
    <3>3. CASE again
      BY <1>10, <1>t, <3>1, <3>2, <3>3, RowEdits, RowUpdate DEF Fail
    <3>4. CASE ~again
      BY <1>10, <1>t, <3>1, <3>2, <3>4, RowEdits, RowUpdate DEF Fail
    <3> QED
      BY <3>3, <3>4
  <2> QED
    BY <1>10, <2>1, <2>2 DEF Fail, TypeOK
<1>11. ASSUME NEW g \in Gens, Surrender(g) PROVE TypeOK'
  <2> DEFINE row == job[lease[g].job]
  <2>1. lease' \in [Gens -> Grant]
    BY <1>11, <1>t, GrantTypes, GrantUpdate DEF Surrender
  <2>2. row \in Row /\ Released(row) \in Row /\ lease[g].worker \in Workers
    BY <1>11, <1>o, RowTypes DEF Surrender, OwnsUnexpired
  <2>3. RequeueDelays(g) \subseteq Nat
    <3>1. SurrenderDelay(row.attempts) \in Nat
      BY <2>2, TimesAssumption DEF SurrenderDelay, Row
    <3> QED
      BY <3>1 DEF RequeueDelays
  <2>4. job' \in [Jobs -> Row]
    <3>1. PICK delay \in RequeueDelays(g) :
             job' = [job EXCEPT ![lease[g].job] = [Released(@) EXCEPT
                   !.status = "pending", !.sched = now + delay, !.completed = 0,
                   !.handoff = lease[g].worker, !.handoffUntil = now + HandoffHold]]
      BY <1>11 DEF Surrender
    <3>2. [Released(row) EXCEPT
                   !.status = "pending", !.sched = now + delay, !.completed = 0,
                   !.handoff = lease[g].worker, !.handoffUntil = now + HandoffHold] \in Row
      <4>1. now + delay \in Nat /\ now + HandoffHold \in Nat
        BY <1>t, <2>3, TimesAssumption
      <4> QED
        BY <2>2, <4>1, RowEdits
    <3> QED
      BY <1>t, <3>1, <3>2, RowUpdate
  <2> QED
    BY <1>11, <2>1, <2>4 DEF Surrender, TypeOK
<1>r. ASSUME NEW js PROVE Revoke(js) \in [Gens -> Grant]
  BY <1>t, GrantTypes DEF Revoke
<1>w. ASSUME NEW r \in Recordings, Withdraw(r)
      PROVE  job' \in [Jobs -> Row] /\ lease' \in [Gens -> Grant]
  <2>1. \A j \in Jobs : Withdrawn(job[j]) \in Row
    BY <1>t, RowTypes
  <2> QED
    BY <1>w, <1>t, <1>r, <2>1 DEF Withdraw
<1>12. CASE SchedulerTick
  <2>1. job' \in [Jobs -> Row]
    <3>1. ASSUME NEW j \in Jobs
          PROVE  Enqueue(j, MarkStaleMissed(j, ReclaimExpired(CancelCompleted(j, job[j])))) \in Row
      BY <1>t, RowTypes
    <3> QED
      BY <1>12, <3>1 DEF SchedulerTick
  <2>2. lease' \in [Gens -> Grant]
    BY <1>12, <1>r DEF SchedulerTick
  <2>3. rec' \in [Recordings -> RecordingRow]
    <3>1. ASSUME NEW r \in Recordings
          PROVE  /\ StatusAfterStop(r) \in RecStatus
                 /\ CursorAfter(r) \in Nat
                 /\ rec[r] \in RecordingRow
      <4>1. rec[r] \in RecordingRow /\ now \in Nat
        BY DEF TypeOK
      <4>2. StatusAfterStop(r) \in RecStatus
        BY <4>1 DEF StatusAfterStop, RecordingRow, RecStatus
      <4>3. CursorAfter(r) \in Nat
        <5> DEFINE S == {rec[r].lastFire} \cup DueFires(r)
        <5>1. rec[r].lastFire \in Nat
          BY <4>1 DEF RecordingRow
        <5>2. \A f \in DueFires(r) : f \in Nat /\ f <= now
          BY JobsAssumption DEF DueFires, WindowOpen, FireDue
        <5>3. now + rec[r].lastFire \in Nat /\ S \subseteq Nat /\ S # {}
              /\ \A x \in S : x <= now + rec[r].lastFire
          BY <4>1, <5>1, <5>2
        <5>4. Max(S) \in S
          <6> HIDE DEF S
          <6> QED
            BY <5>3, MaxBounded
        <5> QED
          BY <5>1, <5>3, <5>4 DEF CursorAfter
      <4> QED
        BY <4>1, <4>2, <4>3
    <3>2. ASSUME NEW r \in Recordings
          PROVE  [rec[r] EXCEPT !.status = StatusAfterStop(r), !.lastFire = CursorAfter(r)]
                    \in RecordingRow
      BY <3>1 DEF RecordingRow
    <3> QED
      BY <1>12, <3>2 DEF SchedulerTick
  <2> QED
    BY <1>12, <2>1, <2>2, <2>3 DEF SchedulerTick, TypeOK
<1>s. rec \in [Recordings -> RecordingRow] /\ requests + 1 \in Nat
  BY DEF TypeOK
<1>13. ASSUME NEW r \in Recordings, Pause(r) PROVE TypeOK'
  <2>1. [rec[r] EXCEPT !.status = "paused"] \in RecordingRow
    BY <1>s, <1>t DEF RecordingRow, RecStatus
  <2>2. rec' \in [Recordings -> RecordingRow]
    BY <1>13, <1>s, <2>1, RecordingUpdate DEF Pause
  <2> QED
    BY <1>13, <1>s, <1>w, <2>2 DEF Pause, Request, TypeOK
<1>14. ASSUME NEW r \in Recordings, Resume(r) PROVE TypeOK'
  <2>1. [rec[r] EXCEPT !.status = "active"] \in RecordingRow
    BY <1>s, <1>t DEF RecordingRow, RecStatus
  <2>2. rec' \in [Recordings -> RecordingRow]
    BY <1>14, <1>s, <2>1, RecordingUpdate DEF Resume
  <2> QED
    BY <1>14, <1>s, <2>2 DEF Resume, Request, TypeOK
<1>15. ASSUME NEW r \in Recordings, Cancel(r) PROVE TypeOK'
  <2>1. [rec[r] EXCEPT !.status = "canceled"] \in RecordingRow
    BY <1>s, <1>t DEF RecordingRow, RecStatus
  <2>2. rec' \in [Recordings -> RecordingRow]
    BY <1>15, <1>s, <2>1, RecordingUpdate DEF Cancel
  <2> QED
    BY <1>15, <1>s, <1>w, <2>2 DEF Cancel, Request, TypeOK
<1>e. \A row \in RecordingRow : \A st \in RecStatus, sc \in Schedules : \A e, f \in Nat :
         /\ [row EXCEPT !.status = st, !.schedule = sc, !.endAt = e, !.lastFire = f]
               \in RecordingRow
         /\ row.status \in RecStatus
  BY DEF RecordingRow
<1>n. 0 \in Nat /\ "active" \in RecStatus /\ Ends \subseteq Nat
  BY JobsAssumption DEF RecStatus
<1>16. ASSUME NEW r \in Recordings, NEW sc \in Schedules, NEW end \in Ends,
              ChangeSchedule(r, sc, end)
       PROVE  TypeOK'
  <2>1. rec' \in [Recordings -> RecordingRow]
    <3>1. CASE rec[r].status = "completed"
      BY <1>16, <1>s, <1>t, <1>e, <1>n, <3>1, RecordingUpdate DEF ChangeSchedule
    <3>2. CASE rec[r].status # "completed"
      BY <1>16, <1>s, <1>t, <1>e, <1>n, <3>2, RecordingUpdate DEF ChangeSchedule
    <3> QED
      BY <3>1, <3>2
  <2> QED
    BY <1>16, <1>s, <1>w, <2>1 DEF ChangeSchedule, Request, TypeOK
<1>17. ASSUME NEW r \in Recordings, NEW sc \in Schedules, NEW end \in Ends,
              BatchSchedule(r, sc, end)
       PROVE  TypeOK'
  <2>1. rec' \in [Recordings -> RecordingRow]
    BY <1>17, <1>s, <1>e, <1>n, RecordingUpdate DEF BatchSchedule
  <2> QED
    BY <1>17, <1>s, <1>w, <2>1 DEF BatchSchedule, Request, TypeOK
<1>18. ASSUME NEW r \in Recordings, ReconcileIntents(r) PROVE TypeOK'
  BY <1>18 DEF ReconcileIntents, TypeOK
<1>19. CASE ClockTick
  BY <1>19 DEF ClockTick, TypeOK
<1>20. CASE UNCHANGED vars
  BY <1>20 DEF vars, TypeOK
<1>21. ASSUME NEW g \in Gens, Recorder(g) PROVE TypeOK'
  BY <1>21, <1>2, <1>3, <1>4, <1>5, <1>6, <1>7, <1>8, <1>9, <1>10, <1>11 DEF Recorder
<1>22. ASSUME NEW r \in Recordings, Account(r) PROVE TypeOK'
  BY <1>22, <1>13, <1>14, <1>15, <1>16, <1>17, <1>18 DEF Account
<1> QED
  BY <1>1, <1>12, <1>19, <1>20, <1>21, <1>22 DEF Next

-----------------------------------------------------------------------------
(* What each kind of step does to rows and grants, as far as the invariant *)
(* is concerned.                                                           *)

(* A grant under which something happens is not blank.                     *)
LEMMA Granted ==
    ASSUME GrantOK, NEW g \in Gens,
           lease[g].handler # "idle" \/ ~lease[g].stopped \/ lease[g].worker # NoWorker
    PROVE  lease[g].worker # NoWorker /\ lease[g].job \in Jobs /\ ~(g > lastGen)
BY DEF GrantOK, NoGrant

(* A recorder's call touches its own grant only: it may end the capture,   *)
(* and prolongs it only if it is a heartbeat.                              *)
GrantEffect(g) ==
    /\ lease[g].worker # NoWorker /\ lease[g].job \in Jobs /\ ~(g > lastGen)
    /\ \A h \in Gens : h # g => lease'[h] = lease[h]
    /\ lease'[g].worker = lease[g].worker
    /\ lease'[g].job = lease[g].job
    /\ lease'[g].revoked = lease[g].revoked
    /\ lease[g].stopped => lease'[g].stopped
    /\ lease'[g].handler \in {"completing", "completing_empty"} => lease'[g].stopped

(* It touches no row but that of its job, and that only while it owns it.  *)
RowEffect(g) ==
    /\ \A i \in Jobs : job'[i] = job[i] \/ (i = lease[g].job /\ Owns(g))
    /\ job'[lease[g].job].windowEnd = job[lease[g].job].windowEnd
    /\ job'[lease[g].job].token \in {0, job[lease[g].job].token}

(* A renewal of the lease.                                                 *)
Renewal(g) ==
    LET j == lease[g].job IN
    /\ Owns(g)
    /\ job'[j].status = job[j].status
    /\ job'[j].token = job[j].token
    /\ job'[j].owner = job[j].owner
    /\ job'[j].expires = RenewedExpiry(j)
    /\ \/ lease'[g].until = lease[g].until
       \/ lease'[g].until = RenewedExpiry(j) /\ Capturing(g)

RecorderEffect(g) ==
    /\ UNCHANGED <<now, rec, lastGen>>
    /\ GrantEffect(g)
    /\ RowEffect(g)
    /\ \/ lease'[g].until = lease[g].until /\ (lease'[g].stopped \/ job' = job)
       \/ Renewal(g)

LEMMA RecorderStep ==
    ASSUME TypeOK, GrantOK, NEW g \in Gens, Recorder(g)
    PROVE  RecorderEffect(g)
<1> DEFINE j == lease[g].job
           own == job[j]
<1>t. job \in [Jobs -> Row] /\ lease \in [Gens -> Grant] /\ lease[g] \in Grant
  BY DEF TypeOK
<1>g. lease[g].handler \in {"completing", "completing_empty"} => lease[g].stopped
  BY DEF GrantOK
<1>o. ASSUME Owns(g)
      PROVE  /\ lease[g].worker # NoWorker /\ j \in Jobs /\ ~(g > lastGen)
             /\ own \in Row
  BY <1>o, <1>t, Granted DEF Owns
<1>1. ASSUME NEW heard \in BOOLEAN, Heartbeat(g, heard) PROVE RecorderEffect(g)
  <2>1. Owns(g)
    BY <1>1 DEF Heartbeat, OwnsUnexpired
  <2>2. /\ job' = [job EXCEPT ![j] = [own EXCEPT !.expires = RenewedExpiry(j)]]
        /\ \/ lease' = lease
           \/ lease' = [lease EXCEPT ![g] = [lease[g] EXCEPT !.until = RenewedExpiry(j)]]
              /\ Capturing(g)
    BY <1>1 DEF Heartbeat
  <2>3. GrantEffect(g)
    <3>1. CASE lease' = lease
      BY <1>o, <1>g, <2>1, <3>1 DEF GrantEffect
    <3>2. CASE lease' = [lease EXCEPT ![g] = [lease[g] EXCEPT !.until = RenewedExpiry(j)]]
      BY <1>o, <1>g, <1>t, <2>1, <3>2 DEF GrantEffect, Grant
    <3> QED
      BY <2>2, <3>1, <3>2
  <2>4. RowEffect(g)
    BY <1>o, <1>t, <2>1, <2>2 DEF RowEffect, Row
  <2>5. Renewal(g)
    <3>1. /\ job'[j].status = own.status /\ job'[j].token = own.token
          /\ job'[j].owner = own.owner /\ job'[j].expires = RenewedExpiry(j)
      BY <1>o, <1>t, <2>1, <2>2 DEF Row
    <3>2. \/ lease'[g].until = lease[g].until
          \/ lease'[g].until = RenewedExpiry(j) /\ Capturing(g)
      BY <1>t, <2>2 DEF Grant
    <3> QED
      BY <2>1, <3>1, <3>2 DEF Renewal
  <2> QED
    BY <1>1, <2>3, <2>4, <2>5 DEF RecorderEffect, Heartbeat
<1>2. CASE HeartbeatRefused(g)
  <2>1. /\ lease' = [lease EXCEPT ![g] = [lease[g] EXCEPT !.stopped = TRUE]]
        /\ lease[g].worker # NoWorker /\ UNCHANGED <<now, rec, job, lastGen>>
    BY <1>2 DEF HeartbeatRefused
  <2>2. GrantEffect(g)
    BY <1>t, <2>1, Granted DEF GrantEffect, Grant
  <2>3. RowEffect(g) /\ lease'[g].until = lease[g].until
    BY <1>t, <2>1 DEF RowEffect, Grant
  <2> QED
    BY <2>1, <2>2, <2>3 DEF RecorderEffect
<1>3. CASE ReserveCheck(g)
  <2>1. /\ lease' = [lease EXCEPT ![g] = [lease[g] EXCEPT !.handler = "reserving"]]
        /\ lease[g].worker # NoWorker /\ UNCHANGED <<now, rec, job, lastGen>>
    BY <1>3 DEF ReserveCheck, OwnsUnexpired, Owns
  <2>2. GrantEffect(g)
    BY <1>t, <2>1, Granted DEF GrantEffect, Grant
  <2>3. RowEffect(g) /\ lease'[g].until = lease[g].until
    BY <1>t, <2>1 DEF RowEffect, Grant
  <2> QED
    BY <2>1, <2>2, <2>3 DEF RecorderEffect
<1>4. ASSUME NEW s \in Segments, ReserveCommit(g, s) PROVE RecorderEffect(g)
  <2>1. /\ \/ lease' = [lease EXCEPT ![g] = [lease[g] EXCEPT !.handler = "idle"]]
           \/ lease' = [lease EXCEPT ![g] =
                          [lease[g] EXCEPT !.handler = "idle", !.urls = lease[g].urls \cup {s}]]
        /\ UNCHANGED <<now, rec, job, lastGen>>
    BY <1>4 DEF ReserveCommit
  <2>2. lease[g].worker # NoWorker /\ lease[g].job \in Jobs /\ ~(g > lastGen)
    BY <1>4, Granted DEF ReserveCommit
  <2>3. GrantEffect(g)
    <3>1. CASE lease' = [lease EXCEPT ![g] = [lease[g] EXCEPT !.handler = "idle"]]
      BY <1>t, <2>2, <3>1 DEF GrantEffect, Grant
    <3>2. CASE lease' = [lease EXCEPT ![g] =
                [lease[g] EXCEPT !.handler = "idle", !.urls = lease[g].urls \cup {s}]]
      BY <1>t, <2>2, <3>2 DEF GrantEffect, Grant
    <3> QED
      BY <2>1, <3>1, <3>2
  <2>4. RowEffect(g) /\ lease'[g].until = lease[g].until
    BY <1>t, <2>1 DEF RowEffect, Grant
  <2> QED
    BY <2>1, <2>3, <2>4 DEF RecorderEffect
<1>5. ASSUME NEW s \in Segments, Put(g, s) PROVE RecorderEffect(g)
  BY <1>5, <1>g, Granted DEF Put, Capturing, RecorderEffect, GrantEffect, RowEffect
<1>6. ASSUME NEW s \in Segments, Ingest(g, s) PROVE RecorderEffect(g)
  BY <1>6, <1>g, <1>o DEF Ingest, OwnsUnexpired, RecorderEffect, GrantEffect, RowEffect
<1>7. CASE CompleteRead(g)
  <2>1. \E h \in Handler :
           lease' = [lease EXCEPT ![g] = [lease[g] EXCEPT !.stopped = TRUE, !.handler = h]]
    BY <1>7 DEF CompleteRead, Handler
  <2>2. lease[g].worker # NoWorker /\ UNCHANGED <<now, rec, job, lastGen>>
    BY <1>7 DEF CompleteRead, Owns
  <2>3. GrantEffect(g)
    BY <1>t, <2>1, <2>2, Granted DEF GrantEffect, Grant
  <2>4. RowEffect(g) /\ lease'[g].until = lease[g].until
    BY <1>t, <2>1, <2>2 DEF RowEffect, Grant
  <2> QED
    BY <2>2, <2>3, <2>4 DEF RecorderEffect
<1>8. CASE CompleteWrite(g)
  <2>1. /\ lease' = [lease EXCEPT ![g] = [lease[g] EXCEPT !.handler = "idle"]]
        /\ lease[g].handler \in {"completing", "completing_empty"}
        /\ UNCHANGED <<now, rec, lastGen>>
    BY <1>8 DEF CompleteWrite
  <2>2. GrantEffect(g)
    BY <1>t, <2>1, Granted DEF GrantEffect, Grant
  <2>3. lease'[g].until = lease[g].until /\ lease'[g].stopped
    BY <1>g, <1>t, <2>1 DEF Grant
  <2>4. RowEffect(g)
    <3>1. CASE ~Owns(g)
      BY <1>8, <3>1 DEF CompleteWrite, RowEffect
    <3>2. CASE Owns(g)
      BY <1>8, <1>o, <1>t, <3>2 DEF CompleteWrite, RowEffect, Row
    <3> QED
      BY <3>1, <3>2
  <2> QED
    BY <2>1, <2>2, <2>3, <2>4 DEF RecorderEffect
<1>s. ASSUME Owns(g), lease' = [lease EXCEPT ![g] = [lease[g] EXCEPT !.stopped = TRUE]]
      PROVE  GrantEffect(g) /\ lease'[g].until = lease[g].until /\ lease'[g].stopped
  BY <1>o, <1>s, <1>t DEF GrantEffect, Grant
<1>r. Owns(g) => /\ Released(own).windowEnd = own.windowEnd /\ Released(own).token = 0
                 /\ Released(own) \in Row
  BY <1>o, RowTypes DEF Released, Row
<1>9. CASE Fail(g)
  <2>1. Owns(g) /\ UNCHANGED <<now, rec, lastGen>>
    BY <1>9 DEF Fail
  <2>2. \E st, sc, co :
           job' = [job EXCEPT ![j] = [Released(own) EXCEPT
                      !.status = st, !.sched = sc, !.completed = co]]
    BY <1>9 DEF Fail
  <2>3. RowEffect(g)
    BY <1>o, <1>r, <1>t, <2>1, <2>2 DEF RowEffect, Row
  <2> QED
    BY <1>9, <1>s, <2>1, <2>3 DEF RecorderEffect, Fail
<1>10. CASE Surrender(g)
  <2>1. Owns(g) /\ UNCHANGED <<now, rec, lastGen>>
    BY <1>10 DEF Surrender, OwnsUnexpired
  <2>2. \E d, u :
           job' = [job EXCEPT ![j] = [Released(own) EXCEPT
                   !.status = "pending", !.sched = d, !.completed = 0,
                   !.handoff = lease[g].worker, !.handoffUntil = u]]
    BY <1>10 DEF Surrender
  <2>3. RowEffect(g)
    BY <1>o, <1>r, <1>t, <2>1, <2>2 DEF RowEffect, Row
  <2> QED
    BY <1>10, <1>s, <2>1, <2>3 DEF RecorderEffect, Surrender
<1> QED
  BY <1>1, <1>2, <1>3, <1>4, <1>5, <1>6, <1>7, <1>8, <1>9, <1>10 DEF Recorder

(* Revoking leases leaves everything else of a grant alone.            *)
RevokeEffect(js) ==
    \A g \in Gens :
        /\ lease'[g].worker = lease[g].worker
        /\ lease'[g].job = lease[g].job
        /\ lease'[g].until = lease[g].until
        /\ lease'[g].stopped = lease[g].stopped
        /\ lease'[g].handler = lease[g].handler
        /\ lease[g].revoked => lease'[g].revoked
        /\ lease[g].job \in js /\ Owns(g) => lease'[g].revoked
        /\ lease[g].worker = NoWorker => lease'[g] = lease[g]

LEMMA RevokeStep ==
    ASSUME TypeOK, NEW js, lease' = Revoke(js)
    PROVE  RevokeEffect(js)
<1> SUFFICES ASSUME NEW g \in Gens
             PROVE  /\ lease'[g].worker = lease[g].worker
                    /\ lease'[g].job = lease[g].job
                    /\ lease'[g].until = lease[g].until
                    /\ lease'[g].stopped = lease[g].stopped
                    /\ lease'[g].handler = lease[g].handler
                    /\ lease[g].revoked => lease'[g].revoked
                    /\ lease[g].job \in js /\ Owns(g) => lease'[g].revoked
                    /\ lease[g].worker = NoWorker => lease'[g] = lease[g]
  BY DEF RevokeEffect
<1>1. lease[g] \in Grant
  BY DEF TypeOK
<1>2. CASE lease[g].job \in js /\ Owns(g)
  <2>1. lease'[g] = [lease[g] EXCEPT !.revoked = TRUE] /\ lease[g].worker # NoWorker
    BY <1>2 DEF Revoke, Owns
  <2> QED
    BY <1>1, <2>1 DEF Grant
<1>3. CASE ~(lease[g].job \in js /\ Owns(g))
  <2>1. lease'[g] = lease[g]
    BY <1>3 DEF Revoke
  <2> QED
    BY <1>3, <2>1
<1> QED
  BY <1>2, <1>3

(* An account request closes every open job of its recording.              *)
WithdrawEffect(r) ==
    /\ \A j \in Jobs :
          /\ RecOf[j] # r => job'[j] = job[j]
          /\ RecOf[j] = r => job'[j].status \notin Open
          /\ job'[j].windowEnd = job[j].windowEnd
          /\ job'[j].token = job[j].token
    /\ RevokeEffect(JobsOf(r))

LEMMA WithdrawStep ==
    ASSUME TypeOK, NEW r \in Recordings, Withdraw(r)
    PROVE  WithdrawEffect(r)
<1>1. RevokeEffect(JobsOf(r))
  BY RevokeStep DEF Withdraw
<1>2. ASSUME NEW j \in Jobs
      PROVE  /\ RecOf[j] # r => job'[j] = job[j]
             /\ RecOf[j] = r => job'[j].status \notin Open
             /\ job'[j].windowEnd = job[j].windowEnd
             /\ job'[j].token = job[j].token
  <2>1. job[j] \in Row
    BY DEF TypeOK
  <2>2. job'[j] = IF RecOf[j] = r THEN Withdrawn(job[j]) ELSE job[j]
    BY DEF Withdraw
  <2>3. /\ Withdrawn(job[j]).status \notin Open
        /\ Withdrawn(job[j]).windowEnd = job[j].windowEnd
        /\ Withdrawn(job[j]).token = job[j].token
    BY <2>1 DEF Withdrawn, Open, Row
  <2> QED
    BY <2>2, <2>3
<1> QED
  BY <1>1, <1>2 DEF WithdrawEffect

(* The tick: a job is open afterwards if it was and its recording goes on, *)
(* or if it was enqueued; a row leased and not expired is left alone.      *)
TickEffect(j) ==
    /\ job'[j].windowEnd \in {job[j].windowEnd, EffectiveEnd(j)}
    /\ job'[j].token \in {0, job[j].token}
    /\ job'[j].status \in Open =>
          \/ /\ job[j].status \in Open
             /\ StatusAfterStop(RecOf[j]) # "completed"
             /\ job'[j].windowEnd = job[j].windowEnd
          \/ Enqueuing(RecOf[j]) /\ (IsWindow(j) => job'[j].windowEnd = EffectiveEnd(j))
    /\ /\ job[j].status = "leased" /\ ~(job[j].expires < now)
       /\ StatusAfterStop(RecOf[j]) # "completed"
       => job'[j] = job[j]

LEMMA TickStep ==
    ASSUME TypeOK, SchedulerTick, NEW j \in Jobs
    PROVE  TickEffect(j)
<1> DEFINE r0 == job[j]
           r1 == CancelCompleted(j, r0)
           r2 == ReclaimExpired(r1)
           r3 == MarkStaleMissed(j, r2)
           r4 == Enqueue(j, r3)
<1>0. r0 \in Row /\ job'[j] = r4
  BY DEF TypeOK, SchedulerTick
<1>1. r1 \in Row /\ r2 \in Row /\ r3 \in Row
  BY <1>0, RowTypes
<1>2. /\ r1.windowEnd = r0.windowEnd /\ r1.token = r0.token
      /\ r1.status \in Open =>
            r0.status \in Open /\ StatusAfterStop(RecOf[j]) # "completed"
      /\ StatusAfterStop(RecOf[j]) # "completed" => r1 = r0
  BY <1>0 DEF CancelCompleted, Open, Row
<1>a. ASSUME NEW row \in Row
      PROVE  /\ Released(row) \in Row
             /\ Released(row).windowEnd = row.windowEnd
             /\ Released(row).token = 0
             /\ Released(row).status = row.status
  BY RowTypes DEF Released, Row
<1>3. /\ r2.windowEnd = r1.windowEnd /\ r2.token \in {0, r1.token}
      /\ r2.status \in Open => r1.status \in Open
      /\ r1.status = "leased" /\ ~(r1.expires < now) => r2 = r1
  <2> HIDE DEF r1
  <2> QED
    BY <1>1, <1>a DEF ReclaimExpired, Open, Row
<1>4. /\ r3.windowEnd = r2.windowEnd /\ r3.token \in {0, r2.token}
      /\ r3.status \in Open => r2.status \in Open
      /\ r2.status = "leased" => r3 = r2
  <2> HIDE DEF r2
  <2> QED
    BY <1>1, <1>a DEF MarkStaleMissed, Open, Row
<1>5. /\ r4.windowEnd \in {r3.windowEnd, EffectiveEnd(j)} /\ r4.token \in {0, r3.token}
      /\ r4.status \in Open =>
            \/ r3.status \in Open /\ r4.windowEnd = r3.windowEnd
            \/ Enqueuing(RecOf[j]) /\ (IsWindow(j) => r4.windowEnd = EffectiveEnd(j))
      /\ r3.status = "leased" => r4 = r3
  <2> HIDE DEF r3
  <2>1. CASE ~Enqueuing(RecOf[j])
    BY <2>1 DEF Enqueue
  <2>2. CASE Enqueuing(RecOf[j]) /\ IsWindow(j)
    <3>1. r4 = EnqueueWindow(j, r3)
      BY <2>2 DEF Enqueue
    <3>2. CASE WindowOpen(j) /\ Revivable(j, r3)
      <4>1. r4 = [Released(r3) EXCEPT !.status = "pending", !.sched = now, !.attempts = 0,
                               !.completed = 0, !.windowEnd = EffectiveEnd(j)]
        BY <3>1, <3>2 DEF EnqueueWindow
      <4>2. r3.status # "leased"
        BY <3>2 DEF Revivable
      <4>3. r4.windowEnd = EffectiveEnd(j) /\ r4.token = 0
        BY <1>1, <1>a, <4>1 DEF Row
      <4> QED
        BY <2>2, <4>2, <4>3
    <3>3. CASE ~(WindowOpen(j) /\ Revivable(j, r3)) /\ WindowOpen(j) /\ r3.status = "absent"
      <4>1. r4 = [r3 EXCEPT !.status = "pending", !.sched = FireAt[j],
                     !.windowEnd = EffectiveEnd(j)]
        BY <3>1, <3>3 DEF EnqueueWindow
      <4>2. r4.windowEnd = EffectiveEnd(j) /\ r4.token = r3.token
        BY <1>1, <4>1 DEF Row
      <4> QED
        BY <2>2, <3>3, <4>2
    <3>4. CASE ~(WindowOpen(j) /\ Revivable(j, r3)) /\ ~(WindowOpen(j) /\ r3.status = "absent")
      BY <3>1, <3>4 DEF EnqueueWindow
    <3> QED
      BY <3>2, <3>3, <3>4
  <2>3. CASE Enqueuing(RecOf[j]) /\ ~IsWindow(j)
    <3>1. r4 = EnqueueFire(j, r3)
      BY <2>3 DEF Enqueue
    <3> QED
      BY <1>1, <2>3, <3>1 DEF EnqueueFire, Row
  <2> QED
    BY <2>1, <2>2, <2>3
<1> HIDE DEF r1, r2, r3, r4
<1>6. /\ job'[j].windowEnd \in {job[j].windowEnd, EffectiveEnd(j)}
      /\ job'[j].token \in {0, job[j].token}
  BY <1>0, <1>2, <1>3, <1>4, <1>5
<1>7. job'[j].status \in Open =>
          \/ /\ job[j].status \in Open
             /\ StatusAfterStop(RecOf[j]) # "completed"
             /\ job'[j].windowEnd = job[j].windowEnd
          \/ Enqueuing(RecOf[j]) /\ (IsWindow(j) => job'[j].windowEnd = EffectiveEnd(j))
  BY <1>0, <1>2, <1>3, <1>4, <1>5
<1>8. /\ job[j].status = "leased" /\ ~(job[j].expires < now)
      /\ StatusAfterStop(RecOf[j]) # "completed"
      => job'[j] = job[j]
  BY <1>0, <1>2, <1>3, <1>4, <1>5
<1> QED
  BY <1>6, <1>7, <1>8 DEF TickEffect

(* The tick keeps schedule and end of a recording, stops what is over, and revokes  *)
(* the leases of what is completed.                                        *)
LEMMA TickRest ==
    ASSUME TypeOK, SchedulerTick
    PROVE  /\ UNCHANGED <<now, lastGen>>
           /\ \A r \in Recordings : /\ rec'[r].endAt = rec[r].endAt
                                    /\ rec'[r].schedule = rec[r].schedule
                                    /\ rec'[r].status = StatusAfterStop(r)
           /\ RevokeEffect({j \in Jobs : StatusAfterStop(RecOf[j]) = "completed"})
<1>1. RevokeEffect({j \in Jobs : StatusAfterStop(RecOf[j]) = "completed"})
  BY RevokeStep DEF SchedulerTick
<1>2. ASSUME NEW r \in Recordings
      PROVE  /\ rec'[r].endAt = rec[r].endAt
             /\ rec'[r].schedule = rec[r].schedule
             /\ rec'[r].status = StatusAfterStop(r)
  <2>1. rec[r] \in RecordingRow
    BY DEF TypeOK
  <2>2. \E f : rec'[r] = [rec[r] EXCEPT !.status = StatusAfterStop(r), !.lastFire = f]
    BY DEF SchedulerTick
  <2> QED
    BY <2>1, <2>2 DEF RecordingRow
<1> QED
  BY <1>1, <1>2 DEF SchedulerTick

(* A request touches one recording.  It withdraws its jobs, or leaves *)
(* all rows alone and at most activates the recording.                     *)
AccountEffect(r) ==
    /\ UNCHANGED <<now, lastGen>>
    /\ \A q \in Recordings : q # r => rec'[q] = rec[q]
    /\ \/ WithdrawEffect(r)
       \/ /\ UNCHANGED <<job, lease>>
          /\ \/ rec' = rec
             \/ /\ rec'[r].status = "active" /\ rec'[r].endAt = rec[r].endAt
                /\ rec'[r].schedule = rec[r].schedule

LEMMA AccountStep ==
    ASSUME TypeOK, NEW r \in Recordings, Account(r)
    PROVE  AccountEffect(r)
<1>t. rec \in [Recordings -> RecordingRow] /\ rec[r] \in RecordingRow
  BY DEF TypeOK
<1>1. CASE Pause(r)
  BY <1>1, <1>t, WithdrawStep DEF Pause, Request, AccountEffect
<1>2. CASE Resume(r)
  BY <1>2, <1>t DEF Resume, Request, AccountEffect, RecordingRow
<1>3. CASE Cancel(r)
  BY <1>3, <1>t, WithdrawStep DEF Cancel, Request, AccountEffect
<1>4. ASSUME NEW sc \in Schedules, NEW e \in Ends, ChangeSchedule(r, sc, e)
      PROVE  AccountEffect(r)
  BY <1>4, <1>t, WithdrawStep DEF ChangeSchedule, Request, AccountEffect
<1>5. ASSUME NEW sc \in Schedules, NEW e \in Ends, BatchSchedule(r, sc, e)
      PROVE  AccountEffect(r)
  BY <1>5, <1>t, WithdrawStep DEF BatchSchedule, Request, AccountEffect
<1>6. CASE ReconcileIntents(r)
  BY <1>6 DEF ReconcileIntents, AccountEffect
<1> QED
  BY <1>1, <1>2, <1>3, <1>4, <1>5, <1>6 DEF Account

(* The grant of a lease.                                                   *)
LeaseEffect(w, j) ==
    /\ UNCHANGED <<now, rec>>
    /\ lastGen' = lastGen + 1 /\ lastGen' \in Gens
    /\ \A i \in Jobs : i # j => job'[i] = job[i]
    /\ \A h \in Gens : h # lastGen' => lease'[h] = lease[h]
    /\ job'[j].status = "leased" /\ job'[j].owner = w /\ job'[j].token = lastGen'
    /\ job'[j].windowEnd = job[j].windowEnd /\ job'[j].expires = now + LeaseTerm
    /\ lease'[lastGen'].worker = w /\ lease'[lastGen'].job = j
    /\ lease'[lastGen'].until = now + LeaseTerm
    /\ lease'[lastGen'].handler = "idle"

LEMMA LeaseStep ==
    ASSUME TypeOK, NEW w \in Workers, NEW j \in Jobs, Lease(w, j)
    PROVE  LeaseEffect(w, j)
<1>t. /\ job \in [Jobs -> Row] /\ lease \in [Gens -> Grant] /\ lastGen \in {0} \cup Gens
      /\ job[j] \in Row
  BY DEF TypeOK
<1>1. UNCHANGED <<now, rec>> /\ lastGen' = lastGen + 1 /\ lastGen < MaxLeases
  BY DEF Lease
<1>2. lastGen' \in Gens
  <2>1. MaxLeases \in Nat
    BY TimesAssumption
  <2> QED
    BY <1>1, <1>t, <2>1 DEF Gens
<1>3. /\ \A i \in Jobs : i # j => job'[i] = job[i]
      /\ job'[j].status = "leased" /\ job'[j].owner = w /\ job'[j].token = lastGen'
      /\ job'[j].windowEnd = job[j].windowEnd /\ job'[j].expires = now + LeaseTerm
  <2>1. \E a : job' = [job EXCEPT ![j] = [job[j] EXCEPT
                  !.status = "leased", !.owner = w, !.token = lastGen',
                  !.expires = now + LeaseTerm, !.attempts = a,
                  !.handoff = NoWorker, !.handoffUntil = 0]]
    BY <1>1 DEF Lease
  <2> QED
    BY <1>t, <2>1 DEF Row
<1>4. /\ \A h \in Gens : h # lastGen' => lease'[h] = lease[h]
      /\ lease'[lastGen'].worker = w /\ lease'[lastGen'].job = j
      /\ lease'[lastGen'].until = now + LeaseTerm
      /\ lease'[lastGen'].handler = "idle"
  <2>1. lease' = [lease EXCEPT ![lastGen'] =
                  [NoGrant EXCEPT !.worker = w, !.job = j,
                                  !.until = now + LeaseTerm, !.stopped = FALSE]]
    BY <1>1 DEF Lease
  <2> QED
    BY <1>t, <1>2, <2>1 DEF NoGrant
<1> QED
  BY <1>1, <1>2, <1>3, <1>4 DEF LeaseEffect

-----------------------------------------------------------------------------
(* The invariant is inductive: one lemma per conjunct.                     *)

LEMMA InvInit == Init => Inv
<1> SUFFICES ASSUME Init PROVE Inv
  OBVIOUS
<1>1. TypeOK
  BY TypeInit
<1>2. \A g \in Gens : lease[g] = NoGrant
  BY DEF Init
<1>3. \A j \in Jobs : job[j] = NoRow
  BY DEF Init
<1>n. NoGrant.until = 0 /\ NoGrant.worker = NoWorker /\ NoGrant.handler = "idle" /\ NoGrant.stopped
  BY DEF NoGrant
<1>4. GrantOK
  <2>1. now \in Nat /\ LeaseTerm \in Nat
    BY TimesAssumption DEF Init
  <2> QED
    BY <1>2, <1>n, <2>1 DEF GrantOK
<1>6. WorkOnlyWhenActive
  BY <1>3 DEF WorkOnlyWhenActive, Open, NoRow
<1>7. WindowEndOK
  BY <1>3 DEF WindowEndOK, Open, NoRow
<1>8. HolderOK /\ NoOverlappingCapture
  BY <1>2, <1>n DEF HolderOK, NoOverlappingCapture, Capturing
<1> QED
  BY <1>1, <1>4, <1>6, <1>7, <1>8 DEF Inv

LEMMA GrantNext ==
    ASSUME TypeOK, GrantOK, [Next]_vars
    PROVE  GrantOK'
<1>t. now \in Nat /\ lastGen \in Nat /\ LeaseTerm \in Nat /\ now + LeaseTerm \in Nat
      /\ \A g \in Gens : lease[g].until \in Nat /\ g \in Nat
  <2>1. now \in Nat \ {0} /\ lastGen \in {0} \cup Gens /\ lease \in [Gens -> Grant]
    BY DEF TypeOK
  <2>2. LeaseTerm \in Nat
    BY TimesAssumption
  <2>3. \A g \in Gens : lease[g].until \in Nat
    BY <2>1 DEF Grant
  <2>4. \A g \in Gens : g \in Nat
    BY DEF Gens
  <2>5. lastGen \in Nat
    BY <2>1, <2>4
  <2> QED
    BY <2>1, <2>2, <2>3, <2>4, <2>5
<1>1. CASE ClockTick
  BY <1>1, <1>t DEF ClockTick, GrantOK
<1>v. ASSUME NEW js, RevokeEffect(js), UNCHANGED <<now, lastGen>> PROVE GrantOK'
  <2> SUFFICES ASSUME NEW g \in Gens
               PROVE  /\ (lease'[g].worker = NoWorker \/ g > lastGen) => lease'[g] = NoGrant
                      /\ lease'[g].worker # NoWorker => lease'[g].job \in Jobs
                      /\ lease'[g].handler \in {"completing", "completing_empty"} => lease'[g].stopped
                      /\ lease'[g].until <= now + LeaseTerm
    BY <1>v DEF GrantOK
  <2>0. NoGrant.worker = NoWorker
    BY DEF NoGrant
  <2>1. (lease[g].worker = NoWorker \/ g > lastGen) =>
           lease[g] = NoGrant /\ lease[g].worker = NoWorker
    BY <2>0 DEF GrantOK
  <2> QED
    BY <1>v, <2>1 DEF RevokeEffect, GrantOK
<1>2. CASE SchedulerTick
  BY <1>2, <1>v, TickRest
<1>3. ASSUME NEW w \in Workers, NEW j \in Jobs, Lease(w, j) PROVE GrantOK'
  <2>1. LeaseEffect(w, j)
    BY <1>3, LeaseStep
  <2>2. w # NoWorker
    BY SetsAssumption
  <2>3. ASSUME NEW g \in Gens
        PROVE  /\ (lease'[g].worker = NoWorker \/ g > lastGen') => lease'[g] = NoGrant
               /\ lease'[g].worker # NoWorker => lease'[g].job \in Jobs
               /\ lease'[g].handler \in {"completing", "completing_empty"} => lease'[g].stopped
               /\ lease'[g].until <= now' + LeaseTerm
    <3>1. CASE g = lastGen'
      BY <1>t, <2>1, <2>2, <3>1 DEF LeaseEffect
    <3>2. CASE g # lastGen'
      <4>1. lease'[g] = lease[g] /\ now' = now /\ (g > lastGen' => g > lastGen)
        BY <1>t, <2>1, <3>2 DEF LeaseEffect
      <4> QED
        BY <4>1 DEF GrantOK
    <3> QED
      BY <3>1, <3>2
  <2> QED
    BY <2>3 DEF GrantOK
<1>4. ASSUME NEW g \in Gens, Recorder(g) PROVE GrantOK'
  <2>1. RecorderEffect(g)
    BY <1>4, RecorderStep
  <2>2. GrantEffect(g) /\ now' = now /\ lastGen' = lastGen
    BY <2>1 DEF RecorderEffect
  <2>3. lease'[g].until <= now + LeaseTerm
    <3>1. CASE lease'[g].until = lease[g].until
      BY <3>1 DEF GrantOK
    <3>2. CASE lease'[g].until = RenewedExpiry(lease[g].job) /\ lease[g].job \in Jobs
      <4>1. job[lease[g].job].windowEnd + PostWindow \in Nat
        BY <3>2, TimesAssumption DEF TypeOK, Row
      <4> QED
        BY <1>t, <3>2, <4>1, MinPair DEF RenewedExpiry
    <3> QED
      BY <2>1, <2>2, <3>1, <3>2 DEF RecorderEffect, Renewal, GrantEffect
  <2> QED
    BY <2>2, <2>3 DEF GrantEffect, GrantOK
<1>5. ASSUME NEW r \in Recordings, Account(r) PROVE GrantOK'
  <2>1. AccountEffect(r)
    BY <1>5, AccountStep
  <2>2. CASE WithdrawEffect(r)
    BY <1>v, <2>1, <2>2 DEF AccountEffect, WithdrawEffect
  <2>3. CASE UNCHANGED <<job, lease>>
    BY <2>1, <2>3 DEF AccountEffect, GrantOK
  <2> QED
    BY <2>1, <2>2, <2>3 DEF AccountEffect
<1>6. CASE UNCHANGED vars
  BY <1>6 DEF vars, GrantOK
<1> QED
  BY <1>1, <1>2, <1>3, <1>4, <1>5, <1>6 DEF Next

(* Open jobs belong to active recordings: a recorder never opens a job, *)
(* a request closes the jobs of its recording before it changes anything.  *)
LEMMA WorkNext ==
    ASSUME TypeOK, GrantOK, WorkOnlyWhenActive, [Next]_vars
    PROVE  WorkOnlyWhenActive'
<1>t. \A j \in Jobs : RecOf[j] \in Recordings
  BY JobsAssumption
<1>1. CASE ClockTick
  BY <1>1 DEF ClockTick, WorkOnlyWhenActive
<1>2. CASE SchedulerTick
  <2> SUFFICES ASSUME NEW j \in Jobs, job'[j].status \in Open
               PROVE  rec'[RecOf[j]].status = "active"
    BY DEF WorkOnlyWhenActive
  <2>1. rec'[RecOf[j]].status = StatusAfterStop(RecOf[j])
    BY <1>2, <1>t, TickRest
  <2>2. \/ job[j].status \in Open /\ StatusAfterStop(RecOf[j]) # "completed"
        \/ Enqueuing(RecOf[j])
    BY <1>2, TickStep DEF TickEffect
  <2>3. ASSUME job[j].status \in Open, StatusAfterStop(RecOf[j]) # "completed"
        PROVE  StatusAfterStop(RecOf[j]) = "active"
    BY <2>3 DEF WorkOnlyWhenActive, StatusAfterStop
  <2> QED
    BY <2>1, <2>2, <2>3 DEF Enqueuing
<1>3. ASSUME NEW w \in Workers, NEW j \in Jobs, Lease(w, j) PROVE WorkOnlyWhenActive'
  <2>1. rec[RecOf[j]].status = "active"
    BY <1>3 DEF Lease, Eligible
  <2> QED
    BY <1>3, <2>1, LeaseStep DEF LeaseEffect, WorkOnlyWhenActive
<1>4. ASSUME NEW g \in Gens, Recorder(g) PROVE WorkOnlyWhenActive'
  <2>1. RecorderEffect(g)
    BY <1>4, RecorderStep
  <2>2. rec' = rec /\ \A i \in Jobs : job'[i] = job[i] \/ (i = lease[g].job /\ Owns(g))
    BY <2>1 DEF RecorderEffect, RowEffect
  <2> QED
    BY <2>2 DEF WorkOnlyWhenActive, Owns, Open
<1>5. ASSUME NEW r \in Recordings, Account(r) PROVE WorkOnlyWhenActive'
  <2>1. AccountEffect(r)
    BY <1>5, AccountStep
  <2> QED
    BY <1>t, <2>1 DEF AccountEffect, WithdrawEffect, WorkOnlyWhenActive
<1>6. CASE UNCHANGED vars
  BY <1>6 DEF vars, WorkOnlyWhenActive
<1> QED
  BY <1>1, <1>2, <1>3, <1>4, <1>5, <1>6 DEF Next

LEMMA WindowEndNext ==
    ASSUME TypeOK, GrantOK, WindowEndOK, [Next]_vars
    PROVE  WindowEndOK'
<1>t. \A j \in Jobs : RecOf[j] \in Recordings
  BY JobsAssumption
<1>e. ASSUME NEW j \in Jobs, rec'[RecOf[j]].endAt = rec[RecOf[j]].endAt,
             rec'[RecOf[j]].schedule = rec[RecOf[j]].schedule
      PROVE  EffectiveEnd(j)' = EffectiveEnd(j)
  BY <1>e DEF EffectiveEnd, CloseNow
<1>1. CASE ClockTick
  BY <1>1, <1>e DEF ClockTick, WindowEndOK
<1>2. CASE SchedulerTick
  <2> SUFFICES ASSUME NEW j \in Jobs, IsWindow(j), job'[j].status \in Open
               PROVE  job'[j].windowEnd = EffectiveEnd(j)'
    BY DEF WindowEndOK, IsWindow
  <2>1. EffectiveEnd(j)' = EffectiveEnd(j)
    BY <1>2, <1>e, <1>t, TickRest
  <2>2. TickEffect(j)
    BY <1>2, TickStep
  <2> QED
    BY <1>t, <2>1, <2>2 DEF TickEffect, WindowEndOK
<1>3. ASSUME NEW w \in Workers, NEW j \in Jobs, Lease(w, j) PROVE WindowEndOK'
  <2>1. LeaseEffect(w, j) /\ job[j].status = "pending"
    BY <1>3, LeaseStep DEF Lease, Eligible
  <2>2. \A i \in Jobs : EffectiveEnd(i)' = EffectiveEnd(i)
    BY <1>e, <2>1 DEF LeaseEffect
  <2> QED
    BY <2>1, <2>2 DEF LeaseEffect, WindowEndOK, IsWindow, Open
<1>4. ASSUME NEW g \in Gens, Recorder(g) PROVE WindowEndOK'
  <2>1. RecorderEffect(g)
    BY <1>4, RecorderStep
  <2>2. \A i \in Jobs : EffectiveEnd(i)' = EffectiveEnd(i)
    BY <1>e, <2>1 DEF RecorderEffect
  <2>3. ASSUME NEW i \in Jobs
        PROVE  /\ job'[i].windowEnd = job[i].windowEnd
               /\ job'[i].status \in Open => job[i].status \in Open
    BY <2>1 DEF RecorderEffect, RowEffect, Owns, Open
  <2> QED
    BY <2>2, <2>3 DEF WindowEndOK, IsWindow
<1>5. ASSUME NEW r \in Recordings, Account(r) PROVE WindowEndOK'
  <2>1. AccountEffect(r)
    BY <1>5, AccountStep
  <2> SUFFICES ASSUME NEW j \in Jobs, IsWindow(j), job'[j].status \in Open
               PROVE  job'[j].windowEnd = EffectiveEnd(j)'
    BY DEF WindowEndOK, IsWindow
  <2>2. CASE WithdrawEffect(r)
    <3>1. CASE RecOf[j] = r
      BY <2>2, <3>1 DEF WithdrawEffect, WindowEndOK
    <3>2. CASE RecOf[j] # r
      BY <1>e, <1>t, <2>1, <2>2, <3>2 DEF AccountEffect, WithdrawEffect, WindowEndOK
    <3> QED
      BY <3>1, <3>2
  <2>3. CASE /\ UNCHANGED <<job, lease>>
             /\ \/ rec' = rec
                \/ /\ rec'[r].status = "active" /\ rec'[r].endAt = rec[r].endAt
                   /\ rec'[r].schedule = rec[r].schedule
    <3>1. /\ rec'[RecOf[j]].endAt = rec[RecOf[j]].endAt
          /\ rec'[RecOf[j]].schedule = rec[RecOf[j]].schedule
      BY <1>t, <2>1, <2>3 DEF AccountEffect
    <3> QED
      BY <1>e, <2>3, <3>1 DEF WindowEndOK
  <2> QED
    BY <2>1, <2>2, <2>3 DEF AccountEffect
<1>6. CASE UNCHANGED vars
  BY <1>6, <1>e DEF vars, WindowEndOK
<1> QED
  BY <1>1, <1>2, <1>3, <1>4, <1>5, <1>6 DEF Next

(* Whoever captures under an unrevoked lease keeps its row.  The tick takes *)
(* back expired rows only, and no renewal sets an expiry below what the    *)
(* recorder was told: that is at most a term from now and, as a term is    *)
(* not longer than PostWindow, at most what a renewal is cut to.           *)
LEMMA HolderNext ==
    ASSUME Inv, [Next]_vars
    PROVE  HolderOK'
<1>0. TypeOK
  BY DEF Inv
<1>n. /\ now \in Nat /\ LeaseTerm \in Nat /\ PostWindow \in Nat /\ LeaseTerm <= PostWindow
      /\ Gens \subseteq Nat
  <2>1. /\ LeaseTerm \in Nat /\ PostWindow \in Nat /\ LeaseTerm <= PostWindow
    BY TimesAssumption
  <2>2. now \in Nat
    BY <1>0 DEF TypeOK
  <2> QED
    BY <2>1, <2>2 DEF Gens
<1> USE DEF Inv
<1>t. /\ \A g \in Gens : lease[g] \in Grant /\ lease[g].until \in Nat
      /\ \A j \in Jobs : /\ job[j] \in Row /\ job[j].windowEnd \in Nat
                         /\ job[j].expires \in Nat
  BY DEF TypeOK, Grant, Row
<1>c. \A g \in Gens : Capturing(g) => lease[g].worker # NoWorker /\ lease[g].job \in Jobs
  BY Granted DEF Capturing
<1>s. ASSUME NEW g \in Gens, Held(g), job'[lease[g].job] = job[lease[g].job],
             lease'[g].job = lease[g].job, lease'[g].worker = lease[g].worker,
             lease'[g].until = lease[g].until
      PROVE  Held(g)'
  BY <1>s DEF Held, IsWindow
<1>1. CASE ClockTick
  <2>1. now' = now + 1 /\ UNCHANGED <<job, lease>>
    BY <1>1 DEF ClockTick
  <2> SUFFICES ASSUME NEW g \in Gens, Capturing(g)', ~lease[g].revoked
               PROVE  Held(g)'
    BY <2>1 DEF HolderOK
  <2>2. Capturing(g)
    BY <1>n, <1>t, <2>1 DEF Capturing
  <2> QED
    BY <1>s, <2>1, <2>2 DEF HolderOK
<1>v. ASSUME NEW js, RevokeEffect(js), now' = now,
             NEW g \in Gens, Capturing(g)', ~lease'[g].revoked
      PROVE  /\ Capturing(g) /\ lease[g].job \in Jobs
             /\ lease'[g].job = lease[g].job /\ lease'[g].worker = lease[g].worker
             /\ lease'[g].until = lease[g].until
             /\ Held(g) /\ lease[g].job \notin js
  <2>1. Capturing(g) /\ ~lease[g].revoked
    BY <1>v DEF RevokeEffect, Capturing
  <2>2. Held(g) => Owns(g)
    BY <1>c, <2>1 DEF Held, Owns
  <2> QED
    BY <1>c, <1>v, <2>1, <2>2 DEF RevokeEffect, HolderOK
<1>2. CASE SchedulerTick
  <2> DEFINE js == {j \in Jobs : StatusAfterStop(RecOf[j]) = "completed"}
  <2>1. RevokeEffect(js) /\ now' = now
    BY <1>2, TickRest
  <2> SUFFICES ASSUME NEW g \in Gens, Capturing(g)', ~lease'[g].revoked
               PROVE  Held(g)'
    BY DEF HolderOK
  <2> DEFINE j == lease[g].job
  <2>2. /\ Capturing(g) /\ j \in Jobs /\ lease'[g].job = j
        /\ lease'[g].worker = lease[g].worker /\ lease'[g].until = lease[g].until
        /\ Held(g) /\ j \notin js
    <3> HIDE DEF js
    <3> QED
      BY <1>v, <2>1
  <2>3. job[j].status = "leased" /\ StatusAfterStop(RecOf[j]) # "completed"
    BY <2>2 DEF Held
  <2>4. ~(job[j].expires < now)
    BY <1>n, <1>t, <2>2 DEF Held, Capturing
  <2>5. job'[j] = job[j]
    BY <1>2, <2>2, <2>3, <2>4, TickStep DEF TickEffect
  <2> QED
    BY <1>s, <2>2, <2>5
<1>3. ASSUME NEW w \in Workers, NEW j \in Jobs, Lease(w, j) PROVE HolderOK'
  <2>1. LeaseEffect(w, j) /\ job[j].status = "pending" /\ Capturable(j)
    BY <1>3, LeaseStep DEF Lease, Eligible
  <2> SUFFICES ASSUME NEW g \in Gens, Capturing(g)', ~lease'[g].revoked
               PROVE  Held(g)'
    BY DEF HolderOK
  <2>2. CASE g = lastGen'
    <3>1. IsWindow(j) => now + LeaseTerm <= job[j].windowEnd + PostWindow
      BY <1>n, <1>t, <2>1 DEF Capturable
    <3>2. now + LeaseTerm <= now + LeaseTerm
      BY <1>n
    <3> QED
      BY <2>1, <2>2, <3>1, <3>2 DEF LeaseEffect, Held, IsWindow
  <2>3. CASE g # lastGen'
    <3>1. lease'[g] = lease[g] /\ now' = now
      BY <2>1, <2>3 DEF LeaseEffect
    <3>2. Capturing(g) /\ ~lease[g].revoked
      BY <3>1 DEF Capturing
    <3>3. Held(g)
      BY <3>2 DEF HolderOK
    <3>4. lease[g].job # j /\ lease[g].job \in Jobs
      BY <1>c, <2>1, <3>2, <3>3 DEF Held
    <3>5. job'[lease[g].job] = job[lease[g].job]
      BY <2>1, <3>4 DEF LeaseEffect
    <3> QED
      BY <1>s, <3>1, <3>3, <3>5
  <2> QED
    BY <2>2, <2>3
<1>4. ASSUME NEW g \in Gens, Recorder(g) PROVE HolderOK'
  <2>1. RecorderEffect(g)
    BY <1>4, RecorderStep
  <2>2. /\ now' = now /\ GrantEffect(g) /\ RowEffect(g)
        /\ lease[g].job \in Jobs
    BY <2>1 DEF RecorderEffect, GrantEffect
  <2> SUFFICES ASSUME NEW h \in Gens, Capturing(h)', ~lease'[h].revoked
               PROVE  Held(h)'
    BY DEF HolderOK
  <2>3. CASE h # g
    <3>1. lease'[h] = lease[h]
      BY <2>2, <2>3 DEF GrantEffect
    <3>2. Capturing(h) /\ ~lease[h].revoked
      BY <2>2, <3>1 DEF Capturing
    <3>3. Held(h)
      BY <3>2 DEF HolderOK
    <3>4. job'[lease[h].job] = job[lease[h].job]
      BY <1>c, <2>2, <2>3, <3>2, <3>3 DEF RowEffect, Held, Owns
    <3> QED
      BY <1>s, <3>1, <3>3, <3>4
  <2>4. CASE h = g
    <3> DEFINE j == lease[g].job
    <3>1. /\ ~lease'[g].stopped /\ now < lease'[g].until /\ ~lease[g].revoked
          /\ lease'[g].job = j /\ lease'[g].worker = lease[g].worker
      BY <2>2, <2>4 DEF Capturing, GrantEffect
    <3>2. ASSUME lease'[g].until = lease[g].until
          PROVE  Held(g)
      <4>1. Capturing(g)
        BY <2>2, <3>1, <3>2 DEF Capturing, GrantEffect
      <4> QED
        BY <3>1, <4>1 DEF HolderOK
    <3>3. CASE job' = job /\ lease'[g].until = lease[g].until
      BY <1>s, <2>4, <3>1, <3>2, <3>3
    <3>4. CASE Renewal(g)
      <4>1. job'[j].status = "leased" /\ job'[j].token = g /\ job'[j].owner = lease'[g].worker
        BY <2>2, <3>4 DEF Renewal, Owns, GrantEffect
      <4>2. job'[j].expires = RenewedExpiry(j) /\ job'[j].windowEnd = job[j].windowEnd
        BY <2>2, <3>4 DEF Renewal, RowEffect
      <4>3. lease'[g].until <= now + LeaseTerm
        <5>1. GrantOK' /\ now' = now
          BY <2>2, GrantNext
        <5> QED
          BY <5>1 DEF GrantOK
      <4>4. /\ RenewedExpiry(j) \in {now + LeaseTerm, job[j].windowEnd + PostWindow}
            /\ IsWindow(j) => RenewedExpiry(j) <= job[j].windowEnd + PostWindow
            /\ ~IsWindow(j) => RenewedExpiry(j) = now + LeaseTerm
        <5>1. now + LeaseTerm \in Nat /\ job[j].windowEnd + PostWindow \in Nat
          BY <1>n, <1>t, <2>2
        <5> QED
          BY <5>1, MinPair DEF RenewedExpiry
      <4>5. IsWindow(j) => lease'[g].until <= job[j].windowEnd + PostWindow
        <5>1. CASE lease'[g].until = lease[g].until
          BY <3>2, <5>1 DEF Held
        <5>2. CASE lease'[g].until = RenewedExpiry(j)
          BY <4>4, <5>2
        <5> QED
          BY <3>4, <5>1, <5>2 DEF Renewal
      <4>6. lease'[g].until <= job'[j].expires
        BY <4>2, <4>3, <4>4, <4>5
      <4> QED
        BY <2>4, <3>1, <4>1, <4>2, <4>5, <4>6 DEF Held, IsWindow
    <3> QED
      BY <2>1, <3>1, <3>3, <3>4 DEF RecorderEffect
  <2> QED
    BY <2>3, <2>4
<1>5. ASSUME NEW r \in Recordings, Account(r) PROVE HolderOK'
  <2>1. AccountEffect(r)
    BY <1>5, AccountStep
  <2>2. now' = now
    BY <2>1 DEF AccountEffect
  <2> SUFFICES ASSUME NEW g \in Gens, Capturing(g)', ~lease'[g].revoked
               PROVE  Held(g)'
    BY DEF HolderOK
  <2>3. CASE WithdrawEffect(r)
    <3>1. /\ Capturing(g) /\ lease[g].job \in Jobs
          /\ lease'[g].job = lease[g].job /\ lease'[g].worker = lease[g].worker
          /\ lease'[g].until = lease[g].until
          /\ Held(g) /\ lease[g].job \notin JobsOf(r)
      BY <1>v, <2>2, <2>3 DEF WithdrawEffect
    <3>2. job'[lease[g].job] = job[lease[g].job]
      BY <2>3, <3>1 DEF WithdrawEffect, JobsOf
    <3> QED
      BY <1>s, <3>1, <3>2
  <2>4. CASE UNCHANGED <<job, lease>>
    BY <1>s, <2>2, <2>4 DEF HolderOK, Capturing
  <2> QED
    BY <2>1, <2>3, <2>4 DEF AccountEffect
<1>6. CASE UNCHANGED vars
  BY <1>6, <1>s DEF vars, HolderOK, Capturing
<1> QED
  BY <1>1, <1>2, <1>3, <1>4, <1>5, <1>6 DEF Next

(* No step lets a second recorder in: only a lease query starts a    *)
(* capture, and it needs a pending row, which by HolderOK no unrevoked     *)
(* recorder still captures for.                                            *)
LEMMA OverlapNext ==
    ASSUME Inv, [Next]_vars
    PROVE  NoOverlappingCapture'
<1> USE DEF Inv
<1>n. now \in Nat /\ \A g \in Gens : lease[g].until \in Nat
  BY DEF TypeOK, Grant
<1>p. ASSUME \A g \in Gens : Capturing(g)' /\ ~lease'[g].revoked =>
                /\ Capturing(g) /\ ~lease[g].revoked
                /\ lease'[g].job = lease[g].job
      PROVE  NoOverlappingCapture'
  BY <1>p DEF NoOverlappingCapture
<1>1. CASE ClockTick
  <2>1. now' = now + 1 /\ lease' = lease
    BY <1>1 DEF ClockTick
  <2> QED
    BY <1>n, <1>p, <2>1 DEF Capturing
<1>v. ASSUME NEW js, RevokeEffect(js), now' = now PROVE NoOverlappingCapture'
  BY <1>p, <1>v DEF RevokeEffect, Capturing
<1>2. CASE SchedulerTick
  BY <1>2, <1>v, TickRest
<1>3. ASSUME NEW w \in Workers, NEW j \in Jobs, Lease(w, j) PROVE NoOverlappingCapture'
  <2>1. LeaseEffect(w, j) /\ job[j].status = "pending"
    BY <1>3, LeaseStep DEF Lease, Eligible
  <2>2. ASSUME NEW h \in Gens, h # lastGen', Capturing(h)', ~lease'[h].revoked
        PROVE  /\ Capturing(h) /\ ~lease[h].revoked
               /\ lease'[h].job = lease[h].job
               /\ lease[h].job # j
    <3>1. lease'[h] = lease[h] /\ now' = now
      BY <2>1, <2>2 DEF LeaseEffect
    <3>2. Capturing(h) /\ ~lease[h].revoked
      BY <2>2, <3>1 DEF Capturing
    <3>3. ASSUME lease[h].job = j PROVE FALSE
      <4>1. Held(h)
        BY <3>2 DEF HolderOK
      <4> QED
        BY <2>1, <3>3, <4>1 DEF Held
    <3> QED
      BY <3>1, <3>2, <3>3
  <2>3. lease'[lastGen'].job = j
    BY <2>1 DEF LeaseEffect
  <2> SUFFICES ASSUME NEW g \in Gens, NEW h \in Gens, g # h,
                      lease'[g].job = lease'[h].job, Capturing(g)', Capturing(h)',
                      ~lease'[g].revoked, ~lease'[h].revoked
               PROVE  FALSE
    BY DEF NoOverlappingCapture
  <2>4. CASE g # lastGen' /\ h # lastGen'
    BY <2>2, <2>4 DEF NoOverlappingCapture
  <2>5. CASE g = lastGen' \/ h = lastGen'
    BY <2>2, <2>3, <2>5
  <2> QED
    BY <2>4, <2>5
<1>4. ASSUME NEW g \in Gens, Recorder(g) PROVE NoOverlappingCapture'
  <2>1. RecorderEffect(g)
    BY <1>4, RecorderStep
  <2>2. now' = now /\ GrantEffect(g)
    BY <2>1 DEF RecorderEffect
  <2>3. ASSUME NEW h \in Gens, Capturing(h)', ~lease'[h].revoked
        PROVE  /\ Capturing(h) /\ ~lease[h].revoked
               /\ lease'[h].job = lease[h].job
    <3>1. CASE h # g
      BY <2>2, <2>3, <3>1 DEF GrantEffect, Capturing
    <3>2. CASE h = g /\ lease'[g].until = lease[g].until
      BY <2>2, <2>3, <3>2 DEF GrantEffect, Capturing
    <3>3. CASE h = g /\ Capturing(g)
      BY <2>2, <2>3, <3>3 DEF GrantEffect
    <3> QED
      BY <2>1, <3>1, <3>2, <3>3 DEF RecorderEffect, Renewal
  <2> QED
    BY <1>p, <2>3
<1>5. ASSUME NEW r \in Recordings, Account(r) PROVE NoOverlappingCapture'
  <2>1. AccountEffect(r)
    BY <1>5, AccountStep
  <2>2. CASE WithdrawEffect(r)
    BY <1>v, <2>1, <2>2 DEF AccountEffect, WithdrawEffect
  <2>3. CASE UNCHANGED <<job, lease>>
    BY <1>p, <2>1, <2>3 DEF AccountEffect, Capturing
  <2> QED
    BY <2>1, <2>2, <2>3 DEF AccountEffect
<1>6. CASE UNCHANGED vars
  BY <1>6, <1>p DEF vars, Capturing
<1> QED
  BY <1>1, <1>2, <1>3, <1>4, <1>5, <1>6 DEF Next

-----------------------------------------------------------------------------
(* The theorems.                                                           *)

(* Inv holds in every reachable state of the ledger, whatever handlers,    *)
(* ticks and requests interleave.                                          *)
THEOREM Invariance == Spec => []Inv
<1>1. Inv /\ [Next]_vars => Inv'
  <2> SUFFICES ASSUME Inv, [Next]_vars PROVE Inv'
    OBVIOUS
  <2>1. TypeOK /\ GrantOK /\ WorkOnlyWhenActive /\ WindowEndOK
    BY DEF Inv
  <2> QED
    BY <2>1, TypeNext, GrantNext, WorkNext, WindowEndNext,
       HolderNext, OverlapNext DEF Inv
<1> QED
  BY <1>1, InvInit, PTL DEF Spec

(* Every column and every recorder's view keeps its type: in particular no *)
(* handler or sweep writes a status the tables do not know.                *)
THEOREM TypeCorrect == Spec => []TypeOK
<1>1. Inv => TypeOK
  BY DEF Inv
<1> QED
  BY <1>1, Invariance, PTL

(* Pausing, canceling, rescheduling or ending a recording leaves none of   *)
(* its jobs pending or leased, and no recorder call reopens one.           *)
THEOREM WorkSafety == Spec => []WorkOnlyWhenActive
<1>1. Inv => WorkOnlyWhenActive
  BY DEF Inv
<1> QED
  BY <1>1, Invariance, PTL

(* The lease protocol excludes two simultaneous captures of one job, with  *)
(* heartbeat answers lost, calls late and rows reclaimed, unless a lease   *)
(* was revoked by a request or by the end of the recording.                *)
THEOREM LeaseExclusion == Spec => []NoOverlappingCapture
<1>1. Inv => NoOverlappingCapture
  BY DEF Inv
<1> QED
  BY <1>1, Invariance, PTL

-----------------------------------------------------------------------------
(* Delivery: objects, intents, clips and outcomes.                         *)

(* Whoever owns the row is alone: no recorder of an earlier lease still    *)
(* captures the job, unless that lease was revoked.                        *)
OwnerAlone ==
    \A g, h \in Gens :
        Owns(g) /\ h # g /\ lease[h].job = lease[g].job /\ Capturing(h) => lease[h].revoked

(* The same of an ingested key: a URL for it that another lease still      *)
(* holds was handed out before the ingest.                                 *)
LateUrls ==
    \A j \in Jobs, s \in Segments, h \in Gens :
        /\ clip[j][s] # 0 /\ h # clip[j][s]
        /\ lease[h].job = j /\ s \in lease[h].urls /\ Capturing(h)
        => lease[h].revoked

(* A completion that goes on to "done" has seen a clip.                    *)
CompletingHasClips ==
    \A g \in Gens : lease[g].handler = "completing" => HasClips(lease[g].job)

CapacityBounded ==
    /\ \A w \in Workers : IsFiniteSet(LiveLeases(w))
    /\ WithinCapacity

DeliveryInv ==
    /\ OwnerAlone
    /\ LateUrls
    /\ ClipDescribesObject
    /\ ConsumedIffIngested
    /\ CompletingHasClips
    /\ DoneHasClips
    /\ CapacityBounded

(* What a step does to a grant that exists, as far as delivery goes: the   *)
(* capture only ends, a URL is for a key that is not ingested, and only a  *)
(* completion that has seen a clip goes on to "done".                      *)
Moves(h) ==
    /\ lease'[h].worker = lease[h].worker
    /\ lease'[h].job = lease[h].job
    /\ lease[h].revoked => lease'[h].revoked
    /\ Capturing(h)' => Capturing(h)
    /\ \A s \in lease'[h].urls :
          s \in lease[h].urls \/ intent[lease[h].job][s] # "consumed"
    /\ lease'[h].handler = "completing" =>
          lease[h].handler = "completing" \/ HasClips(lease[h].job)

(* The step grants lease h.                                                *)
GrantedNow(h) == h = lastGen' /\ \E w \in Workers, j \in Jobs : Lease(w, j)

LEMMA GrantMoves ==
    ASSUME Inv, [Next]_vars, NEW h \in Gens, ~GrantedNow(h)
    PROVE  Moves(h)
<1>t. lease \in [Gens -> Grant] /\ lease[h] \in Grant /\ now \in Nat
  BY DEF Inv, TypeOK
<1>r. ASSUME NEW js, lease' = Revoke(js), now' = now PROVE Moves(h)
  <2>1. lease'[h] = lease[h] \/ lease'[h] = [lease[h] EXCEPT !.revoked = TRUE]
    BY <1>r DEF Revoke
  <2> QED
    BY <1>r, <1>t, <2>1 DEF Moves, Capturing, Grant
<1>s. ASSUME lease'[h] = lease[h], now' = now PROVE Moves(h)
  BY <1>s DEF Moves, Capturing
<1>1. CASE ClockTick
  <2>1. now' = now + 1 /\ lease' = lease
    BY <1>1 DEF ClockTick
  <2>2. lease[h].until \in Nat
    BY <1>t DEF Grant
  <2> QED
    BY <1>t, <2>1, <2>2 DEF Moves, Capturing
<1>2. CASE SchedulerTick
  BY <1>2, <1>r DEF SchedulerTick
<1>3. ASSUME NEW w \in Workers, NEW j \in Jobs, Lease(w, j) PROVE Moves(h)
  <2>1. h # lastGen'
    BY <1>3 DEF GrantedNow
  <2> QED
    BY <1>3, <1>s, <2>1, LeaseStep DEF Inv, LeaseEffect
<1>4. ASSUME NEW g \in Gens, Recorder(g) PROVE Moves(h)
  <2>0. now' = now /\ (h # g => lease'[h] = lease[h])
    BY <1>4, RecorderStep DEF Inv, RecorderEffect, GrantEffect
  <2> DEFINE Stops(handler) ==
               lease' = [lease EXCEPT ![g] = [lease[g] EXCEPT !.stopped = TRUE, !.handler = handler]]
  <2>1. CASE h # g
    BY <1>s, <2>0, <2>1
  <2>2. CASE h = g
    <3>1. ASSUME NEW heard \in BOOLEAN, Heartbeat(h, heard) PROVE Moves(h)
      <4>1. CASE lease' = lease
        BY <1>s, <2>0, <4>1
      <4>2. CASE heard
        <5>1. Capturing(h) /\ lease'[h] = [lease[h] EXCEPT !.until = RenewedExpiry(lease[h].job)]
          BY <1>t, <3>1, <4>2 DEF Heartbeat
        <5> QED
          BY <1>t, <5>1 DEF Moves, Grant
      <4> QED
        BY <3>1, <4>1, <4>2 DEF Heartbeat
    <3>2. CASE HeartbeatRefused(h) \/ Fail(h) \/ Surrender(h)
      <4>1. lease'[h] = [lease[h] EXCEPT !.stopped = TRUE]
        BY <1>t, <3>2 DEF HeartbeatRefused, Fail, Surrender
      <4> QED
        BY <1>t, <4>1 DEF Moves, Capturing, Grant
    <3>3. CASE ReserveCheck(h) \/ CompleteWrite(h)
      <4>1. lease'[h] = [lease[h] EXCEPT !.handler = "reserving"]
            \/ lease'[h] = [lease[h] EXCEPT !.handler = "idle"]
        BY <1>t, <3>3 DEF ReserveCheck, CompleteWrite
      <4> QED
        BY <1>t, <2>0, <4>1 DEF Moves, Capturing, Grant
    <3>4. ASSUME NEW s \in Segments, ReserveCommit(h, s) PROVE Moves(h)
      <4>1. \/ lease'[h] = [lease[h] EXCEPT !.handler = "idle"]
            \/ /\ intent[lease[h].job][s] # "consumed"
               /\ lease'[h] = [lease[h] EXCEPT !.handler = "idle", !.urls = lease[h].urls \cup {s}]
        BY <1>t, <3>4 DEF ReserveCommit
      <4>2. CASE lease'[h] = [lease[h] EXCEPT !.handler = "idle"]
        BY <1>t, <2>0, <4>2 DEF Moves, Capturing, Grant
      <4>3. CASE /\ intent[lease[h].job][s] # "consumed"
                 /\ lease'[h] = [lease[h] EXCEPT !.handler = "idle", !.urls = lease[h].urls \cup {s}]
        <5>1. /\ lease'[h].worker = lease[h].worker /\ lease'[h].job = lease[h].job
              /\ lease'[h].revoked = lease[h].revoked /\ lease'[h].stopped = lease[h].stopped
              /\ lease'[h].until = lease[h].until /\ lease'[h].handler = "idle"
              /\ lease'[h].urls = lease[h].urls \cup {s}
          BY <1>t, <4>3 DEF Grant
        <5> QED
          BY <2>0, <4>3, <5>1 DEF Moves, Capturing
      <4> QED
        BY <4>1, <4>2, <4>3
    <3>5. ASSUME NEW s \in Segments, Put(h, s) \/ Ingest(h, s) PROVE Moves(h)
      BY <1>s, <2>0, <3>5 DEF Put, Ingest
    <3>6. CASE CompleteRead(h)
      <4>1. \/ lease'[h] = [lease[h] EXCEPT !.stopped = TRUE, !.handler = "completing_empty"]
            \/ /\ lease'[h] = [lease[h] EXCEPT !.stopped = TRUE, !.handler = "completing"]
               /\ HasClips(lease[h].job)
        BY <1>t, <3>6 DEF CompleteRead
      <4> QED
        BY <1>t, <4>1 DEF Moves, Capturing, Grant
    <3> QED
      BY <1>4, <2>2, <3>1, <3>2, <3>3, <3>4, <3>5, <3>6 DEF Recorder
  <2> QED
    BY <2>1, <2>2
<1>5. ASSUME NEW r \in Recordings, Account(r) PROVE Moves(h)
  <2>1. now' = now /\ (lease' = lease \/ lease' = Revoke(JobsOf(r)))
    BY <1>5 DEF Account, Pause, Resume, Cancel, ChangeSchedule, BatchSchedule,
                ReconcileIntents, Withdraw, Request
  <2> QED
    BY <1>r, <1>s, <2>1
<1>6. CASE UNCHANGED vars
  BY <1>6, <1>s DEF vars
<1> QED
  BY <1>1, <1>2, <1>3, <1>4, <1>5, <1>6 DEF Next

(* A grant begins with nothing, over one that was blank.                   *)
LEMMA GrantBegins ==
    ASSUME Inv, NEW h \in Gens, GrantedNow(h)
    PROVE  /\ lease'[h].urls = {} /\ lease'[h].handler = "idle" /\ lease'[h].job \in Jobs
           /\ lease[h] = NoGrant
           /\ UNCHANGED <<intent, object, clip, now>>
           /\ \A k \in Gens : k # h => lease'[k] = lease[k]
<1>1. PICK w \in Workers, j \in Jobs : Lease(w, j) /\ h = lastGen'
  BY DEF GrantedNow
<1>2. LeaseEffect(w, j)
  BY <1>1, LeaseStep DEF Inv
<1>3. lease' = [lease EXCEPT ![h] = [NoGrant EXCEPT !.worker = w, !.job = j,
                                         !.until = now + LeaseTerm, !.stopped = FALSE]]
  BY <1>1 DEF Lease
<1>4. lease'[h] = [NoGrant EXCEPT !.worker = w, !.job = j, !.until = now + LeaseTerm, !.stopped = FALSE]
  BY <1>3 DEF Inv, TypeOK
<1>5. h > lastGen
  BY <1>1, <1>2 DEF LeaseEffect, Inv, TypeOK, Gens
<1>6. lease[h] = NoGrant
  BY <1>5 DEF Inv, GrantOK
<1>7. lease'[h].urls = {} /\ lease'[h].handler = "idle" /\ lease'[h].job = j
  BY <1>4 DEF NoGrant
<1>8. UNCHANGED <<intent, object, clip, now>>
  BY <1>1 DEF Lease
<1>9. \A k \in Gens : k # h => lease'[k] = lease[k]
  BY <1>1, <1>2 DEF LeaseEffect
<1> QED
  BY <1>6, <1>7, <1>8, <1>9

(* The tick leases nothing out, and closes a window as done with clips only*)
LEMMA TickOutcome ==
    ASSUME TypeOK, SchedulerTick, NEW j \in Jobs
    PROVE  /\ job'[j].status = "leased" => job'[j] = job[j]
           /\ job'[j].status = "done" => job[j].status = "done" \/ HasClips(j)
           /\ ~IsWindow(j) /\ job[j].status \in Terminal => job'[j].status = job[j].status
<1> DEFINE r1 == CancelCompleted(j, job[j])
           r2 == ReclaimExpired(r1)
           r3 == MarkStaleMissed(j, r2)
           r4 == Enqueue(j, r3)
<1>0. job[j] \in Row /\ job'[j] = r4
  BY DEF TypeOK, SchedulerTick
<1>1. r1 \in Row /\ r2 \in Row /\ r3 \in Row
  BY <1>0, RowTypes
<1>a. ASSUME NEW row \in Row
      PROVE  Released(row) \in Row /\ Released(row).status = row.status
  BY <1>a, RowTypes DEF Released, Row
<1>2. r1 = job[j] \/ (job[j].status \in Open /\ r1.status = "canceled")
  BY <1>0 DEF CancelCompleted, Open, Row
<1>3. r2 = r1 \/ (r1.status = "leased" /\ r2.status = "pending")
  <2> HIDE DEF r1
  <2> QED
    BY <1>1, <1>a DEF ReclaimExpired, Row
<1>4. r3 = r2 \/ (r2.status = "pending" /\ r3.status \in {"done", "error"} /\ (r3.status = "done" => HasClips(j)))
  <2> HIDE DEF r2
  <2> QED
    BY <1>1, <1>a DEF MarkStaleMissed, Row
<1>5. r4 = r3 \/ (r4.status = "pending" /\ (~IsWindow(j) => r3.status = "absent"))
  <2> HIDE DEF r3
  <2>1. CASE IsWindow(j)
    <3>1. EnqueueWindow(j, r3) = r3 \/ EnqueueWindow(j, r3).status = "pending"
      BY <1>1, <1>a DEF EnqueueWindow, Row
    <3> QED
      BY <2>1, <3>1 DEF Enqueue
  <2>2. CASE ~IsWindow(j)
    BY <1>1, <2>2 DEF Enqueue, EnqueueFire, Row
  <2> QED
    BY <2>1, <2>2
<1> HIDE DEF r1, r2, r3, r4
<1> QED
  BY <1>0, <1>2, <1>3, <1>4, <1>5 DEF Open, Terminal

(* A row that is leased after a step was leased by it, or was leased before*)
(* with the same owner and token; its expiry moves only while it lasts.    *)
LEMMA LeasedRow ==
    ASSUME Inv, [Next]_vars, NEW j \in Jobs, job'[j].status = "leased",
           ~ \E w \in Workers : Lease(w, j)
    PROVE  /\ job[j].status = "leased"
           /\ job'[j].owner = job[j].owner
           /\ job'[j].token = job[j].token
           /\ job'[j].windowEnd = job[j].windowEnd
           /\ \/ job'[j].expires = job[j].expires
              \/ job'[j].expires = RenewedExpiry(j) /\ job[j].expires > now
<1>t. job \in [Jobs -> Row] /\ job[j] \in Row
  BY DEF Inv, TypeOK
<1>1. CASE ClockTick
  BY <1>1 DEF ClockTick
<1>2. CASE SchedulerTick
  BY <1>2, TickOutcome DEF Inv
<1>3. ASSUME NEW w \in Workers, NEW i \in Jobs, Lease(w, i) PROVE job'[j] = job[j]
  <2>1. i # j
    BY <1>3
  <2> QED
    BY <1>3, <2>1, LeaseStep DEF Inv, LeaseEffect
<1>4. ASSUME NEW g \in Gens, Recorder(g)
      PROVE  \/ job'[j] = job[j]
             \/ /\ job'[j] = [job[j] EXCEPT !.expires = RenewedExpiry(j)]
                /\ job[j].expires > now
  <2>1. CASE lease[g].job # j
    BY <1>4, <2>1, RecorderStep DEF Inv, RecorderEffect, RowEffect
  <2>2. CASE lease[g].job = j
    <3>1. ASSUME NEW heard \in BOOLEAN, Heartbeat(g, heard)
          PROVE  /\ job'[j] = [job[j] EXCEPT !.expires = RenewedExpiry(j)]
                 /\ job[j].expires > now
      BY <1>t, <2>2, <3>1 DEF Heartbeat, OwnsUnexpired
    <3>2. CASE HeartbeatRefused(g) \/ ReserveCheck(g) \/ CompleteRead(g)
      BY <3>2 DEF HeartbeatRefused, ReserveCheck, CompleteRead
    <3>3. ASSUME NEW s \in Segments, ReserveCommit(g, s) \/ Put(g, s) \/ Ingest(g, s)
          PROVE  job' = job
      BY <3>3 DEF ReserveCommit, Put, Ingest
    <3>4. CASE CompleteWrite(g)
      <4>1. CASE Owns(g)
        <5>1. job'[j].status = (IF lease[g].handler = "completing" THEN "done" ELSE "error")
          BY <1>t, <2>2, <3>4, <4>1 DEF CompleteWrite, Row
        <5> QED
          BY <5>1
      <4>2. CASE ~Owns(g)
        BY <3>4, <4>2 DEF CompleteWrite
      <4> QED
        BY <4>1, <4>2
    <3>r. Released(job[j]) \in Row
      BY <1>t, RowTypes DEF Inv
    <3>5. ~Fail(g)
      <4> SUFFICES ASSUME Fail(g) PROVE FALSE
        OBVIOUS
      <4>1. job'[j].status \in {"pending", "error"}
        BY <1>t, <2>2, <3>r DEF Fail, Row
      <4> QED
        BY <4>1
    <3>6. ~Surrender(g)
      <4> SUFFICES ASSUME Surrender(g) PROVE FALSE
        OBVIOUS
      <4>1. job'[j].status = "pending"
        BY <1>t, <2>2, <3>r DEF Surrender, Row
      <4> QED
        BY <4>1
    <3> QED
      BY <1>4, <3>1, <3>2, <3>3, <3>4, <3>5, <3>6 DEF Recorder
  <2> QED
    BY <2>1, <2>2
<1>5. ASSUME NEW r \in Recordings, Account(r) PROVE job'[j] = job[j]
  BY <1>5, AccountStep DEF Inv, AccountEffect, WithdrawEffect, Open
<1>6. CASE UNCHANGED vars
  BY <1>6 DEF vars
<1>7. CASE job'[j] = job[j]
  BY <1>7
<1>8. CASE job'[j] = [job[j] EXCEPT !.expires = RenewedExpiry(j)] /\ job[j].expires > now
  BY <1>t, <1>8 DEF Row
<1> QED
  BY <1>1, <1>2, <1>3, <1>4, <1>5, <1>6, <1>7, <1>8 DEF Next

(* Nobody comes to own a row but by being granted it.                      *)
LEMMA OwnerMoves ==
    ASSUME Inv, [Next]_vars, NEW g \in Gens, Owns(g)', ~GrantedNow(g)
    PROVE  Owns(g) /\ lease'[g].job = lease[g].job /\ lease[g].job \in Jobs
<1> DEFINE j == lease[g].job
<1>1. lease'[g].worker = lease[g].worker /\ lease'[g].job = j
  BY GrantMoves DEF Moves
<1>2. j \in Jobs
  BY <1>1 DEF Owns, Inv, GrantOK
<1>3. /\ job'[j].status = "leased" /\ job'[j].owner = lease[g].worker
      /\ job'[j].token = g /\ lease[g].worker # NoWorker
  BY <1>1 DEF Owns
<1>4. ASSUME NEW w \in Workers, Lease(w, j) PROVE FALSE
  <2>1. job'[j].token = lastGen'
    BY <1>2, <1>4, LeaseStep DEF Inv, LeaseEffect
  <2> QED
    BY <1>2, <1>3, <1>4, <2>1 DEF GrantedNow
<1>5. job[j].status = "leased" /\ job[j].owner = lease[g].worker /\ job[j].token = g
  BY <1>2, <1>3, <1>4, LeasedRow
<1> QED
  BY <1>1, <1>2, <1>3, <1>5 DEF Owns

(* A job is not handed out while a recorder captures it under a lease that *)
(* was not revoked.                                                        *)
LEMMA HandedOutAlone ==
    ASSUME Inv, NEW w \in Workers, NEW j \in Jobs, Lease(w, j),
           NEW h \in Gens, Capturing(h), lease[h].job = j
    PROVE  lease[h].revoked
<1> SUFFICES ASSUME ~lease[h].revoked PROVE FALSE
  OBVIOUS
<1>1. job[j].status = "pending"
  BY DEF Lease, Eligible
<1>2. Held(h)
  BY DEF Inv, HolderOK
<1> QED
  BY <1>1, <1>2 DEF Held

(* A key gets its clip row, and its intent is consumed, in one ingest.     *)
LEMMA IngestedNow ==
    ASSUME Inv, [Next]_vars, NEW j \in Jobs, NEW s \in Segments
    PROVE  \/ /\ clip'[j][s] = clip[j][s]
              /\ intent'[j][s] = "consumed" <=> intent[j][s] = "consumed"
           \/ /\ \E g \in Gens : Ingest(g, s) /\ lease[g].job = j
              /\ clip'[j][s] # 0 /\ intent'[j][s] = "consumed"
<1> DEFINE Same == /\ clip'[j][s] = clip[j][s]
                   /\ intent'[j][s] = "consumed" <=> intent[j][s] = "consumed"
<1>t. /\ clip \in [Jobs -> [Segments -> {0} \cup Gens]]
      /\ intent \in [Jobs -> [Segments -> {"none", "pending", "consumed", "expired"}]]
  BY DEF Inv, TypeOK
<1>1. CASE ClockTick \/ SchedulerTick \/ \E w \in Workers, i \in Jobs : Lease(w, i)
  BY <1>1 DEF ClockTick, SchedulerTick, Lease
<1>2. ASSUME NEW g \in Gens, NEW q \in Segments, ReserveCommit(g, q) PROVE Same
  <2>1. clip' = clip
    BY <1>2 DEF ReserveCommit
  <2>2. \/ intent' = intent
        \/ intent' = [intent EXCEPT ![lease[g].job][q] = "pending"]
           /\ intent[lease[g].job][q] # "consumed"
    BY <1>2 DEF ReserveCommit
  <2>3. CASE lease[g].job = j /\ q = s
    BY <1>t, <2>1, <2>2, <2>3
  <2>4. CASE ~(lease[g].job = j /\ q = s)
    BY <1>t, <2>1, <2>2, <2>4
  <2> QED
    BY <2>3, <2>4
<1>3. ASSUME NEW g \in Gens, NEW q \in Segments, Ingest(g, q)
      PROVE  \/ Same
             \/ q = s /\ lease[g].job = j /\ clip'[j][s] # 0 /\ intent'[j][s] = "consumed"
  <2>1. /\ clip' = [clip EXCEPT ![lease[g].job][q] = g]
        /\ intent' = [intent EXCEPT ![lease[g].job][q] = "consumed"]
    BY <1>3 DEF Ingest
  <2>2. CASE lease[g].job = j /\ q = s
    <3>1. clip'[j][s] = g /\ intent'[j][s] = "consumed" /\ g # 0
      BY <1>t, <2>1, <2>2 DEF Gens
    <3> QED
      BY <2>2, <3>1
  <2>3. CASE ~(lease[g].job = j /\ q = s)
    BY <1>t, <2>1, <2>3
  <2> QED
    BY <2>2, <2>3
<1>4. ASSUME NEW g \in Gens, NEW q \in Segments, Put(g, q) PROVE Same
  BY <1>4 DEF Put
<1>5. ASSUME NEW g \in Gens,
             \/ \E heard \in BOOLEAN : Heartbeat(g, heard)
             \/ HeartbeatRefused(g) \/ ReserveCheck(g) \/ CompleteRead(g)
             \/ CompleteWrite(g) \/ Fail(g) \/ Surrender(g)
      PROVE  Same
  BY <1>5 DEF Heartbeat, HeartbeatRefused, ReserveCheck, CompleteRead,
              CompleteWrite, Fail, Surrender
<1>6. ASSUME NEW r \in Recordings, ReconcileIntents(r) PROVE Same
  <2>1. clip' = clip
    BY <1>6 DEF ReconcileIntents
  <2>2. intent'[j][s] = intent[j][s] \/ (intent[j][s] = "pending" /\ intent'[j][s] = "expired")
    BY <1>6 DEF ReconcileIntents
  <2> QED
    BY <2>1, <2>2
<1>7. ASSUME NEW r \in Recordings,
             \/ Pause(r) \/ Resume(r) \/ Cancel(r)
             \/ \E sc \in Schedules, end \in Ends :
                   ChangeSchedule(r, sc, end) \/ BatchSchedule(r, sc, end)
      PROVE  Same
  BY <1>7 DEF Pause, Resume, Cancel, ChangeSchedule, BatchSchedule, Request
<1>8. CASE UNCHANGED vars
  BY <1>8 DEF vars
<1> HIDE DEF Same
<1>9. ASSUME NEW g \in Gens, Recorder(g)
      PROVE  \/ Same
             \/ /\ \E h \in Gens : Ingest(h, s) /\ lease[h].job = j
                /\ clip'[j][s] # 0 /\ intent'[j][s] = "consumed"
  BY <1>9, <1>2, <1>3, <1>4, <1>5 DEF Recorder
<1>10. ASSUME NEW r \in Recordings, Account(r) PROVE Same
  BY <1>10, <1>6, <1>7 DEF Account
<1> QED
  BY <1>1, <1>8, <1>9, <1>10 DEF Next, Same

(* Bytes get under a key by a PUT only.                                    *)
LEMMA PutNow ==
    ASSUME Inv, [Next]_vars, NEW j \in Jobs, NEW s \in Segments
    PROVE  \/ object'[j][s] = object[j][s]
           \/ \E g \in Gens : Put(g, s) /\ lease[g].job = j /\ object'[j][s] = g
<1>t. object \in [Jobs -> [Segments -> {0} \cup Gens]]
  BY DEF Inv, TypeOK
<1>1. CASE ClockTick \/ SchedulerTick \/ \E w \in Workers, i \in Jobs : Lease(w, i)
  BY <1>1 DEF ClockTick, SchedulerTick, Lease
<1>2. ASSUME NEW g \in Gens, NEW q \in Segments, Put(g, q)
      PROVE  object'[j][s] = object[j][s] \/ (q = s /\ lease[g].job = j /\ object'[j][s] = g)
  BY <1>t, <1>2 DEF Put
<1>3. ASSUME NEW g \in Gens, Recorder(g)
      PROVE  object' = object \/ \E q \in Segments : Put(g, q)
  <2>1. CASE \E q \in Segments : ReserveCommit(g, q) \/ Ingest(g, q)
    BY <2>1 DEF ReserveCommit, Ingest
  <2>2. CASE (\E heard \in BOOLEAN : Heartbeat(g, heard)) \/ HeartbeatRefused(g)
             \/ ReserveCheck(g)
    BY <2>2 DEF Heartbeat, HeartbeatRefused, ReserveCheck
  <2>3. CASE CompleteRead(g)
    BY <2>3 DEF CompleteRead
  <2>4. CASE CompleteWrite(g)
    BY <2>4 DEF CompleteWrite
  <2>5. CASE Fail(g)
    BY <2>5 DEF Fail
  <2>6. CASE Surrender(g)
    BY <2>6 DEF Surrender
  <2> QED
    BY <1>3, <2>1, <2>2, <2>3, <2>4, <2>5, <2>6 DEF Recorder
<1>4. ASSUME NEW r \in Recordings, Account(r) PROVE object' = object
  BY <1>4 DEF Account, Pause, Resume, Cancel, ChangeSchedule, BatchSchedule,
              ReconcileIntents, Request
<1>5. CASE UNCHANGED vars
  BY <1>5 DEF vars
<1> QED
  BY <1>1, <1>2, <1>3, <1>4, <1>5 DEF Next

(* Footage that has been ingested stays.                                   *)
LEMMA ClipsStay ==
    ASSUME Inv, [Next]_vars, NEW j \in Jobs, HasClips(j)
    PROVE  HasClips(j)'
<1>1. PICK s \in Segments : clip[j][s] # 0
  BY DEF HasClips
<1>2. clip'[j][s] # 0
  BY <1>1, IngestedNow
<1> QED
  BY <1>2 DEF HasClips

(* A job turns "done" only with footage.                                   *)
LEMMA DoneRow ==
    ASSUME Inv, CompletingHasClips, [Next]_vars, NEW j \in Jobs, job'[j].status = "done"
    PROVE  job[j].status = "done" \/ HasClips(j)
<1>t. job \in [Jobs -> Row] /\ job[j] \in Row
  BY DEF Inv, TypeOK
<1>1. CASE SchedulerTick
  BY <1>1, TickOutcome DEF Inv
<1>2. ASSUME NEW w \in Workers, NEW i \in Jobs, Lease(w, i) PROVE job'[j] = job[j]
  <2>1. LeaseEffect(w, i)
    BY <1>2, LeaseStep DEF Inv
  <2> QED
    BY <2>1 DEF LeaseEffect
<1>3. ASSUME NEW g \in Gens, Recorder(g) PROVE job[j].status = "done" \/ HasClips(j)
  <2>1. CASE lease[g].job # j
    BY <1>3, <2>1, RecorderStep DEF Inv, RecorderEffect, RowEffect
  <2>2. CASE lease[g].job = j
    <3>1. CASE \/ HeartbeatRefused(g) \/ ReserveCheck(g) \/ CompleteRead(g)
               \/ \E s \in Segments : ReserveCommit(g, s) \/ Put(g, s) \/ Ingest(g, s)
      BY <3>1 DEF HeartbeatRefused, ReserveCheck, CompleteRead, ReserveCommit, Put, Ingest
    <3>2. ASSUME NEW heard \in BOOLEAN, Heartbeat(g, heard) PROVE job[j].status = "done"
      BY <1>t, <2>2, <3>2 DEF Heartbeat, Row
    <3>3. CASE CompleteWrite(g)
      <4>1. CASE Owns(g)
        <5>1. job'[j].status = (IF lease[g].handler = "completing" THEN "done" ELSE "error")
          BY <1>t, <2>2, <3>3, <4>1 DEF CompleteWrite, Row
        <5> QED
          BY <2>2, <5>1 DEF CompletingHasClips
      <4>2. CASE ~Owns(g)
        BY <3>3, <4>2 DEF CompleteWrite
      <4> QED
        BY <4>1, <4>2
    <3>r. Released(job[j]) \in Row
      BY <1>t, RowTypes DEF Inv
    <3>4. ~Fail(g) /\ ~Surrender(g)
      <4>1. ASSUME Fail(g) PROVE job'[j].status \in {"pending", "error"}
        BY <1>t, <2>2, <3>r, <4>1 DEF Fail, Row
      <4>2. ASSUME Surrender(g) PROVE job'[j].status = "pending"
        BY <1>t, <2>2, <3>r, <4>2 DEF Surrender, Row
      <4> QED
        BY <4>1, <4>2
    <3> QED
      BY <1>3, <3>1, <3>2, <3>3, <3>4 DEF Recorder
  <2> QED
    BY <2>1, <2>2
<1>4. ASSUME NEW r \in Recordings, Account(r) PROVE job'[j].status = job[j].status
  <2>1. CASE job' = job
    BY <2>1
  <2>2. CASE Withdraw(r)
    BY <1>t, <2>2 DEF Withdraw, Withdrawn, Row
  <2> QED
    BY <1>4, <2>1, <2>2 DEF Account, Pause, Resume, Cancel, ChangeSchedule, BatchSchedule,
                ReconcileIntents
<1>5. CASE ClockTick \/ UNCHANGED vars
  BY <1>5 DEF ClockTick, vars
<1> QED
  BY <1>1, <1>2, <1>3, <1>4, <1>5 DEF Next

-----------------------------------------------------------------------------
(* The delivery invariant is inductive: one lemma per conjunct.            *)

LEMMA DeliveryInit == Init => DeliveryInv
<1> SUFFICES ASSUME Init PROVE DeliveryInv
  OBVIOUS
<1>1. \A g \in Gens : lease[g] = NoGrant
  BY DEF Init
<1>2. \A j \in Jobs : job[j] = NoRow
  BY DEF Init
<1>3. \A j \in Jobs, s \in Segments :
          clip[j][s] = 0 /\ intent[j][s] = "none"
  BY DEF Init
<1>4. OwnerAlone /\ LateUrls /\ CompletingHasClips
  BY <1>1 DEF OwnerAlone, LateUrls, CompletingHasClips, Owns, Capturing, NoGrant
<1>5. ClipDescribesObject /\ ConsumedIffIngested
  BY <1>3 DEF ClipDescribesObject, ConsumedIffIngested
<1>6. DoneHasClips
  BY <1>2 DEF DoneHasClips, NoRow
<1>7. CapacityBounded
  <2>1. \A w \in Workers : LiveLeases(w) = {}
    BY <1>2 DEF LiveLeases, NoRow
  <2>2. \A w \in Workers : Capacity[w] \in Nat
    BY TimesAssumption
  <2> QED
    BY <2>1, <2>2, FS_EmptySet DEF CapacityBounded, WithinCapacity
<1> QED
  BY <1>4, <1>5, <1>6, <1>7 DEF DeliveryInv

LEMMA OwnerNext ==
    ASSUME Inv, OwnerAlone, [Next]_vars
    PROVE  OwnerAlone'
<1> SUFFICES ASSUME NEW g \in Gens, NEW h \in Gens, Owns(g)', h # g,
                    lease'[h].job = lease'[g].job, Capturing(h)'
             PROVE  lease'[h].revoked
  BY DEF OwnerAlone
<1>1. CASE GrantedNow(g)
  <2>1. PICK w \in Workers, j \in Jobs : Lease(w, j) /\ g = lastGen'
    BY <1>1 DEF GrantedNow
  <2>2. lease'[h] = lease[h] /\ now' = now /\ lease'[g].job = j
    BY <2>1, LeaseStep DEF Inv, LeaseEffect
  <2>3. Capturing(h) /\ lease[h].job = j
    BY <2>2 DEF Capturing
  <2> QED
    BY <2>1, <2>2, <2>3, HandedOutAlone
<1>2. CASE ~GrantedNow(g)
  <2>1. Owns(g) /\ lease'[g].job = lease[g].job
    BY <1>2, OwnerMoves
  <2>2. ~GrantedNow(h)
    <3> SUFFICES ASSUME GrantedNow(h) PROVE FALSE
      OBVIOUS
    <3>1. PICK w \in Workers, j \in Jobs : Lease(w, j) /\ h = lastGen'
      BY DEF GrantedNow
    <3>2. lease'[h].job = j /\ job'[j].token = h
      BY <3>1, LeaseStep DEF Inv, LeaseEffect
    <3> QED
      BY <3>2 DEF Owns
  <2>3. Moves(h)
    BY <2>2, GrantMoves
  <2> QED
    BY <2>1, <2>3 DEF Moves, OwnerAlone
<1> QED
  BY <1>1, <1>2

LEMMA LateUrlsNext ==
    ASSUME Inv, OwnerAlone, LateUrls, ConsumedIffIngested, [Next]_vars
    PROVE  LateUrls'
<1> SUFFICES ASSUME NEW j \in Jobs, NEW s \in Segments, NEW h \in Gens,
                    clip'[j][s] # 0, h # clip'[j][s], lease'[h].job = j,
                    s \in lease'[h].urls, Capturing(h)'
             PROVE  lease'[h].revoked
  BY DEF LateUrls
<1>1. Moves(h)
  <2>1. GrantedNow(h) => lease'[h].urls = {}
    BY GrantBegins
  <2> QED
    BY <2>1, GrantMoves
<1>2. /\ lease[h].job = j /\ Capturing(h)
      /\ s \in lease[h].urls \/ intent[j][s] # "consumed"
  BY <1>1 DEF Moves
<1>3. CASE clip'[j][s] = clip[j][s]
  <2>1. intent[j][s] = "consumed"
    BY <1>3 DEF ConsumedIffIngested
  <2>2. lease[h].revoked
    BY <1>2, <1>3, <2>1 DEF LateUrls
  <2> QED
    BY <1>1, <2>2 DEF Moves
<1>4. ASSUME NEW g \in Gens, Ingest(g, s), lease[g].job = j PROVE lease'[h].revoked
  <2>1. clip'[j][s] = g /\ Owns(g)
    BY <1>4 DEF Ingest, OwnsUnexpired, Inv, TypeOK
  <2>2. lease[h].revoked
    BY <1>2, <1>4, <2>1 DEF OwnerAlone
  <2> QED
    BY <1>1, <2>2 DEF Moves
<1> QED
  BY <1>3, <1>4, IngestedNow

LEMMA DescribesNext ==
    ASSUME Inv, LateUrls, ClipDescribesObject, [Next]_vars
    PROVE  ClipDescribesObject'
<1> SUFFICES ASSUME NEW j \in Jobs, NEW s \in Segments, clip'[j][s] # 0
             PROVE  \/ object'[j][s] = clip'[j][s]
                    \/ object'[j][s] # 0 /\ lease'[object'[j][s]].revoked
  BY DEF ClipDescribesObject
<1>t. object[j][s] \in {0} \cup Gens
  BY DEF Inv, TypeOK
<1>1. ASSUME NEW g \in Gens, Put(g, s), lease[g].job = j, object'[j][s] = g
      PROVE  g = clip'[j][s] \/ (g # 0 /\ lease'[g].revoked)
  <2>1. clip' = clip /\ lease' = lease /\ Capturing(g) /\ s \in lease[g].urls
    BY <1>1 DEF Put
  <2>2. g # 0
    BY DEF Gens
  <2> QED
    BY <1>1, <2>1, <2>2 DEF LateUrls
<1>2. ASSUME object'[j][s] = object[j][s], clip'[j][s] = clip[j][s]
      PROVE  \/ object'[j][s] = clip'[j][s]
             \/ object'[j][s] # 0 /\ lease'[object'[j][s]].revoked
  <2> DEFINE o == object[j][s]
  <2>1. CASE o = clip[j][s]
    BY <1>2, <2>1
  <2>2. CASE o # 0 /\ lease[o].revoked
    <3>1. o \in Gens
      BY <1>t, <2>2
    <3>2. ~GrantedNow(o)
      BY <2>2, <3>1, GrantBegins DEF NoGrant
    <3>3. lease'[o].revoked
      BY <2>2, <3>1, <3>2, GrantMoves DEF Moves
    <3> QED
      BY <1>2, <2>2, <3>3
  <2> QED
    BY <1>2, <2>1, <2>2 DEF ClipDescribesObject
<1>3. ASSUME NEW g \in Gens, Ingest(g, s), lease[g].job = j
      PROVE  object'[j][s] = clip'[j][s]
  BY <1>3 DEF Ingest, Inv, TypeOK
<1> QED
  BY <1>1, <1>2, <1>3, IngestedNow, PutNow

LEMMA ConsumedNext ==
    ASSUME Inv, ConsumedIffIngested, [Next]_vars
    PROVE  ConsumedIffIngested'
<1> SUFFICES ASSUME NEW j \in Jobs, NEW s \in Segments
             PROVE  (intent'[j][s] = "consumed") <=> (clip'[j][s] # 0)
  BY DEF ConsumedIffIngested
<1>1. (intent[j][s] = "consumed") <=> (clip[j][s] # 0)
  BY DEF ConsumedIffIngested
<1> QED
  BY <1>1, IngestedNow

LEMMA CompletingNext ==
    ASSUME Inv, CompletingHasClips, [Next]_vars
    PROVE  CompletingHasClips'
<1> SUFFICES ASSUME NEW g \in Gens, lease'[g].handler = "completing"
             PROVE  HasClips(lease[g].job)'
  BY DEF CompletingHasClips
<1>1. ~GrantedNow(g)
  BY GrantBegins
<1>2. Moves(g)
  BY <1>1, GrantMoves
<1>3. HasClips(lease[g].job) /\ lease'[g].job = lease[g].job
  BY <1>2 DEF Moves, CompletingHasClips
<1>4. lease[g].job \in Jobs
  <2>1. GrantOK'
    BY GrantNext DEF Inv
  <2>2. lease'[g].worker # NoWorker
    BY <2>1 DEF GrantOK, NoGrant
  <2> QED
    BY <1>2, <2>2 DEF Moves, Inv, GrantOK
<1>5. PICK j \in Jobs : j = lease[g].job
  BY <1>4
<1>6. HasClips(j)'
  BY <1>3, <1>5, ClipsStay
<1> QED
  BY <1>3, <1>5, <1>6 DEF HasClips

LEMMA DoneNext ==
    ASSUME Inv, CompletingHasClips, DoneHasClips, [Next]_vars
    PROVE  DoneHasClips'
<1> SUFFICES ASSUME NEW j \in Jobs, job'[j].status = "done"
             PROVE  HasClips(j)'
  BY DEF DoneHasClips
<1>1. HasClips(j)
  BY DoneRow DEF DoneHasClips
<1> QED
  BY <1>1, ClipsStay

(* A set that gained at most one element.                                  *)
LEMMA OneMore ==
    ASSUME NEW S, IsFiniteSet(S), NEW x, NEW T, T \subseteq S \cup {x}
    PROVE  /\ IsFiniteSet(T) /\ Cardinality(T) \in Nat /\ Cardinality(S) \in Nat
           /\ Cardinality(T) <= Cardinality(S) + 1
<1>1. Cardinality(S) \in Nat
  BY FS_CardinalityType
<1>2. IsFiniteSet(S \cup {x}) /\ Cardinality(S \cup {x}) <= Cardinality(S) + 1
  BY <1>1, FS_AddElement
<1>3. IsFiniteSet(T) /\ Cardinality(T) <= Cardinality(S \cup {x})
  BY <1>2, FS_Subset
<1>4. Cardinality(T) \in Nat /\ Cardinality(S \cup {x}) \in Nat
  BY <1>2, <1>3, FS_CardinalityType
<1> QED
  BY <1>1, <1>2, <1>3, <1>4

(* A live lease more than before was handed out under the capacity test.   *)
LEMMA CapacityNext ==
    ASSUME Inv, CapacityBounded, [Next]_vars
    PROVE  CapacityBounded'
<1> SUFFICES ASSUME NEW w \in Workers
             PROVE  IsFiniteSet(LiveLeases(w)') /\ Cardinality(LiveLeases(w)') <= Capacity[w]
  BY DEF CapacityBounded, WithinCapacity
<1> DEFINE L == LiveLeases(w)
           M == LiveLeases(w)'
<1>1. IsFiniteSet(L) /\ Cardinality(L) <= Capacity[w] /\ Capacity[w] \in Nat
  BY TimesAssumption DEF CapacityBounded, WithinCapacity
<1>2. now \in Nat /\ now' \in Nat /\ now' >= now
  <2>1. TypeOK /\ TypeOK'
    BY TypeNext DEF Inv
  <2>2. now' = now \/ now' = now + 1
    <3>1. ASSUME NEW g \in Gens, Recorder(g) PROVE now' = now
      BY <3>1, RecorderStep DEF Inv, RecorderEffect
    <3>2. ASSUME NEW r \in Recordings, Account(r) PROVE now' = now
      BY <3>2, AccountStep DEF Inv, AccountEffect
    <3> QED
      BY <3>1, <3>2 DEF Next, vars, ClockTick, SchedulerTick, Lease
  <2> QED
    BY <2>1, <2>2 DEF TypeOK
<1>3. ASSUME NEW i \in M, ~ Lease(w, i) PROVE i \in L
  <2>1. /\ i \in Jobs /\ job'[i].status = "leased" /\ job'[i].owner = w
        /\ job'[i].expires > now'
    BY DEF LiveLeases
  <2>2. ~ \E v \in Workers : Lease(v, i)
    <3> SUFFICES ASSUME NEW v \in Workers, Lease(v, i) PROVE FALSE
      OBVIOUS
    <3>1. job'[i].owner = v
      BY <2>1, LeaseStep DEF Inv, LeaseEffect
    <3> QED
      BY <1>3, <2>1, <3>1
  <2>3. /\ job[i].status = "leased" /\ job[i].owner = w
        /\ job'[i].expires = job[i].expires \/ job[i].expires > now
    BY <2>1, <2>2, LeasedRow
  <2>4. job[i].expires \in Nat
    BY <2>1 DEF Inv, TypeOK, Row
  <2>5. job[i].expires > now
    BY <1>2, <2>1, <2>3, <2>4
  <2> QED
    BY <2>1, <2>3, <2>5 DEF LiveLeases
<1>4. ASSUME NEW j \in Jobs, Lease(w, j)
      PROVE  IsFiniteSet(M) /\ Cardinality(M) <= Capacity[w]
  <2>1. Cardinality(L) < Capacity[w]
    BY <1>4 DEF Lease, Eligible
  <2>2. M \subseteq L \cup {j}
    <3> SUFFICES ASSUME NEW i \in M, i # j PROVE i \in L
      OBVIOUS
    <3>1. ~ Lease(w, i)
      <4> SUFFICES ASSUME Lease(w, i) PROVE FALSE
        OBVIOUS
      <4>1. i \in Jobs
        BY DEF LiveLeases
      <4>2. job'[j] = job[j]
        BY <1>4, <4>1, LeaseStep DEF Inv, LeaseEffect
      <4>3. job'[j].status = "leased"
        BY <1>4, LeaseStep DEF Inv, LeaseEffect
      <4>4. job[j].status = "pending"
        BY <1>4 DEF Lease, Eligible
      <4> QED
        BY <4>2, <4>3, <4>4
    <3> QED
      BY <1>3, <3>1
  <2> HIDE DEF L, M
  <2>3. /\ IsFiniteSet(M) /\ Cardinality(M) <= Cardinality(L) + 1
        /\ Cardinality(L) \in Nat /\ Cardinality(M) \in Nat
    BY <1>1, <2>2, OneMore
  <2> QED
    BY <1>1, <2>1, <2>3
<1>5. ASSUME ~ \E j \in Jobs : Lease(w, j)
      PROVE  IsFiniteSet(M) /\ Cardinality(M) <= Capacity[w]
  <2>1. M \subseteq L
    BY <1>3, <1>5 DEF LiveLeases
  <2> HIDE DEF L, M
  <2>2. /\ IsFiniteSet(M) /\ Cardinality(M) <= Cardinality(L)
        /\ Cardinality(L) \in Nat /\ Cardinality(M) \in Nat
    BY <1>1, <2>1, FS_Subset, FS_CardinalityType
  <2> QED
    BY <1>1, <2>2
<1> QED
  BY <1>4, <1>5

-----------------------------------------------------------------------------
(* The theorems about delivery.                                            *)

(* The lease invariant and the delivery invariant hold together in every   *)
(* reachable state of the ledger.                                          *)
THEOREM DeliveryInvariant == Spec => [](Inv /\ DeliveryInv)
<1>1. Inv /\ DeliveryInv /\ [Next]_vars => DeliveryInv'
  <2> SUFFICES ASSUME Inv, DeliveryInv, [Next]_vars PROVE DeliveryInv'
    OBVIOUS
  <2>1. /\ OwnerAlone /\ LateUrls /\ ClipDescribesObject /\ ConsumedIffIngested
        /\ CompletingHasClips /\ DoneHasClips /\ CapacityBounded
    BY DEF DeliveryInv
  <2> QED
    BY <2>1, OwnerNext, LateUrlsNext, DescribesNext, ConsumedNext, CompletingNext,
       DoneNext, CapacityNext DEF DeliveryInv
<1> QED
  BY <1>1, DeliveryInit, Invariance, PTL DEF Spec

(* The bytes under the key of an ingested clip are those its row was       *)
(* written for, unless a recorder whose lease was revoked overwrote them.  *)
THEOREM DescribedBytes == Spec => []ClipDescribesObject
<1>1. DeliveryInv => ClipDescribesObject
  BY DEF DeliveryInv
<1> QED
  BY <1>1, DeliveryInvariant, PTL

(* Whatever completions, sweeps and ingests interleave, a job reported     *)
(* done has footage.                                                       *)
THEOREM DoneSafety == Spec => []DoneHasClips
<1>1. DeliveryInv => DoneHasClips
  BY DEF DeliveryInv
<1> QED
  BY <1>1, DeliveryInvariant, PTL

(* The presign ledger and the clip table agree on every key of every job.  *)
THEOREM LedgersAgree == Spec => []ConsumedIffIngested
<1>1. DeliveryInv => ConsumedIffIngested
  BY DEF DeliveryInv
<1> QED
  BY <1>1, DeliveryInvariant, PTL

(* No droplet or node ever holds more live leases than its capacity.       *)
THEOREM CapacitySafety == Spec => []WithinCapacity
<1>1. DeliveryInv => WithinCapacity
  BY DEF DeliveryInv, CapacityBounded
<1> QED
  BY <1>1, DeliveryInvariant, PTL

(* A clip row is written once, by the owner of a live lease, and so only   *)
(* while its recording is active.                                          *)
THEOREM ClipsWrittenOnce == Spec => ClipsWrittenOnceWhileActive
<1>1. ASSUME Inv, [Next]_vars, NEW j \in Jobs, NEW s \in Segments, clip'[j][s] # clip[j][s]
      PROVE  clip[j][s] = 0 /\ rec[RecOf[j]].status = "active"
  <2>1. PICK g \in Gens : Ingest(g, s) /\ lease[g].job = j
    BY <1>1, IngestedNow
  <2>2. clip[j][s] = 0 /\ job[j].status = "leased"
    BY <2>1 DEF Ingest, OwnsUnexpired, Owns
  <2> QED
    BY <1>1, <2>2 DEF Inv, WorkOnlyWhenActive, Open
<1>2. Inv /\ [Next]_vars =>
        [\A j \in Jobs, s \in Segments :
            clip'[j][s] # clip[j][s] =>
               clip[j][s] = 0 /\ rec[RecOf[j]].status = "active"]_vars
  BY <1>1
<1> QED
  BY <1>2, Invariance, PTL DEF Spec, ClipsWrittenOnceWhileActive

(* Every handler that writes a row needs it pending or leased, and the     *)
(* tick revives windows only.                                              *)
LEMMA ClipKeeps ==
    ASSUME Inv, [Next]_vars, NEW j \in Jobs, ~IsWindow(j), job[j].status \in Terminal
    PROVE  job'[j].status = job[j].status
<1>t. job[j] \in Row /\ job[j].status \notin Open
  BY DEF Inv, TypeOK, Terminal, Open
<1>1. CASE SchedulerTick
  BY <1>1, TickOutcome DEF Inv
<1>2. ASSUME NEW w \in Workers, NEW i \in Jobs, Lease(w, i) PROVE job'[j] = job[j]
  <2>1. i # j
    BY <1>2, <1>t DEF Lease, Eligible, Open
  <2> QED
    BY <1>2, <2>1, LeaseStep DEF Inv, LeaseEffect
<1>3. ASSUME NEW g \in Gens, Recorder(g) PROVE job'[j] = job[j]
  <2>1. RecorderEffect(g)
    BY <1>3, RecorderStep DEF Inv
  <2> QED
    BY <1>t, <2>1 DEF RecorderEffect, RowEffect, Owns, Open
<1>4. ASSUME NEW r \in Recordings, Account(r) PROVE job'[j] = job[j]
  <2>1. CASE job' = job
    BY <2>1
  <2>2. CASE Withdraw(r)
    BY <1>t, <2>2 DEF Withdraw, Withdrawn, Open
  <2> QED
    BY <1>4, <2>1, <2>2 DEF Account, Pause, Resume, Cancel, ChangeSchedule, BatchSchedule,
                ReconcileIntents
<1>5. CASE ClockTick \/ UNCHANGED vars
  BY <1>5 DEF ClockTick, vars
<1> QED
  BY <1>1, <1>2, <1>3, <1>4, <1>5 DEF Next

(* The outcome of a sampled clip job is never changed: every handler that  *)
(* writes a row needs it pending or leased, and the tick revives windows   *)
(* only.                                                                   *)
THEOREM ClipOutcomes == Spec => ClipOutcomeIsFinal
<1>1. Inv /\ [Next]_vars =>
        [\A j \in Jobs : ~IsWindow(j) /\ job[j].status \in Terminal
                            => job'[j].status = job[j].status]_vars
  BY ClipKeeps
<1> QED
  BY <1>1, Invariance, PTL DEF Spec, ClipOutcomeIsFinal

-----------------------------------------------------------------------------
(* The ledger implements the fenced jobs.                                  *)

(* Where a row may go unless it is handed out.                             *)
Onwards(j) ==
    /\ job[j].status = "absent" => job'[j].status \in {"absent", "pending"}
    /\ job[j].status \in Open => job'[j].status \in JobStatus \ {"absent"}
    /\ job[j].status \in Terminal => job'[j].status \in {job[j].status, "pending"}

LEMMA TickOnwards ==
    ASSUME TypeOK, SchedulerTick, NEW j \in Jobs
    PROVE  Onwards(j)
<1> DEFINE r1 == CancelCompleted(j, job[j])
           r2 == ReclaimExpired(r1)
           r3 == MarkStaleMissed(j, r2)
           r4 == Enqueue(j, r3)
<1>0. job[j] \in Row /\ job'[j] = r4
  BY DEF TypeOK, SchedulerTick
<1>1. r1 \in Row /\ r2 \in Row /\ r3 \in Row
  BY <1>0, RowTypes
<1>a. ASSUME NEW row \in Row
      PROVE  Released(row) \in Row /\ Released(row).status = row.status
  BY <1>a, RowTypes DEF Released, Row
<1>2. r1 = job[j] \/ (job[j].status \in Open /\ r1.status = "canceled")
  BY <1>0 DEF CancelCompleted, Open, Row
<1>3. r2 = r1 \/ (r1.status = "leased" /\ r2.status = "pending")
  <2> HIDE DEF r1
  <2> QED
    BY <1>1, <1>a DEF ReclaimExpired, Row
<1>4. r3 = r2 \/ (r2.status = "pending" /\ r3.status \in {"done", "error"})
  <2> HIDE DEF r2
  <2> QED
    BY <1>1, <1>a DEF MarkStaleMissed, Row
<1>5. r4 = r3 \/ r4.status = "pending"
  <2> HIDE DEF r3
  <2> QED
    BY <1>1, <1>a DEF Enqueue, EnqueueWindow, EnqueueFire, Row
<1>6. job[j].status \in JobStatus
  BY <1>0 DEF Row
<1> HIDE DEF r1, r2, r3, r4
<1> QED
  BY <1>0, <1>2, <1>3, <1>4, <1>5, <1>6 DEF Onwards, Open, Terminal, JobStatus

LEMMA CallOnwards ==
    ASSUME Inv, NEW g \in Gens, Recorder(g), NEW j \in Jobs
    PROVE  Onwards(j)
<1>t. job \in [Jobs -> Row] /\ job[j] \in Row /\ job[j].status \in JobStatus
  BY DEF Inv, TypeOK, Row
<1>s. ASSUME job'[j].status = job[j].status PROVE Onwards(j)
  BY <1>s, <1>t DEF Onwards, Open, Terminal, JobStatus
<1>1. job'[j] = job[j] \/ (j = lease[g].job /\ Owns(g))
  BY RecorderStep DEF Inv, RecorderEffect, RowEffect
<1>2. CASE j = lease[g].job /\ Owns(g)
  <2>l. job[j].status = "leased"
    BY <1>2 DEF Owns
  <2>r. Released(job[j]) \in Row
    BY <1>t, RowTypes DEF Inv
  <2>1. CASE \/ HeartbeatRefused(g) \/ ReserveCheck(g) \/ CompleteRead(g)
             \/ \E s \in Segments : ReserveCommit(g, s) \/ Put(g, s) \/ Ingest(g, s)
    BY <1>s, <2>1 DEF HeartbeatRefused, ReserveCheck, CompleteRead, ReserveCommit, Put, Ingest
  <2>2. ASSUME NEW heard \in BOOLEAN, Heartbeat(g, heard) PROVE Onwards(j)
    BY <1>s, <1>t, <1>2, <2>2 DEF Heartbeat, Row
  <2>3. CASE CompleteWrite(g)
    <3>1. job'[j].status \in {"done", "error"}
      BY <1>t, <1>2, <2>3 DEF CompleteWrite, Row
    <3> QED
      BY <2>l, <3>1 DEF Onwards, Open, Terminal, JobStatus
  <2>4. CASE Fail(g)
    <3>1. job'[j].status \in {"pending", "error"}
      BY <1>t, <1>2, <2>4, <2>r DEF Fail, Row
    <3> QED
      BY <2>l, <3>1 DEF Onwards, Open, Terminal, JobStatus
  <2>5. CASE Surrender(g)
    <3>1. job'[j].status = "pending"
      BY <1>t, <1>2, <2>5, <2>r DEF Surrender, Row
    <3> QED
      BY <2>l, <3>1 DEF Onwards, Open, Terminal, JobStatus
  <2> QED
    BY <2>1, <2>2, <2>3, <2>4, <2>5 DEF Recorder
<1> QED
  BY <1>s, <1>1, <1>2

LEMMA RequestOnwards ==
    ASSUME Inv, NEW r \in Recordings, Account(r), NEW j \in Jobs
    PROVE  Onwards(j)
<1>t. job[j] \in Row /\ job[j].status \in JobStatus
  BY DEF Inv, TypeOK, Row
<1>1. CASE job' = job
  BY <1>t, <1>1 DEF Onwards, Open, Terminal, JobStatus
<1>2. CASE Withdraw(r)
  <2>1. job'[j] = job[j] \/ (job[j].status \in Open /\ job'[j].status = "canceled")
    BY <1>t, <1>2 DEF Withdraw, Withdrawn, Open, Row
  <2> QED
    BY <1>t, <2>1 DEF Onwards, Open, Terminal, JobStatus
<1> QED
  BY <1>1, <1>2 DEF Account, Pause, Resume, Cancel, ChangeSchedule, BatchSchedule, ReconcileIntents

(* A request, a sweep, a call or the clock: many rows may move.            *)
LEMMA RowOnwards ==
    ASSUME Inv, [Next]_vars, NEW j \in Jobs, ~ \E w \in Workers, i \in Jobs : Lease(w, i)
    PROVE  Onwards(j)
<1>t. job[j].status \in JobStatus
  BY DEF Inv, TypeOK, Row
<1>1. CASE ClockTick \/ UNCHANGED vars
  BY <1>t, <1>1 DEF ClockTick, vars, Onwards, Open, Terminal, JobStatus
<1> QED
  BY <1>1, TickOnwards, CallOnwards, RequestOnwards DEF Next, Inv

(* No step but an ingest writes clip rows.                                 *)
LEMMA FootageStays ==
    ASSUME [Next]_vars
    PROVE  clip' = clip \/ \E g \in Gens, s \in Segments : Ingest(g, s)
<1>1. ASSUME NEW g \in Gens, Recorder(g)
      PROVE  clip' = clip \/ \E s \in Segments : Ingest(g, s)
  <2>1. CASE \E s \in Segments : ReserveCommit(g, s) \/ Put(g, s)
    BY <2>1 DEF ReserveCommit, Put
  <2>2. CASE (\E heard \in BOOLEAN : Heartbeat(g, heard)) \/ HeartbeatRefused(g)
             \/ ReserveCheck(g)
    BY <2>2 DEF Heartbeat, HeartbeatRefused, ReserveCheck
  <2>3. CASE CompleteRead(g)
    BY <2>3 DEF CompleteRead
  <2>4. CASE CompleteWrite(g)
    BY <2>4 DEF CompleteWrite
  <2>5. CASE Fail(g)
    BY <2>5 DEF Fail
  <2>6. CASE Surrender(g)
    BY <2>6 DEF Surrender
  <2> QED
    BY <1>1, <2>1, <2>2, <2>3, <2>4, <2>5, <2>6 DEF Recorder
<1>2. ASSUME NEW r \in Recordings, Account(r) PROVE clip' = clip
  BY <1>2 DEF Account, Pause, Resume, Cancel, ChangeSchedule, BatchSchedule,
              ReconcileIntents, Request
<1>3. CASE ClockTick \/ SchedulerTick \/ UNCHANGED vars
  BY <1>3 DEF ClockTick, SchedulerTick, vars
<1>4. ASSUME NEW w \in Workers, NEW j \in Jobs, Lease(w, j) PROVE clip' = clip
  BY <1>4 DEF Lease
<1> QED
  BY <1>1, <1>2, <1>3, <1>4 DEF Next

LEMMA LedgerGrant ==
    ASSUME Inv, NEW w \in Workers, NEW j \in Jobs, Lease(w, j)
    PROVE  Ledger!Grant(j)
<1>1. LeaseEffect(w, j)
  BY LeaseStep DEF Inv
<1>2. /\ job[j].status = "pending" /\ rec[RecOf[j]].status = "active"
      /\ UNCHANGED <<rec, clip>> /\ lastGen' = lastGen + 1
  BY DEF Lease, Eligible
<1>3. /\ \A i \in Jobs : i # j => job'[i] = job[i]
      /\ job'[j].status = "leased" /\ job'[j].token = lastGen + 1
  BY <1>1 DEF LeaseEffect
<1>4. [i \in Jobs |-> job'[i].status] = [[i \in Jobs |-> job[i].status] EXCEPT ![j] = "leased"]
  BY <1>3
<1>5. [i \in Jobs |-> HolderOf(i)'] = [[i \in Jobs |-> HolderOf(i)] EXCEPT ![j] = lastGen + 1]
  BY <1>3 DEF HolderOf
<1> QED
  BY <1>2, <1>4, <1>5 DEF Ledger!Grant

LEMMA LedgerDeliver ==
    ASSUME Inv, NEW g \in Gens, NEW s \in Segments, Ingest(g, s)
    PROVE  Ledger!Deliver(lease[g].job, s) /\ lease[g].job \in Jobs
<1> DEFINE j == lease[g].job
<1>1. /\ job[j].status = "leased" /\ job[j].token = g /\ clip[j][s] = 0
      /\ clip' = [clip EXCEPT ![j][s] = g] /\ UNCHANGED <<rec, job, lastGen>>
  BY DEF Ingest, OwnsUnexpired, Owns
<1>2. j \in Jobs
  BY DEF Ingest, OwnsUnexpired, Owns, Inv, GrantOK
<1>3. rec[RecOf[j]].status = "active"
  BY <1>1, <1>2 DEF Inv, WorkOnlyWhenActive, Open
<1>4. HolderOf(j) = g /\ \A i \in Jobs : HolderOf(i)' = HolderOf(i)
  BY <1>1 DEF HolderOf
<1> QED
  BY <1>1, <1>2, <1>3, <1>4 DEF Ledger!Deliver

LEMMA LedgerMove ==
    ASSUME Inv, Inv', DeliveryInv, [Next]_vars, clip' = clip,
           ~ \E w \in Workers, i \in Jobs : Lease(w, i)
    PROVE  Ledger!Move
<1>1. UNCHANGED <<lastGen, clip>>
  <2>1. ASSUME NEW g \in Gens, Recorder(g) PROVE lastGen' = lastGen
    BY <2>1, RecorderStep DEF Inv, RecorderEffect
  <2>2. ASSUME NEW r \in Recordings, Account(r) PROVE lastGen' = lastGen
    BY <2>2, AccountStep DEF Inv, AccountEffect
  <2> QED
    BY <2>1, <2>2 DEF Next, ClockTick, SchedulerTick, vars
<1>2. ASSUME NEW j \in Jobs PROVE job'[j].status \in Ledger!Onward(j)
  <2>1. Onwards(j)
    BY RowOnwards
  <2>2. job'[j].status = "done" => job[j].status = "done" \/ HasClips(j)
    BY DoneRow DEF DeliveryInv
  <2>3. job'[j].status = "leased" => job[j].status = "leased"
    BY LeasedRow
  <2>4. ~IsWindow(j) /\ job[j].status \in Terminal => job'[j].status = job[j].status
    BY ClipKeeps
  <2>5. job[j].status \in JobStatus
    BY DEF Inv, TypeOK, Row
  <2> QED
    BY <2>1, <2>2, <2>3, <2>4, <2>5
    DEF Ledger!Onward, Ledger!Outcomes, Onwards, HasClips, Open, Terminal, JobStatus
<1>3. \A j \in Jobs : job'[j].status \in {"pending", "leased"} => rec'[RecOf[j]].status = "active"
  BY DEF Inv, WorkOnlyWhenActive, Open
<1>4. ASSUME NEW j \in Jobs
      PROVE  HolderOf(j)' = IF job'[j].status = "leased" THEN HolderOf(j) ELSE 0
  BY LeasedRow DEF HolderOf
<1> QED
  BY <1>1, <1>2, <1>3, <1>4 DEF Ledger!Move

(* The ledger with its clocks, lost answers, late requests, sweeps and     *)
(* withdrawals implements FencedJobs: every step grants one waiting job    *)
(* under a new token, writes one clip for the present holder, or moves     *)
(* jobs to where the abstract ledger lets them go.                         *)
THEOREM LedgerRefinement == Spec => LedgerSpec
<1>1. Init => Ledger!Init
  <2> SUFFICES ASSUME Init PROVE Ledger!Init
    OBVIOUS
  <2>1. \A j \in Jobs : job[j].status = "absent" /\ HolderOf(j) = 0
    BY DEF Init, NoRow, HolderOf
  <2>2. \A j \in Jobs : rec[RecOf[j]].status = "active"
    BY JobsAssumption DEF Init
  <2> QED
    BY <2>1, <2>2 DEF Init, Ledger!Init
<1>2. Inv /\ Inv' /\ DeliveryInv /\ [Next]_vars => [Ledger!Next]_(Ledger!vars)
  <2> SUFFICES ASSUME Inv, Inv', DeliveryInv, [Next]_vars PROVE Ledger!Next
    OBVIOUS
  <2>1. CASE \E w \in Workers, j \in Jobs : Lease(w, j)
    BY <2>1, LedgerGrant DEF Ledger!Next
  <2>2. CASE \E g \in Gens, s \in Segments : Ingest(g, s)
    BY <2>2, LedgerDeliver DEF Ledger!Next
  <2>3. CASE clip' = clip /\ ~ \E w \in Workers, j \in Jobs : Lease(w, j)
    BY <2>3, LedgerMove DEF Ledger!Next
  <2> QED
    BY <2>1, <2>2, <2>3, FootageStays
<1> QED
  BY <1>1, <1>2, DeliveryInvariant, PTL DEF Spec, LedgerSpec, Ledger!Spec

-----------------------------------------------------------------------------
(* Windows settle: what fairness has to add is only that time passes and   *)
(* the scheduler ticks.                                                    *)

(* A lease is bounded by the end its row was opened with.                  *)
LeaseEnds ==
    \A j \in Jobs : IsWindow(j) /\ job[j].status = "leased" =>
        job[j].expires <= job[j].windowEnd + PostWindow

LEMMA LeaseEndsNext ==
    ASSUME Inv, LeaseEnds, [Next]_vars
    PROVE  LeaseEnds'
<1> SUFFICES ASSUME NEW j \in Jobs, IsWindow(j), job'[j].status = "leased"
             PROVE  job'[j].expires <= job'[j].windowEnd + PostWindow
  BY DEF LeaseEnds, IsWindow
<1>t. /\ now \in Nat /\ job[j].windowEnd \in Nat
      /\ LeaseTerm \in Nat /\ PostWindow \in Nat /\ LeaseTerm <= PostWindow
  BY TimesAssumption DEF Inv, TypeOK, Row
<1>1. ASSUME NEW w \in Workers, Lease(w, j)
      PROVE  job'[j].expires <= job'[j].windowEnd + PostWindow
  <2>1. job[j].windowEnd > now
    BY <1>1 DEF Lease, Eligible, Capturable
  <2>2. job'[j].expires = now + LeaseTerm /\ job'[j].windowEnd = job[j].windowEnd
    BY <1>1, LeaseStep DEF Inv, LeaseEffect
  <2> QED
    BY <1>t, <2>1, <2>2
<1>2. CASE ~ \E w \in Workers : Lease(w, j)
  <2>1. /\ job[j].status = "leased" /\ job'[j].windowEnd = job[j].windowEnd
        /\ job'[j].expires \in {job[j].expires, RenewedExpiry(j)}
    BY <1>2, LeasedRow
  <2>2. RenewedExpiry(j) <= job[j].windowEnd + PostWindow
    <3>1. now + LeaseTerm \in Nat /\ job[j].windowEnd + PostWindow \in Nat
      BY <1>t
    <3> QED
      BY <3>1, MinPair DEF RenewedExpiry
  <2> QED
    BY <2>1, <2>2 DEF LeaseEnds
<1> QED
  BY <1>1, <1>2

(* The end of an open row never exceeds the close in force.                *)
LEMMA EndsByClose ==
    ASSUME Inv, LeaseEnds
    PROVE  NoLeaseOutlivesWindow
<1> SUFFICES ASSUME NEW j \in Jobs, IsWindow(j), job[j].status = "leased"
             PROVE  job[j].expires <= CloseNow(j) + PostWindow
  BY DEF NoLeaseOutlivesWindow
<1>1. job[j].windowEnd = EffectiveEnd(j)
  BY DEF Inv, WindowEndOK, Open
<1>2. EffectiveEnd(j) <= CloseNow(j) /\ EffectiveEnd(j) \in Nat /\ CloseNow(j) \in Nat
  BY EndTypes DEF Inv
<1>3. job[j].expires \in Nat /\ PostWindow \in Nat
  BY TimesAssumption DEF Inv, TypeOK, Row
<1>4. job[j].expires <= job[j].windowEnd + PostWindow
  BY DEF LeaseEnds
<1> QED
  BY <1>1, <1>2, <1>3, <1>4

(* A lease ends with its window under the schedule in force, give or take  *)
(* the allowance of a renewal, whatever its recorder and the account do.   *)
THEOREM LeasesEnd == Spec => []NoLeaseOutlivesWindow
<1>1. Init => LeaseEnds
  BY DEF Init, NoRow, LeaseEnds
<1>2. Inv /\ LeaseEnds /\ [Next]_vars => LeaseEnds'
  BY LeaseEndsNext
<1>3. Inv /\ LeaseEnds => NoLeaseOutlivesWindow
  BY EndsByClose
<1> QED
  BY <1>1, <1>2, <1>3, Invariance, PTL DEF Spec

(* A window over which reclaim and sweep have to decide.                   *)
Overdue(j) == IsWindow(j) /\ CloseNow(j) + PostWindow < now

(* One tick closes every overdue window: it takes back the lease, calls    *)
(* the row stale, and does not revive it.                                  *)
LEMMA TickCloses ==
    ASSUME Inv, NoLeaseOutlivesWindow, SchedulerTick, NEW j \in Jobs,
           IsWindow(j), CloseNow(j) <= now, job[j].status \notin Open \/ Overdue(j)
    PROVE  job'[j].status \notin Open
<1> DEFINE r1 == CancelCompleted(j, job[j])
           r2 == ReclaimExpired(r1)
           r3 == MarkStaleMissed(j, r2)
           r4 == Enqueue(j, r3)
<1>0. job[j] \in Row /\ job'[j] = r4
  BY DEF Inv, TypeOK, SchedulerTick
<1>1. r1 \in Row /\ r2 \in Row /\ r3 \in Row
  BY <1>0, RowTypes DEF Inv
<1>a. ASSUME NEW row \in Row
      PROVE  /\ Released(row) \in Row /\ Released(row).status = row.status
             /\ Released(row).windowEnd = row.windowEnd
  BY <1>a, RowTypes DEF Released, Row, Inv
<1>t. /\ now \in Nat /\ job[j].windowEnd \in Nat /\ job[j].expires \in Nat
      /\ PostWindow \in Nat
      /\ CloseNow(j) \in Nat /\ EffectiveEnd(j) \in Nat /\ EffectiveEnd(j) <= CloseNow(j)
  BY <1>0, EndTypes, TimesAssumption DEF Inv, TypeOK, Row
<1>b. job[j].status \in Open => job[j].windowEnd <= now
  BY <1>t DEF Inv, WindowEndOK
<1>2. r1 = job[j] \/ r1.status = "canceled"
  BY <1>0 DEF CancelCompleted, Row
<1>3. job[j].status = "leased" => job[j].expires < now
  BY <1>t DEF NoLeaseOutlivesWindow, Overdue, Open
<1>4. /\ r2.status # "leased"
      /\ r2.status \in Open => job[j].status \in Open /\ r2.windowEnd = job[j].windowEnd
  <2>1. r1.windowEnd = job[j].windowEnd
    BY <1>0 DEF CancelCompleted, Row
  <2>2. r1.status = "leased" => r1.expires < now
    BY <1>2, <1>3
  <2>3. r1.status \in Open => job[j].status \in Open
    BY <1>2 DEF Open
  <2> HIDE DEF r1
  <2> QED
    BY <1>1, <1>a, <2>1, <2>2, <2>3 DEF ReclaimExpired, Row, Open
<1>5. r3.status \notin Open
  <2> HIDE DEF r2
  <2>1. r2.status \in Open => Stale(j, r2)
    BY <1>4, <1>b DEF Stale
  <2> QED
    BY <1>1, <1>a, <1>4, <2>1 DEF MarkStaleMissed, Open, Row
<1>6. ~WindowOpen(j)
  BY <1>t DEF WindowOpen
<1>7. r4 = r3
  <2> HIDE DEF r3
  <2> QED
    BY <1>6 DEF Enqueue, EnqueueWindow
<1> QED
  BY <1>0, <1>5, <1>7

(* The row of a window that is over and closed is opened by nothing: only  *)
(* the enqueue opens rows, and it opens windows that are open.             *)
LEMMA ClosedStays ==
    ASSUME Inv, NoLeaseOutlivesWindow, [Next]_vars, NEW j \in Jobs,
           IsWindow(j), CloseNow(j) <= now, job[j].status \notin Open
    PROVE  job'[j].status \notin Open
<1>t. job[j] \in Row
  BY DEF Inv, TypeOK
<1>1. CASE SchedulerTick
  BY <1>1, TickCloses
<1>2. ASSUME NEW w \in Workers, NEW i \in Jobs, Lease(w, i) PROVE job'[j] = job[j]
  <2>1. i # j
    BY <1>2 DEF Lease, Eligible, Open
  <2> QED
    BY <1>2, <2>1, LeaseStep DEF Inv, LeaseEffect
<1>3. ASSUME NEW g \in Gens, Recorder(g) PROVE job'[j] = job[j]
  <2>1. RecorderEffect(g)
    BY <1>3, RecorderStep DEF Inv
  <2> QED
    BY <2>1 DEF RecorderEffect, RowEffect, Owns, Open
<1>4. ASSUME NEW r \in Recordings, Account(r) PROVE job'[j].status \notin Open
  BY <1>4, AccountStep DEF Inv, AccountEffect, WithdrawEffect
<1>5. CASE ClockTick \/ UNCHANGED vars
  BY <1>5 DEF ClockTick, vars
<1> QED
  BY <1>1, <1>2, <1>3, <1>4, <1>5 DEF Next

(* A window that is closed when the schedule in force has it over, or has  *)
(* none at its opening, stays closed for as long as that is so: an account *)
(* can reopen it only by moving its close past the clock.                  *)
THEOREM ClosedForGood == Spec => ClosedAfterWindow
<1>1. Inv /\ NoLeaseOutlivesWindow /\ [Next]_vars =>
        [\A j \in Jobs : IsWindow(j) /\ CloseNow(j) <= now /\ job[j].status \notin Open
                            => job'[j].status \notin Open]_vars
  BY ClosedStays
<1> QED
  BY <1>1, Invariance, LeasesEnd, PTL DEF Spec, ClosedAfterWindow

(* A tick that finds a window overdue under the schedule in force closes   *)
(* it, and until an edit moves that close past the clock nothing opens it. *)
THEOREM OverdueSettles ==
    Spec => [][\A j \in Jobs :
                  Overdue(j) /\ (<<SchedulerTick>>_vars \/ job[j].status \notin Open)
                     => job'[j].status \notin Open]_vars
<1>1. Inv /\ NoLeaseOutlivesWindow /\ [Next]_vars =>
        [\A j \in Jobs :
            Overdue(j) /\ (<<SchedulerTick>>_vars \/ job[j].status \notin Open)
               => job'[j].status \notin Open]_vars
  <2> SUFFICES ASSUME Inv, NoLeaseOutlivesWindow, [Next]_vars, NEW j \in Jobs, Overdue(j),
                      SchedulerTick \/ job[j].status \notin Open
               PROVE  job'[j].status \notin Open
    OBVIOUS
  <2>1. IsWindow(j) /\ CloseNow(j) <= now
    <3>1. CloseNow(j) \in Nat /\ PostWindow \in Nat /\ now \in Nat
      BY EndTypes, TimesAssumption DEF Inv, TypeOK
    <3> QED
      BY <3>1 DEF Overdue
  <2> QED
    BY <2>1, TickCloses, ClosedStays
<1> QED
  BY <1>1, Invariance, LeasesEnd, PTL DEF Spec
=============================================================================
