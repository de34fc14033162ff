---------------------------- MODULE RecordingJobs ----------------------------
(***************************************************************************)
(* The recording-job lease ledger: the rows of recordings, recording_jobs, *)
(* recording_upload_intents and recording_clips, the API handlers through  *)
(* which recorders work on them, the scheduler tick, and the lifecycle     *)
(* requests of an account (pause, resume, cancel, schedule edit).          *)
(*                                                                         *)
(* Every handler that is one transaction is one action; a handler that     *)
(* reads, then writes in a later statement, is two.  The requests of a     *)
(* recorder are delivered late, twice or never: whoever was once granted a *)
(* lease may send any request under it at any later time, and the ledger   *)
(* has to refuse what is stale.                                            *)
(***************************************************************************)
EXTENDS Naturals, FiniteSetsExt

CONSTANTS
    Recordings, Jobs, Workers,
    Segments,          \* object keys of one job (segment starts)
    NoWorker, NoJob,   \* SQL NULL of lease_owner; "lease not granted yet"
    RecOf,             \* recording_id of a job
    KindOf,            \* "clip" or "continuous_window"
    KeysOf,            \* the object keys a job can write
    FireAt,            \* fire_at: cron instant or daily-window open
    Schedules,         \* mode, cron or daily window, and timezone together
    CloseOf,           \* by schedule and job: close of the window that opens
                       \* at FireAt, 0 if the schedule has no such occurrence
    Ends,              \* the end_at values an account may choose
    Jitter,            \* fireJitter: leasable-at offset of a recording
    Relays,            \* relay workers; the others are cloud droplets
    Capacity,          \* recorder_droplets.capacity / nodes.relay_max_streams
    LeaseTerm,         \* clip_duration_sec + capture and upload margins
    FreshFor,          \* clip_duration_sec + freshness grace
    PostWindow,        \* recordingContinuousPostWindowLeaseSec
    RetryDelay,        \* requeue delay of a failed attempt
    HandoffHold,       \* how long a surrendering worker is passed over
    SurrenderBackoff,  \* cloud surrender delay by attempt (1, 2, later)
    ReviveBackoff,     \* continuousErrorReviveBackoff
    CatchupWindow,     \* scheduler CatchupWindow
    MaxAttempts,       \* recording_jobs.max_attempts
    MaxNow,            \* bound: last instant of the clock
    MaxRequests,       \* bound: account requests in a behaviour
    MaxLeases          \* bound: leases granted in a behaviour

Gens == 1..MaxLeases

JobStatus == {"absent", "pending", "leased", "done", "error", "canceled"}
RecStatus == {"active", "paused", "completed", "canceled"}

ASSUME SetsAssumption ==
    /\ NoWorker \notin Workers
    /\ NoJob \notin Jobs
    /\ Relays \subseteq Workers

ASSUME JobsAssumption ==
    /\ RecOf \in [Jobs -> Recordings]
    /\ KindOf \in [Jobs -> {"clip", "continuous_window"}]
    /\ KeysOf \in [Jobs -> SUBSET Segments]
    /\ FireAt \in [Jobs -> Nat \ {0}]
    /\ CloseOf \in [Schedules -> [Jobs -> Nat]]
    /\ Ends \subseteq Nat \ {0}
    /\ Jitter \in [Recordings -> Nat]

(* A segment has at most 900 s, so a lease term of segment and margins is  *)
(* shorter than the 46 minutes a window lease may outlive its window.      *)
ASSUME TimesAssumption ==
    /\ LeaseTerm \in Nat \ {0}
    /\ {FreshFor, PostWindow, RetryDelay, HandoffHold} \subseteq Nat
    /\ LeaseTerm <= PostWindow
    /\ SurrenderBackoff \in [1..3 -> Nat]
    /\ {ReviveBackoff, CatchupWindow, MaxAttempts, MaxNow, MaxRequests, MaxLeases} \subseteq Nat
    /\ Capacity \in [Workers -> Nat]

VARIABLES
    now,      \* the database clock; 0 never occurs and stands for NULL
    rec,      \* recordings
    job,      \* recording_jobs
    lease,    \* what the holder of each lease generation knows and does
    lastGen,  \* the last lease generation granted
    requests, \* account requests so far
    intent,   \* recording_upload_intents.status by job and object key
    object,   \* object store: the generation whose bytes the key holds
    clip      \* recording_clips: the generation whose bytes the row describes

vars == <<now, rec, job, lease, lastGen, requests, intent, object, clip>>

RecordingRow == [status: RecStatus, schedule: Schedules, endAt: Nat, lastFire: Nat]

Row == [status: JobStatus, sched: Nat, owner: Workers \cup {NoWorker},
        token: {0} \cup Gens, expires: Nat, attempts: Nat,
        handoff: Workers \cup {NoWorker}, handoffUntil: Nat,
        completed: Nat, windowEnd: Nat]

(* A handler that reads before it writes is in one of these states between *)
(* its two statements.                                                     *)
Handler == {"idle", "reserving", "completing_empty", "completing"}

Grant == [worker: Workers \cup {NoWorker}, job: Jobs \cup {NoJob}, until: Nat,
          stopped: BOOLEAN, revoked: BOOLEAN, handler: Handler,
          urls: SUBSET Segments]

TypeOK ==
    /\ now \in Nat \ {0}
    /\ rec \in [Recordings -> RecordingRow]
    /\ job \in [Jobs -> Row]
    /\ lease \in [Gens -> Grant]
    /\ lastGen \in {0} \cup Gens
    /\ requests \in Nat
    /\ intent \in [Jobs -> [Segments -> {"none", "pending", "consumed", "expired"}]]
    /\ object \in [Jobs -> [Segments -> {0} \cup Gens]]
    /\ clip \in [Jobs -> [Segments -> {0} \cup Gens]]

NoRow == [status |-> "absent", sched |-> 0, owner |-> NoWorker, token |-> 0,
          expires |-> 0, attempts |-> 0, handoff |-> NoWorker,
          handoffUntil |-> 0, completed |-> 0, windowEnd |-> 0]

NoGrant == [worker |-> NoWorker, job |-> NoJob, until |-> 0, stopped |-> TRUE,
            revoked |-> FALSE, handler |-> "idle", urls |-> {}]

Init ==
    /\ now = 1
    /\ rec \in [Recordings -> [status: {"active"}, schedule: Schedules,
                                endAt: Ends, lastFire: {0}]]
    /\ job = [j \in Jobs |-> NoRow]
    /\ lease = [g \in Gens |-> NoGrant]
    /\ lastGen = 0
    /\ requests = 0
    /\ intent = [j \in Jobs |-> [s \in Segments |-> "none"]]
    /\ object = [j \in Jobs |-> [s \in Segments |-> 0]]
    /\ clip = [j \in Jobs |-> [s \in Segments |-> 0]]

-----------------------------------------------------------------------------
(* The state of a row.                                                     *)

IsWindow(j) == KindOf[j] = "continuous_window"
HasClips(j) == \E s \in Segments : clip[j][s] # 0
InEnvelope(r) == now < rec[r].endAt

(* The close of the job's window under the schedule in force.  The key of  *)
(* a job holds the opening only, so an edit that keeps the opening moves   *)
(* the close of the same row; any other edit leaves the row without an     *)
(* occurrence.  For a sampled job only whether it is 0 counts.             *)
CloseNow(j) == CloseOf[rec[RecOf[j]].schedule][j]

(* The freshness gate of the two lease queries; a sampled job is worth     *)
(* capturing up to fire_at + duration + grace, a window up to its end.     *)
Capturable(j) ==
    IF IsWindow(j) THEN job[j].windowEnd > now ELSE FireAt[j] + FreshFor > now

(* The complement, as the miss sweep of the scheduler writes it.           *)
Stale(j, row) ==
    IF IsWindow(j) THEN row.windowEnd <= now ELSE FireAt[j] + FreshFor <= now

LiveLeases(w) ==
    {j \in Jobs : job[j].status = "leased" /\ job[j].owner = w /\ job[j].expires > now}

(* Fault: the ownership predicate forgets the status of the row.           *)
OwnsByToken(g) ==
    /\ lease[g].worker # NoWorker
    /\ job[lease[g].job].owner = lease[g].worker
    /\ job[lease[g].job].token = g

(* The ownership predicate of the handlers: status, lease_owner and        *)
(* lease_token of the row are those of the lease; most handlers also ask   *)
(* that the lease has not expired.                                         *)
Owns(g) ==
    /\ lease[g].worker # NoWorker
    /\ job[lease[g].job].status = "leased"
    /\ job[lease[g].job].owner = lease[g].worker
    /\ job[lease[g].job].token = g

OwnsUnexpired(g) == Owns(g) /\ job[lease[g].job].expires > now

(* Fault: the recorder arms no lease timer.                                *)
CapturingUntimed(g) == ~lease[g].stopped

(* The recorder still captures under lease g: it was not told to stop and  *)
(* the last expiry it was told of has not passed.  Its timer fires a       *)
(* safety margin earlier, unless a heartbeat is in flight, which it awaits *)
(* until that expiry.                                                      *)
Capturing(g) == ~lease[g].stopped /\ now < lease[g].until

Released(row) == [row EXCEPT !.owner = NoWorker, !.token = 0, !.expires = 0]

(* Fault: a withdrawal takes the leased jobs only.                         *)
WithdrawnLeasedOnly(row) ==
    IF row.status = "leased"
    THEN [row EXCEPT !.status = "canceled", !.owner = NoWorker, !.expires = 0]
    ELSE row

(* Jobs canceled by an account request lose owner and expiry, not token.   *)
Withdrawn(row) ==
    IF row.status \in {"pending", "leased"}
    THEN [row EXCEPT !.status = "canceled", !.owner = NoWorker, !.expires = 0]
    ELSE row

(* Ghost: the leases whose row is taken from them by a cancellation.       *)
Revoke(js) ==
    [g \in Gens |->
        IF lease[g].job \in js /\ Owns(g)
        THEN [lease[g] EXCEPT !.revoked = TRUE]
        ELSE lease[g]]

-----------------------------------------------------------------------------
(* The lease queries.  LIMIT 1 ... SKIP LOCKED hands out some eligible job *)
(* to one poller at a time; the locked droplet or node row makes the       *)
(* capacity count authoritative.                                           *)

(* Fault: the capacity comparison is off by one.                           *)
EligibleAtCapacity(w, j) ==
    /\ job[j].status = "pending"
    /\ job[j].sched <= now
    /\ Capturable(j)
    /\ rec[RecOf[j]].status = "active"
    /\ InEnvelope(RecOf[j])
    /\ Cardinality(LiveLeases(w)) <= Capacity[w]

Eligible(w, j) ==
    /\ job[j].status = "pending"
    /\ job[j].sched <= now
    /\ Capturable(j)
    /\ rec[RecOf[j]].status = "active"
    /\ InEnvelope(RecOf[j])
    /\ job[j].handoff # w \/ job[j].handoffUntil <= now
    /\ Cardinality(LiveLeases(w)) < Capacity[w]

Lease(w, j) ==
    /\ Eligible(w, j)
    /\ lastGen < MaxLeases
    /\ lastGen' = lastGen + 1
    /\ job' = [job EXCEPT ![j] = [@ EXCEPT
                  !.status = "leased", !.owner = w, !.token = lastGen + 1,
                  !.expires = now + LeaseTerm, !.attempts = job[j].attempts + 1,
                  !.handoff = NoWorker, !.handoffUntil = 0]]
    /\ lease' = [lease EXCEPT ![lastGen + 1] =
                  [NoGrant EXCEPT !.worker = w, !.job = j,
                                  !.until = now + LeaseTerm, !.stopped = FALSE]]
    /\ UNCHANGED <<now, rec, requests, intent, object, clip>>

(* Fault: a renewal is for a whole term, whenever the window ends.         *)
RenewedUncapped(j) == now + LeaseTerm

(* The expiry a heartbeat writes: a window lease never outlives the close  *)
(* of the window by more than PostWindow.                                  *)
RenewedExpiry(j) ==
    IF IsWindow(j)
    THEN Min({now + LeaseTerm, job[j].windowEnd + PostWindow})
    ELSE now + LeaseTerm

(* The renewal is written; the recorder learns of it unless the answer is  *)
(* lost or comes after it has stopped.                                     *)
Heartbeat(g, heard) ==
    LET j == lease[g].job IN
    /\ OwnsUnexpired(g)
    /\ IsWindow(j) => job[j].windowEnd + PostWindow > now
    /\ heard => Capturing(g)
    /\ job' = [job EXCEPT ![j] = [@ EXCEPT !.expires = RenewedExpiry(j)]]
    /\ lease' = IF heard
                THEN [lease EXCEPT ![g] = [@ EXCEPT !.until = RenewedExpiry(j)]]
                ELSE lease
    /\ UNCHANGED <<now, rec, lastGen, requests, intent, object, clip>>

(* 409 with cancel=true: the recorder aborts the capture.                  *)
HeartbeatRefused(g) ==
    LET j == lease[g].job IN
    /\ lease[g].worker # NoWorker /\ ~lease[g].stopped
    /\ ~(/\ OwnsUnexpired(g)
         /\ IsWindow(j) => job[j].windowEnd + PostWindow > now)
    /\ lease' = [lease EXCEPT ![g] = [@ EXCEPT !.stopped = TRUE]]
    /\ UNCHANGED <<now, rec, job, lastGen, requests, intent, object, clip>>

-----------------------------------------------------------------------------
(* Delivery of one clip: reserve an object key, PUT, ingest.               *)

(* The ownership check of the reservation runs before its transaction.     *)
ReserveCheck(g) ==
    /\ OwnsUnexpired(g)
    /\ rec[RecOf[lease[g].job]].status = "active"
    /\ lease[g].handler = "idle"
    /\ KeysOf[lease[g].job] # {}
    /\ lease' = [lease EXCEPT ![g] = [@ EXCEPT !.handler = "reserving"]]
    /\ UNCHANGED <<now, rec, job, lastGen, requests, intent, object, clip>>

(* Fault: ON CONFLICT refreshes a consumed intent too.                     *)
ReserveCommitAgain(g, s) ==
    LET j == lease[g].job IN
    /\ lease[g].handler = "reserving"
    /\ s \in KeysOf[j]
    /\ lease' = [lease EXCEPT ![g] = [@ EXCEPT
                    !.handler = "idle", !.urls = lease[g].urls \cup {s}]]
    /\ intent' = [intent EXCEPT ![j][s] = "pending"]
    /\ UNCHANGED <<now, rec, job, lastGen, requests, object, clip>>

(* The transaction: a consumed key is already ingested; otherwise the      *)
(* intent is inserted or refreshed and a PUT URL is handed out.            *)
ReserveCommit(g, s) ==
    LET j == lease[g].job IN
    /\ lease[g].handler = "reserving"
    /\ s \in KeysOf[j]
    /\ IF intent[j][s] = "consumed"
       THEN /\ lease' = [lease EXCEPT ![g] = [@ EXCEPT !.handler = "idle"]]
            /\ UNCHANGED intent
       ELSE /\ lease' = [lease EXCEPT ![g] = [@ EXCEPT
                            !.handler = "idle", !.urls = lease[g].urls \cup {s}]]
            /\ intent' = [intent EXCEPT ![j][s] = "pending"]
    /\ UNCHANGED <<now, rec, job, lastGen, requests, object, clip>>

(* The upload runs under the job context, which the lease timer cancels.   *)
Put(g, s) ==
    LET j == lease[g].job IN
    /\ Capturing(g)
    /\ s \in lease[g].urls
    /\ object' = [object EXCEPT ![j][s] = g]
    /\ UNCHANGED <<now, rec, job, lease, lastGen, requests, intent, clip>>

(* The ingest transaction.  The stored size stands for the content: the    *)
(* Head check accepts the bytes of this lease and no others.               *)
Ingest(g, s) ==
    LET j == lease[g].job IN
    /\ OwnsUnexpired(g)
    /\ s \in KeysOf[j]
    /\ intent[j][s] = "pending"
    /\ rec[RecOf[j]].status # "canceled"
    /\ object[j][s] = g
    /\ clip[j][s] = 0
    /\ clip' = [clip EXCEPT ![j][s] = g]
    /\ intent' = [intent EXCEPT ![j][s] = "consumed"]
    /\ UNCHANGED <<now, rec, job, lease, lastGen, requests, object>>

-----------------------------------------------------------------------------
(* The end of a lease, as its recorder reports it.                         *)

(* Complete, first statement: is the job ours, and has it clips?  The      *)
(* recorder has joined its uploads; for a sampled clip it has seen the     *)
(* clip acknowledged.                                                      *)
CompleteRead(g) ==
    LET j == lease[g].job IN
    /\ Owns(g)
    /\ lease[g].handler = "idle"
    /\ ~IsWindow(j) => HasClips(j)
    /\ lease' = [lease EXCEPT ![g] = [@ EXCEPT
                    !.stopped = TRUE,
                    !.handler = IF IsWindow(j) /\ ~HasClips(j)
                                THEN "completing_empty" ELSE "completing"]]
    /\ UNCHANGED <<now, rec, job, lastGen, requests, intent, object, clip>>

(* Fault: the second statement of Complete trusts the first one's check.   *)
CompleteWriteUnchecked(g) ==
    LET j == lease[g].job
        outcome == IF lease[g].handler = "completing" THEN "done" ELSE "error" IN
    /\ lease[g].handler \in {"completing", "completing_empty"}
    /\ lease' = [lease EXCEPT ![g] = [@ EXCEPT !.handler = "idle"]]
    /\ job' = [job EXCEPT ![j] = [@ EXCEPT
                   !.status = outcome, !.completed = now, !.expires = 0]]
    /\ UNCHANGED <<now, rec, lastGen, requests, intent, object, clip>>

(* Complete, second statement; the owner stays on the row (affinity).      *)
CompleteWrite(g) ==
    LET j == lease[g].job
        outcome == IF lease[g].handler = "completing" THEN "done" ELSE "error" IN
    /\ lease[g].handler \in {"completing", "completing_empty"}
    /\ lease' = [lease EXCEPT ![g] = [@ EXCEPT !.handler = "idle"]]
    /\ job' = IF Owns(g)
              THEN [job EXCEPT ![j] = [@ EXCEPT
                       !.status = outcome, !.completed = now, !.expires = 0]]
              ELSE job
    /\ UNCHANGED <<now, rec, lastGen, requests, intent, object, clip>>

(* Fail does not ask that the lease is unexpired.                          *)
Fail(g) ==
    LET j == lease[g].job
        again == job[j].attempts < MaxAttempts IN
    /\ Owns(g)
    /\ lease' = [lease EXCEPT ![g] = [@ EXCEPT !.stopped = TRUE]]
    /\ job' = [job EXCEPT ![j] = [Released(@) EXCEPT
                  !.status = IF again THEN "pending" ELSE "error",
                  !.sched = IF again THEN now + RetryDelay ELSE job[j].sched,
                  !.completed = IF again THEN 0 ELSE now]]
    /\ UNCHANGED <<now, rec, lastGen, requests, intent, object, clip>>

SurrenderDelay(attempts) ==
    SurrenderBackoff[IF attempts <= 1 THEN 1 ELSE IF attempts = 2 THEN 2 ELSE 3]

(* A relay requeues at once; a cloud recorder backs off unless this lease  *)
(* landed a clip (always) or any clip is recent (the age is not modelled). *)
RequeueDelays(g) ==
    LET j == lease[g].job
        delay == SurrenderDelay(job[j].attempts) IN
    IF lease[g].worker \in Relays \/ \E s \in Segments : clip[j][s] = g
    THEN {0}
    ELSE IF HasClips(j) THEN {0, delay} ELSE {delay}

Surrender(g) ==
    LET j == lease[g].job IN
    /\ OwnsUnexpired(g)
    /\ IsWindow(j)
    /\ job[j].windowEnd > now
    /\ lease' = [lease EXCEPT ![g] = [@ EXCEPT !.stopped = TRUE]]
    /\ \E delay \in RequeueDelays(g) :
         job' = [job EXCEPT ![j] = [Released(@) EXCEPT
                   !.status = "pending", !.sched = now + delay, !.completed = 0,
                   !.handoff = lease[g].worker, !.handoffUntil = now + HandoffHold]]
    /\ UNCHANGED <<now, rec, lastGen, requests, intent, object, clip>>

-----------------------------------------------------------------------------
(* The scheduler tick: one transaction, four passes over the tables.       *)

AutoStopped(r) == rec[r].status = "active" /\ rec[r].endAt <= now

StatusAfterStop(r) == IF AutoStopped(r) THEN "completed" ELSE rec[r].status

(* Jobs of completed recordings are canceled; here the lease columns stay. *)
CancelCompleted(j, row) ==
    IF StatusAfterStop(RecOf[j]) = "completed" /\ row.status \in {"pending", "leased"}
    THEN [row EXCEPT !.status = "canceled"] ELSE row

ReclaimExpired(row) ==
    IF row.status = "leased" /\ row.expires < now
    THEN [Released(row) EXCEPT !.status = "pending"] ELSE row

(* Fault: the sweep looks at sampled jobs only.                            *)
MarkStaleClips(j, row) ==
    IF row.status = "pending" /\ ~IsWindow(j) /\ Stale(j, row)
    THEN [Released(row) EXCEPT !.status = "error", !.completed = now]
    ELSE row

MarkStaleMissed(j, row) ==
    IF row.status = "pending" /\ Stale(j, row)
    THEN [Released(row) EXCEPT
             !.status = IF IsWindow(j) /\ HasClips(j) THEN "done" ELSE "error",
             !.completed = now]
    ELSE row

(* The recordings the tick enqueues for.                                   *)
Enqueuing(r) == StatusAfterStop(r) = "active" /\ InEnvelope(r)

EffectiveEnd(j) == Min({CloseNow(j), rec[RecOf[j]].endAt})

(* Fault: the window is still open at the instant of its close.            *)
WindowOpenAtClose(j) == FireAt[j] <= now /\ now <= CloseNow(j)

WindowOpen(j) == FireAt[j] <= now /\ now < CloseNow(j)

Revivable(j, row) ==
    \/ row.status = "canceled"
    \/ row.status = "error" /\ (row.completed = 0 \/ row.completed + ReviveBackoff < now)
    \/ row.status = "done" /\ (row.windowEnd < EffectiveEnd(j) \/ ~HasClips(j))

EnqueueWindow(j, row) ==
    IF WindowOpen(j) /\ Revivable(j, row)
    THEN [Released(row) EXCEPT !.status = "pending", !.sched = now, !.attempts = 0,
                               !.completed = 0, !.windowEnd = EffectiveEnd(j)]
    ELSE IF WindowOpen(j) /\ row.status = "absent"
    THEN [row EXCEPT !.status = "pending", !.sched = FireAt[j],
                     !.windowEnd = EffectiveEnd(j)]
    ELSE row

(* A cron fire is materialised once, when it lies in (cursor, now].        *)
FireDue(j) ==
    LET r == RecOf[j] IN
    /\ CloseNow(j) # 0
    /\ FireAt[j] <= now
    /\ FireAt[j] > rec[r].lastFire
    /\ FireAt[j] + CatchupWindow > now

EnqueueFire(j, row) ==
    IF FireDue(j) /\ row.status = "absent"
    THEN [row EXCEPT !.status = "pending", !.sched = FireAt[j] + Jitter[RecOf[j]]]
    ELSE row

Enqueue(j, row) ==
    IF ~Enqueuing(RecOf[j]) THEN row
    ELSE IF IsWindow(j) THEN EnqueueWindow(j, row) ELSE EnqueueFire(j, row)

(* The fire instants this tick enumerates for a recording.                 *)
DueFires(r) ==
    {FireAt[j] : j \in {i \in Jobs :
        RecOf[i] = r /\ IF IsWindow(i) THEN WindowOpen(i) ELSE FireDue(i)}}

(* last_enqueued_fire_at advances to the newest of them, never back.       *)
CursorAfter(r) ==
    IF Enqueuing(r) THEN Max({rec[r].lastFire} \cup DueFires(r)) ELSE rec[r].lastFire

SchedulerTick ==
    /\ rec' = [r \in Recordings |-> [rec[r] EXCEPT
                  !.status = StatusAfterStop(r), !.lastFire = CursorAfter(r)]]
    /\ job' = [j \in Jobs |->
                  Enqueue(j, MarkStaleMissed(j, ReclaimExpired(CancelCompleted(j, job[j]))))]
    /\ lease' = Revoke({j \in Jobs : StatusAfterStop(RecOf[j]) = "completed"})
    /\ UNCHANGED <<now, lastGen, requests, intent, object, clip>>

-----------------------------------------------------------------------------
(* Account and operator requests.  Each changes the recording and withdraws*)
(* its open jobs in one transaction.                                       *)

JobsOf(r) == {j \in Jobs : RecOf[j] = r}

Withdraw(r) ==
    /\ job' = [j \in Jobs |-> IF RecOf[j] = r THEN Withdrawn(job[j]) ELSE job[j]]
    /\ lease' = Revoke(JobsOf(r))

(* Guard and effect that all account requests share (the bound apart).     *)
Request ==
    /\ requests < MaxRequests
    /\ requests' = requests + 1
    /\ UNCHANGED <<now, lastGen, intent, object, clip>>

Pause(r) ==
    /\ rec[r].status = "active"
    /\ rec' = [rec EXCEPT ![r] = [@ EXCEPT !.status = "paused"]]
    /\ Withdraw(r)
    /\ Request

(* The cron cursor stays where it was when the recording was paused.       *)
Resume(r) ==
    /\ rec[r].status = "paused"
    /\ rec' = [rec EXCEPT ![r] = [@ EXCEPT !.status = "active"]]
    /\ Request
    /\ UNCHANGED <<job, lease>>

Cancel(r) ==
    /\ rec' = [rec EXCEPT ![r] = [@ EXCEPT !.status = "canceled"]]
    /\ Withdraw(r)
    /\ Request

(* A schedule edit replaces mode, cron, timezone and daily window, also    *)
(* reactivates a completed recording and moves the cron cursor to now.     *)
(* The new end follows the start, which for a completed recording is not   *)
(* before now.                                                             *)
ChangeSchedule(r, schedule, end) ==
    LET restart == rec[r].status = "completed" IN
    /\ rec[r].status # "canceled"
    /\ restart => end > now
    /\ rec' = [rec EXCEPT ![r] = [@ EXCEPT
                  !.status = IF restart THEN "active" ELSE rec[r].status,
                  !.schedule = schedule, !.endAt = end, !.lastFire = now]]
    /\ Withdraw(r)
    /\ Request

(* A batch schedule over an existing recording reactivates it whatever its *)
(* status and clears the cron cursor.                                      *)
BatchSchedule(r, schedule, end) ==
    /\ rec[r].status # "canceled"
    /\ end > now
    /\ rec' = [rec EXCEPT ![r] = [@ EXCEPT
                  !.status = "active", !.schedule = schedule,
                  !.endAt = end, !.lastFire = 0]]
    /\ Withdraw(r)
    /\ Request

(* The administrator's reconciliation expires pending intents of jobs that *)
(* no live lease works on (the age of the intent is not modelled).         *)
ReconcileIntents(r) ==
    /\ intent' = [j \in Jobs |-> [s \in Segments |->
           IF /\ RecOf[j] = r
              /\ ~(job[j].status = "leased" /\ job[j].expires > now)
              /\ intent[j][s] = "pending"
           THEN "expired" ELSE intent[j][s]]]
    /\ UNCHANGED <<now, rec, job, lease, lastGen, requests, object, clip>>

ClockTick ==
    /\ now < MaxNow
    /\ now' = now + 1
    /\ UNCHANGED <<rec, job, lease, lastGen, requests, intent, object, clip>>

-----------------------------------------------------------------------------
Recorder(g) ==
    \/ \E heard \in BOOLEAN : Heartbeat(g, heard)
    \/ HeartbeatRefused(g)
    \/ ReserveCheck(g)
    \/ \E s \in Segments : ReserveCommit(g, s) \/ Put(g, s) \/ Ingest(g, s)
    \/ CompleteRead(g)
    \/ CompleteWrite(g)
    \/ Fail(g)
    \/ Surrender(g)

Account(r) ==
    \/ Pause(r)
    \/ Resume(r)
    \/ Cancel(r)
    \/ \E schedule \in Schedules, end \in Ends :
          ChangeSchedule(r, schedule, end) \/ BatchSchedule(r, schedule, end)
    \/ ReconcileIntents(r)

Next ==
    \/ ClockTick
    \/ SchedulerTick
    \/ \E w \in Workers, j \in Jobs : Lease(w, j)
    \/ \E g \in Gens : Recorder(g)
    \/ \E r \in Recordings : Account(r)

Spec == Init /\ [][Next]_vars

(* Time passes and the scheduler process, restarted by runWithBackoff when *)
(* it fails, keeps ticking; nothing is assumed of recorders or accounts.   *)
FairSpec == Spec /\ WF_vars(ClockTick) /\ WF_vars(SchedulerTick)

-----------------------------------------------------------------------------
(* Properties.                                                             *)

Open == {"pending", "leased"}
Terminal == {"done", "error", "canceled"}

(* Two recorders never capture the same job at once, unless the older one  *)
(* holds a lease that an account request or the end of the recording took  *)
(* away: the expiry a recorder acts on (heartbeat answers may be lost)     *)
(* never exceeds the one the ledger waits for before it hands the job out  *)
(* again.                                                                  *)
NoOverlappingCapture ==
    \A g, h \in Gens :
        /\ g # h /\ lease[g].job = lease[h].job
        /\ Capturing(g) /\ Capturing(h)
        => lease[g].revoked \/ lease[h].revoked

(* The bytes under the key of an ingested clip are the ones its row was    *)
(* written for; only a recorder whose lease was revoked, and which has not *)
(* heard of it yet, can have overwritten them.                             *)
ClipDescribesObject ==
    \A j \in Jobs, s \in Segments :
        clip[j][s] # 0 =>
            \/ object[j][s] = clip[j][s]
            \/ object[j][s] # 0 /\ lease[object[j][s]].revoked

(* Work exists only for active recordings: whatever order requests, ticks  *)
(* and recorder calls come in, no pending or leased job is left behind     *)
(* under a recording that is paused, completed or canceled.                *)
WorkOnlyWhenActive ==
    \A j \in Jobs : job[j].status \in Open => rec[RecOf[j]].status = "active"

(* A job reported done has footage: neither a completion that raced an     *)
(* ingest nor the sweep of an ended window reports an empty success.       *)
DoneHasClips ==
    \A j \in Jobs : job[j].status = "done" => HasClips(j)

(* The presign ledger and the clip table agree: a key is consumed exactly  *)
(* when it has its clip row, whichever generation reserved it last.        *)
ConsumedIffIngested ==
    \A j \in Jobs, s \in Segments : (intent[j][s] = "consumed") <=> (clip[j][s] # 0)

(* No worker holds more live leases than its capacity, through renewals,   *)
(* late heartbeats and expiry.                                             *)
WithinCapacity ==
    \A w \in Workers : Cardinality(LiveLeases(w)) <= Capacity[w]

(* A clip row is written once, for an active recording, and never changed: *)
(* ingest itself only refuses canceled recordings, the rest is the lease.  *)
ClipsWrittenOnceWhileActive ==
    [][\A j \in Jobs, s \in Segments :
          clip'[j][s] # clip[j][s] =>
             clip[j][s] = 0 /\ rec[RecOf[j]].status = "active"]_vars

(* A sampled clip job that reached an outcome keeps it: a late completion, *)
(* failure report, reclaim or schedule edit never reopens it.              *)
ClipOutcomeIsFinal ==
    [][\A j \in Jobs :
          ~IsWindow(j) /\ job[j].status \in Terminal => job'[j].status = job[j].status]_vars

(* No window stays open for ever: every window job ends in an outcome and  *)
(* stays there, even if its recorder and all others are gone, or if its    *)
(* recorder keeps heartbeating after the window has closed.                *)
WindowsSettle ==
    \A j \in Jobs : IsWindow(j) => <>[](job[j].status \notin Open)

(* No lease outlives its window, as the schedule in force has it, by more  *)
(* than the allowance of a renewal: whatever heartbeats its recorder sends *)
(* and however close and end are edited meanwhile, the reclaim gets the row.*)
NoLeaseOutlivesWindow ==
    \A j \in Jobs : IsWindow(j) /\ job[j].status = "leased" =>
        job[j].expires <= CloseNow(j) + PostWindow

(* A window row that is closed while the schedule in force has its window  *)
(* over or has none stays closed: no revival, reactivation, change of the  *)
(* end or late request opens it again, only a tick after an edit that      *)
(* itself moved the close past the clock.                                  *)
ClosedAfterWindow ==
    [][\A j \in Jobs :
          IsWindow(j) /\ CloseNow(j) <= now /\ job[j].status \notin Open =>
             job'[j].status \notin Open]_vars

(* The miss sweep reports honest misses: a sampled clip that was captured  *)
(* and ingested is not reported as "not captured on schedule".             *)
HonestMiss ==
    [][\A j \in Jobs :
          ~IsWindow(j) /\ job[j].status = "pending" /\ job'[j].status = "error" =>
             ~HasClips(j)]_vars

-----------------------------------------------------------------------------
(* The ledger as its users see it.                                         *)

HolderOf(j) == IF job[j].status = "leased" THEN job[j].token ELSE 0

Ledger == INSTANCE FencedJobs WITH
    Keys <- Segments,
    OneShot <- {j \in Jobs : ~IsWindow(j)},
    state <- [j \in Jobs |-> job[j].status],
    holder <- [j \in Jobs |-> HolderOf(j)],
    last <- lastGen,
    footage <- clip,
    active <- [j \in Jobs |-> rec[RecOf[j]].status = "active"]

(* Leases with clocks, lost answers, late requests, sweeps and withdrawals *)
(* implement the fenced jobs of FencedJobs: one holder at a time, under a  *)
(* new token, footage from the holder only and once, "done" with footage,  *)
(* outcomes that stay.                                                     *)
LedgerSpec == Ledger!Spec
=============================================================================
