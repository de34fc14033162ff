# Stoarama: a verification project

Stoarama records public camera streams on a schedule. A backend (Go, PostgreSQL)
keeps the recordings and their jobs; recorders (relay machines that customers
run, and cloud droplets that the backend starts and stops) lease jobs, capture
with ffmpeg, upload clips to object storage through presigned URLs, and report.
Recorded days are later joined into hourly files by remote workers, delivered to
a NAS, purged from the store and, when wanted, restored; frames of them go
through an inference queue; usage is metered and billed through Stripe.

This directory models the parts of that system in which order, failure and time
matter: TLA+ modules written from the source, TLC runs on small instances, and
TLAPS proofs for every instance. `PROJECT.json` maps every definition to the
lines it models and lists components, runs, hazards and theorems.

## 1. Inventory

### Components, their state and their operations

| component | state | operations | hard behaviour |
|---|---|---|---|
| recording scheduler (`recsched/scheduler.go`) | the tables below, under an advisory lock, in one transaction per tick | auto-stop of ended recordings, reclaim of expired leases, miss sweep, enqueue of cron fires (with catch-up cursor) and of daily windows (with revival) | runs against handlers of the API; restarts; deadlines shared with queries in another file |
| recording job lease ledger (`api/server_recording_clips.go`) | `recording_jobs` (status, lease owner, token, expiry, attempts, handoff hold), `recording_upload_intents`, `recording_clips`, objects in the bucket | lease, heartbeat, reserve upload, ingest, complete, fail, surrender | requests late, repeated or lost; two statements without a common transaction; a presigned URL outlives its lease |
| recording lifecycle API (`server_recordings*.go`) | `recordings` (status, end, cron cursor) | pause, resume, cancel, schedule edit, batch schedule | withdraws jobs that recorders are working on |
| upload-intent reconciliation | `recording_upload_intents` | expire abandoned intents | against late ingests |
| recording worker and capture (`recordingworker`, `capture`) | leases, lease timers, the attempt's spool directory, delivery pool, monitors, frozen-playlist baseline | capture loop, reserve/PUT/ingest with retries, cleanup, surrender, completion | goroutines that end each other; every order of window end, cancellation, update, disk pressure and a failed delivery |
| droplet pool controller (`dropletpool`) | `recorder_droplets`, the provider's droplets, node tokens, pool control row | tick: desired size, reconcile, promote, recycle, drain, destroy, create | provider calls fail after taking effect; crash between row and call; list lag |
| dedicated canary pool | as above, one droplet per canary | ensure, destroy | as above |
| relay nodes and groups, assignments, canaries | `nodes`, `relay_groups`, the fairness and affinity columns of a job, `recording_canary_reservations` | poll, heartbeat, enroll, disable, remove, move, set a limit, reserve | who may lease is decided by a query over everyone's state, under locks that a heartbeat waits for |
| relay client (`cmd/stoarama-relay`) | process, manifest, drain flag | start, update, stop | self-update while capturing |
| joined recordings (`api/server_recording_joined*.go`, `joinedrecording`, `recording_joined_service.go`) | batch, stream days, hours and artifacts with fenced leases, failure rows, admission control, output objects | claim, heartbeat, seal, publish, finalize, fail, purge sources; pause, one-shot, grant, authorize | remote workers that die or lose answers; two scopes; publication exactly once and in order |
| clip purge, NAS cleanup and restore (`nas_verified_purge.go`, `server_nas_cleanup.go`, `server_nas_restore.go`, `nas-pull`) | stored object, NAS file, `purged_at`, inventory, cleanup plan and items, the client's receipt journal, restore requests | purge; plan, lease, observe, permit, delete; request, lease, upload, verify, sweep | each relies on the copy that another removes |
| inference queue and box (`queue`, `server_pipeline_runs.go`, `inferencebox`) | claims, results, runs and targets, box jobs | claim, commit, abandon, refresh the run; claim, box, fail, retry | second and third lease queue, unfenced updates |
| metering (`recorder_metering.go`, `billing/stripe.go`) | `billing_meter_periods`, the outbox `billing_meter_reports`, daily storage facts, invoice and aggregates at Stripe | discover, count, reserve, send, reconcile, verify, complete | an external ledger that answers late or not at all; usage that still changes after the period |
| prepaid billing, sign-in limiter, catalogue, quality, pages | - | CRUD, numerical analysis, reports | little or no protocol state |

The scheduler, the ledger and the lifecycle API share the tables and nothing
else; recorders see the ledger through HTTP and the object store through
presigned URLs; the droplet pool reads the same job table to decide how many
recorders there are, and the lease query reads the droplet table to decide who
may lease. Joined workers, the NAS client and the inference runners are remote
processes that lease rows over HTTP; the purges are commands of the operator.

### What makes each correct

* **Ledger**: a lease separates captures; a late request of an old lease changes
  nothing; a clip row describes the bytes under its key; `done` means there is
  footage; capacity is not exceeded; every job reaches an outcome.
* **Lifecycle**: no work is left open under a recording that is not active.
* **Scheduler**: a fire is materialised once and its outcome is final; a window
  is revived only when it should be; a reported miss is a miss.
* **Droplet pool**: the number of droplets never exceeds the cap, whatever the
  provider does; no droplet is paid for without a row; none is destroyed while
  it records.
* **Worker**: no segment is uploaded from a removed file, none handed over is
  dropped, whatever ends a job it ends.
* **Relays**: limits of nodes and groups hold, a canary has its uplink to itself,
  a due window is taken.
* **Joined recordings**: what is published is complete, in order and published
  once; sources outlive the work that needs them; every hour settles.
* **Copies**: purge, cleanup and restore never remove the last copy of a clip.
* **Inference**: no result twice, no run closed early, no queued result forgotten.
* **Metering**: usage is billed once, a period is signed off only against its finalized
  invoice, and one that can be signed off is.

The hazards behind these, each at its line, are in `PROJECT.json`.

## 2. The modules

| module | what it is |
|---|---|
| `FencedJobs` | abstract: a job has one holder at a time, each under a new token, footage comes from the holder, outcomes stay |
| `RecordingJobs` | ledger, scheduler tick, lifecycle requests, as one state machine over the four tables; implements `FencedJobs` |
| `MCWindow` | TLC instance: one daily-window job, a relay and a droplet |
| `MCClip` | TLC instance: two cron fires of one sampled recording, one droplet |
| `RecordingJobsProofs` | the inductive invariants of `RecordingJobs`, that it implements `FencedJobs`, and the theorems |
| `DropletPool` | the pool controller, the rows and tokens it keeps, the provider, the leases of the droplets |
| `MCDropletPool` | TLC instances: two or three droplet names under a cap of one or two |
| `DropletPoolProofs` | the inductive invariants of `DropletPool` and the theorems |
| `RelayLeases` | the relay lease query with nodes, groups, fairness, affinity, canaries and the owner's requests |
| `MCRelay` | TLC instance: two nodes in two groups, two jobs |
| `RelayLeasesProofs` | capacity, canaries, disabled computers and fairness turns, for any nodes, groups and jobs |
| `CaptureJob` | one window job inside a recorder: supervisor, sweep loop, delivery pool, monitors (its run needs no MC module) |
| `CaptureJobProofs` | delivery and retention of every accepted segment, for any segments and workers |
| `JoinedBatch` | abstract: a batch publishes its documents once and in order, and gives its sources up last |
| `JoinedWork` | the joined control plane, its workers, the store and the purge of sources; implements `JoinedBatch` |
| `MCJoined` | TLC instances: a stream day with a source hour and perhaps a gap hour |
| `JoinedWorkProofs` | the invariants of `JoinedWork`, and that it implements `JoinedBatch` |
| `ClipCopies` | the stored object, the NAS file and the catalogue row of a clip under purge, cleanup and restore |
| `MCCopies` | TLC instance: two clips, one being cleaned up or restored |
| `ClipCopiesProofs` | the invariants of `ClipCopies`, for any clips, requests and attempts |
| `InferenceWork` | frame claims, pipeline runs and box jobs |
| `MCInference` | TLC instance: two frames, a run and a claim outside it, two boxers |
| `InferenceWorkProofs` | the invariants of `InferenceWork`, for any frames, claims and boxers |
| `MeterPeriods` | one billing period from its discovery to its completion (its run needs no MC module) |
| `MeterPeriodsProofs` | the invariants of `MeterPeriods`, for any meters and processes |

`RecordingJobs` and `DropletPool` meet in the job lease: `RecordingJobs` has many
jobs and any number of recorders, `DropletPool` keeps of the leases only how long
the last one of a droplet still runs, which is all the controller reads.
`RelayLeases` is the `Eligible` and `Lease` of a relay in `RecordingJobs` in full:
where that module lets any job with room be leased, this one has the query.
`CaptureJob` is what a recorder of `RecordingJobs` does between its lease and its
`Complete`, `Fail` or `Surrender`. `JoinedWork` contains `JoinedBatch` by a
refinement mapping (`BatchSpec`): `published` is the set of artifacts in state
published, `released` the set of hours whose source clips are gone. In the same way `RecordingJobs`
contains `FencedJobs` (`LedgerSpec`).

### RecordingJobs

State:

* `rec`: per recording its status, schedule, `end_at` and `last_enqueued_fire_at`. A
  schedule is a value of `Schedules` and stands for mode, cron, time zone, daily window and
  weekdays together; `CloseOf` says which close it gives each window or fire, 0 where it has
  none at that instant. The key of a job holds the opening only (`scheduler.go:505`), so an
  edit may give a row another close.
* `job`: the row of `recording_jobs`. A missing row has status `absent`; NULL
  times are 0; `lease_token` is a *generation*: the ledger draws a fresh UUID for
  each lease, so leases are numbered.
* `lease`: what the recorder that was granted a generation knows and does: the
  expiry it was last told (`until`), whether it has stopped, in the middle of
  which handler its request is, which object keys it holds a PUT URL for; the
  ghost `revoked` says that a cancellation took the row from it.
* `intent`, `object`, `clip`: presign ledger, object store, clip table, by job and
  object key. Objects and clips are identified with the generation whose bytes
  they are: ingest compares the size of the stored object with the size the
  recorder reports, and that comparison stands for equality of content.
* `now`: the clock of the database, on which all expiries are computed.

Actions, and the code they stand for (lines in `PROJECT.json`):

| action | code |
|---|---|
| `Lease` | the relay and the cloud lease query: freshness, envelope, handoff hold, capacity counted under the locked droplet or node row |
| `Heartbeat`, `HeartbeatRefused` | `handleRecordingJobHeartbeat` and the worker's heartbeat loop; `heard` says whether the answer arrives |
| `ReserveCheck`, `ReserveCommit` | `handleRecordingUploadIntent`: the ownership check is before the transaction |
| `Put` | the upload, under the job context that the lease timer cancels |
| `Ingest` | `handleRecordingClipIngest` |
| `CompleteRead`, `CompleteWrite` | `handleRecordingJobComplete`: ownership and clip count, then the outcome |
| `Fail`, `Surrender` | their handlers |
| `SchedulerTick` | `tick`: auto-stop, cancel jobs of completed recordings, reclaim, miss sweep, enqueue; the passes are functions on a row, composed in that order |
| `Pause`, `Resume`, `Cancel`, `ChangeSchedule`, `BatchSchedule` | the lifecycle handlers |
| `ReconcileIntents` | the apply step of the reconciliation |
| `ClockTick` | time |

A recorder is not assumed to call in order or to be alive: any request may be
sent under any lease ever granted, at any time, as often as it likes. What it is
assumed to do is to *stop capturing* when its lease timer fires. The timer is
armed a safety margin before the expiry, but a heartbeat in flight is awaited up
to the expiry itself, so `Capturing` ends at the expiry. The clocks of worker and
database are taken to be in step; the margin exists because they are not quite.

Left out, and why it does not matter to the properties: relay affinity and
fairness order (they choose among eligible jobs, the model allows any), the
`MaxJobsPerTick` budget, canary fences and the droplet-state gate (they only make
fewer jobs eligible), `start_at` (likewise; it lies before the first fire and is not edited), an
edited clip duration (the lease term is a constant), the billing gate, the health counters
of the recording row, the delivery transfer and the presentation probe that
ingest enqueues. Left out although it matters: leases without a token, which an
old relay may still hold (see the hazards).

### FencedJobs

What the ledger amounts to for its users, without clock, retries, envelopes and requests in
the middle of a handler. The mapping is in `RecordingJobs`: `state` is the row's status,
`holder` the generation of a leased row, `last` the last generation drawn, `footage` the clip
rows, `active` whether the recording of the job is; `OneShot` are the sampled clips. `Grant`
is a lease; `Deliver` an ingest, by the present holder of an active job and once per key; `Move`
everything that takes jobs onward without handing them out: a tick or a lifecycle request
moves several at once, together with their recordings. `Onward` says where a job may go:
"done" only with footage, and a sampled clip with an outcome nowhere.

### DropletPool

State:

* `row`: the row of `recorder_droplets` (state, provider id recorded or not, build,
  `created_at`, `last_seen_at`, `idle_since`, `drain_started_at`).
* `instance`: the droplet of that name at the provider, which is what is paid for.
* `token`: the node token of the droplet.
* `lease`: the time left of the longest lease the droplet holds (0: none).
* `ctl`: the tick in progress: the stage whose read comes next, the locals of
  `tick`, and the tasks that the last read yielded.
* `build`, `faults`, `now`: the desired worker build, faults so far, the clock.

A tick is a sequence of reads. Each read yields *tasks*, one for each droplet the
code's loop visits: the statements and provider calls the loop body makes, in the
code's order. `Perform` executes one of them at a time, on the droplet the loop has
got to. Between any two, recorders heartbeat, lease and finish, the operator drains,
time passes, a statement or a call fails, or the control service dies. That is the
point of the model: most UPDATEs of the store do not look at the state they
overwrite, so what keeps the rows right is what was read before, and how stale it is.

| action | code |
|---|---|
| `Reconcile` | the fleet list, `LiveRows`, `ReconcileOrphans` and the loops over its result |
| `PromoteActive`, `ReapUnresponsive` | the functions of that name |
| `DecideScale` | `CountLive`, forecast, `refreshIdle`, `decide`, spend guard |
| `RolloutNothing`, `RolloutSurge`, `RolloutDrain` | the cases of `rolloutBuild` |
| `BeginDrains`, `ProgressDrains` | `beginDrains`, `progressDrains` |
| `BeginDestroyIfIdle`, `BeginDestroyIfIdleAndSilent` | the guarded transitions, under the lock that the lease path takes |
| `SpareLeased`, `CheckDrained` | the checks of `HasInflightJob` |
| `WriteRow` | the INSERT, `SetDropletID`, `MarkActive`, `MarkDraining`, `MarkDestroying`, `MarkDestroyed`, `MarkFailed` |
| `MintNodeToken`, `RevokeNodeToken`, `CreateDroplet`, `SetUpDroplet`, `DeleteDroplet` | the steps of `scaleUp`, `destroyWorker`, `failProvision` |
| `StatementFails`, `ReadFails`, `CreateFails`, `DeleteFails`, `Vanish`, `Crash`, `Deploy` | the error paths; provider calls fail before or after they take effect, database statements without effect |
| `Report`, `LeaseJob`, `RenewLease`, `EndLease`, `OperatorDrain`, `ClockTick` | recorders, `recorder-control drain`, time |

Abstractions. The forecast and the cooldowns are an arbitrary input (`Forecast`), so
what is checked holds for any load. The spend guard is a veto that ends a batch: any
number up to the decision is created. The stamps of `refreshIdle` are written in the
step of the decision, and do not fail. The fleet list and the rows are read in one
step. The node heartbeat and the droplet heartbeat are one (`Report`); the build a
worker reports is the one its row was inserted with, and is never empty. A drain may
take any of the idle droplets, the code takes them by id. Expiry and reclaim of a
lease are the same here: the controller looks at the expiry. There is one controller:
it runs in the single-instance control service, without leader election. Dedicated canary droplets are left out.

### RelayLeases

State: `node` (status, token, fresh heartbeat, group), `max` (`max_streams` of a
group), `job` (status, whether the lease is unexpired, owner, the stage of its
fairness turn, the nodes that failed it, the handoff hold, its affinity node),
`due` (pending jobs in the order of `scheduled_for`), `beat` (heartbeats whose
transaction began), `canary` (live reservations).

`Poll` is `leaseRelayRecordingJob`: it starts the turn of the oldest due job,
evaluates `relayLeaseSQL` (`Leasable`, one operator for each of its clauses), leases
the oldest job that passes and clears the canaries of the uplink. It runs under the
locks of account, node and group, as do `SetGroup`, `Remove`, `CanaryStart`; so each
is one step. A heartbeat is two, `BeatBegin` and `BeatCommit`, because `now()` is the
time at which its transaction began and it may wait for those locks. `Disable`,
`Enable`, `Enroll`, `SetMax` are the owner's requests, `Reclaim` and `Open` the
scheduler's part, `TurnPasses`, `HandoffEnds`, `Expire`, `Quiet` time. The fairness
turn has four stages: not started, started, 12 seconds over, the longest failure wait
over. `MaxTries` is `max_attempts` of
a job's window. All windows reserve the same bandwidth, which makes a group's utilisation its
lease count over its limit; bandwidth budgets are left out.

Three ways around a limit are in the code and excluded from `CapacityHeld` by name
(`exempt`): lowering a limit under live leases, a busy computer outside any group that
joins one, and a lease renewed after it expired (the divergence below). A move also
leaves a canary's reservation alone (`moved`).

### CaptureJob

State: `pc`, the step of `processContinuousJob`; `out`, the files of the attempt and
the segment held back; `media`, the segment files that exist; `pool`, the bounded
delivery pool (submitted, queue, in flight, error, closed, workers asleep); `wk`, the
upload workers; `acked` and `stored`; the flags the monitors set; `frozen`, the
progress of the frozen-playlist watch. Two ghosts go with it: `fresh`, what was ingested while
the source counted as frozen, and `lost`, what had an ingest whose answer was lost.

The goroutines step on their own: the supervisor (`Resolve` to `Judge`, `Surrender`,
`Complete`, `ReportFailure`), the sweep of captured files (`Produce`, `HandOver`,
`SweepDone`), each upload worker (`Take`, `Store`, `AnswerLost`, `Acknowledge`), the
monitors of disk, updates and stalls. Around them the window ends, the job is
canceled, the process is told to stop, the relay drains for an update. Mutex and
condition variable of the pool are modelled by atomic critical sections and the set
of workers asleep: a `Signal` wakes one, `Broadcast` all of them.

Disk readings are nondeterministic. Segments are numbered, at most
`Cardinality(Contents)` are made in all and `MaxFiles` lie unswept. "Late" delivery
errors are those after the job's context is done; retries within one delivery are
folded into its outcome.

### JoinedBatch and JoinedWork

State of `JoinedWork`: for every task (an hour's preflight, or the publication of a
ledger, a manifest or the index) its state, lease, attempt and failure row; `scope` and
`batch`; `grant`, `auth` and `admission`, the operator's controls; `stored` and
`source`, the two buckets; `denied`, the deny set; `worker`, what each worker process believes; `inflight`,
finalize requests between their storage check and their transaction; `purge`.

A token is the number of the attempt it was issued for. Time is abstract: a lease is
fresh until it ages, an aged one expires unless a heartbeat comes first. An answer may
be lost: the server's state changes and the worker does not know (`Lease`,
`SealHour`). A worker that gives up or dies forgets its task (`Abandon`), and no
assumption is made about requests of tokens it once had: an upload under a presigned
URL may land after the lease, and a finalize that passed its check may commit after
its lease was re-granted, if the transaction lets it. Two guards of the claim queries concern sizes and
configuration: `Room` says which hours fit a worker's scratch disk and task budget (taken as
constant: a momentary shortage is a poll that gets nothing), `denied` which artifacts the frozen
scope does not publish. The code denies three artifact ids by number; in the model it may be any
of `Legacy`. A denied document is neither claimed nor given up when its last attempt expires,
and an hour that fits no worker is never claimed: `HoursSettle` excepts both (`Workable`).

`Next` covers the handlers of claims (`ClaimHour`, `ClaimPublication`), `Heartbeat`,
`SealHour`, `Put`, `FinalizeCheck`/`FinalizeCommit`/`FinalizeReject`, `ReportFailure`,
the expired-attempt evidence, the admission commands, the retry grant, the gap
authorization, the promotion from the canary to the frozen scope, the sealing of the
index and the four steps of the source purge.

### ClipCopies

State: for each clip the stored object (`good`, `bad`, `none`), the NAS file, whether
the inventory shows it, `purged_at`; the purge run with its batch, its locks and its
deletes; the cleanup plan, its items and, per item, what the client is doing
(including the receipt in its journal, which survives a crash); the restore requests,
the uploads of each of their attempts, and the result handlers in progress, two at
most since a client repeats a report.

`PurgeScan` to `PurgeCommit` are `runNASVerifiedPurgePass` and `purgeBatch`, with the
retention trigger as `Held`; `ControlEnable`, `ControlPause`, `ControlDryRun`,
`CleanupLease`, `ObserveRecord`, `ObserveAgain`, `CleanupResult` the server's side and
`Prove`, `Unlink`, `ClientCrash`, `Answered` the client's side of a cleanup;
`RequestRestore` to `Record` the restore. Ages (grace period, 24 hours of a proof, 30
days after a restore) are nondeterministic, so that every interleaving they allow is
explored. A test request has an object of its own. In the code its key is made of label and
clip, and one *active* request per key is allowed (`0157_nas_restore_requests.sql:52`), so a
finished request and a later one with the same label and clip share a key: `SweptStaysGone`
holds of requests with different labels, and a repeated label puts the swept object back until
its own request is swept. The history variables `waived`, `torn` and `clobbered` name the clips whose
NAS-only deletion the operator allowed, whose object a dying purge deleted without
committing, and whose good object a mismatch delete hit.

### InferenceWork

State: `claim` (frame, scope, status and, of a claim outside the run, whether it was forced), `result` of each, `target` and `run` of
the pipeline run, `open` (commits whose transaction is in progress, with the verdict
and the run status they computed on what they saw), `job` and `box` (box jobs and
workers).

`ClaimFrames` and `ClaimFramesForRun` sweep and claim in one transaction; a commit in
a run is `CommitBegin` and `CommitEnd`, or `CommitRollsBack`, so that two commits
overlap as READ COMMITTED lets them; outside a run it is the single step
`CommitFrame`. Claim and commit requests each carry a flag of their own that forces a rerun; a
forced claim of a run skips the question whether there is a result, but its target must be open
all the same, so the run still has one result for a frame. The box manager claims, loads, and settles or fails in steps of its own
with a lease that may expire at each of them.

### MeterPeriods

State: `row`, the period's row of `billing_meter_periods`, and `amounts`, what its
completion records; `report`, the outbox, one row per meter; `usage`, what counting
returns now, and `frozen`, whether the daily storage facts are written; `accepted`,
`visible`, `remembered`, `invoice`, Stripe; `proc`, each control process with the counts
and invoice lines it has read in this sweep.

| action | code |
|---|---|
| `Discover` | `discoverBillingPeriods`: the bounds are stored while the period is open |
| `Count` | `meterDuePeriods` takes the period up, `meterClosedPeriod` counts and freezes the storage facts |
| `LookAtInvoice` | `PeriodInvoice` and the choice between reporting, verifying and waiting |
| `Reserve`, `Reserved`, `SkipMeter` | `reserveMeterReport` and what the caller does with its answer |
| `Send` | `ReportRecordingHours`, `ReportStreamHourMonth`, with their answers lost or not |
| `VerifyReport`, `Complete` | `verifyFinalizedPeriod` |
| `GiveUp` | an error return, or the death of the process; the next sweep starts over |
| `Advance`, `EditUsage`, `Aggregate`, `Forget`, `InvoiceStep` | time, late clips and schedule edits, Stripe |

A sweep keeps its counts while the database, Stripe and another sweep move on: that is
what may go wrong. Reading Stripe's aggregate and marking the report are one step, as the
update is guarded by `status='pending'` and a second one only ends that sweep. Amounts
are counts (the two prices are constants). Left out: the refusal of periods with legacy
inventory (before anything is reported), binding of the invoice id (a period has one
invoice here; one that is voided or uncollectible is `withdrawn`), storage snapshots.
The code takes no lock around a sweep, so two processes during a deploy are allowed.

## 3. Runs

| run | instance | shows |
|---|---|---|
| `window_lease` | 1 window that opens at 1 and closes at 3 or 5, recording ends at 4 or 9, a relay and a droplet, 2 leases, lease term 2, allowance 2, 2 requests, clock to 5 | `NoOverlappingCapture`, `WorkOnlyWhenActive` |
| `window_upload` | 1 window that opens at 1 and closes at 2 or 3, a droplet, 1 key, 2 generations, 1 request, clock to 6, fair clock and scheduler | `ClipDescribesObject`, `NoLeaseOutlivesWindow`, `ClosedAfterWindow`, `WindowsSettle`, refinement `LedgerSpec` |
| `clip` | 2 fires, one of which an edit may drop, 1 recorder with one slot, 2 leases, 1 request | `WithinCapacity`, refinement `LedgerSpec` |
| `pool_cap` | 3 names, cap 2, batch 2, creates at 1 and 2, a deployment or else one crash or failing statement, clock to 2 | `LiveWithinCap`, `NoResurrection` |
| `pool_lease` | 2 names, cap 1, lease term 2, one crash or provider fault, creates at 1, clock to 3, fair clock and controller | `LiveBindings`, `TeardownSparesLeases`, `OrphansReaped` |
| `relay` | 2 nodes, 2 groups of limit 1, 2 jobs (one YouTube, one with a preferred group), 1 window of 2 and of 1 leases, 1 owner request, one node in service | `TurnEndsWaiting`, `CapacityHeld`, `CanaryAlone`, `DisabledHoldsNothing`, `DueJobsTaken` |
| `capture` | 1 segment, 2 upload workers, 1 unswept file, fair goroutines | `UploadHasMedia`, `DeliveredFirst`, `LagKeepsMedia`, `BaselineFresh`, `JobEnds` |
| `joined` | 1 day, a source hour and a gap hour, 2 workers, one without room for the gap hour, its manifest on the deny set or not, cap 1, 2 attempts | `ActiveWithinCap`, `PublishedComplete`, `FinalizeFenced`, `PausedAdmitsAtMostOne`, refinement `BatchSpec` |
| `joined_live` | 1 hour, and one no worker has room for, ledger and manifest on the deny set or not, 1 worker, cap 1, 2 attempts, fair worker | `HoursSettle` |
| `copies` | 2 clips, 1 in the plan, an original and a test restore of 2 attempts, 2 cleanup attempts, 2 plan runs | `LastCopy`, `LiveHasObject`, `OnePermit`, `SweptStaysGone` |
| `inference` | 2 frames, 4 claims (2 outside the run, the second while the run rests), 2 interchangeable boxers, 2 tries | `RunClosesLast`, `ResultsOnce`, `QueuedHasJob` |
| `meter` | 2 meters, 2 processes, usage up to 2 with one change, one crash or failed call | `BilledOnce`, `CompletedAsInvoiced`, `PeriodSettles` |

The type invariants are proved (section 4), and so are four properties of `RecordingJobs` that
no run lists: `DoneHasClips`, `ClipsWrittenOnceWhileActive` and `ClipOutcomeIsFinal`, which
`LedgerSpec` implies, and `ConsumedIffIngested`.

Bounds. Two generations are what the stale-request hazards need: an old holder
and the current one. In `window_lease` a lease granted at 1 can expire, be
reclaimed and be granted again inside the window. A schedule edit moves the close from 5 to 3
or from 3 to 5, before the window has closed or after, while one end of the recording lies inside
the longer window (auto-stop settles it) and the other after the
clock (the sweep does). Two requests give
pause/resume, and pause or edit against each other. In `window_lease` both
kinds of recorder occur (`Relays = {w1}`), since they requeue differently. In
`window_upload` the window is shorter, so that a lease granted in it may outlive it, the one
request may be an edit that opens the closed row again, and the clock
passes the point where reclaim and sweep must have settled it under either schedule.
`MaxNow`, `MaxLeases` and `MaxRequests` are bounds of the model only.

For the pool: names are never used again, so a name more than the cap is what a
batch too many or a replacement needs; a cap of two with batches of two has a batch
interrupted between its creates. Time constants are one or two, so that each
deadline is reached in a run and can be reached before or after any other step.
Deployment and fault are in different behaviours of `pool_cap` (`Story` of `MCDropletPool`). `pool_cap` gets the clock to 2: the droplets created at 1 are overdue at 2, and silent,
and idle for their grace. `pool_lease` gives a lease two instants, so that one can be
renewed across a drain timeout; provider calls that fail or lose their answer are in this
one, crashes in both, failing statements in `pool_cap`. `MaxFaults` limits the faults in one behaviour,
`LastCreate` the instants at which droplets are asked for (so that they can
age), `MaxBuild` the deployments, `MaxNow` the clock. `OrphansReaped` speaks only of
orphans that reach their age before `MaxNow`.

For the relays: two nodes of different stream limits in different groups make every
clause of the query true and false; one job may be leased twice, which a surrender, a failed
node and a stale heartbeat need, the other once, and that is its last try. `MaxRuns` and `MaxOps`
bound the windows and the owner's requests that take something away: a move, a removal, a
disable or a limit. Enabling and enrolling again undo one of them and need no bound. The
divergence `NoRevival` needs one move and two leases.

For the capture: with one segment every order of capture, hand-over, upload, lost answer,
stop and end of the window occurs, and two workers are one that uploads or fails and one to
wake. That several segments change nothing of the safety is proved, not checked. For joined work: two attempts are a
superseded token and the current one, and an attempt that is the last; a cap of one
makes every second claim a violation if it is let through. The
constraint `Story` of `MCJoined` lets two workers race for the source hour and its documents,
or one worker settle both hours with at most one task at its last attempt; both together
exceed what a run affords. For the
copies, the state constraint `Story` of `MCCopies` says what is explored together:
cleanup and purge of both clips; cleanup, purge and restore of one clip while the
other is purged, with a second attempt of the restore, or a second command and attempt of
the cleanup; a test restore beside a purge. `MaxBad` bounds foreign objects at a purged key. For inference, two
claims on a frame are an expired and a new one, in the run as outside it, where a claim may also
meet a result that waits for its box. A claim outside the run sees the run's claims and results;
the second one is made only while the run has none (`TwiceAlone` of `MCInference`), since all four
together exceed what a run affords. For metering, two units of usage
and one change make a count that rises and one that falls to nothing; the second meter
is reported after the first, so a sweep can stop between them, and its count is frozen.

Fairness (ledger). `FairSpec` assumes that time passes and that the scheduler ticks:
`runWithBackoff` (`recorder_control.go`) restarts the scheduler loop when it fails.
Recorders and accounts get no fairness: `WindowsSettle` holds with every recorder
dead, or with one that heartbeats for ever. It says `<>[]`, not `[]<>`: an edit may
reopen a window, and one that moves `daily_window_end` later does so even after the old close,
because the row is found by its opening (`scheduler.go:505-532`). So `ClosedAfterWindow` speaks of
the close in force, and `WindowsSettle` of an account whose schedules all close some day.

Fairness (pool). Time passes, and the controller keeps taking steps: `Run` ticks on a
timer, and `runWithBackoff` starts it again when it fails. Nothing is assumed of the
provider, of recorders or of the operator; a fault never has to happen, and only
`MaxFaults` of them can.

Fairness (relays). The nodes in `Pollers` poll (a relay polls about every second), the
scheduler reclaims, turns and holds pass with time; a lease that is live again and again
completes (strong fairness), since no heartbeat renews it past the window's end. Nodes
outside `Pollers` may heartbeat and never poll, which is what the fairness turn is for.

Fairness (capture). The goroutines of the process run, and ffmpeg stops when it is
told to. Whether anything goes right is not assumed: every upload may fail.

Fairness (joined). Time passes, workers that hold a task do their next step, idle ones
ask for work, and the handlers finish. Answers may be lost and leases given up at any
point, but only `MaxAttempts` times for a task. `HoursSettle` also assumes that the
operator does not leave claims paused for ever.

Fairness (metering). The sweep runs every five minutes and each of its calls returns, 70
minutes after the end of a period pass, and Stripe aggregates what it accepted. That the
invoice is finalized with the usage counted is a premise of `PeriodSettles`, not assumed.

### Divergences from comments

These were found on the same modules; most are stated in them as definitions that no run
lists. Each of those can be reproduced by listing the definition in the configuration named.

* `NoRevival` (`RelayLeases`, `MCRelay.cfg`). A heartbeat whose transaction began before the expiry
  of its lease may get its locks after it. Its `lease_expires_at > now()` still holds
  (`server_recording_clips.go:1477`), so the lease lives again, although in the meantime
  a group move and another node's poll did not count it: the group carries more leases
  than its limit. The comment at 1522 says that an expired lease never revives after
  replacement work was leased.
* `HonestMiss` (`RecordingJobs`; add to `MCClip.cfg`). The sweep calls every stale
  pending clip job an error; only for windows does it look whether clips exist
  (`scheduler.go:329`). A job whose clip was ingested and whose completion got lost is
  requeued by reclaim, goes stale and is reported as "not captured on schedule", against
  the comment (line 233) that calls the result an honest miss.
* Resume does not move the cron cursor (`scheduler.go:650`), so fires that fell due during
  a pause are caught up, found stale and reported as missed, though the comment (237) says
  that the sweep only trips on overload or cold boot.
* `DestroyingSettles` (`DropletPool`; two names, cap 1, `FairSpec`, `Faults = {"crash"}`,
  `MaxFaults = 2`). A row that went `destroying` before it had a provider id (an overdue
  provisioning row) is passed over by every loop of `reconcile` if the controller dies
  before it has settled it: it holds its slot of the cap for ever
  (`controller.go:405`, against the comment at 401).
* `EveryDropletCounted` (`DropletPool`; `Faults = {"crash"}`, `ProvisionTimeout = 2`). A
  controller dies between the create and `SetDropletID` and comes back after the provision
  timeout. The tick adopts the droplet and then, on the row it read *before* adopting, fails
  the row without deleting the droplet (`controller.go:467`, against `store.go:177`). It runs,
  uncounted, until it is old enough to be an orphan.
* `RunningWithinCap` (`DropletPool`; `Faults = {"provider"}`, `LastCreate = 2`). A create whose answer is lost
  frees its slot in the cap, and the next tick fills it, while the first droplet runs
  (`controller.go:781`, against `do.go:6`).
* `UnseenLeaseReclaimable` (`JoinedWork`; `FairSpec`, one hour, one worker, three attempts).
  A claim whose answer was lost expires unseen. The worker's comment
  (`recording_joined_service.go:958`) says that it becomes reclaimable through the normal
  path. In the frozen scope the claim query takes back a first attempt only
  (`server_recording_joined_worker.go:454`); a later one waits for the operator.
* `MismatchDeleteSafe` (`ClipCopies`, `MCCopies.cfg`). The comment at
  `server_nas_restore.go:303` says that a mismatched original is deleted only while the clip
  is purged. The check is a query of its own and the delete follows later: of two reports of
  one attempt, which a client sends when it did not get the first answer, one finds the
  foreign object, the other deletes it, the next attempt uploads the file and is verified,
  and then the delete of the first runs.
* `DoneMeansDelivered` (`CaptureJob`, `MCCapture.cfg`). A job that surrenders for disk
  pressure removes its directory with segments unacknowledged; if the surrender is refused
  and the window is over, `surrenderContinuousJobForReason` completes it (`worker.go:1179`).
  `delivery_pool.go` says that finalised media stays until its delivery is acknowledged.
* `BoundaryKept` (`CaptureJob`). A finished segment whose end is ahead of the wall clock waits
  in `waitForContinuousTimeline`; when the window closes that wait returns the context's error
  and the segment is not delivered. `capture/segments.go:362` says that no captured footage is
  dropped at the boundary.
* `NewMediaEndsBaseline` (`CaptureJob`; add to `MCCapture.cfg`). A source counts as frozen, then a
  segment is ingested and the answer to the ingest is lost. The retry finds the segment already
  ingested and is taken for the replay of another lease generation (`worker.go:627`), which the
  pool acknowledges as no progress (`delivery_pool.go:133`). So `delivery.ingested` stays false
  and the next observation is compared with the baseline from before the segment, though "any new
  unique media invalidates the frozen-live-edge baseline" (`worker.go:868`). `BaselineFresh` excepts
  exactly the segments whose answer was lost.
* A preferred group can strand capture (`RelayLeases`). A poll starts the fairness turn of
  the oldest due job only (`server_recording_clips.go:430`). If nobody can lease that one
  (a YouTube window and no ready node), the turn of a younger job never starts, and a
  preferred group whose node heartbeats but does not poll keeps it from all others, against
  the comment at line 247. `DueJobsTaken` therefore assumes that the nodes in service are
  ready for every job.

### What the passing runs do not promise

* `TeardownSparesLeases` is about the deletion, not about the drain: the idle list is read
  before the scale-ups and the rollout of the tick and `MarkDraining` does not look at
  leases, so a droplet that has just leased may be drained, and loses its lease if it
  outlasts the drain timeout. `LiveBindings` is checked without database faults:
  `failProvision` revokes the token even when its `MarkFailed` failed, and leaves a
  provisioning row whose recorder cannot authenticate until the row is overdue.
* A gap-only hour outside the canary scope whose day's ledger was published under it is
  sealed only by a replay of that finalize after the promotion.
* `LastCopy` excepts clips whose NAS-only deletion the operator allowed. With that permission
  an item whose object was proved present can be deleted after pause, purge and enable, as
  the approval stands. A plan whose dry run is older than 24 hours can neither be enabled nor
  run again. The restore of a clip that a plan holds cannot clear `purged_at`.
* The last two targets of a run committed concurrently each compute the run's status
  without the other (`server_pipeline_runs.go:417`), and both leave it running; nothing
  refreshes it again. So `RunClosesLast` is claimed, and that every run closes is not.
* In inference, expiries do not count as tries of a box job, and the updates of a box job
  carry no fence beyond its id; `QueuedHasJob` holds all the same.
* `PeriodSettles` excuses a period whose usage differs from its finalized invoice. A clip
  delivered late, or a schedule whose end is edited, changes the count of a closed period;
  the code then refuses to complete it, and it waits for the operator. So does a period
  whose report never reached Stripe: it is not sent a second time.
* A failure report keeps the fairness turn of its job, unlike surrender and reclaim.

## 4. Proofs

Every invariant and every action property that a run checks is also a theorem of its
specification, for every value of the constants that satisfies the module's ASSUME. The
ASSUMEs say that constants have the right types (numbers, finite sets where something is
counted, placeholders such as `NoWorker` outside the set they stand outside of, at least
one worker, a first try allowed). One relates two of them: in `RecordingJobs` a lease term is at
most the allowance of a renewal, as in the code a clip of at most 900 seconds with margins of 90
and 60 (`server_recording_clips.go:29`) is less than the 2760 of `recordingContinuousPostWindowLeaseSec`. Only
`BindingSafety` has a hypothesis of its own. Before it was proved, each inductive invariant
was checked by TLC on the instance of the module's run.

| theorem | of the specification of | property |
|---|---|---|
| `TypeCorrect`, `WorkSafety`, `LeaseExclusion` | `RecordingJobs` | `TypeOK`, `WorkOnlyWhenActive`, `NoOverlappingCapture` |
| `DescribedBytes`, `DoneSafety`, `LedgersAgree`, `CapacitySafety` | `RecordingJobs` | `ClipDescribesObject`, `DoneHasClips`, `ConsumedIffIngested`, `WithinCapacity` |
| `LedgerRefinement` | `RecordingJobs` | `LedgerSpec`: it implements `FencedJobs` |
| `LeasesEnd`, `ClosedForGood` | `RecordingJobs` | `NoLeaseOutlivesWindow`, `ClosedAfterWindow` (an action property) |
| `OverdueSettles` | `RecordingJobs` | the safety part of `WindowsSettle` |
| `ClipsWrittenOnce`, `ClipOutcomes` | `RecordingJobs` | `ClipsWrittenOnceWhileActive`, `ClipOutcomeIsFinal` (action properties) |
| `PoolTypeCorrect`, `CapSafety`, `BindingSafety` | `DropletPool` | types, `LiveWithinCap`, `LiveBindings` |
| `NoRevival`, `TeardownSafety` | `DropletPool` | `NoResurrection`, `TeardownSparesLeases` (action properties) |
| `RelayTypesHold`, `CapacitySafety`, `CanarySafety`, `DisableSafety`, `NobodyStrands` | `RelayLeases` | types, `CapacityHeld`, `CanaryAlone`, `DisabledHoldsNothing`, `TurnEndsWaiting` |
| `CaptureTypesHold`, `UploadSafety`, `DeliverySafety`, `LagSafety`, `BaselineSafety` | `CaptureJob` | types, `UploadHasMedia`, `DeliveredFirst`, `LagKeepsMedia`, `BaselineFresh` |
| `JoinedTypes`, `ActiveCap`, `PublicationComplete`, `FinalizeFencing`, `OneShotAdmission` | `JoinedWork` | types, `ActiveWithinCap`, `PublishedComplete`, `FinalizeFenced`, `PausedAdmitsAtMostOne` |
| `BatchRefinement` | `JoinedWork` | `BatchSpec`: it implements `JoinedBatch` |
| `CopyTypesHold`, `CopySafety`, `ObjectSafety`, `PermitSafety`, `SweepSafety` | `ClipCopies` | types, `LastCopy`, `LiveHasObject`, `OnePermit`, `SweptStaysGone` |
| `InferenceTypes`, `RunCloses`, `SingleResults`, `JobsRemain` | `InferenceWork` | types, `RunClosesLast`, `ResultsOnce`, `QueuedHasJob` |
| `MeterTypes`, `BillingSafety`, `SignOffSafety` | `MeterPeriods` | types, `BilledOnce`, `CompletedAsInvoiced` |

The proofs are organised alike: a few definitions say what a kind of step does to the rows
(its *effect*), one lemma says which effect each action has, and one lemma per effect or
per conjunct says what it preserves.

### RecordingJobs

Types, work and leases follow from `Invariance`, `Spec => []Inv`. `NoOverlappingCapture`
is not inductive. What makes it so is `HolderOK`: a recorder that captures under an
unrevoked lease still has the row, whose expiry is at least what the recorder was told (`Held`).
A renewal could break that: it is cut to the end of the window plus the allowance, so one whose
answer is lost might leave the row with *less* than an earlier answer promised, and the tick
might reclaim it under a recorder that still captures. It cannot, because no promise exceeds that
cut either: a grant is made before the end of the window and is for a term, and a term is at
most the allowance (`TimesAssumption`). The end of a row
does not change while it is open, as every edit withdraws the open jobs and thereby revokes
their leases. `WindowEndOK` (the end of an open window is the minimum of the close in force and
`end_at`) says the same against the recording. `GrantOK` supplies that no recorder was promised
more than a term from now, which a renewal needs.

`RecorderStep`, `AccountStep`, `TickStep`, `LeaseStep` are the effects, with one lemma per
conjunct of `Inv`. `MaxBounded` (a bounded non-empty set of
naturals has its maximum) is what the type of the cron cursor needs.

What is delivered rests on `DeliveryInv`. A clip describes the stored bytes because whoever
may still overwrite its key got the URL before the ingest, hence is not the recorder that
ingested, and lost its lease to it; so it captures no more, or was revoked (`LateUrls`,
`OwnerAlone`, both consequences of the exclusion above). A completion that goes on to "done"
has seen a clip, and clips are not removed (`CompletingHasClips`). An intent is consumed in
the transaction that writes its clip, and the reconciliation does not touch consumed ones.
The capacity is counted under the locked row of the droplet or node in the transaction that
leases; nothing else makes a lease live on it (`CapacityBounded`).

`LedgerRefinement` shows that every step is a `Grant`, a `Deliver`, a `Move` or a stutter of
`FencedJobs`, on the effects again: `RowOnwards` gives each row's move, `FootageStays` that
nothing else writes clips. Two of its steps are where the code's care is needed. An ingest
delivers for the *present* holder, though only its own check of owner, token and expiry says so; and
a completion that read its clip count before may say "done" only because clips stay.

`NoLeaseOutlivesWindow` follows from `LeaseEnds`, the same about the end in the row, and `WindowEndOK`.
`LeaseEnds` is inductive beside `Inv`: a grant is made before that end (the
freshness gate) and a term is at most the allowance; every later expiry of the lease is
a renewal, cut to the end plus the allowance (`LeasedRow`). With it a tick that finds a window
overdue by more than the allowance closes it, whatever state it is in: the lease has expired, so reclaim takes it, the
sweep calls the row stale in the same transaction, and enqueue does not revive it
(`TickCloses`). `ClosedForGood` says that nothing opens it while the close in force has passed: revival
asks for an open window, and an edit withdraws jobs and opens none. `OverdueSettles` joins the two,
and of `WindowsSettle` leaves only that the clock passes the closes and that the scheduler ticks.

### DropletPool

Cap and rows follow from `PoolInductive`, `Spec => [](TypeOK /\ PoolInv)`. `LiveWithinCap` is not
inductive: a batch is decided on one count and inserts its rows one by one, with other
statements between, and then the rollout adds a replacement on the count of the
decision. `ClaimsWithinCap` therefore counts what is *claimed*, the live rows and the
names that a task in progress is yet to insert, and says that the claims are within
the cap and, until the rollout has read, within the `room` that the decision left.
For claims never to grow otherwise, no statement may bring a row back to life, and
the statements that do not look at the state could. `TasksSound` says why they do
not: each has a premise on the state of its row (`Premise`: `draining` is only written
over active or draining rows, `destroying` over live ones) that held at the read.
Nothing between breaks it, because nobody but the controller retires rows and, by
`TasksApart`, no two tasks of a stage have the same row, but for the loops of
`reconcile`, whose statements have no premise. `EligibleSound` carries the premise of
the drains from the decision, over the rollout, to `BeginDrains`. `TasksShaped` says
which lists of statements a stage can have.

`TeardownSafety` rests on `TeardownInv`. A droplet is *spent* when its row is in no state
that the lease path takes and its last lease has run out, or its drain has timed out: that
stays so, since time only adds to it and a lease can only be renewed while it lives. By `TaskSafe` every list of statements that begins after its check is
about a spent droplet, or about one whose id was never recorded (an orphan of `reconcile`, a scale-up whose set-up
failed); a scale-up before its `SetDropletID` still has the row it inserted. By `RowSafe` a row
in `destroying` is spent also when the controller died there and a later tick resumes it, which is why
`reconcile` may delete without looking at leases. The forced drains compare with the clock
of the tick, which is behind the database's (`ReadBefore`). Two loops of `reconcile` may
have tasks on one row; `RowEnds` is what they leave each other.

`BindingSafety` is stated for `"database" \notin Faults`. The hypothesis is needed: when the
set-up of a droplet fails and then `MarkFailed` does too, `failProvision` goes on and revokes
the token of a row that is still `provisioning`; TLC finds that state in ten steps once
two faults are allowed. Such a row makes `ValidateLiveBindings` refuse to start the API until
the provision timeout reaps it.
The invariant (`TokenInv`) is that every list about to revoke has a row that works no more.

### RelayLeases

The invariant `RelayInv` has the two bounds in it. A lease *counts* when it is live and not
exempt. Only a poll adds one, and it looked under the locks of node and group for room and
for reservations; a set with at most one more element is at most one larger (`OneMore`).
Every other step is `Calm` (it adds no counting lease, and moves no computer with one),
keeps the `Limits` or exempts what is above them, and keeps the `Reservations`; `CapacityKeeps`
and `CanaryKeeps` need no more. `CanaryAlone` speaks of the whole uplink of a node, its
`Domain`: a poll clears the reservations of its own domain, and that this covers every
reservation the new lease could break is the symmetry of `Domain`. `DisableSafety` needs
`OwnerServes`, which holds of every lease, expired or not: its node is active or has no token.
`Disable` cancels all jobs the node owns, expired leases too; only `Remove` may leave a lease on an
inactive node, and it takes the token away. `TriesLeft` (no job exceeds its tries, and one that waits or whose lease ran out has one left) and `QueuedOnce` (the queue holds each pending job once)
are what the types of the poll need.

`NobodyStrands` needs no invariant: it is about the clauses of the lease query, in whatever
state. Each lets a node stand back for others. After the turn only failure avoidance still does,
and then for a peer that did not fail the window itself and has room, in its group too; to that
peer no clause objects (`PeerTakes`).

### CaptureJob

`CaptureInv` follows a segment. Accepted and unacknowledged, it is in the queue (`Queued`) or
with exactly one worker (`InHands`), unless the pool has failed (`Carried`), and its file is on
disk while the attempt lasts (`Earlier`). A closed pool is left by a worker only when the
queue is empty (`Crew`), so when all have left a pool that has not failed, nothing is owed
(`JoinedPool`): that is what a reconnect, a completion and a hand-over rely on, and `Ending`
keeps it to the end of the job. After a stop for media lag `Judge` removes the files only when
nothing is pending, and then, as the number in flight is that of the accepted and
unacknowledged segments (`Counts`), nothing is lost. `Episode` follows what is ingested while the
source counts as frozen: until the next observation the pool has noted it, or the worker that
uploaded it is about to (`Known`), or its answer was lost; all workers have left when the playlist
is looked at, so nothing is then about to be noted.

### JoinedWork

`JoinedInv` is an order between the documents: a manifest exists once its hour is sealed and
its day's ledger published, the index once the batch is past its freeze, and what is published
is not claimed, sealed or failed again. A finalize request carries what it saw in storage
(`InflightOK`: nothing was missing), and what is stored stays stored; so for completeness it does
not matter what became of its lease since. The comparison of lease and attempt in the publishing
transaction (`CommitAllowed`) is what `FinalizeFenced` needs.
The cap and the one-shot admission are counted in the claim itself.

`BatchRefinement` shows that every step of `JoinedWork` publishes one artifact that the order
allows, releases sources whose manifest is published, or stutters. `JoinedBatch` itself states no
fairness, so the refinement is one of safety.

### ClipCopies

A file leaves the NAS under a permit only, an item holds its clip for good once it has one,
and it is never planned again (`OnePermit`); the purge cannot have the clip of an issued item
locked (`PermitHolds`), because the retention trigger holds it. A clip locked by the purge is
not being restored (`LockedAlone`), so what a restore verified is still there when it clears
`purged_at` (`VerifiedStays`). `CopiesInv` is proved in three parts: what cleanup keeps alone,
what restore keeps alone, what purge and the two promise each other.

### InferenceWork

A leased claim of the run and its target point at each other until the result (`RunClaims`,
`Targets`): the sweeps skip what a commit has locked, so a commit in progress keeps its
target. What a commit wrote for the status of the run before it commits stays true, because a final target
stays final; several commits may overlap, and each one's verdict counts all frames but its
own (`OpenOK`). Of the claims outside runs, the leased one is alone on its frame
and, unless it was forced, the first to get a result there (`AdhocAlone`), whatever flag its commit
brings. A forced claim of the run needs an open target, and an open target has no result (`RunClaims`). A boxer that goes to close its job has settled the result (`BoxOK`), which is
why losing a lease there loses nothing.

### MeterPeriods

`BilledOnce` rests on the outbox: the process about to send a meter is the one that inserted
its row, alone (`SendersApart`), with nothing of that meter accepted (`Sender`); a lost answer leaves
the row pending, and a later sweep never sends a pending row again: it compares it with Stripe's
aggregate, and marks it reported or gives up. `CompletedAsInvoiced` rests on `Ledger`: whatever the aggregate and the
invoice show of a meter is what Stripe accepted or nothing, and a verifying process holds the lines of an
invoice that changes no more (`Verifier`).

### What is only model-checked

The liveness properties (`WindowsSettle`, `OrphansReaped`, `DueJobsTaken`, `JobEnds`,
`HoursSettle`, `PeriodSettles`), since liveness under fairness and ENABLED are out of the
prover's reach. For `WindowsSettle` and `DueJobsTaken` the steps that are not temporal are proved
(`OverdueSettles`, `NobodyStrands`). No recursive operator is used in the modules with theorems.

## 5. Not modelled

* Dedicated canary droplets; collation; the transfer of clips between buckets and the
  age-based purge; the pull of new clips to the NAS; yearly prepaid batches (their charge,
  and the webhook that grants a paid one) and the checkout; the sign-in limiter;
  presentation tasks. Each has some protocol state and is a candidate.
* Of modelled components: cron and time-zone arithmetic, forecasts, bandwidth budgets,
  canary evidence, leases without tokens; freezing a batch (planning hours from clips,
  sealing days) and the content of manifests; how a cleanup plan is computed and approved;
  creation of runs, imports of results and the requeue of unboxed ones (`server.go`).
* A database session lost while the purge deletes under its row locks: the model ends the
  locks and the delete together.
* ffmpeg, playlists, timestamps, media building (`joinedrecording/media.go`,
  `capture/segments.go` beyond its loop), quality and stitching evidence: numeric or process
  I/O, where a model would restate the arithmetic.
* Pages, catalogue, imports, survey, alerts, command-line wiring (`server.go`'s routes,
  `stoaramactl/main.go`, the importers): request/response or batch code without protocol
  state. This is the larger part of the source by lines, and the reason why the map covers a
  small share of it.

## 6. Plan

1. *Done.* `RecordingJobs`, `DropletPool`, `RelayLeases`, `CaptureJob`, `JoinedWork` with
   `JoinedBatch`, `ClipCopies`, `InferenceWork`, `MeterPeriods`, and theorems for every invariant and action
   property of their runs; `FencedJobs`, with `RecordingJobs` shown to implement it.
2. `RelayLeases` shown to implement `FencedJobs` too, which needs tokens in it.
3. The steps towards `HoursSettle` and `JobEnds` that are not temporal, as `OverdueSettles` for
   `WindowsSettle`: what a helpful action achieves, as lemmas on a measure.
4. `Catchup`: the cron cursor and `dueFireInstants` as recursive functions against a
   reference definition over bounded schedules.
5. The freeze of a joined batch and the requeue of unboxed results; the dedicated canaries;
   prepaid batches with their webhook.
