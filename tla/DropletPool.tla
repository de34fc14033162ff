----------------------------- MODULE DropletPool -----------------------------
(***************************************************************************)
(* The droplet-pool controller: the rows of recorder_droplets, the node    *)
(* tokens, the droplets that exist (and are paid for) at the provider, the *)
(* job leases the droplets hold, and the one controller that relates them. *)
(*                                                                         *)
(* A tick of the controller is a sequence of reads, each of which yields   *)
(* tasks: the statements and provider calls the code makes for one         *)
(* droplet, in the code's order.  A task goes on, one statement a step, on *)
(* what was read when it was planned, while leases come and go, and the    *)
(* controller can die between any two statements.  Calls fail before or    *)
(* after they take effect.                                                 *)
(***************************************************************************)
EXTENDS Integers, FiniteSets, Sequences

CONSTANTS
    Droplets,          \* names, numbered in the order they are given out
    Max, Min,          \* DROPLET_POOL_MAX (the hard cap), DROPLET_POOL_MIN
    Batch,             \* MaxScaleUpBatch (1 when it is not set)
    Capacity,          \* jobs a droplet takes at a time
    ProvisionTimeout,  \* age at which an unfinished or unknown droplet is reaped
    DrainTimeout,      \* age at which a drain is forced
    IdleGrace,         \* idle time before a droplet may be drained
    StaleAfter,        \* StaleHeartbeatTimeout (0: never)
    ReadyWindow,       \* workerReadyWindow
    ListLag,           \* how long the provider may leave a new droplet unlisted
    LeaseTerm,         \* how long a lease or a renewal lasts
    Faults,            \* which of "crash", "database", "provider" happen
    MaxFaults,         \* bound: faults in a behaviour
    MaxBuild,          \* bound: deployments of a new worker build
    LastCreate,        \* bound: last instant at which droplets are asked for
    MaxNow             \* bound: last instant of the clock

ASSUME PoolAssumption ==
    /\ Droplets \subseteq Nat /\ IsFiniteSet(Droplets)
    /\ {Max, Min, MaxFaults, MaxBuild, LastCreate} \subseteq Nat
    /\ {Capacity, Batch} \subseteq Nat \ {0}
    /\ {ProvisionTimeout, DrainTimeout, IdleGrace, StaleAfter, ReadyWindow,
        ListLag, LeaseTerm} \subseteq Nat
    /\ MaxNow \in Nat \ {0}
    /\ Faults \subseteq {"crash", "database", "provider"}

RowState == {"absent", "provisioning", "active", "draining", "destroying",
             "destroyed", "failed"}
Time == 0..MaxNow    \* 0 is SQL NULL

\* id: the provider's id is recorded; seen, idle, drain: last_seen_at,
\* idle_since, drain_started_at.
Row == [state: RowState, id: BOOLEAN, build: 0..MaxBuild,
        created: Time, seen: Time, idle: Time, drain: Time]
NoRow == [state |-> "absent", id |-> FALSE, build |-> 0,
          created |-> 0, seen |-> 0, idle |-> 0, drain |-> 0]

\* The provider's droplet of a name; listed: it has been in a fleet list.
Instance == [state: {"none", "running", "deleted"}, created: Time, listed: BOOLEAN]
NoInstance == [state |-> "none", created |-> 0, listed |-> FALSE]

Op == {"bind", "orphan", "delete", "begin", "silent", "spare", "keep", "drained", "active",
       "drain", "destroying", "destroyed", "failed", "revoke",
       "mint", "insert", "create", "setup"}
Stage == {"reconcile", "promote", "reap", "decide", "rollout", "drain", "progress"}

\* rank orders the loops of one stage; known: the row that was read had the
\* provider's id.
Task == [rank: 0..5, d: Droplets, known: BOOLEAN, ops: Seq(Op) \ {<<>>}]

\* next: the stage whose read comes next, once the tasks are done; the other
\* fields are the local variables of tick.
Controller == [next: Stage, now: Time, fleet: SUBSET Droplets, tasks: SUBSET Task,
               room: Nat, need: Nat, eligible: SUBSET Droplets, quota: Nat]
Idle == [next |-> "reconcile", now |-> 0, fleet |-> {}, tasks |-> {},
         room |-> 0, need |-> 0, eligible |-> {}, quota |-> 0]

VARIABLES
    row,       \* recorder_droplets
    instance,  \* droplets at the provider
    token,     \* the node token of a droplet
    lease,     \* what is left of the longest of a droplet's leases
    ctl,       \* the controller's tick
    build,     \* the desired worker build
    faults, now

vars == <<row, instance, token, lease, ctl, build, faults, now>>

Init ==
    /\ row = [d \in Droplets |-> NoRow]
    /\ instance = [d \in Droplets |-> NoInstance]
    /\ token = [d \in Droplets |-> "none"]
    /\ lease = [d \in Droplets |-> 0]
    /\ ctl = Idle
    /\ build = 0
    /\ faults = 0
    /\ now = 1

-----------------------------------------------------------------------------
Larger(a, b) == IF a >= b THEN a ELSE b
Smaller(a, b) == IF a <= b THEN a ELSE b

LiveState == {"provisioning", "active", "draining", "destroying"}
Live == {d \in Droplets : row[d].state \in LiveState}
InState(s) == {d \in Droplets : row[d].state = s}
Running == {d \in Droplets : instance[d].state = "running"}

\* HasInflightJob: a lease that has not expired.
Busy(d) == lease[d] > 0

\* CountLive, over the billing-relevant states.
CountServing == Cardinality(Live \ InState("destroying"))
CountLive == Cardinality(Live)

\* A name no scale-up has used.
Fresh == {d \in Droplets : row[d].state = "absent" /\ token[d] = "none"
                             /\ instance[d].state = "none"}

WorkerLastLiveAt(r) == Larger(r.created, r.seen)

-----------------------------------------------------------------------------
(* Recorders, the operator, the clock.                                     *)

CanCall(d) == instance[d].state = "running" /\ token[d] = "live"

\* The droplet heartbeat of a worker.
Report(d) ==
    /\ CanCall(d)
    /\ row[d].state # "absent"
    /\ row' = [row EXCEPT ![d].seen = now]
    /\ UNCHANGED <<instance, token, lease, ctl, build, faults, now>>

LeaseJobDraining(d) ==
    /\ CanCall(d)
    /\ row[d].state \in {"provisioning", "active", "draining"}
    /\ lease' = [lease EXCEPT ![d] = LeaseTerm]
    /\ UNCHANGED <<row, instance, token, ctl, build, faults, now>>

\* The cloud lease path locks the droplet's row in a state that may lease.
LeaseJob(d) ==
    /\ CanCall(d)
    /\ row[d].state \in {"provisioning", "active"}
    /\ lease' = [lease EXCEPT ![d] = LeaseTerm]
    /\ UNCHANGED <<row, instance, token, ctl, build, faults, now>>

\* A lease is renewed in any state of the row, but not once it has expired.
RenewLease(d) ==
    /\ CanCall(d)
    /\ Busy(d)
    /\ lease' = [lease EXCEPT ![d] = LeaseTerm]
    /\ UNCHANGED <<row, instance, token, ctl, build, faults, now>>

\* The job is completed, failed, surrendered, or taken from the droplet.
EndLease(d) ==
    /\ Busy(d)
    /\ lease' = [lease EXCEPT ![d] = 0]
    /\ UNCHANGED <<row, instance, token, ctl, build, faults, now>>

\* recorder-control drain; with -force it does not look at the leases.
OperatorDrain(d) ==
    /\ row[d].state = "active"
    /\ row' = [row EXCEPT ![d].state = "draining", ![d].drain = now]
    /\ UNCHANGED <<instance, token, lease, ctl, build, faults, now>>

ClockTick ==
    /\ now < MaxNow
    /\ now' = now + 1
    /\ lease' = [d \in Droplets |-> IF Busy(d) THEN lease[d] - 1 ELSE 0]
    /\ UNCHANGED <<row, instance, token, ctl, build, faults>>

-----------------------------------------------------------------------------
(* The reads of a tick, and the tasks each yields.                         *)

Todo(rank, S, ops) ==
    {[rank |-> rank, d |-> d, known |-> row[d].id, ops |-> ops] : d \in S}

DestroyWorkerRevokeFirst == <<"revoke", "destroying", "delete", "destroyed">>
DestroyWorker == <<"destroying", "delete", "revoke", "destroyed">>
DrainedWorker == <<"drained", "destroying", "delete", "revoke", "destroyed">>
SilentWorker == <<"silent", "destroying", "delete", "revoke", "destroyed">>
ScaleUp == <<"mint", "insert", "create", "setup", "bind">>
FailProvision == <<"failed", "revoke">>

\* The complete list, but for droplets so new that the provider lags.
Lagging == {d \in Running : ~instance[d].listed /\ now - instance[d].created < ListLag}

\* ReconcileOrphans
AdoptByName(fleet) == {d \in fleet : d \in Live /\ ~row[d].id}
DestroyOrphanUnknown(fleet) ==
    {d \in fleet : /\ row[d].state = "absent"
                   /\ now - instance[d].created >= ProvisionTimeout}
DestroyOrphan(fleet) ==
    {d \in fleet : d \notin Live /\ now - instance[d].created >= ProvisionTimeout}
Overdue(d) == row[d].state = "provisioning" /\ now - row[d].created >= ProvisionTimeout
MissingFromDO(fleet) ==
    {d \in Live \ fleet : row[d].id /\ (row[d].state = "provisioning" => Overdue(d))}

WorkerSeen(d, fleet, at) ==
    /\ row[d].id /\ d \in fleet
    /\ row[d].seen # 0 /\ at - row[d].seen <= ReadyWindow

ReconcilePlan(fleet) ==
    LET overdue == {d \in Droplets : Overdue(d)}
        seen == {d \in overdue : WorkerSeen(d, fleet, now)}
    IN UNION {
         Todo(1, AdoptByName(fleet), <<"bind">>),
         Todo(2, DestroyOrphan(fleet), <<"orphan">>),
         Todo(3, MissingFromDO(fleet), <<"begin", "revoke", "destroyed">>),
         Todo(4, {d \in InState("destroying") \cap fleet : row[d].id},
                 <<"delete", "revoke", "destroyed">>),
         Todo(5, seen, <<"keep", "begin", "delete", "failed", "revoke">>),
         Todo(5, overdue \ seen, <<"spare", "begin", "delete", "failed", "revoke">>)}

Reading(stage) == ctl.tasks = {} /\ ctl.next = stage

\* The fleet and the live rows; a tick whose fleet read fails ends here.
Reconcile ==
    /\ Reading("reconcile")
    /\ \E unlisted \in SUBSET Lagging :
         LET fleet == Running \ unlisted
         IN /\ ctl' = [Idle EXCEPT !.next = "promote", !.now = now, !.fleet = fleet,
                                   !.tasks = ReconcilePlan(fleet)]
            /\ instance' = [d \in Droplets |->
                 [instance[d] EXCEPT !.listed = instance[d].listed \/ d \in fleet]]
    /\ UNCHANGED <<row, token, lease, build, faults, now>>

PromoteActive ==
    /\ Reading("promote")
    /\ ctl' = [ctl EXCEPT !.next = "reap", !.fleet = {},
                 !.tasks = Todo(0, {d \in InState("provisioning") :
                                      /\ WorkerSeen(d, ctl.fleet, ctl.now)
                                      /\ row[d].build = build}, <<"active">>)]
    /\ UNCHANGED <<row, instance, token, lease, build, faults, now>>

ReapUnresponsive ==
    /\ Reading("reap")
    /\ ctl' = [ctl EXCEPT !.next = "decide",
                 !.tasks = Todo(0, {d \in InState("active") :
                                      /\ StaleAfter > 0
                                      /\ ctl.now - WorkerLastLiveAt(row[d]) >= StaleAfter},
                                SilentWorker)]
    /\ UNCHANGED <<row, instance, token, lease, build, faults, now>>

\* What the forecast and the cooldown ledger say: the peak, whether its first
\* fire is within the provision lead or beyond every horizon, which cooldowns
\* have elapsed.
Forecast == {f \in [peak: 0..Max * Capacity + 1, imminent: BOOLEAN, quiet: BOOLEAN,
                    upReady: BOOLEAN, downReady: BOOLEAN] :
               /\ f.imminent => f.peak > 0 /\ ~f.quiet
               /\ f.peak = 0 => f.quiet}

Required(peak) == Smaller(Larger((peak + Capacity - 1) \div Capacity, Min), Max)

Decide(live, idle, f) ==
    LET required == Required(f.peak)
        wantUp == required > live /\ (f.imminent \/ required <= Min \/ live < Min)
    IN [up |-> IF wantUp /\ f.upReady THEN Smaller(required - live, Batch) ELSE 0,
        drain |->
          IF /\ ~wantUp /\ live > Min /\ live > required
             /\ f.peak <= (live - 1) * Capacity /\ f.quiet /\ f.downReady
          THEN Smaller(live - Larger(required, Min), idle) ELSE 0]

\* refreshIdle: the idle stamps of active rows.
RefreshIdle ==
    [d \in Droplets |->
       IF row[d].state # "active" THEN row[d]
       ELSE IF Busy(d) THEN [row[d] EXCEPT !.idle = 0]
       ELSE IF row[d].idle = 0 THEN [row[d] EXCEPT !.idle = now]
       ELSE row[d]]

IdleEligible(rows) ==
    {d \in Droplets : /\ rows[d].state = "active" /\ rows[d].idle # 0
                      /\ ctl.now - rows[d].idle >= IdleGrace}

\* The next n names.
NextNames(n) == {S \in SUBSET Fresh : /\ Cardinality(S) = n
                                      /\ \A d \in S, e \in Fresh \ S : d < e}

\* The spend guard vetoes a scale-up and so ends the batch: any n up to the
\* decision.
DecideScale ==
    /\ Reading("decide")
    /\ \E f \in Forecast :
         LET eligible == IdleEligible(RefreshIdle)
             live == CountLive
             decision == Decide(live, Cardinality(eligible), f)
         IN \E n \in 0..decision.up : \E names \in NextNames(n) :
              /\ n > 0 => now <= LastCreate
              /\ ctl' = [ctl EXCEPT !.next = "rollout",
                           !.tasks = Todo(0, names, ScaleUp),
                           !.room = live + decision.up,
                           !.need = Larger(f.peak, Min * Capacity),
                           !.eligible = IF decision.drain = 0 THEN {} ELSE eligible,
                           !.quota = decision.drain]
    /\ row' = RefreshIdle
    /\ UNCHANGED <<instance, token, lease, build, faults, now>>

\* rolloutBuild: with stale workers a replacement is started, or one idle stale
\* worker is drained, and there is no other drain in this tick.
Stale == {d \in InState("active") : row[d].build # build}
Current == InState("active") \ Stale
CanDrainStale ==
    /\ InState("draining") = {} /\ Capacity > 0
    /\ (Cardinality(InState("active")) - 1) * Capacity >= ctl.need
AfterRollout(rolling, tasks) ==
    [ctl EXCEPT !.next = "drain", !.tasks = tasks, !.room = 0, !.need = 0,
                !.eligible = IF rolling THEN {} ELSE ctl.eligible,
                !.quota = IF rolling THEN 0 ELSE ctl.quota]

RolloutNothing ==
    /\ Reading("rollout")
    /\ Stale = {}
    /\ ctl' = AfterRollout(FALSE, {})
    /\ UNCHANGED <<row, instance, token, lease, build, faults, now>>

RolloutSurgeUncapped ==
    /\ Reading("rollout")
    /\ Stale # {} /\ Current = {} /\ InState("provisioning") = {}
    /\ \E n \in 0..1 : \E names \in NextNames(n) :
         /\ n = 1 => now <= LastCreate
         /\ ctl' = AfterRollout(TRUE, Todo(0, names, ScaleUp))
    /\ UNCHANGED <<row, instance, token, lease, build, faults, now>>

RolloutSurge ==
    /\ Reading("rollout")
    /\ Stale # {} /\ Current = {} /\ InState("provisioning") = {}
    /\ \E n \in 0..1 : \E names \in NextNames(n) :
         /\ n = 1 => ctl.room < Max /\ now <= LastCreate
         /\ ctl' = AfterRollout(TRUE, Todo(0, names, ScaleUp))
    /\ UNCHANGED <<row, instance, token, lease, build, faults, now>>

RolloutDrain ==
    /\ Reading("rollout")
    /\ Stale # {} /\ (Current # {} \/ InState("provisioning") # {})
    /\ LET idle == {d \in Stale : Current # {} /\ CanDrainStale /\ ~Busy(d)}
       IN IF idle = {} THEN UNCHANGED row
          ELSE \E d \in idle :
                 row' = [row EXCEPT ![d].state = "draining", ![d].drain = now]
    /\ ctl' = AfterRollout(TRUE, {})
    /\ UNCHANGED <<instance, token, lease, build, faults, now>>

BeginDrains ==
    /\ Reading("drain")
    /\ \E S \in SUBSET ctl.eligible :
         /\ Cardinality(S) = ctl.quota
         /\ ctl' = [ctl EXCEPT !.next = "progress", !.eligible = {}, !.quota = 0,
                               !.tasks = Todo(0, S, <<"drain">>)]
    /\ UNCHANGED <<row, instance, token, lease, build, faults, now>>

Forced(d) == row[d].drain # 0 /\ ctl.now - row[d].drain >= DrainTimeout

ProgressDrains ==
    LET forced == {d \in InState("draining") : Forced(d)} IN
    /\ Reading("progress")
    /\ ctl' = [Idle EXCEPT !.tasks = Todo(0, forced, DestroyWorker)
                                 \cup Todo(0, InState("draining") \ forced, DrainedWorker)]
    /\ UNCHANGED <<row, instance, token, lease, build, faults, now>>

-----------------------------------------------------------------------------
(* One statement or provider call of the task t in progress.               *)

\* The loops of a stage in turn, the rows of a loop by id.
First(t) == \A u \in ctl.tasks : t.rank < u.rank \/ (t.rank = u.rank /\ t.d <= u.d)
Doing(t, op) == First(t) /\ Head(t.ops) = op

\* t goes on with ops; a scale-up that failed ends the batch.
GoOn(t, ops) == IF ops = <<>> THEN {} ELSE {[t EXCEPT !.ops = ops]}
Proceed(t, ops) == ctl' = [ctl EXCEPT !.tasks = (ctl.tasks \ {t}) \cup GoOn(t, ops)]
Continue(t) == Proceed(t, Tail(t.ops))
Skip(t) == Proceed(t, <<>>)
ScalingUp == ctl.next \in {"rollout", "drain"}
Broken(t, ops) ==
    IF ScalingUp THEN ctl' = [ctl EXCEPT !.tasks = GoOn(t, ops)] ELSE Proceed(t, ops)

RetireAnyState(t) ==
    IF ~Busy(t.d) THEN Continue(t) /\ row' = [row EXCEPT ![t.d].state = "destroying"]
                  ELSE Skip(t) /\ UNCHANGED row

\* beginDestroy, under the lock the lease path takes.
Retire(t) ==
    IF row[t.d].state = "destroying" THEN Continue(t) /\ UNCHANGED row
    ELSE IF row[t.d].state \in LiveState /\ ~Busy(t.d)
         THEN Continue(t) /\ row' = [row EXCEPT ![t.d].state = "destroying"]
         ELSE Skip(t) /\ UNCHANGED row

BeginDestroyIfIdle(t) ==
    /\ Doing(t, "begin")
    /\ Retire(t)
    /\ UNCHANGED <<instance, token, lease, build, faults, now>>

BeginDestroyIfIdleAndSilent(t) ==
    /\ Doing(t, "silent")
    /\ IF /\ row[t.d].state # "destroying"
          /\ WorkerLastLiveAt(row[t.d]) >= ctl.now - StaleAfter
       THEN Skip(t) /\ UNCHANGED row
       ELSE Retire(t)
    /\ UNCHANGED <<instance, token, lease, build, faults, now>>

Activated(r) == IF r.state = "provisioning"
                THEN [r EXCEPT !.state = "active", !.idle = 0] ELSE r

\* An overdue provisioning row with a live lease is left alone, and promoted
\* when its worker was seen.
SpareLeased(t) ==
    /\ Doing(t, "spare") \/ Doing(t, "keep")
    /\ IF ~Busy(t.d) THEN Continue(t) /\ UNCHANGED row
       ELSE /\ Skip(t)
            /\ row' = IF Doing(t, "keep")
                      THEN [row EXCEPT ![t.d] = Activated(row[t.d])] ELSE row
    /\ UNCHANGED <<instance, token, lease, build, faults, now>>

CheckDrained(t) ==
    /\ Doing(t, "drained")
    /\ IF Busy(t.d) THEN Skip(t) ELSE Continue(t)
    /\ UNCHANGED <<row, instance, token, lease, build, faults, now>>

InsertProvisioning == [NoRow EXCEPT !.state = "provisioning", !.build = build, !.created = now]

\* The UPDATEs that do not look at the row's state, MarkActive, and the INSERT.
RowOp == {"insert", "bind", "active", "drain", "destroying", "destroyed", "failed"}
Written(op, r) ==
    CASE op = "insert" -> InsertProvisioning
      [] op = "bind" -> [r EXCEPT !.id = TRUE]
      [] op = "active" -> Activated(r)
      [] op = "drain" -> [r EXCEPT !.state = "draining", !.drain = now]
      [] op = "destroying" -> [r EXCEPT !.state = "destroying"]
      [] op = "destroyed" -> [r EXCEPT !.state = "destroyed"]
      [] op = "failed" -> [r EXCEPT !.state = "failed"]

WriteRow(t) ==
    /\ \E op \in RowOp :
         /\ Doing(t, op)
         /\ row' = [row EXCEPT ![t.d] = Written(op, row[t.d])]
    /\ Continue(t)
    /\ UNCHANGED <<instance, token, lease, build, faults, now>>

MintNodeToken(t) ==
    /\ Doing(t, "mint")
    /\ token' = [token EXCEPT ![t.d] = "live"]
    /\ Continue(t)
    /\ UNCHANGED <<row, instance, lease, build, faults, now>>

RevokeNodeToken(t) ==
    /\ Doing(t, "revoke")
    /\ token' = [token EXCEPT ![t.d] = "revoked"]
    /\ Continue(t)
    /\ UNCHANGED <<row, instance, lease, build, faults, now>>

Created(d) ==
    [instance EXCEPT ![d] = [state |-> "running", created |-> now, listed |-> FALSE]]
Deleted(d) == [instance EXCEPT ![d] = [NoInstance EXCEPT !.state = "deleted"]]

\* Without the provider's id there is no call to make.
Deleting(t) == Doing(t, "orphan") \/ (Doing(t, "delete") /\ t.known)

DeleteDroplet(t) ==
    /\ Doing(t, "delete") \/ Doing(t, "orphan")
    /\ instance' = IF Deleting(t) THEN Deleted(t.d) ELSE instance
    /\ Continue(t)
    /\ UNCHANGED <<row, token, lease, build, faults, now>>

\* The create request, then project and firewall; the worker may boot between.
CreateDroplet(t) ==
    /\ Doing(t, "create")
    /\ instance' = Created(t.d)
    /\ Continue(t)
    /\ UNCHANGED <<row, token, lease, build, faults, now>>

SetUpDroplet(t) ==
    /\ Doing(t, "setup")
    /\ Continue(t)
    /\ UNCHANGED <<row, instance, token, lease, build, faults, now>>

-----------------------------------------------------------------------------
(* Failures.                                                               *)

Fault(kind) == kind \in Faults /\ faults < MaxFaults /\ faults' = faults + 1

\* What is left of a task whose statement failed: logged and passed over, or
\* the end; a token minted for a row that could not be written is revoked.
AfterError(t) ==
    CASE Head(t.ops) \in {"failed", "revoke"} -> Tail(t.ops)
      [] Head(t.ops) = "insert" -> <<"revoke">>
      [] OTHER -> <<>>

StatementFails(t) ==
    /\ Fault("database")
    /\ First(t)
    /\ Head(t.ops) \notin {"orphan", "delete", "create", "setup"}
    /\ Broken(t, AfterError(t))
    /\ UNCHANGED <<row, instance, token, lease, build, now>>

\* A read fails: its stage is passed over, or the tick ends.
ReadFails ==
    /\ Fault("database")
    /\ ctl.tasks = {}
    /\ \/ ctl.next = "promote" /\ ctl' = [ctl EXCEPT !.next = "reap", !.fleet = {}]
       \/ ctl.next = "reap" /\ ctl' = [ctl EXCEPT !.next = "decide"]
       \/ ctl.next \in {"decide", "progress"} /\ ctl' = Idle
       \/ /\ ctl.next = "rollout"
          /\ \E rolling \in {FALSE, Stale # {}} : ctl' = AfterRollout(rolling, {})
    /\ UNCHANGED <<row, instance, token, lease, build, now>>

\* A delete fails, before or after it took effect.
DeleteFails(t) ==
    /\ Fault("provider")
    /\ Deleting(t)
    /\ Skip(t)
    /\ instance' \in {instance, Deleted(t.d)}
    /\ UNCHANGED <<row, token, lease, build, now>>

\* A create fails or its answer is lost; or the set-up fails, and with or
\* without success the droplet is deleted again.
CreateFails(t) ==
    /\ Fault("provider")
    /\ \/ Doing(t, "create") /\ instance' \in {instance, Created(t.d)}
       \/ Doing(t, "setup") /\ instance' \in {instance, Deleted(t.d)}
    /\ Broken(t, FailProvision)
    /\ UNCHANGED <<row, token, lease, build, now>>

\* A droplet disappears at the provider.
Vanish(d) ==
    /\ Fault("provider")
    /\ d \in Running
    /\ instance' = Deleted(d)
    /\ UNCHANGED <<row, token, lease, ctl, build, now>>

\* The control service dies in the middle of a tick and starts again.
Crash ==
    /\ Fault("crash")
    /\ ctl # Idle
    /\ ctl' = Idle
    /\ UNCHANGED <<row, instance, token, lease, build, now>>

\* It is deployed with a new build for the workers.
Deploy ==
    /\ build < MaxBuild
    /\ build' = build + 1
    /\ ctl' = Idle
    /\ UNCHANGED <<row, instance, token, lease, faults, now>>

-----------------------------------------------------------------------------
Read == \/ Reconcile \/ PromoteActive \/ ReapUnresponsive \/ DecideScale
        \/ RolloutNothing \/ RolloutSurge \/ RolloutDrain
        \/ BeginDrains \/ ProgressDrains

Perform ==
    \E t \in ctl.tasks :
        \/ BeginDestroyIfIdle(t) \/ BeginDestroyIfIdleAndSilent(t) \/ SpareLeased(t)
        \/ CheckDrained(t) \/ WriteRow(t) \/ MintNodeToken(t) \/ RevokeNodeToken(t)
        \/ DeleteDroplet(t) \/ CreateDroplet(t) \/ SetUpDroplet(t)

Disturb == \/ \E t \in ctl.tasks : StatementFails(t) \/ DeleteFails(t) \/ CreateFails(t)
           \/ \E d \in Droplets : Vanish(d)
           \/ ReadFails \/ Crash \/ Deploy

Outside == \/ \E d \in Droplets : \/ Report(d) \/ LeaseJob(d) \/ RenewLease(d)
                                  \/ EndLease(d) \/ OperatorDrain(d)
           \/ ClockTick

Next == Read \/ Perform \/ Disturb \/ Outside

Spec == Init /\ [][Next]_vars

\* Time passes, and the controller, restarted when it dies, keeps ticking.
FairSpec == Spec /\ WF_vars(ClockTick) /\ WF_vars(Read \/ Perform)

-----------------------------------------------------------------------------
(* Properties.                                                             *)

TypeOK ==
    /\ row \in [Droplets -> Row]
    /\ instance \in [Droplets -> Instance]
    /\ token \in [Droplets -> {"none", "live", "revoked"}]
    /\ lease \in [Droplets -> 0..LeaseTerm]
    /\ ctl \in Controller
    /\ build \in 0..MaxBuild /\ faults \in 0..MaxFaults /\ now \in 1..MaxNow

\* The spend tripwire of tick: the live rows never exceed the cap, whatever
\* failed or was interrupted since the count that a batch was decided on.
LiveWithinCap == Cardinality(Live) <= Max

\* What ValidateLiveBindings asks of every row before the API starts: the
\* recorder of a row that may still work has a node token to call with.
LiveBindings ==
    \A d \in Droplets :
        row[d].state \in {"provisioning", "active", "draining"} => token[d] = "live"

\* No statement brings a retired row back: those that set a state without
\* looking at it run on what a read of the same tick saw.
RowsAdvance ==
    \A d \in Droplets :
        /\ row[d].state \in {"destroyed", "failed"}
             => row'[d].state \in {"destroyed", "failed"}
        /\ row[d].state = "destroying"
             => row'[d].state \in {"destroying", "destroyed", "failed"}
NoResurrection == [][RowsAdvance]_vars

\* The controller deletes a droplet it has provisioned while the droplet holds
\* a live lease only when its drain has timed out.
TeardownSparesLeases ==
    [][\A d \in Droplets :
         /\ instance[d].state = "running" /\ instance'[d].state = "deleted"
         /\ Busy(d) /\ row[d].id
         /\ ctl' # ctl
         => row[d].drain # 0 /\ now - row[d].drain >= DrainTimeout]_vars

\* Every droplet that is paid for is counted: its row is live.
EveryDropletCounted == Running \subseteq Live

\* The cap bounds what is paid for.
RunningWithinCap == Cardinality(Running) <= Max

\* A droplet without a live row does not run for ever: orphans are found by name
\* and deleted (those that can age enough before the clock's bound).
OrphansReaped ==
    \A d \in Droplets :
        /\ d \in Running \ Live
        /\ instance[d].created + Larger(ProvisionTimeout, ListLag) <= MaxNow
        ~> d \notin Running

\* A row in destroying gets to an end: the state is resumed on every tick.
DestroyingSettles ==
    \A d \in Droplets :
        row[d].state = "destroying" ~> row[d].state \in {"destroyed", "failed"}
=============================================================================
