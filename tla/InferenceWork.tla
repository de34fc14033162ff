----------------------------- MODULE InferenceWork -----------------------------
(* Inference over captured frames: the claims of external runners, for a frame *)
(* on its own (ClaimFrames) or as a target of a pipeline run                   *)
(* (ClaimFramesForRun), the results they commit, and the box manager that      *)
(* draws the boxed image of a result with detections.                         *)
EXTENDS Integers, SequencesExt

CONSTANTS
  Frames,    \* the frames, all of them targets of the one pipeline run
  Claims,    \* rows of inference_claims; a result is named by its claim
  AdhocClaims,  \* bound: those of them that are not of the run
  Detecting,    \* bound: those whose result may have detections
  Boxers,    \* goroutines of box managers
  MaxTries,  \* max_attempts of a box job
  Forces     \* the force_rerun flags that claim and commit requests carry

\* A result is named by its claim, a boxer may hold none; the box manager is
\* configured with at least one attempt.
NoClaim == "no claim"

ASSUME InferenceAssumption ==
  /\ NoClaim \notin Claims
  /\ MaxTries \in Nat \ {0}
  /\ Frames # {} /\ Forces \subseteq BOOLEAN

VARIABLES
  claim,   \* inference_claims, and whether a claim of its own was forced
  holder,  \* what the runner holding a claim does: "idle", "working", "gone"
  target,  \* pipeline_run_targets: status and claim_id
  run,     \* pipeline_runs.status
  open,    \* commit transactions of run claims, in the order of their run update
  result,  \* inference_results.status
  job,     \* inference_box_jobs
  box      \* what each boxer works on

runnerVars == <<claim, holder, target, run, open>>
vars       == <<claim, holder, target, run, open, result, job, box>>

Scopes    == {"adhoc", "run"}
Final     == {"completed", "error"}
RunEnded  == {"completed", "completed_with_errors"}
Processed == {"success", "queued_boxed"}

NewRow == [frame: Frames, scope: Scopes, force: BOOLEAN,
           status: {"none", "leased", "abandoned", "completed"}, late: BOOLEAN]
Job    == [status: {"none", "pending", "leased", "done", "error"},
           tries: 0..MaxTries, late: BOOLEAN, waiting: BOOLEAN]
Boxer  == [at: {"idle", "claimed", "drawing", "unsure", "closing"},
           res: Claims \cup {NoClaim}, tries: 0..MaxTries]

\* Every variable has its type; a target names a claim exactly while one holds or
\* has ended it, and only run claims have a transaction of several steps.
TypeOK ==
  /\ claim \in [Claims -> NewRow]
  /\ holder \in [Claims -> {"idle", "working", "gone"}]
  /\ target \in [Frames -> [status: {"pending", "leased", "completed", "error", "abandoned"},
                            claim: Claims \cup {NoClaim}]]
  /\ \A f \in Frames : (target[f].claim = NoClaim) = (target[f].status \in {"pending", "abandoned"})
  /\ run \in {"pending", "running"} \cup RunEnded
  /\ open \in Seq([claim: Claims, verdict: Processed \cup {"error"}, run: {"running"} \cup RunEnded])
  /\ \A i \in DOMAIN open : claim[open[i].claim].scope = "run"
  /\ result \in [Claims -> {"none", "error"} \cup Processed]
  /\ job \in [Claims -> Job]
  /\ box \in [Boxers -> Boxer]

NoBox == [at |-> "idle", res |-> NoClaim, tries |-> 0]
NoJob == [status |-> "none", tries |-> 0, late |-> FALSE, waiting |-> FALSE]

Init ==
  /\ claim \in [Claims -> [frame: {CHOOSE f \in Frames : TRUE}, scope: {"adhoc"},
                           force: {FALSE}, status: {"none"}, late: {FALSE}]]
  /\ holder = [c \in Claims |-> "idle"]
  /\ target = [f \in Frames |-> [status |-> "pending", claim |-> NoClaim]]
  /\ run = "pending"
  /\ open = <<>>
  /\ result = [c \in Claims |-> "none"]
  /\ job = [c \in Claims |-> NoJob]
  /\ box = [b \in Boxers |-> NoBox]

(****************************** claiming frames ******************************)

Open     == {open[i].claim : i \in DOMAIN open}
Leased   == {c \in Claims : claim[c].status = "leased"}
Late     == {c \in Leased : claim[c].late}

\* Claims whose row nobody can reach any more: their identity may be used again.
Spare(targets) ==
  {c \in Claims : /\ claim[c].status # "leased" \/ c \in Late
                  /\ holder[c] # "working"
                  /\ \A f \in Frames : targets[f].claim # c
                  /\ result[c] \notin Processed
                  /\ \A b \in Boxers : box[b].res # c}

\* An UPDATE of claims waits for the rows that a commit transaction has locked.
Unlocked(C) == C \cap Open = {}

Abandoned(rows, C) == [c \in Claims |-> IF c \in C THEN [rows[c] EXCEPT !.status = "abandoned"] ELSE rows[c]]

HasSuccess(f, scopes) ==
  \E c \in Claims : claim[c].frame = f /\ claim[c].scope \in scopes /\ result[c] = "success"
HasResult(f, scopes) ==
  \E c \in Claims : claim[c].frame = f /\ claim[c].scope \in scopes /\ result[c] \in Processed

Granted(rows, c, f, scope, force) ==
  [rows EXCEPT ![c] = [frame |-> f, scope |-> scope, force |-> force, status |-> "leased", late |-> FALSE]]

Fresh(c) == result' = [result EXCEPT ![c] = "none"] /\ job' = [job EXCEPT ![c] = NoJob]

\* POST inference/claims: every late claim is abandoned, then a frame without a
\* lease and without a result of this pipeline is claimed.
SweepForClaim == Unlocked(Late)

ClaimFrames(f, c, force) ==
  /\ SweepForClaim
  /\ c \in Spare(target) \cap AdhocClaims
  /\ \A d \in Leased \ Late : claim[d].frame # f
  /\ force \/ ~HasResult(f, Scopes)
  /\ claim' = Granted(Abandoned(claim, Late), c, f, "adhoc", force)
  /\ holder' = [holder EXCEPT ![c] = "working"]
  /\ Fresh(c)
  /\ UNCHANGED <<target, run, open, box>>

\* The same request when no frame can be claimed.
ClaimNothing ==
  /\ SweepForClaim
  /\ Late # {}
  /\ claim' = Abandoned(claim, Late)
  /\ UNCHANGED <<holder, target, run, open, result, job, box>>

RunLate       == {c \in Late : claim[c].scope = "run"}
TargetLate(f) == target[f].status = "leased" /\ claim[target[f].claim].late

Recovered ==
  [f \in Frames |-> IF TargetLate(f) THEN [status |-> "abandoned", claim |-> NoClaim] ELSE target[f]]

\* POST pipeline-runs/{id}/claims: the late claims and targets of the run are
\* abandoned, then a pending or abandoned target is leased; a forced request does
\* not ask for earlier results.
ClaimFramesForRun(f, c, force, answered) ==
  /\ Unlocked(RunLate)
  /\ c \in Spare(Recovered) \ AdhocClaims
  /\ Recovered[f].status \in {"pending", "abandoned"}
  /\ force \/ ~HasResult(f, {"run"})
  /\ \A d \in Leased \ RunLate : claim[d].scope = "run" => claim[d].frame # f
  /\ claim' = Granted(Abandoned(claim, RunLate), c, f, "run", FALSE)
  /\ target' = [Recovered EXCEPT ![f] = [status |-> "leased", claim |-> c]]
  /\ run' = IF answered /\ run \notin RunEnded THEN "running" ELSE run
  /\ holder' = [holder EXCEPT ![c] = IF answered THEN "working" ELSE "gone"]
  /\ Fresh(c)
  /\ UNCHANGED <<open, box>>

\* POST inference/claims/abandon, for the late claims or for all of them: the
\* targets of run claims are left to their own lease.
AbandonClaims(expiredOnly) ==
  LET C == IF expiredOnly THEN Late ELSE Leased
  IN /\ C # {}
     /\ Unlocked(C)
     /\ claim' = Abandoned(claim, C)
     /\ UNCHANGED <<holder, target, run, open, result, job, box>>

\* A lease runs out; its claim and its target carry the same instant.
LeaseEnds(c) ==
  /\ ~claim[c].late
  /\ c \in Leased \/ \E f \in Frames : target[f].status = "leased" /\ target[f].claim = c
  /\ claim' = [claim EXCEPT ![c].late = TRUE]
  /\ UNCHANGED <<holder, target, run, open, result, job, box>>

(***************************** committing results ****************************)

\* The checks of commitInference on the locked claim and on earlier results; the
\* commit brings a flag of its own.
CommitAllowed(c, force) ==
  /\ claim[c].status = "leased"
  /\ ~claim[c].late
  /\ force \/ ~ \E d \in Claims : /\ claim[d].frame = claim[c].frame
                                 /\ claim[d].scope = claim[c].scope
                                 /\ result[d] = "success"

TargetVerdict(verdict) == IF verdict = "error" THEN "error" ELSE "completed"

\* refreshPipelineRunStatus over the targets that its statement sees.
RunStatusLeased(statuses) ==
  IF "leased" \notin statuses
  THEN IF "error" \in statuses THEN "completed_with_errors" ELSE "completed"
  ELSE "running"
RunStatus(statuses) ==
  IF statuses \subseteq Final
  THEN IF "error" \in statuses THEN "completed_with_errors" ELSE "completed"
  ELSE "running"

SeenBy(c, verdict) ==
  {IF f = claim[c].frame THEN TargetVerdict(verdict) ELSE target[f].status : f \in Frames}

Verdicts(c) == {"success", "error"} \cup IF c \in Detecting THEN {"queued_boxed"} ELSE {}

Stored(c, verdict) ==
  /\ result' = [result EXCEPT ![c] = verdict]
  /\ job' = IF verdict = "queued_boxed"
            THEN [job EXCEPT ![c] = [NoJob EXCEPT !.status = "pending"]]
            ELSE job
  /\ claim' = [claim EXCEPT ![c].status = "completed"]
  /\ holder' = [holder EXCEPT ![c] = "gone"]

\* A claim of its own commits in one transaction that nothing interleaves with.
CommitFrame(c, verdict, force) ==
  /\ holder[c] = "working" /\ claim[c].scope = "adhoc"
  /\ CommitAllowed(c, force)
  /\ Stored(c, verdict)
  /\ UNCHANGED <<target, run, open, box>>

\* A run claim's transaction up to the run's update: what it computes for the run
\* is what is committed now, and the run's row is then locked.
CommitBegin(c, verdict, force) ==
  /\ holder[c] = "working" /\ claim[c].scope = "run" /\ c \notin Open
  /\ CommitAllowed(c, force)
  /\ open' = Append(open, [claim |-> c, verdict |-> verdict, run |-> RunStatus(SeenBy(c, verdict))])
  /\ UNCHANGED <<claim, holder, target, run, result, job, box>>

CommitEnd ==
  /\ open # <<>>
  /\ LET t == Head(open) IN
       /\ Stored(t.claim, t.verdict)
       /\ target' = [target EXCEPT ![claim[t.claim].frame] =
                       [status |-> TargetVerdict(t.verdict), claim |-> t.claim]]
       /\ run' = t.run
  /\ open' = Tail(open)
  /\ UNCHANGED box

CommitRollsBack(c) ==
  /\ \E i \in DOMAIN open : open[i].claim = c /\ open' = RemoveAt(open, i)
  /\ UNCHANGED <<claim, holder, target, run, result, job, box>>

\* The commit is answered with a conflict, or the runner dies.
CommitRefused(c, force) ==
  /\ holder[c] = "working" /\ c \notin Open
  /\ ~CommitAllowed(c, force)
  /\ holder' = [holder EXCEPT ![c] = "gone"]
  /\ UNCHANGED <<claim, target, run, open, result, job, box>>

RunnerDies(c) ==
  /\ holder[c] = "working" /\ c \notin Open
  /\ holder' = [holder EXCEPT ![c] = "gone"]
  /\ UNCHANGED <<claim, target, run, open, result, job, box>>

(******************************** box manager ********************************)

Idle(b) == box' = [box EXCEPT ![b] = NoBox]
Close(c) == job' = [job EXCEPT ![c].status = "done", ![c].late = FALSE]

\* expireLeases: nothing counts the attempt.
ExpireLeases ==
  /\ \E c \in Claims : job[c].status = "leased" /\ job[c].late
  /\ job' = [c \in Claims |-> IF job[c].status = "leased" /\ job[c].late
                               THEN [job[c] EXCEPT !.status = "pending", !.late = FALSE]
                               ELSE job[c]]
  /\ UNCHANGED <<runnerVars, result, box>>

JobLeaseEnds(c) ==
  /\ job[c].status = "leased" /\ ~job[c].late
  /\ job' = [job EXCEPT ![c].late = TRUE]
  /\ UNCHANGED <<runnerVars, result, box>>

BackoffElapses(c) ==
  /\ job[c].waiting
  /\ job' = [job EXCEPT ![c].waiting = FALSE]
  /\ UNCHANGED <<runnerVars, result, box>>

\* claimOne takes a snapshot of the attempts along with the lease.
Claimable(c) ==
  /\ job[c].status \in {"pending", "error"}
  /\ job[c].tries < MaxTries
  /\ ~job[c].waiting
  /\ result[c] = "queued_boxed"

ClaimOne(b, c) ==
  /\ box[b].at = "idle"
  /\ Claimable(c)
  /\ job' = [job EXCEPT ![c].status = "leased", ![c].late = FALSE]
  /\ box' = [box EXCEPT ![b] = [at |-> "claimed", res |-> c, tries |-> job[c].tries]]
  /\ UNCHANGED <<runnerVars, result>>

\* loadJobContext: another boxer may have settled the result meanwhile.
LoadContext(b) ==
  /\ box[b].at = "claimed"
  /\ box' = [box EXCEPT ![b].at = IF result[box[b].res] = "queued_boxed" THEN "drawing" ELSE "closing"]
  /\ UNCHANGED <<runnerVars, result, job>>

\* completeJobDoneOnly
CompleteDoneOnly(b) ==
  /\ box[b].at = "closing"
  /\ Close(box[b].res)
  /\ Idle(b)
  /\ UNCHANGED <<runnerVars, result>>

\* What an update guarded by status='queued_boxed' leaves of the result.
Guarded(c, status) == IF result[c] = "queued_boxed" THEN status ELSE result[c]

\* The boxed image is stored and the transaction commits; its answer may be lost.
BoxStored(b, answered) ==
  LET c == box[b].res
  IN /\ box[b].at = "drawing"
     /\ result' = [result EXCEPT ![c] = Guarded(c, "success")]
     /\ Close(c)
     /\ IF answered THEN Idle(b) ELSE box' = [box EXCEPT ![b].at = "unsure"]
     /\ UNCHANGED runnerVars

LastTryLate(b, terminal) == terminal \/ box[b].tries >= MaxTries
LastTry(b, terminal) == terminal \/ box[b].tries + 1 >= MaxTries

\* failJob: the attempts are those of the claim, plus one.
FailJob(b, terminal) ==
  LET c == box[b].res
  IN /\ box[b].at \in {"claimed", "drawing", "unsure"}
     /\ box[b].at = "unsure" => ~terminal
     /\ result' = [result EXCEPT ![c] = IF LastTry(b, terminal) THEN Guarded(c, "error") ELSE @]
     /\ job' = [job EXCEPT ![c] = [status |-> "error", tries |-> box[b].tries + 1, late |-> FALSE,
                                   waiting |-> ~LastTry(b, terminal)]]
     /\ Idle(b)
     /\ UNCHANGED runnerVars

BoxerDies(b) ==
  /\ box[b].at # "idle"
  /\ Idle(b)
  /\ UNCHANGED <<runnerVars, result, job>>

(******************************* specification *******************************)

RunnerStep ==
  \/ \E f \in Frames, c \in Claims, force \in Forces : ClaimFrames(f, c, force)
  \/ ClaimNothing
  \/ \E f \in Frames, c \in Claims, force \in Forces, answered \in BOOLEAN :
       ClaimFramesForRun(f, c, force, answered)
  \/ \E expiredOnly \in BOOLEAN : AbandonClaims(expiredOnly)
  \/ \E c \in Claims : LeaseEnds(c) \/ CommitRollsBack(c) \/ RunnerDies(c)
  \/ \E c \in Claims, force \in Forces : CommitRefused(c, force)
  \/ \E c \in Claims, force \in Forces : \E v \in Verdicts(c) :
       CommitFrame(c, v, force) \/ CommitBegin(c, v, force)
  \/ CommitEnd

BoxStep ==
  \/ ExpireLeases
  \/ \E c \in Claims : JobLeaseEnds(c) \/ BackoffElapses(c)
  \/ \E b \in Boxers, c \in Claims : ClaimOne(b, c)
  \/ \E b \in Boxers : LoadContext(b) \/ CompleteDoneOnly(b) \/ BoxerDies(b)
  \/ \E b \in Boxers, answered \in BOOLEAN : BoxStored(b, answered)
  \/ \E b \in Boxers, terminal \in BOOLEAN : FailJob(b, terminal)

Next == RunnerStep \/ BoxStep
Spec == Init /\ [][Next]_vars

(********************************* properties ********************************)

\* A run is closed only after its last target: no commit may close it over a
\* target that is still leased, pending or given back.
RunClosesLast == run \in RunEnded => \A f \in Frames : target[f].status \in Final

\* Whatever leases expire, are abandoned or are committed late, a frame gets one
\* result per run, forced or not, and on its own one success or boxed result
\* unless one of them was claimed by force; a target is final exactly when its run
\* has a result for it.
ResultsOnce ==
  /\ \A c, d \in Claims :
       /\ c # d /\ claim[c].frame = claim[d].frame /\ claim[c].scope = claim[d].scope
       /\ result[c] \in Processed /\ result[d] \in Processed
       => claim[c].scope = "adhoc" /\ (claim[c].force \/ claim[d].force)
  /\ \A f \in Frames : target[f].status \in Final <=>
       \E c \in Claims : claim[c].frame = f /\ claim[c].scope = "run" /\ result[c] # "none"

\* A result waiting for its box has a job that some boxer may still take: no
\* stale boxer closes it and no attempt uses up its job without settling it.
QueuedHasJob ==
  \A c \in Claims : result[c] = "queued_boxed" =>
    job[c].status \in {"pending", "leased", "error"} /\ job[c].tries < MaxTries
=============================================================================
