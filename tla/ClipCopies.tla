----------------------------- MODULE ClipCopies -----------------------------
(***************************************************************************)
(* The two copies of a recorded clip, the object in the managed store and   *)
(* the file on the customer's NAS, and the three programs that delete or    *)
(* recreate them: the NAS-verified purge (removes the object once the NAS   *)
(* inventory proves the file), the NAS cleanup (removes the file once the   *)
(* object is re-hashed) and the NAS restore (uploads the file back).        *)
(*                                                                          *)
(* Each runs over several transactions, HTTP calls and store calls that     *)
(* interleave with the others, may be lost or repeated, and may stop at any *)
(* point.  A row lock that PostgreSQL would wait for is a guard.  Time is   *)
(* abstract: leases, approvals and permits lapse whenever they may.         *)
(***************************************************************************)
EXTENDS Naturals, Sequences, FiniteSets

CONSTANTS
  Clips,          \* clips of one NAS connection
  PlanClips,      \* the clips the cleanup plan lists
  Requests,       \* rows of nas_restore_requests
  ReqClip,        \* [Requests -> Clips]
  TestRequests,   \* the requests whose target is a disposable test key
  MaxRestore,     \* max_attempts of a restore request
  MaxCleanup,     \* expired leases a cleanup item survives (3)
  MaxRuns,        \* bound: times the operator enables or re-runs the plan
  MaxBad          \* bound: times a wrong object shows up at a purged key

ASSUME CopiesAssumption ==
  /\ IsFiniteSet(Clips) /\ PlanClips \subseteq Clips
  /\ ReqClip \in [Requests -> Clips] /\ TestRequests \subseteq Requests
  /\ {MaxRestore, MaxCleanup} \subseteq Nat \ {0} /\ {MaxRuns, MaxBad} \subseteq Nat

VARIABLES
  r2,        \* object at the clip's own key
  nas,       \* the file exists on the NAS with the recorded bytes
  purged,    \* recording_clips.purged_at is set
  inv,       \* the NAS inventory row of the clip says present
  purge,     \* the purge run: batches to do, rows locked and marked, keys not deleted
  plan,      \* the cleanup plan: mode, allow_nas_only, operator commands so far
  item,      \* nas_cleanup_items, one per clip of the plan
  client,    \* the NAS client's task and durable receipt for the item
  req,       \* nas_restore_requests
  up,        \* the NAS client's restore worker of each attempt
  handler,   \* restore result handlers in flight
  test,      \* the object at a test request's key
  bad,       \* wrong objects seen so far
  permits,   \* delete permits issued per item
  waived,    \* clips a permit was issued for under allow_nas_only
  torn,      \* clips whose object went in a purge that did not commit
  clobbered  \* clips whose good object a mismatch handler deleted

copyVars    == <<r2, nas, purged, inv>>
cleanupVars == <<plan, item, client>>
restoreVars == <<req, up, handler, test>>
histVars    == <<bad, permits, waived, torn, clobbered>>
vars        == <<copyVars, purge, cleanupVars, restoreVars, histVars>>

Objects    == {"none", "good", "bad"}
PlanModes  == {"none", "dry_run", "enabled", "paused"}
\* "kept" stands for keep, missing, conflict and an observation that is unverified.
ItemStates == {"pending", "leased", "would_delete", "kept", "delete_issued", "deleted", "unverified"}
Recoveries == {"unchecked", "r2_sha_verified", "nas_only_at_check"}
\* A receipt is journalled from "observe" on and survives a crash of the client.
ClientPhases == {"idle", "proving", "observe", "replay", "permitted", "deleted", "unverified"}
Outcomes   == {"uploaded", "exists", "local_missing", "upload_failed"}
Slots      == {1, 2}    \* two reports of one restore can be handled at once
NoHandler  == [phase |-> "free"]
IdleClient == [phase |-> "idle", attempt |-> 0, match |-> FALSE]
CleanupAttempts == 0..(MaxCleanup + MaxRuns)

TypeOK ==
  /\ r2 \in [Clips -> Objects] /\ test \in [Requests -> Objects]
  /\ {nas, purged, inv} \subseteq [Clips -> BOOLEAN]
  /\ purge \in [batches : Seq(SUBSET Clips), locked : SUBSET Clips,
                failed : SUBSET Clips, phase : {"idle", "locked", "deleted"}]
  /\ plan \in [mode : PlanModes, allow : BOOLEAN, runs : 0..MaxRuns]
  /\ item \in [PlanClips -> [state : ItemStates, attempt : CleanupAttempts, recovery : Recoveries,
                             proof : BOOLEAN, observed : CleanupAttempts, issued : BOOLEAN]]
  /\ client \in [PlanClips -> [phase : ClientPhases, attempt : CleanupAttempts, match : BOOLEAN]]
  /\ req \in [Requests -> [state : {"none", "pending", "leased", "verified", "failed", "canceled"},
                           attempts : 0..MaxRestore, swept : BOOLEAN]]
  /\ up \in [Requests -> [1..MaxRestore -> {"idle", "upload"} \cup Outcomes]]
  /\ \A s \in Slots : handler[s] = NoHandler
                     \/ handler[s] \in [phase : {"verify", "mismatch", "delete", "record"},
                                        r : Requests, a : 1..MaxRestore,
                                        next : {"unknown", "verified", "failed", "retry"}]
  /\ bad \in 0..MaxBad /\ {waived, torn, clobbered} \subseteq SUBSET Clips

\* Clips as delivered: both copies exist, or the object is already purged.
Init ==
  /\ purged \in [Clips -> BOOLEAN]
  /\ r2 = [c \in Clips |-> IF purged[c] THEN "none" ELSE "good"]
  /\ nas = [c \in Clips |-> TRUE] /\ inv = [c \in Clips |-> TRUE]
  /\ purge = [batches |-> <<>>, locked |-> {}, failed |-> {}, phase |-> "idle"]
  /\ plan = [mode |-> "none", allow |-> FALSE, runs |-> 0]
  /\ item = [c \in PlanClips |-> [state |-> "pending", attempt |-> 0, recovery |-> "unchecked",
                                  proof |-> FALSE, observed |-> 0, issued |-> FALSE]]
  /\ client = [c \in PlanClips |-> IdleClient]
  /\ req = [r \in Requests |-> [state |-> "none", attempts |-> 0, swept |-> FALSE]]
  /\ up = [r \in Requests |-> [a \in 1..MaxRestore |-> "idle"]]
  /\ handler = [s \in Slots |-> NoHandler]
  /\ test = [r \in Requests |-> "none"]
  /\ bad = 0 /\ permits = [c \in PlanClips |-> 0]
  /\ waived = {} /\ torn = {} /\ clobbered = {}

-----------------------------------------------------------------------------
(* The purge run *)

\* Mutant: a pause releases the hold also after a permit was issued.
HeldUnlessPaused(c) == c \in PlanClips /\ plan.mode \notin {"none", "paused"}

\* nas_cleanup_clip_held: what the retention trigger on recording_clips refuses.
Held(c) ==
  /\ c \in PlanClips /\ plan.mode # "none"
  /\ plan.mode # "paused" \/ \E d \in PlanClips : item[d].issued

\* The facts of nasPurgeFactsSQL that change here: the inventory proof, and no
\* restore that is under way or was completed less than 30 days ago.
NoRestore(c, aged) ==
  \A r \in Requests : ReqClip[r] = c =>
    /\ req[r].state \notin {"pending", "leased"}
    /\ r \notin TestRequests /\ req[r].state = "verified" => r \in aged

PurgeFacts(c, aged) == ~purged[c] /\ inv[c] /\ NoRestore(c, aged)

\* The candidate scan and headBatch: sampled objects are hashed and a wrong one
\* is left alone; an absent one stays in the batch.
PurgeScan ==
  /\ purge.phase = "idle" /\ purge.batches = <<>>
  /\ \E sampled \in SUBSET Clips, aged \in SUBSET Requests :
       LET ready == {c \in Clips : PurgeFacts(c, aged) /\ ~(c \in sampled /\ r2[c] = "bad")}
       IN  ready # {} /\ purge' = [purge EXCEPT !.batches = <<ready>>]
  /\ UNCHANGED <<copyVars, cleanupVars, restoreVars, histVars>>

\* purgeBatch up to the UPDATE: rows that still satisfy every fact are locked and
\* marked; the trigger refuses a held one and purgeSplitting halves the batch.
PurgeLock ==
  /\ purge.phase = "idle" /\ purge.batches # <<>>
  /\ \E aged \in SUBSET Requests :
     LET batch  == Head(purge.batches)
         locked == {c \in batch : PurgeFacts(c, aged)}
     IN  \/ /\ locked = {}
            /\ purge' = [purge EXCEPT !.batches = Tail(@)]
         \/ /\ locked # {} /\ \A c \in locked : ~Held(c)
            /\ purge' = [purge EXCEPT !.batches = Tail(@), !.locked = locked, !.phase = "locked"]
         \/ /\ \E c \in locked : Held(c)
            /\ Cardinality(batch) = 1
            /\ purge' = [purge EXCEPT !.batches = Tail(@)]
         \/ /\ \E c \in locked : Held(c)
            /\ \E half \in SUBSET batch :
                 /\ Cardinality(half) = Cardinality(batch) \div 2 /\ half # {}
                 /\ purge' = [purge EXCEPT !.batches = <<half, batch \ half>> \o Tail(@)]
  /\ UNCHANGED <<copyVars, cleanupVars, restoreVars, histVars>>

\* DeleteObjectsEach: the store deletes some keys and reports the others.
PurgeDelete ==
  /\ purge.phase = "locked"
  /\ \E failed \in SUBSET purge.locked :
       /\ purge' = [purge EXCEPT !.phase = "deleted", !.failed = failed]
       /\ r2' = [c \in Clips |-> IF c \in purge.locked \ failed THEN "none" ELSE r2[c]]
  /\ UNCHANGED <<nas, purged, inv, cleanupVars, restoreVars, histVars>>

\* purged_at goes back to NULL for the keys that were not deleted (an UPDATE the
\* trigger may refuse by now) and the transaction commits.
PurgeCommit ==
  /\ purge.phase = "deleted"
  /\ \A c \in purge.failed : ~Held(c)
  /\ purged' = [c \in Clips |-> purged[c] \/ c \in purge.locked \ purge.failed]
  /\ purge' = [purge EXCEPT !.phase = "idle", !.locked = {}, !.failed = {}]
  /\ torn' = torn \ (purge.locked \ purge.failed)
  /\ UNCHANGED <<r2, nas, inv, cleanupVars, restoreVars, bad, permits, waived, clobbered>>

\* The run stops, the delete call or the commit fails: the marks are rolled back
\* and nothing of the batch is known to be deleted.
PurgeAbort ==
  /\ purge.phase \in {"locked", "deleted"}
  /\ purge' = [batches |-> <<>>, locked |-> {}, failed |-> {}, phase |-> "idle"]
  /\ torn' = torn \cup {c \in purge.locked : r2[c] = "none"}
  /\ UNCHANGED <<copyVars, cleanupVars, restoreVars, bad, permits, waived, clobbered>>

\* The NAS client's next inventory scan reports what is on the disk.
InventoryScan ==
  /\ inv # nas
  /\ inv' = nas
  /\ UNCHANGED <<r2, nas, purged, purge, cleanupVars, restoreVars, histVars>>

-----------------------------------------------------------------------------
(* The cleanup plan *)

\* handleAdminNASCleanupCreate: the plan is admitted in dry_run and its clips are
\* held, under their row locks.
CleanupCreate ==
  /\ plan.mode = "none" /\ purge.locked \cap PlanClips = {}
  /\ plan' = [plan EXCEPT !.mode = "dry_run"]
  /\ UNCHANGED <<copyVars, purge, item, client, restoreVars, histVars>>

\* The recovery an item may be deleted under.
Recoverable(recovery, allow) ==
  recovery = "r2_sha_verified" \/ (allow /\ recovery = "nas_only_at_check")

\* Mutant: the operator may enable the plan again after a deletion was issued.
EnableReadyIssued(allow) ==
  \A c \in PlanClips : item[c].proof /\ Recoverable(item[c].recovery, allow)

\* The complete dry run that arming requires (its age, 24 hours, is not tracked:
\* an old one only refuses the command).
EnableReady(allow) ==
  \A c \in PlanClips : /\ item[c].state = "would_delete" /\ item[c].proof
                       /\ Recoverable(item[c].recovery, allow)

\* handleAdminNASCleanupControl, mode enabled: neither the current mode nor the
\* rows of the clips are looked at.
ControlEnable ==
  /\ plan.mode # "none" /\ plan.runs < MaxRuns
  /\ \E allow \in BOOLEAN :
       /\ EnableReady(allow)
       /\ plan' = [mode |-> "enabled", allow |-> allow, runs |-> plan.runs + 1]
  /\ item' = [c \in PlanClips |-> [item[c] EXCEPT !.state = "pending"]]
  /\ UNCHANGED <<copyVars, purge, client, restoreVars, histVars>>

ControlPause ==
  /\ plan.mode \in {"dry_run", "enabled"}
  /\ \E allow \in BOOLEAN : plan' = [plan EXCEPT !.mode = "paused", !.allow = allow]
  /\ UNCHANGED <<copyVars, purge, item, client, restoreVars, histVars>>

\* Back to dry_run from paused, never after a permit; the clip rows are locked again.
ControlDryRun ==
  /\ plan.mode = "paused" /\ \A c \in PlanClips : ~item[c].issued
  /\ purge.locked \cap PlanClips = {} /\ plan.runs < MaxRuns
  /\ plan' = [mode |-> "dry_run", allow |-> FALSE, runs |-> plan.runs + 1]
  /\ UNCHANGED <<copyVars, purge, item, client, restoreVars, histVars>>

\* The items after the expired leases were taken back.
Requeued(expired) ==
  [c \in PlanClips |->
     IF c \notin expired THEN item[c]
     ELSE [item[c] EXCEPT !.state = IF item[c].attempt >= MaxCleanup THEN "unverified" ELSE "pending"]]

\* handleAccountNASCleanupLease: expired leases are taken back, then pending items
\* are leased, one at most when the plan executes.  The client asks only when no
\* receipt is left to replay; the answer may be lost.
CleanupLease ==
  /\ \A c \in PlanClips : client[c].phase \notin {"replay", "deleted", "unverified"}
  /\ \E expired \in SUBSET {c \in PlanClips : item[c].state = "leased"} :
     \E picked \in SUBSET PlanClips :
       LET now == Requeued(expired)
           may == plan.mode = "dry_run" \/ (plan.mode = "enabled" /\ Cardinality(picked) <= 1)
       IN  /\ expired # {} \/ picked # {}
           /\ \A c \in picked : now[c].state = "pending" /\ client[c].phase = "idle" /\ may
           /\ item' = [c \in PlanClips |-> IF c \in picked
                         THEN [now[c] EXCEPT !.state = "leased", !.attempt = @ + 1] ELSE now[c]]
           /\ \/ client' = [c \in PlanClips |-> IF c \in picked
                    THEN [phase |-> "proving", attempt |-> now[c].attempt + 1, match |-> FALSE]
                    ELSE client[c]]
              \/ picked # {} /\ UNCHANGED client
  /\ UNCHANGED <<copyVars, purge, plan, restoreVars, histVars>>

\* CleanupFile.proof: the file is opened, hashed and journalled as an observation,
\* unless the lease ends first.
Prove(c) ==
  /\ client[c].phase = "proving"
  /\ \/ \E match \in BOOLEAN :
          /\ match => nas[c]
          /\ client' = [client EXCEPT ![c].phase = "observe", ![c].match = match]
     \/ client' = [client EXCEPT ![c] = IdleClient]
  /\ UNCHANGED <<copyVars, purge, plan, item, restoreVars, histVars>>

\* What the client makes of an answer: a permit is used only by the call that asked
\* for it, a replay turns it into a receipt without touching the file.
Answered(c, answer) ==
  \/ client' = [client EXCEPT ![c] =
       CASE answer = "permit" /\ client[c].phase = "observe" -> [@ EXCEPT !.phase = "permitted"]
         [] answer \in {"permit", "reconcile"} /\ client[c].phase = "replay" -> [@ EXCEPT !.phase = "unverified"]
         [] answer = "409" /\ client[c].phase = "observe" -> [@ EXCEPT !.phase = "replay"]
         [] OTHER -> IdleClient]
  \/ answer # "409" /\ client' = [client EXCEPT ![c].phase = "replay"]      \* the answer is lost

\* cleanupRecovery: the object is hashed; a transport error decides nothing.
RecoveryOf(c) ==
  {"unchecked"} \cup CASE r2[c] = "good" -> {"r2_sha_verified"}
                       [] r2[c] = "none" -> {"nas_only_at_check"}
                       [] OTHER -> {}

\* The observation of a live lease is recorded; a permit needs an enabled and still
\* approved plan, the proof of the dry run and a recovery the operator accepted.
ObserveRecord(c) ==
  LET n == client[c].attempt IN
  /\ client[c].phase \in {"observe", "replay"}
  /\ item[c].state = "leased" /\ item[c].attempt = n
  /\ \/ /\ item' = [item EXCEPT ![c].state = "kept", ![c].proof = client[c].match,
                                ![c].recovery = "unchecked", ![c].observed = n]
        /\ client[c].match => c \notin purge.locked
        /\ Answered(c, "ack")
        /\ UNCHANGED <<permits, waived>>
     \/ \E recovery \in RecoveryOf(c), approved \in BOOLEAN :
        LET permit == /\ plan.mode = "enabled" /\ approved /\ item[c].proof
                      /\ Recoverable(recovery, plan.allow)
        IN  /\ client[c].match /\ c \notin purge.locked
            /\ item' = [item EXCEPT ![c] =
                 [state |-> IF permit THEN "delete_issued" ELSE "would_delete", attempt |-> n,
                  recovery |-> recovery, proof |-> TRUE, observed |-> n, issued |-> @.issued \/ permit]]
            /\ Answered(c, IF permit THEN "permit" ELSE "ack")
            /\ permits' = [permits EXCEPT ![c] = IF permit THEN @ + 1 ELSE @]
            /\ waived' = IF permit /\ recovery = "nas_only_at_check" THEN waived \cup {c} ELSE waived
  /\ UNCHANGED <<copyVars, purge, plan, restoreVars, bad, torn, clobbered>>

\* Any other observation changes nothing: a repetition is acknowledged, a permit
\* whose answer was lost is to be reconciled, the rest (an expired lease too) is
\* refused with 409 and the receipt archived.
ObserveAgain(c) ==
  LET n == client[c].attempt IN
  /\ client[c].phase \in {"observe", "replay"}
  /\ \/ /\ item[c].attempt = n /\ item[c].observed = n
        /\ item[c].state \notin {"leased", "delete_issued", "deleted"}
        /\ Answered(c, "ack")
     \/ /\ item[c].attempt = n /\ item[c].state = "delete_issued" /\ client[c].match
        /\ Answered(c, "reconcile")
     \/ /\ item[c].attempt # n \/ item[c].state = "leased" \/ item[c].observed # n
           \/ item[c].state = "deleted"
        /\ Answered(c, "409")
  /\ UNCHANGED <<copyVars, purge, plan, item, restoreVars, histVars>>

\* delete_exact under the permit: the file goes, though a later error may still
\* make the receipt "unverified"; or the permit lapses first.
Unlink(c) ==
  /\ client[c].phase = "permitted"
  /\ \/ /\ nas' = [nas EXCEPT ![c] = FALSE]
        /\ \E receipt \in {"deleted", "unverified"} : client' = [client EXCEPT ![c].phase = receipt]
     \/ /\ client' = [client EXCEPT ![c].phase = "unverified"]
        /\ UNCHANGED nas
  /\ UNCHANGED <<r2, purged, inv, purge, plan, item, restoreVars, histVars>>

\* handleAccountNASCleanupResult: recorded once; a lost answer is replayed, a
\* receipt that does not fit is refused and archived.
CleanupResult(c) ==
  /\ client[c].phase \in {"deleted", "unverified"}
  /\ IF item[c].attempt = client[c].attempt /\ item[c].state = "delete_issued"
     THEN item' = [item EXCEPT ![c].state = client[c].phase, ![c].observed = 0]
     ELSE UNCHANGED item
  /\ client' = [client EXCEPT ![c] = IdleClient] \/ UNCHANGED client
  /\ UNCHANGED <<copyVars, purge, plan, restoreVars, histVars>>

\* The client process stops and starts: only the journalled receipts are left.
ClientCrash ==
  /\ client' = [c \in PlanClips |->
       CASE client[c].phase = "proving" -> IdleClient
         [] client[c].phase = "observe" -> [client[c] EXCEPT !.phase = "replay"]
         [] client[c].phase = "permitted" -> [client[c] EXCEPT !.phase = "unverified"]
         [] OTHER -> client[c]]
  /\ client' # client
  /\ UNCHANGED <<copyVars, purge, plan, item, restoreVars, histVars>>

-----------------------------------------------------------------------------
(* The restore *)

Object(r) == IF r \in TestRequests THEN test[r] ELSE r2[ReqClip[r]]

\* The object at the request's key becomes o.
SetObject(r, o) ==
  IF r \in TestRequests THEN test' = [test EXCEPT ![r] = o] /\ UNCHANGED r2
                        ELSE r2' = [r2 EXCEPT ![ReqClip[r]] = o] /\ UNCHANGED test

\* requestNASRestores: the inventory must show the file, and the clip must be
\* purged unless the target is a test key.
RequestRestore(r) ==
  /\ req[r].state = "none"
  /\ inv[ReqClip[r]] /\ (r \in TestRequests \/ purged[ReqClip[r]])
  /\ \A q \in Requests \ TestRequests :
       r \notin TestRequests /\ ReqClip[q] = ReqClip[r] => req[q].state \notin {"pending", "leased"}
  /\ req' = [req EXCEPT ![r].state = "pending"]
  /\ UNCHANGED <<copyVars, purge, cleanupVars, up, handler, test, histVars>>

CancelRestore(r) ==
  /\ req[r].state = "pending"
  /\ req' = [req EXCEPT ![r].state = "canceled"]
  /\ UNCHANGED <<copyVars, purge, cleanupVars, up, handler, test, histVars>>

Finished(r) == req[r].state \in {"verified", "failed", "canceled"}

\* Mutant: the sweep does not wait for the PUT capability to end.
SweepableNow(r) == r \in TestRequests /\ Finished(r) /\ ~req[r].swept

\* sweepNASRestoreTestObjects: the request is finished and its PUT capability, with
\* the grace period, has ended, so no upload of it can still land.
Sweepable(r) ==
  /\ r \in TestRequests /\ Finished(r) /\ ~req[r].swept
  /\ \A a \in 1..MaxRestore : up[r][a] # "upload"

\* Where a request that did not succeed goes.
RetryState(r) == IF req[r].attempts >= MaxRestore THEN "failed" ELSE "pending"

\* handleAccountConnectionRestoreLease: sweep test objects (best effort), take back
\* expired leases, lease pending requests.  A lost answer leaves a lease nobody works on.
RestoreLease ==
  \E swept \in SUBSET {r \in Requests : Sweepable(r)},
     expired \in SUBSET {r \in Requests : req[r].state = "leased"},
     picked \in SUBSET Requests, lost \in BOOLEAN :
    LET now(r) == IF r \in expired THEN RetryState(r) ELSE req[r].state IN
    /\ swept \cup expired \cup picked # {}
    /\ \A r \in picked : now(r) = "pending"
    /\ lost => picked # {}
    /\ test' = [r \in Requests |-> IF r \in swept THEN "none" ELSE test[r]]
    /\ req' = [r \in Requests |->
         [state |-> IF r \in picked THEN "leased" ELSE now(r),
          attempts |-> IF r \in picked THEN req[r].attempts + 1 ELSE req[r].attempts,
          swept |-> req[r].swept \/ r \in swept]]
    /\ up' = [r \in Requests |-> IF r \in picked /\ ~lost
                THEN [up[r] EXCEPT ![req[r].attempts + 1] = "upload"] ELSE up[r]]
    /\ UNCHANGED <<copyVars, purge, cleanupVars, handler, histVars>>

\* run_restore_task: the file is hashed, then PUT create-only.  The PUT may land
\* long after the lease was taken back, and may land and still be reported failed.
Upload(r, a) ==
  /\ up[r][a] = "upload"
  /\ \/ /\ ~nas[ReqClip[r]]
        /\ up' = [up EXCEPT ![r][a] = "local_missing"] /\ UNCHANGED <<r2, test>>
     \/ /\ nas[ReqClip[r]] /\ Object(r) = "none" /\ SetObject(r, "good")
        /\ \E out \in {"uploaded", "upload_failed"} : up' = [up EXCEPT ![r][a] = out]
     \/ /\ nas[ReqClip[r]] /\ Object(r) # "none"
        /\ up' = [up EXCEPT ![r][a] = "exists"] /\ UNCHANGED <<r2, test>>
     \/ /\ up' = [up EXCEPT ![r][a] = "upload_failed"] /\ UNCHANGED <<r2, test>>
  /\ UNCHANGED <<nas, purged, inv, purge, cleanupVars, req, handler, histVars>>

Current(r, a) == req[r].state = "leased" /\ req[r].attempts = a

\* The result handler up to its first check.  The client repeats a report whose
\* answer it did not get, so two handlers can serve the same attempt.
Report(s, r, a) ==
  /\ handler[s] = NoHandler /\ (s = 1 \/ handler[1] # NoHandler)
  /\ up[r][a] \in Outcomes /\ Current(r, a)
  /\ handler' = [handler EXCEPT ![s] =
       [phase |-> IF up[r][a] \in {"uploaded", "exists"} THEN "verify" ELSE "record",
        r |-> r, a |-> a,
        next |-> CASE up[r][a] = "local_missing" -> "failed"
                   [] up[r][a] = "upload_failed" -> "retry"
                   [] OTHER -> "unknown"]]
  /\ UNCHANGED <<copyVars, purge, cleanupVars, req, up, test, histVars>>

\* Mutant: the object is accepted without re-hashing its bytes.
VerdictUnhashed(r) == IF Object(r) = "none" THEN {"retry"} ELSE {"verified"}

\* verifyNASRestoreObject, outside any transaction.
Verdict(r) == {"retry"} \cup CASE Object(r) = "good" -> {"verified"}
                               [] Object(r) = "bad" -> {"mismatch"}
                               [] OTHER -> {}

Verify(s) ==
  /\ handler[s].phase = "verify"
  /\ \E verdict \in Verdict(handler[s].r) :
       handler' = [handler EXCEPT ![s].phase = IF verdict = "mismatch" THEN "mismatch" ELSE "record",
                                  ![s].next = IF verdict = "mismatch" THEN "failed" ELSE verdict]
  /\ UNCHANGED <<copyVars, purge, cleanupVars, req, up, test, histVars>>

\* nasRestoreMismatchDeletable, a read of its own: a test key, or a clip that is
\* still purged.
Deletable(s) ==
  LET r == handler[s].r IN
  /\ handler[s].phase = "mismatch"
  /\ handler' = [handler EXCEPT ![s].phase =
       IF r \in TestRequests \/ purged[ReqClip[r]] THEN "delete" ELSE "record"]
  /\ UNCHANGED <<copyVars, purge, cleanupVars, req, up, test, histVars>>

\* DeleteObjects of the mismatched key, whatever is there by now.
MismatchDelete(s) ==
  LET r == handler[s].r  c == ReqClip[r] IN
  /\ handler[s].phase = "delete"
  /\ \/ /\ SetObject(r, "none")
        /\ clobbered' = IF r \notin TestRequests /\ r2[c] = "good" THEN clobbered \cup {c} ELSE clobbered
        /\ handler' = [handler EXCEPT ![s].phase = "record", ![s].next = "retry"]
     \/ /\ handler' = [handler EXCEPT ![s].phase = "record"]        \* the delete failed
        /\ UNCHANGED <<r2, test, clobbered>>
  /\ UNCHANGED <<nas, purged, inv, purge, cleanupVars, req, up, bad, permits, waived, torn>>

\* The closing transaction, fenced by state and attempt: a verified original clears
\* purged_at, unless the retention trigger refuses and the transaction rolls back.
\* The object of a finished test request is deleted afterwards, best effort.
Record(s) ==
  LET r == handler[s].r  c == ReqClip[r]
      next == IF handler[s].next = "retry" THEN RetryState(r) ELSE handler[s].next
      restores == next = "verified" /\ r \notin TestRequests /\ purged[c]
      recorded == Current(r, handler[s].a) /\ ~(restores /\ Held(c))
  IN
  /\ handler[s].phase = "record"
  /\ handler' = [handler EXCEPT ![s] = NoHandler]
  /\ req' = IF recorded THEN [req EXCEPT ![r].state = next] ELSE req
  /\ purged' = IF recorded /\ restores THEN [purged EXCEPT ![c] = FALSE] ELSE purged
  /\ \/ UNCHANGED test
     \/ /\ recorded /\ r \in TestRequests /\ next # "pending"
        /\ test' = [test EXCEPT ![r] = "none"]
  /\ UNCHANGED <<r2, nas, inv, purge, cleanupVars, up, histVars>>

\* The API process stops: its handlers are gone.
ServerCrash ==
  /\ \E s \in Slots : handler[s] # NoHandler
  /\ handler' = [s \in Slots |-> NoHandler]
  /\ UNCHANGED <<copyVars, purge, cleanupVars, req, up, test, histVars>>

\* External: other bytes appear at the key of a purged clip.
Corrupt(c) ==
  /\ purged[c] /\ r2[c] = "none" /\ bad < MaxBad
  /\ r2' = [r2 EXCEPT ![c] = "bad"] /\ bad' = bad + 1
  /\ UNCHANGED <<nas, purged, inv, purge, cleanupVars, restoreVars, permits, waived, torn, clobbered>>

-----------------------------------------------------------------------------
PurgeStep == PurgeScan \/ PurgeLock \/ PurgeDelete \/ PurgeCommit \/ PurgeAbort

CleanupStep ==
  \/ CleanupCreate \/ ControlEnable \/ ControlPause \/ ControlDryRun
  \/ CleanupLease \/ ClientCrash
  \/ \E c \in PlanClips : Prove(c) \/ ObserveRecord(c) \/ ObserveAgain(c) \/ Unlink(c) \/ CleanupResult(c)

RestoreStep ==
  \/ RestoreLease \/ ServerCrash
  \/ \E r \in Requests : RequestRestore(r) \/ CancelRestore(r)
  \/ \E r \in Requests, a \in 1..MaxRestore : Upload(r, a) \/ \E s \in Slots : Report(s, r, a)
  \/ \E s \in Slots : Verify(s) \/ Deletable(s) \/ MismatchDelete(s) \/ Record(s)

Next == PurgeStep \/ CleanupStep \/ RestoreStep \/ InventoryScan \/ \E c \in Clips : Corrupt(c)

Spec == Init /\ [][Next]_vars

-----------------------------------------------------------------------------
(* Properties *)

\* Purge, cleanup and restore together never remove the last copy of a clip: the
\* object or the file is there, unless the operator allowed a NAS-only deletion or
\* a mismatch delete hit a good object (MismatchDeleteSafe).
LastCopy == \A c \in Clips : r2[c] = "good" \/ nas[c] \/ c \in waived \cup clobbered

\* A clip the database offers for download has its object, unless a purge died
\* between its deletes and its commit (the next run completes it).
LiveHasObject ==
  \A c \in Clips \ purge.locked : ~purged[c] => r2[c] = "good" \/ c \in torn \cup clobbered

\* At most one delete permit is ever issued for an item, over lost answers,
\* replays, crashes, pauses and renewed approvals.
OnePermit == \A c \in PlanClips : permits[c] <= 1

\* A test object marked as deleted stays deleted: no late upload brings it back.
SweptStaysGone == \A r \in Requests : req[r].swept => test[r] = "none"

\* What nasRestoreMismatchDeletable promises: an original key is deleted only while
\* its clip is purged, when the store must not hold the clip's bytes.
MismatchDeleteSafe == \A c \in clobbered : purged[c]
=============================================================================
