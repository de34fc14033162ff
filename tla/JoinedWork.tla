----------------------------- MODULE JoinedWork -----------------------------
(***************************************************************************)
(* The joined-recording control plane: a frozen batch of stream days, each  *)
(* with an allocation ledger and its delivery hours, is worked off by       *)
(* remote workers under fenced leases.  A worker claims an hour, builds its *)
(* media, seals the hour, uploads the media and the hour manifest with      *)
(* create-only PUTs and finalizes the publication; ledgers and the batch    *)
(* index are published the same way.  When an hour is published the minute  *)
(* clips it was built from may be purged from the store.                    *)
(*                                                                          *)
(* One module for the handlers of internal/api/server_recording_joined_*,   *)
(* the worker loop of cmd/stoaramactl/recording_joined_service.go with      *)
(* internal/joinedrecording, and joined_source_purge.go.                    *)
(*                                                                          *)
(* Time is abstract: a lease is "fresh" until it Ages, and only a lease     *)
(* that aged without a heartbeat can expire.  A token is the attempt number *)
(* it was issued for, because every claim increments the attempt.           *)
(***************************************************************************)
EXTENDS Naturals, FiniteSets

CONSTANTS
  Days,          \* stream days of the batch
  Hours,         \* delivery hours
  DayOf,         \* [Hours -> Days]
  GapHours,      \* hours without any source clip
  CanaryHours,   \* hours named in the canary scope
  Legacy,        \* artifacts that may be on the legacy deny set
  Workers,       \* worker processes
  Room,          \* [Workers -> SUBSET Hours]: hours a worker's scratch has room for
  Cap,           \* joined active-task cap
  MaxAttempts    \* joinedMaxAttempts (8 in the code)

ASSUME JoinedAssumption ==
  /\ IsFiniteSet(Days) /\ IsFiniteSet(Hours)
  /\ DayOf \in [Hours -> Days]
  /\ GapHours \subseteq Hours
  /\ CanaryHours \subseteq Hours
  /\ Room \in [Workers -> SUBSET Hours]
  /\ Cap \in Nat \ {0}
  /\ MaxAttempts \in Nat \ {0}

Hour(h)     == <<"hour", h>>
Ledger(d)   == <<"ledger", d>>
Manifest(h) == <<"manifest", h>>
Index       == <<"index", "batch">>

HourTasks     == {Hour(h) : h \in Hours}
LedgerTasks   == {Ledger(d) : d \in Days}
ManifestTasks == {Manifest(h) : h \in Hours}
Artifacts     == LedgerTasks \cup ManifestTasks \cup {Index}
Tasks         == HourTasks \cup Artifacts

\* An object of the output store: an artifact's, or the media of an hour.
Media(h) == <<"media", h>>
Objects  == Artifacts \cup {Media(h) : h \in Hours}

ASSUME LegacyAssumption == Legacy \subseteq Artifacts

NoTask == [task |-> <<"none", "none">>, attempt |-> 0, phase |-> "idle"]

VARIABLES
  batch,      \* recording_joined_batches.state
  scope,      \* the configured work scope
  st,         \* hours.state / artifacts.publication_state
  lease,      \* "none", "fresh", "aging" or "expired"
  attempt,    \* attempt_count / publication_attempt_count, names the token
  failure,    \* worker_failures row of the current attempt
  finalized,  \* finalized_token of a published artifact, 0 when absent
  grant,      \* unconsumed exact-retry grant for the current attempt
  auth,       \* scopes a gap-only manifest is authorized for
  admission,  \* [paused, expected]: recording_joined_admission_controls
  stored,     \* objects present in the output store
  worker,     \* what each worker process believes it holds
  inflight,   \* finalize requests past their storage check, not committed
  admitted,   \* claims committed since the last admission command (history)
  source,     \* [Hours -> "present" | "absent"]: source clip objects
  purge,      \* progress of the purge of an hour's source clips
  denied      \* the deny set: artifacts the frozen scope does not publish

admVars  == <<admission, admitted>>
keepVars == <<source, purge, denied>>
taskVars == <<st, lease, attempt, failure>>
vars == <<batch, scope, st, lease, attempt, failure, finalized, grant, auth,
          admission, stored, worker, inflight, admitted, source, purge, denied>>

HourStates     == {"pending", "leased", "sealed", "terminal_failed"}
ArtifactStates == {"absent", "sealed", "publishing", "published", "terminal_failed"}
Scopes         == {"canary", "frozen_batch"}
Claims         == {<<t, n>> : t \in Tasks, n \in 1..MaxAttempts}
Phases         == {"build", "put", "wait"}

TypeOK ==
  /\ batch \in {"frozen", "index_sealed", "published"}
  /\ scope \in Scopes
  /\ st \in [Tasks -> HourStates \cup ArtifactStates]
  /\ lease \in [Tasks -> {"none", "fresh", "aging", "expired"}]
  /\ attempt \in [Tasks -> 0..MaxAttempts]
  /\ failure \in [Tasks -> {"none", "backoff", "due", "terminal"}]
  /\ finalized \in [Artifacts -> 0..MaxAttempts]
  /\ grant \in [Hours -> BOOLEAN]
  /\ auth \in [Hours -> SUBSET Scopes]
  /\ admission \in [paused : BOOLEAN, armed : BOOLEAN, expected : SUBSET Claims]
  /\ stored \subseteq Objects
  /\ worker \in [Workers -> [task : Tasks \cup {NoTask.task}, attempt : 0..MaxAttempts,
                             phase : Phases \cup {"idle"}]]
  /\ inflight \subseteq Claims
  /\ admitted \in 0..2
  /\ source \in [Hours -> {"present", "absent"}]
  /\ purge \in [Hours -> {"none", "marked", "purged"}]
  /\ denied \subseteq Legacy

Init ==
  /\ batch = "frozen"
  /\ scope = "canary"
  /\ st = [t \in Tasks |-> CASE t \in HourTasks -> "pending"
                             [] t \in LedgerTasks -> "sealed"
                             [] OTHER -> "absent"]
  /\ lease = [t \in Tasks |-> "none"]
  /\ attempt = [t \in Tasks |-> 0]
  /\ failure = [t \in Tasks |-> "none"]
  /\ finalized = [a \in Artifacts |-> 0]
  /\ grant = [h \in Hours |-> FALSE]
  /\ auth = [h \in Hours |-> {}]
  /\ admission = [paused |-> FALSE, armed |-> FALSE, expected |-> {}]
  /\ stored = {}
  /\ worker = [w \in Workers |-> NoTask]
  /\ inflight = {}
  /\ admitted = 0
  /\ source = [h \in Hours |-> IF h \in GapHours THEN "absent" ELSE "present"]
  /\ purge = [h \in Hours |-> "none"]
  /\ denied \in SUBSET Legacy

-----------------------------------------------------------------------------
(* Leases *)

Held(t)     == st[t] \in {"leased", "publishing"}
Live(t)     == lease[t] \in {"fresh", "aging"}
ActiveTasks == {t \in Tasks : Held(t) /\ Live(t)}
\* The identities behind active_claims_sha256.
ActiveClaims == {<<t, attempt[t]>> : t \in ActiveTasks}
\* The caller's token is the live token of t.
Fenced(t, n) == Held(t) /\ Live(t) /\ attempt[t] = n

\* Mutant: the cap counts preflight leases only.
SlotAvailableHours == Cardinality(ActiveTasks \cap HourTasks) < Cap

\* The active-task cap, read under the lock of the batch row.
SlotAvailable == Cardinality(ActiveTasks) < Cap

\* Claim admission: open, or one claim while the active set is the expected one.
OneShot == admission.paused /\ admission.armed
Admits  == ~admission.paused \/ (OneShot /\ admission.expected = ActiveClaims)

\* Mutant: a one-shot is not consumed.
AdmitUnconsumed ==
  /\ UNCHANGED admission
  /\ admitted' = IF admission.paused /\ admitted < 2 THEN admitted + 1 ELSE admitted

\* The control row after an admitted claim: a one-shot is consumed.
Admit ==
  /\ admission' = IF OneShot THEN [admission EXCEPT !.armed = FALSE, !.expected = {}]
                  ELSE admission
  /\ admitted' = IF admission.paused /\ admitted < 2 THEN admitted + 1 ELSE admitted

\* A claim found the active set changed: the one-shot is withdrawn.
AdmissionFence ==
  /\ OneShot
  /\ admission.expected # ActiveClaims
  /\ admission' = [paused |-> TRUE, armed |-> FALSE, expected |-> {}]
  /\ UNCHANGED <<batch, scope, taskVars, finalized, grant, auth, stored, worker,
                 inflight, admitted, keepVars>>

InScope(h) == scope = "frozen_batch" \/ h \in CanaryHours
LedgerPublished(h) == st[Ledger(DayOf[h])] = "published"
BackingOff(t) == failure[t] = "backoff"

\* joined_exact_retry_available: an expired, failed, output-free attempt with a grant.
ExactRetry(h) ==
  /\ st[Hour(h)] = "leased" /\ lease[Hour(h)] = "expired"
  /\ failure[Hour(h)] = "due"
  /\ grant[h]

\* What the hour claim of w selects.  In the frozen scope an attempt that is not the
\* first, or that reported a failure, waits for an operator.
HourClaimable(w, h) ==
  /\ batch = "frozen" /\ h \notin GapHours /\ InScope(h) /\ LedgerPublished(h)
  /\ h \in Room[w]
  /\ attempt[Hour(h)] < MaxAttempts
  /\ ~BackingOff(Hour(h))
  /\ IF scope = "canary"
     THEN st[Hour(h)] = "pending" \/ (st[Hour(h)] = "leased" /\ lease[Hour(h)] = "expired")
     ELSE \/ ExactRetry(h)
          \/ st[Hour(h)] = "pending" /\ attempt[Hour(h)] = 0
          \/ /\ st[Hour(h)] = "leased" /\ lease[Hour(h)] = "expired"
             /\ attempt[Hour(h)] = 1 /\ failure[Hour(h)] = "none"

GapAuthorized(h) == h \notin GapHours \/ scope \in auth[h]

\* The deny set binds in the frozen scope only.
Barred(a) == scope = "frozen_batch" /\ a \in denied

\* What the publication claim of w selects.
ArtifactClaimable(w, a) ==
  /\ batch \in {"frozen", "index_sealed"}
  /\ ~Barred(a)
  /\ attempt[a] < MaxAttempts
  /\ ~BackingOff(a)
  /\ st[a] = "sealed" \/ (st[a] = "publishing" /\ lease[a] = "expired")
  /\ CASE a \in LedgerTasks -> \E h \in Hours : a = Ledger(DayOf[h]) /\ InScope(h)
       [] a \in ManifestTasks -> \E h \in Room[w] : /\ a = Manifest(h) /\ InScope(h)
                                                   /\ LedgerPublished(h) /\ GapAuthorized(h)
       [] a = Index -> scope = "frozen_batch" /\ \A h \in Hours : GapAuthorized(h)

\* A committed claim: a new attempt, a new token, a fresh lease.  The answer may
\* be lost, and then no worker knows of the lease.
Lease(w, t, state, phase) ==
  /\ st' = [st EXCEPT ![t] = state]
  /\ lease' = [lease EXCEPT ![t] = "fresh"]
  /\ attempt' = [attempt EXCEPT ![t] = @ + 1]
  /\ failure' = [failure EXCEPT ![t] = "none"]
  /\ \/ worker' = [worker EXCEPT ![w] = [task |-> t, attempt |-> attempt[t] + 1, phase |-> phase]]
     \/ UNCHANGED worker

ClaimHour(w, h) ==
  /\ worker[w].phase = "idle"
  /\ Admits /\ SlotAvailable /\ HourClaimable(w, h)
  /\ Lease(w, Hour(h), "leased", "build")
  /\ Admit
  /\ grant' = [grant EXCEPT ![h] = FALSE]
  /\ UNCHANGED <<batch, scope, finalized, auth, stored, inflight, keepVars>>

\* Ledgers are claimed before manifests, manifests before the index.
ClaimOrder(a) == CASE a \in LedgerTasks -> 0 [] a \in ManifestTasks -> 1 [] OTHER -> 2

ClaimPublication(w, a) ==
  /\ worker[w].phase = "idle"
  /\ Admits /\ SlotAvailable /\ ArtifactClaimable(w, a)
  /\ \A b \in Artifacts : ArtifactClaimable(w, b) => ClaimOrder(a) <= ClaimOrder(b)
  /\ Lease(w, a, "publishing", IF a \in ManifestTasks THEN "build" ELSE "put")
  /\ Admit
  /\ UNCHANGED <<batch, scope, finalized, grant, auth, stored, inflight, keepVars>>

-----------------------------------------------------------------------------
(* Time *)

Age(t) ==
  /\ lease[t] = "fresh"
  /\ lease' = [lease EXCEPT ![t] = "aging"]
  /\ UNCHANGED <<batch, scope, st, attempt, failure, finalized, grant, auth, admVars,
                 stored, worker, inflight, keepVars>>

Expire(t) ==
  /\ lease[t] = "aging"
  /\ lease' = [lease EXCEPT ![t] = "expired"]
  /\ UNCHANGED <<batch, scope, st, attempt, failure, finalized, grant, auth, admVars,
                 stored, worker, inflight, keepVars>>

\* The backoff of a reported failure is counted from the end of its lease.
BackoffElapses(t) ==
  /\ failure[t] = "backoff" /\ lease[t] = "expired"
  /\ failure' = [failure EXCEPT ![t] = "due"]
  /\ UNCHANGED <<batch, scope, st, lease, attempt, finalized, grant, auth, admVars,
                 stored, worker, inflight, keepVars>>

-----------------------------------------------------------------------------
(* The worker's task and the handlers it calls *)

\* Scope conditions a publication token is re-checked against at every use.
ScopeAllows(t) ==
  /\ \A h \in Hours : t = Manifest(h) => GapAuthorized(h)
  /\ t = Index => scope = "frozen_batch" /\ \A h \in Hours : GapAuthorized(h)

\* The row renewed by a heartbeat: the token is current and not yet expired.
Renewable(t, n) == Fenced(t, n) /\ ScopeAllows(t)

Heartbeat(w) ==
  LET t == worker[w].task IN
  /\ worker[w].phase # "idle"
  /\ lease[t] # "fresh"
  /\ Renewable(t, worker[w].attempt)
  /\ lease' = [lease EXCEPT ![t] = "fresh"]
  /\ UNCHANGED <<batch, scope, st, attempt, failure, finalized, grant, auth, admVars,
                 stored, worker, inflight, keepVars>>

SealHour(w) ==
  \E h \in Hours :
    /\ worker[w].task = Hour(h) /\ worker[w].phase = "build"
    /\ source[h] = "present"
    /\ batch = "frozen" /\ Fenced(Hour(h), worker[w].attempt) /\ LedgerPublished(h)
    /\ st' = [st EXCEPT ![Hour(h)] = "sealed", ![Manifest(h)] = "publishing"]
    /\ lease' = [lease EXCEPT ![Hour(h)] = "none", ![Manifest(h)] = "fresh"]
    /\ attempt' = [attempt EXCEPT ![Manifest(h)] = 1]
    /\ \/ worker' = [worker EXCEPT ![w] = [task |-> Manifest(h), attempt |-> 1, phase |-> "put"]]
       \/ UNCHANGED worker                                      \* the answer is lost
    /\ UNCHANGED <<batch, scope, failure, finalized, grant, auth, admVars, stored,
                   inflight, keepVars>>

\* A reclaimed publication rebuilds the media from the source clips.
Rebuild(w) ==
  \E h \in Hours :
    /\ worker[w].task = Manifest(h) /\ worker[w].phase = "build"
    /\ h \in GapHours \/ source[h] = "present"
    /\ worker' = [worker EXCEPT ![w].phase = "put"]
    /\ UNCHANGED <<batch, scope, taskVars, finalized, grant, auth, admVars, stored,
                   inflight, keepVars>>

\* Create-only PUTs in order: the media of the hour, then the root document.
\* The presigned URL outlives the lease, so the PUT may come late.
Remaining(t) == ({Media(h) : h \in {k \in Hours \ GapHours : t = Manifest(k)}} \cup {t}) \ stored

Put(w) ==
  LET t == worker[w].task IN
  /\ worker[w].phase = "put"
  /\ Remaining(t) # {}
  /\ \E o \in Remaining(t) : /\ o = t => Remaining(t) = {t}
                             /\ stored' = stored \cup {o}
  /\ UNCHANGED <<batch, scope, taskVars, finalized, grant, auth, admVars, worker,
                 inflight, keepVars>>

\* The token may finalize a: it is the live one, or the one that published a.
MayFinalize(a, n) == Fenced(a, n) \/ (st[a] = "published" /\ finalized[a] = n)

\* Mutant: the storage check is skipped.
FinalizeCheckUnstored(w) ==
  LET a == worker[w].task  n == worker[w].attempt IN
  /\ worker[w].phase = "put"
  /\ MayFinalize(a, n) /\ ScopeAllows(a)
  /\ inflight' = inflight \cup {<<a, n>>}
  /\ worker' = [worker EXCEPT ![w].phase = "wait"]
  /\ UNCHANGED <<batch, scope, taskVars, finalized, grant, auth, admVars, stored, keepVars>>

\* The finalize handler up to its storage check, which runs outside the transaction.
FinalizeCheck(w) ==
  LET a == worker[w].task  n == worker[w].attempt IN
  /\ worker[w].phase = "put"
  /\ MayFinalize(a, n) /\ ScopeAllows(a) /\ Remaining(a) = {}
  /\ inflight' = inflight \cup {<<a, n>>}
  /\ worker' = [worker EXCEPT ![w].phase = "wait"]
  /\ UNCHANGED <<batch, scope, taskVars, finalized, grant, auth, admVars, stored, keepVars>>

\* Gap-only hours the finalize of a ledger seals, within the current scope.
GapSealed(a) == {h \in GapHours : /\ a = Ledger(DayOf[h]) /\ InScope(h)
                                  /\ batch = "frozen" /\ st[Hour(h)] = "pending"}

\* Mutant: the transaction relies on the earlier check of the token.
CommitAllowedAnyToken(a, n) == Held(a) /\ Live(a)

\* The transaction's own test of the token, under the row lock.
CommitAllowed(a, n) == Fenced(a, n)

\* The finalize transaction: publish, and for a ledger seal its gap-only hours.
Publish(a, n) ==
  LET gaps == GapSealed(a) IN
  /\ st' = [t \in Tasks |->
       CASE t = a -> "published"
         [] \E h \in gaps : t \in {Hour(h), Manifest(h)} -> "sealed"
         [] OTHER -> st[t]]
  /\ lease' = [lease EXCEPT ![a] = "none"]
  /\ finalized' = [finalized EXCEPT ![a] = n]
  /\ auth' = [h \in Hours |-> IF h \in gaps THEN auth[h] \cup {scope} ELSE auth[h]]
  /\ batch' = IF a = Index THEN "published" ELSE batch

\* A replay of the request that published a ledger seals the gap hours of a wider scope.
Replay(a) ==
  LET gaps == GapSealed(a) IN
  /\ st' = [t \in Tasks |-> IF \E h \in gaps : t \in {Hour(h), Manifest(h)} THEN "sealed" ELSE st[t]]
  /\ auth' = [h \in Hours |-> IF h \in gaps THEN auth[h] \cup {scope} ELSE auth[h]]
  /\ UNCHANGED <<lease, finalized, batch>>

\* Who waits for the answer to a finalize request, if anyone still does.
Waiting(c) == {w \in Workers : worker[w] = [task |-> c[1], attempt |-> c[2], phase |-> "wait"]}

FinalizeCommit(c) ==
  /\ c \in inflight
  /\ ScopeAllows(c[1])
  /\ \/ CommitAllowed(c[1], c[2]) /\ Publish(c[1], c[2])
     \/ st[c[1]] = "published" /\ finalized[c[1]] = c[2] /\ Replay(c[1])
  /\ inflight' = inflight \ {c}
  /\ \/ worker' = [w \in Workers |-> IF w \in Waiting(c) THEN NoTask ELSE worker[w]]
     \/ Waiting(c) # {} /\ UNCHANGED worker                 \* the answer is lost
  /\ UNCHANGED <<scope, attempt, failure, grant, admVars, stored, keepVars>>

FinalizeReject(c) ==
  /\ c \in inflight
  /\ \/ ~ScopeAllows(c[1])
     \/ ~CommitAllowed(c[1], c[2]) /\ ~(st[c[1]] = "published" /\ finalized[c[1]] = c[2])
  /\ inflight' = inflight \ {c}
  /\ UNCHANGED <<batch, scope, taskVars, finalized, grant, auth, admVars, stored, worker, keepVars>>

\* An error, a deadline or a lost answer ends the task, and the report of it
\* carries the current token of a live lease.  A finalize request the worker gave
\* up on may still be under way.  A retryable failure keeps the lease; the last
\* attempt is terminal.
ReportFailure(w) ==
  LET t == worker[w].task IN
  /\ worker[w].phase # "idle"
  /\ Fenced(t, worker[w].attempt) /\ ScopeAllows(t)
  /\ \/ failure[t] # "none" /\ UNCHANGED taskVars
     \/ /\ failure[t] = "none"        \* a deterministic class, or the last attempt
        /\ st' = [st EXCEPT ![t] = "terminal_failed"]
        /\ lease' = [lease EXCEPT ![t] = "none"]
        /\ failure' = [failure EXCEPT ![t] = "terminal"]
        /\ UNCHANGED attempt
     \/ /\ failure[t] = "none" /\ attempt[t] < MaxAttempts
        /\ failure' = [failure EXCEPT ![t] = "backoff"]
        /\ UNCHANGED <<st, lease, attempt>>
  /\ worker' = [worker EXCEPT ![w] = NoTask]
  /\ UNCHANGED <<batch, scope, finalized, grant, auth, admVars, stored, inflight, keepVars>>

\* The report of a failure was refused or lost, or the process died without one.
Abandon(w) ==
  /\ worker[w].phase # "idle"
  /\ worker' = [worker EXCEPT ![w] = NoTask]
  /\ UNCHANGED <<batch, scope, taskVars, finalized, grant, auth, admVars, stored,
                 inflight, keepVars>>

\* Mutant: off by one, the last attempt is never recorded as exhausted.
ExhaustedLate(t) == Held(t) /\ lease[t] = "expired" /\ attempt[t] > MaxAttempts

\* recordJoinedExpiredAttemptEvidence: the last attempt expired without a report.
Exhausted(t) ==
  /\ Held(t) /\ lease[t] = "expired" /\ attempt[t] >= MaxAttempts /\ ~Barred(t)
  /\ \/ t \in HourTasks /\ \E h \in Hours : t = Hour(h) /\ InScope(h)
     \/ t \in LedgerTasks /\ \E h \in Hours : t = Ledger(DayOf[h]) /\ InScope(h)
     \/ t \in ManifestTasks /\ (\E h \in Hours : t = Manifest(h) /\ InScope(h)) /\ ScopeAllows(t)
     \/ t = Index /\ ScopeAllows(t)

ExpireEvidence ==
  /\ \E t \in Tasks : Exhausted(t)
  /\ st' = [t \in Tasks |-> IF Exhausted(t) THEN "terminal_failed" ELSE st[t]]
  /\ lease' = [t \in Tasks |-> IF Exhausted(t) THEN "none" ELSE lease[t]]
  /\ failure' = [t \in Tasks |-> IF Exhausted(t) THEN "terminal" ELSE failure[t]]
  /\ UNCHANGED <<batch, scope, attempt, finalized, grant, auth, admVars, stored, worker,
                 inflight, keepVars>>

-----------------------------------------------------------------------------
(* Operator commands *)

SetAdmission(control) ==
  /\ admission' = control
  /\ admitted' = 0
  /\ UNCHANGED <<batch, scope, taskVars, finalized, grant, auth, stored, worker,
                 inflight, keepVars>>

PauseClaims  == ~admission.paused /\ SetAdmission([paused |-> TRUE, armed |-> FALSE, expected |-> {}])
ResumeClaims == admission.paused /\ SetAdmission([paused |-> FALSE, armed |-> FALSE, expected |-> {}])
\* One new claim while paused, bound to the active set the operator saw.
ArmOneShot   == /\ admission.paused /\ ~admission.armed
                /\ SetAdmission([paused |-> TRUE, armed |-> TRUE, expected |-> ActiveClaims])

\* A deploy widens the configured scope from the canary hours to the batch.
PromoteScope ==
  /\ scope = "canary"
  /\ scope' = "frozen_batch"
  /\ UNCHANGED <<batch, taskVars, finalized, grant, auth, admVars, stored, worker,
                 inflight, keepVars>>

GrantRetry(h) ==
  /\ scope = "frozen_batch" /\ batch = "frozen" /\ h \notin GapHours
  /\ st[Hour(h)] = "leased" /\ lease[Hour(h)] = "expired" /\ failure[Hour(h)] = "due"
  /\ ~grant[h]
  /\ grant' = [grant EXCEPT ![h] = TRUE]
  /\ UNCHANGED <<batch, scope, taskVars, finalized, auth, admVars, stored, worker,
                 inflight, keepVars>>

\* A gap-only manifest sealed under the canary scope is authorized for the batch.
AuthorizeGap(h) ==
  /\ scope = "frozen_batch" /\ batch = "frozen" /\ h \in GapHours
  /\ st[Manifest(h)] \in {"sealed", "published"} /\ LedgerPublished(h)
  /\ admission.paused /\ ActiveTasks = {}
  /\ "frozen_batch" \notin auth[h]
  /\ auth' = [auth EXCEPT ![h] = @ \cup {"frozen_batch"}]
  /\ UNCHANGED <<batch, scope, taskVars, finalized, grant, admVars, stored, worker,
                 inflight, keepVars>>

\* Mutant: gap-only hours are not waited for.
IndexReadySources ==
  /\ \A d \in Days : st[Ledger(d)] = "published"
  /\ \A h \in Hours : st[Hour(h)] = "sealed" /\ (h \in GapHours \/ st[Manifest(h)] = "published")

\* loadJoinedCanonicalBatchIndex: every ledger and every manifest is published.
IndexReady ==
  /\ \A d \in Days : st[Ledger(d)] = "published"
  /\ \A h \in Hours : st[Hour(h)] = "sealed" /\ st[Manifest(h)] = "published"

SealIndex ==
  /\ scope = "frozen_batch" /\ batch = "frozen" /\ IndexReady
  /\ \A h \in GapHours : "frozen_batch" \in auth[h]
  /\ batch' = "index_sealed"
  /\ st' = [st EXCEPT ![Index] = "sealed"]
  /\ UNCHANGED <<scope, lease, attempt, failure, finalized, grant, auth, admVars, stored,
                 worker, inflight, keepVars>>

-----------------------------------------------------------------------------
(* Purge of the source clips of a published hour *)

\* The candidate query, the HEAD of the joined media and the retention trigger.
\* A retention hold or a missing NAS copy can only withhold a purge, and no purge
\* is ever forced.
Purgeable(h) ==
  /\ h \notin GapHours
  /\ st[Hour(h)] = "sealed" /\ st[Manifest(h)] = "published"
  /\ Media(h) \in stored

\* purged_at is set in a transaction that stays open until the object is deleted.
PurgeMark(h) ==
  /\ purge[h] = "none" /\ Purgeable(h)
  /\ purge' = [purge EXCEPT ![h] = "marked"]
  /\ UNCHANGED <<batch, scope, taskVars, finalized, grant, auth, admVars, stored, worker,
                 inflight, source, denied>>

\* A crash or an error rolls purged_at back, before or after the delete.
PurgeAbort(h) ==
  /\ purge[h] = "marked"
  /\ purge' = [purge EXCEPT ![h] = "none"]
  /\ UNCHANGED <<batch, scope, taskVars, finalized, grant, auth, admVars, stored, worker,
                 inflight, source, denied>>

PurgeDelete(h) ==
  /\ purge[h] = "marked" /\ source[h] = "present"
  /\ source' = [source EXCEPT ![h] = "absent"]
  /\ UNCHANGED <<batch, scope, taskVars, finalized, grant, auth, admVars, stored, worker,
                 inflight, purge, denied>>

PurgeCommit(h) ==
  /\ purge[h] = "marked" /\ source[h] = "absent"
  /\ purge' = [purge EXCEPT ![h] = "purged"]
  /\ UNCHANGED <<batch, scope, taskVars, finalized, grant, auth, admVars, stored, worker,
                 inflight, source, denied>>

-----------------------------------------------------------------------------
ServerStep ==
  \/ AdmissionFence \/ ExpireEvidence
  \/ \E t \in Tasks : Age(t) \/ Expire(t) \/ BackoffElapses(t)
  \/ \E c \in Claims : FinalizeCommit(c) \/ FinalizeReject(c)

WorkerStep ==
  \E w \in Workers :
    \/ \E h \in Hours : ClaimHour(w, h)
    \/ \E a \in Artifacts : ClaimPublication(w, a)
    \/ Heartbeat(w) \/ SealHour(w) \/ Rebuild(w) \/ Put(w)
    \/ FinalizeCheck(w) \/ ReportFailure(w) \/ Abandon(w)

OperatorStep ==
  \/ PauseClaims \/ ResumeClaims \/ ArmOneShot \/ PromoteScope \/ SealIndex
  \/ \E h \in Hours : GrantRetry(h) \/ AuthorizeGap(h)

PurgeStep ==
  \E h \in Hours : PurgeMark(h) \/ PurgeAbort(h) \/ PurgeDelete(h) \/ PurgeCommit(h)

Next == ServerStep \/ WorkerStep \/ OperatorStep \/ PurgeStep

Spec == Init /\ [][Next]_vars

\* The steps a worker process and the server take by themselves.  A task ends,
\* because the worker bounds it with a deadline; a lease that is not renewed
\* expires; idle workers poll for claims; maintenance runs.
TaskStep(w) == SealHour(w) \/ Rebuild(w) \/ Put(w) \/ FinalizeCheck(w) \/ ReportFailure(w) \/ Abandon(w)

FairSpec ==
  /\ Spec
  /\ \A t \in Tasks : WF_vars(Age(t)) /\ WF_vars(Expire(t)) /\ WF_vars(BackoffElapses(t))
  /\ \A c \in Claims : WF_vars(FinalizeCommit(c) \/ FinalizeReject(c))
  /\ WF_vars(ExpireEvidence)
  /\ \A w \in Workers : /\ WF_vars(TaskStep(w))
                        /\ WF_vars(\E h \in Hours : ClaimHour(w, h))
                        /\ WF_vars(\E a \in Artifacts : ClaimPublication(w, a))

-----------------------------------------------------------------------------
(* Safety *)

\* The claim handlers keep the number of live leases, preflight and publication
\* together, within the configured cap, whatever expires, renews or seals between.
ActiveWithinCap == Cardinality(ActiveTasks) <= Cap

\* A published document is in the store, with the media of its hour; a sealed
\* batch index refers to published documents only, each gap-only one authorized
\* for the whole batch; the batch is published exactly when its index is.
PublishedComplete ==
  /\ \A a \in Artifacts : st[a] = "published" => Remaining(a) = {}
  /\ batch # "frozen" => IndexReady /\ \A h \in GapHours : "frozen_batch" \in auth[h]
  /\ batch = "published" <=> st[Index] = "published"

\* A late finalize of a superseded attempt never publishes: the token recorded is
\* that of the last attempt, and the row holds no lease any more.
FinalizeFenced ==
  \A a \in Artifacts : st[a] = "published" => finalized[a] = attempt[a] /\ lease[a] = "none"

\* While claims are paused at most one claim is admitted per operator command,
\* and none before a one-shot was armed and is still armed.
PausedAdmitsAtMostOne ==
  admission.paused => admitted <= 1 /\ (admission.armed => admitted = 0)

\* The control plane implements the batch promise: publication is once, in order,
\* and source clips are released last.
Batch == INSTANCE JoinedBatch WITH
           published <- {a \in Artifacts : st[a] = "published"},
           released  <- {h \in Hours : source[h] = "absent"}
BatchSpec == Batch!Spec

-----------------------------------------------------------------------------
(* Liveness *)

\* In the frozen scope an attempt past the first, or one that reported a failure,
\* is handed to the operator.
AwaitsOperator(h) ==
  /\ scope = "frozen_batch" /\ st[Hour(h)] = "leased" /\ lease[Hour(h)] = "expired"
  /\ attempt[Hour(h)] > 1 \/ failure[Hour(h)] # "none"

Settled(h) ==
  \/ st[Manifest(h)] \in {"published", "terminal_failed"}
  \/ "terminal_failed" \in {st[Hour(h)], st[Ledger(DayOf[h])]}
  \/ AwaitsOperator(h)

\* Hours the service can work off by itself: some worker has room for the sources, and
\* no document of the hour is on the deny set of a frozen batch.
Workable(h) ==
  (\E w \in Workers : h \in Room[w]) /\ ~Barred(Ledger(DayOf[h])) /\ ~Barred(Manifest(h))

\* Unless claims stay paused, every hour with sources that can be worked off is
\* published, ends in a terminal failure or waits for the operator, over lost answers
\* and crashes, also of the hours that cannot.
HoursSettle ==
  <>[]~admission.paused =>
    \A h \in CanaryHours \ GapHours : []<>(Workable(h) => Settled(h))

\* A lease whose claim answer was lost, and which no worker knows of.
Unseen(h) ==
  /\ st[Hour(h)] = "leased" /\ lease[Hour(h)] = "expired" /\ failure[Hour(h)] = "none"
  /\ \A w \in Workers : worker[w].task # Hour(h) \/ worker[w].attempt # attempt[Hour(h)]

\* What the worker loop says of a claim whose answer it never received: the unseen
\* fenced lease expires and becomes reclaimable through the normal path.
UnseenLeaseReclaimable ==
  \A h \in Hours : Unseen(h) ~> ((\E w \in Workers : HourClaimable(w, h)) \/ ~Unseen(h))
=============================================================================
