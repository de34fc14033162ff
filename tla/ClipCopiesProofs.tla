-------------------------- MODULE ClipCopiesProofs --------------------------
(***************************************************************************)
(* Why purge, cleanup and restore never take the last copy of a clip, for  *)
(* any number of clips, requests, attempts and operator commands.          *)
(*                                                                         *)
(* A file goes from the NAS under a permit only, and an item that has one  *)
(* holds its clip for good: it is never planned again (OnePermit), and the *)
(* purge cannot have the clip locked (PermitHolds).  A clip the purge has  *)
(* locked is not being restored (LockedAlone), so what a restore verified  *)
(* is still there when it clears purged_at (VerifiedStays).                *)
(***************************************************************************)
EXTENDS ClipCopies, TLAPS

-----------------------------------------------------------------------------
(* The inductive invariant: types, then what each program promises alone,  *)
(* then what they promise each other.                                      *)

Purges   == [batches : Seq(SUBSET Clips), locked : SUBSET Clips,
             failed : SUBSET Clips, phase : {"idle", "locked", "deleted"}]
Plans    == [mode : PlanModes, allow : BOOLEAN, runs : 0..MaxRuns]
Items    == [state : ItemStates, attempt : CleanupAttempts, recovery : Recoveries,
             proof : BOOLEAN, observed : CleanupAttempts, issued : BOOLEAN]
Receipts == [phase : ClientPhases, attempt : CleanupAttempts, match : BOOLEAN]
Rows     == [state : {"none", "pending", "leased", "verified", "failed", "canceled"},
             attempts : 0..MaxRestore, swept : BOOLEAN]
Uploads  == [1..MaxRestore -> {"idle", "upload"} \cup Outcomes]
Reports  == [phase : {"verify", "mismatch", "delete", "record"}, r : Requests,
             a : 1..MaxRestore, next : {"unknown", "verified", "failed", "retry"}]

CopyTypes ==
  /\ r2 \in [Clips -> Objects] /\ nas \in [Clips -> BOOLEAN]
  /\ purged \in [Clips -> BOOLEAN] /\ inv \in [Clips -> BOOLEAN]
  /\ bad \in 0..MaxBad
  /\ waived \in SUBSET Clips /\ torn \in SUBSET Clips /\ clobbered \in SUBSET Clips

PurgeTypes == purge \in Purges

CleanupTypes ==
  /\ plan \in Plans
  /\ item \in [PlanClips -> Items]
  /\ client \in [PlanClips -> Receipts]
  /\ permits \in [PlanClips -> {0, 1}]

RestoreTypes ==
  /\ req \in [Requests -> Rows]
  /\ up \in [Requests -> Uploads]
  /\ handler \in [Slots -> Reports \cup {NoHandler}]
  /\ test \in [Requests -> Objects]

\* The purge has rows locked in a transaction only, and failed keys after its deletes.
PurgeOK ==
  /\ purge.phase = "idle" => purge.locked = {}
  /\ purge.phase # "deleted" => purge.failed = {}
  /\ purge.failed \subseteq purge.locked

\* Every command and every expired lease is counted: no attempt is out of bounds.
AttemptsBounded ==
  \A c \in PlanClips : /\ item[c].attempt <= MaxCleanup + plan.runs
                       /\ item[c].state = "pending" => item[c].attempt < MaxCleanup + plan.runs

\* An item got one permit if it was issued and none otherwise; with one it is never
\* planned, leased or observed again, and the plan is not given up.
Permits ==
  \A c \in PlanClips :
    /\ permits[c] = IF item[c].issued THEN 1 ELSE 0
    /\ item[c].issued => item[c].state \in {"delete_issued", "deleted", "unverified"}
    /\ item[c].issued => plan.mode # "none"
    /\ client[c].phase = "permitted" => item[c].issued

\* A file is gone only if its item has a permit.
FilesGone == \A c \in Clips : nas[c] \/ (c \in PlanClips /\ item[c].issued)

\* A request that waits has an attempt left.
AttemptsLeft ==
  \A r \in Requests : req[r].state \in {"none", "pending"} => req[r].attempts < MaxRestore

\* A handler serves an attempt that was handed out; what it wants to record is known
\* once the object was looked at.
Handlers ==
  \A s \in Slots : handler[s] # NoHandler =>
    /\ handler[s].a <= req[handler[s].r].attempts
    /\ handler[s].phase \in {"mismatch", "delete"} => handler[s].next = "failed"
    /\ handler[s].phase = "record" => handler[s].next # "unknown"

\* A swept request is finished, its object is gone and no upload of it is under way.
Swept ==
  \A r \in Requests : req[r].swept =>
    /\ r \in TestRequests /\ Finished(r) /\ test[r] = "none"
    /\ \A a \in 1..MaxRestore : up[r][a] # "upload"

\* The object of a clip with a permit is there, or the operator did without it, or a
\* mismatch delete took it; the purge does not have the clip.
PermitHolds ==
  \A c \in PlanClips : item[c].issued =>
    /\ c \notin purge.locked
    /\ r2[c] = "good" \/ c \in waived \cup clobbered

\* A clip the purge has locked is not purged yet, and no restore of it is under way.
LockedAlone ==
  /\ \A c \in purge.locked : ~purged[c]
  /\ \A r \in Requests \ TestRequests :
       req[r].state \in {"pending", "leased"} => ReqClip[r] \notin purge.locked

Kept(c) == r2[c] = "good" \/ c \in torn \cup clobbered

\* A live clip has its object, except where the purge under way has just deleted it.
LiveKept ==
  \A c \in Clips :
    \/ purged[c] \/ Kept(c)
    \/ c \in purge.locked \ purge.failed /\ purge.phase = "deleted" /\ r2[c] = "none"

\* The object a handler has verified is still there when the handler records it.
VerifiedStays ==
  \A s \in Slots : handler[s] # NoHandler =>
    LET r == handler[s].r IN
    handler[s].phase = "record" /\ handler[s].next = "verified"
      /\ r \notin TestRequests /\ Current(r, handler[s].a)
    => r2[ReqClip[r]] = "good" \/ ReqClip[r] \in clobbered

CopiesInv ==
  /\ CopyTypes /\ PurgeTypes /\ CleanupTypes /\ RestoreTypes
  /\ PurgeOK /\ AttemptsBounded /\ Permits /\ FilesGone
  /\ AttemptsLeft /\ Handlers /\ Swept
  /\ PermitHolds /\ LockedAlone /\ LiveKept /\ VerifiedStays

-----------------------------------------------------------------------------
(* The initial states.                                                     *)

\* The invariant parts say all that the type invariant of the module says.
LEMMA TypesAgree == CopyTypes /\ PurgeTypes /\ CleanupTypes /\ RestoreTypes => TypeOK
<1> SUFFICES ASSUME CopyTypes, PurgeTypes, CleanupTypes, RestoreTypes PROVE TypeOK
  OBVIOUS
<1>1. /\ r2 \in [Clips -> Objects] /\ test \in [Requests -> Objects]
      /\ {nas, purged, inv} \subseteq [Clips -> BOOLEAN]
      /\ bad \in 0..MaxBad /\ {waived, torn, clobbered} \subseteq SUBSET Clips
  BY DEF CopyTypes, RestoreTypes
<1>2. purge \in Purges /\ plan \in Plans /\ item \in [PlanClips -> Items]
      /\ client \in [PlanClips -> Receipts] /\ req \in [Requests -> Rows]
      /\ up \in [Requests -> Uploads]
  BY DEF PurgeTypes, CleanupTypes, RestoreTypes
<1>3. \A s \in Slots : handler[s] = NoHandler \/ handler[s] \in Reports
  BY DEF RestoreTypes
<1>4. \A s \in Slots : handler[s] = NoHandler \/ handler[s] \in
         [phase : {"verify", "mismatch", "delete", "record"}, r : Requests,
          a : 1..MaxRestore, next : {"unknown", "verified", "failed", "retry"}]
  BY <1>3 DEF Reports
<1> QED  BY <1>1, <1>2, <1>4 DEF TypeOK, Purges, Plans, Items, Receipts, Rows, Uploads

\* The invariant holds of the clips as they were delivered.
LEMMA CopiesInit == Init => CopiesInv
<1> SUFFICES ASSUME Init PROVE CopiesInv  OBVIOUS
<1> USE CopiesAssumption
<1>1. CopyTypes  BY DEF Init, CopyTypes, Objects
<1>2. PurgeTypes /\ PurgeOK
  <2>1. <<>> \in Seq(SUBSET Clips)  OBVIOUS
  <2> QED  BY <2>1 DEF Init, PurgeTypes, Purges, PurgeOK
<1>3. CleanupTypes /\ AttemptsBounded /\ Permits /\ FilesGone
  <2>1. 0 \in CleanupAttempts  BY DEF CleanupAttempts
  <2>2. plan \in Plans  BY DEF Init, Plans, PlanModes
  <2>3. item \in [PlanClips -> Items]  BY <2>1 DEF Init, Items, ItemStates, Recoveries
  <2>4. client \in [PlanClips -> Receipts]
    BY <2>1 DEF Init, Receipts, IdleClient, ClientPhases
  <2>5. permits \in [PlanClips -> {0, 1}]  BY DEF Init
  <2>6. AttemptsBounded  BY DEF Init, AttemptsBounded
  <2>7. Permits /\ FilesGone  BY DEF Init, Permits, FilesGone, IdleClient
  <2> QED  BY <2>2, <2>3, <2>4, <2>5, <2>6, <2>7 DEF CleanupTypes
<1>4. RestoreTypes /\ AttemptsLeft /\ Handlers /\ Swept
  BY DEF Init, RestoreTypes, Rows, Uploads, Objects, AttemptsLeft, Handlers, Swept
<1>5. PermitHolds /\ LockedAlone /\ LiveKept /\ VerifiedStays
  BY DEF Init, PermitHolds, LockedAlone, LiveKept, Kept, VerifiedStays
<1> QED  BY <1>1, <1>2, <1>3, <1>4, <1>5 DEF CopiesInv

-----------------------------------------------------------------------------
(* The cleanup alone: its rows, its receipts and the files.                *)

CleanupInv ==
  /\ nas \in [Clips -> BOOLEAN]
  /\ CleanupTypes /\ AttemptsBounded /\ Permits /\ FilesGone

\* Nothing but the cleanup writes its rows or the files.
LEMMA CleanupStays == CleanupInv /\ UNCHANGED <<cleanupVars, permits, nas>> => CleanupInv'
BY DEF CleanupInv, cleanupVars, CleanupTypes, AttemptsBounded, Permits, FilesGone

\* What the operator does to the plan: enabling it needs every item to wait for its
\* deletion, so none that has a permit is planned again.
LEMMA OperatorKeeps ==
  CleanupInv /\ (CleanupCreate \/ ControlEnable \/ ControlPause \/ ControlDryRun) => CleanupInv'
<1> USE CopiesAssumption
<1> SUFFICES ASSUME CleanupInv PROVE
      CleanupCreate \/ ControlEnable \/ ControlPause \/ ControlDryRun => CleanupInv'
  OBVIOUS
<1>0. plan \in Plans /\ item \in [PlanClips -> Items]  BY DEF CleanupInv, CleanupTypes
<1>1. ASSUME UNCHANGED <<item, client, permits, nas>>, plan' \in Plans,
             plan'.mode # "none", plan'.runs >= plan.runs
      PROVE  CleanupInv'
  <2>1. AttemptsBounded'
    <3> SUFFICES ASSUME NEW c \in PlanClips
                 PROVE  /\ item[c].attempt <= MaxCleanup + plan'.runs
                        /\ item[c].state = "pending" => item[c].attempt < MaxCleanup + plan'.runs
      BY <1>1 DEF AttemptsBounded
    <3>1. item[c].attempt \in Nat /\ plan.runs \in Nat /\ plan'.runs \in Nat
      BY <1>0, <1>1 DEF Items, Plans, CleanupAttempts
    <3> QED  BY <1>1, <3>1 DEF CleanupInv, AttemptsBounded
  <2> QED  BY <1>1, <2>1 DEF CleanupInv, CleanupTypes, Permits, FilesGone
<1>2. CASE CleanupCreate
  <2>1. plan' = [plan EXCEPT !.mode = "dry_run"] /\ UNCHANGED <<item, client, permits, nas>>
    BY <1>2 DEF CleanupCreate, copyVars, histVars
  <2>2. plan' \in Plans /\ plan'.mode # "none" /\ plan'.runs >= plan.runs
    BY <1>0, <2>1 DEF Plans, PlanModes
  <2> QED  BY <1>1, <2>1, <2>2
<1>3. CASE ControlPause
  <2>1. PICK allow \in BOOLEAN : plan' = [plan EXCEPT !.mode = "paused", !.allow = allow]
    BY <1>3 DEF ControlPause
  <2>2. UNCHANGED <<item, client, permits, nas>>  BY <1>3 DEF ControlPause, copyVars, histVars
  <2>3. plan.runs \in Nat /\ plan \in [mode : PlanModes, allow : BOOLEAN, runs : 0..MaxRuns]
    BY <1>0 DEF Plans
  <2>4. plan' \in Plans  BY <2>1, <2>3 DEF Plans, PlanModes
  <2>5. plan'.mode = "paused" /\ plan'.runs = plan.runs  BY <2>1, <2>3
  <2> QED  BY <1>1, <2>2, <2>3, <2>4, <2>5
<1>4. CASE ControlDryRun
  <2>1. plan' = [mode |-> "dry_run", allow |-> FALSE, runs |-> plan.runs + 1] /\ plan.runs < MaxRuns
    BY <1>4 DEF ControlDryRun
  <2>2. UNCHANGED <<item, client, permits, nas>>  BY <1>4 DEF ControlDryRun, copyVars, histVars
  <2>3. plan.runs \in Nat /\ plan.runs + 1 \in 0..MaxRuns  BY <1>0, <2>1 DEF Plans
  <2>4. plan' \in Plans /\ plan'.mode # "none" /\ plan'.runs = plan.runs + 1
    BY <2>1, <2>3 DEF Plans, PlanModes
  <2>5. plan'.runs >= plan.runs  BY <2>3, <2>4
  <2> QED  BY <1>1, <2>2, <2>4, <2>5
<1>5. CASE ControlEnable
  <2>1. PICK allow \in BOOLEAN :
          /\ EnableReady(allow)
          /\ plan' = [mode |-> "enabled", allow |-> allow, runs |-> plan.runs + 1]
    BY <1>5 DEF ControlEnable
  <2>2. /\ plan.runs < MaxRuns /\ UNCHANGED <<client, permits, nas>>
        /\ item' = [c \in PlanClips |-> [item[c] EXCEPT !.state = "pending"]]
    BY <1>5 DEF ControlEnable, copyVars, histVars
  <2>3. plan' \in Plans /\ plan'.mode = "enabled" /\ plan'.runs = plan.runs + 1
    BY <1>0, <2>1, <2>2 DEF Plans, PlanModes
  <2>4. ASSUME NEW c \in PlanClips
        PROVE  /\ item'[c] \in Items /\ item'[c].attempt = item[c].attempt
               /\ item'[c].issued = item[c].issued /\ ~item[c].issued
    <3>1. item'[c] = [item[c] EXCEPT !.state = "pending"]  BY <2>2
    <3>2. item[c] \in Items  BY <1>0
    <3>3. ~item[c].issued  BY <2>1 DEF EnableReady, CleanupInv, Permits
    <3> QED  BY <3>1, <3>2, <3>3 DEF Items, ItemStates
  <2>5. CleanupTypes'  BY <2>2, <2>3, <2>4 DEF CleanupInv, CleanupTypes
  <2>6. AttemptsBounded'
    <3> SUFFICES ASSUME NEW c \in PlanClips PROVE item'[c].attempt < MaxCleanup + plan'.runs
      BY <2>4, <2>3, <2>5 DEF AttemptsBounded, CleanupTypes, Items, CleanupAttempts, Plans
    <3>1. item[c].attempt \in Nat /\ plan.runs \in Nat
      BY <1>0 DEF Items, Plans, CleanupAttempts
    <3>2. item[c].attempt <= MaxCleanup + plan.runs  BY DEF CleanupInv, AttemptsBounded
    <3> QED  BY <2>3, <2>4, <3>1, <3>2
  <2>7. Permits' /\ FilesGone'
    BY <2>2, <2>4 DEF CleanupInv, Permits, FilesGone
  <2> QED  BY <2>2, <2>5, <2>6, <2>7 DEF CleanupInv
<1> QED  BY <1>2, <1>3, <1>4, <1>5

\* A lease leaves permits alone: an item with one is neither leased nor pending.
LEMMA LeaseKeeps ==
  CleanupInv /\ CleanupLease =>
    CleanupInv' /\ \A c \in PlanClips : item'[c].issued = item[c].issued
<1> USE CopiesAssumption
<1> SUFFICES ASSUME CleanupInv, CleanupLease
             PROVE  CleanupInv' /\ \A c \in PlanClips : item'[c].issued = item[c].issued
  OBVIOUS
<1>0. /\ plan \in Plans /\ item \in [PlanClips -> Items] /\ client \in [PlanClips -> Receipts]
      /\ plan.runs \in 0..MaxRuns
  BY DEF CleanupInv, CleanupTypes, Plans
<1>1. PICK expired \in SUBSET {c \in PlanClips : item[c].state = "leased"},
           picked \in SUBSET PlanClips :
        /\ \A c \in picked : Requeued(expired)[c].state = "pending" /\ client[c].phase = "idle"
        /\ item' = [c \in PlanClips |-> IF c \in picked
             THEN [Requeued(expired)[c] EXCEPT !.state = "leased", !.attempt = @ + 1]
             ELSE Requeued(expired)[c]]
        /\ \/ client' = [c \in PlanClips |-> IF c \in picked
                THEN [phase |-> "proving", attempt |-> Requeued(expired)[c].attempt + 1, match |-> FALSE]
                ELSE client[c]]
           \/ client' = client
  BY DEF CleanupLease
<1>2. UNCHANGED <<plan, permits, nas>>  BY DEF CleanupLease, copyVars, histVars
<1> DEFINE now == Requeued(expired)
<1>3. ASSUME NEW c \in PlanClips
      PROVE  /\ now[c] \in Items
             /\ now[c].attempt \in Nat /\ now[c].attempt <= MaxCleanup + plan.runs
             /\ now[c].state = "pending" => now[c].attempt < MaxCleanup + plan.runs
             /\ now[c].issued = item[c].issued
             /\ item[c].issued => now[c].state = item[c].state
  <2>1. /\ item[c] \in Items /\ item[c].attempt \in Nat
        /\ item[c].attempt <= MaxCleanup + plan.runs
        /\ item[c].state = "pending" => item[c].attempt < MaxCleanup + plan.runs
        /\ item[c].issued => item[c].state # "leased"
    BY <1>0 DEF CleanupInv, AttemptsBounded, Permits, Items, CleanupAttempts
  <2>2. CASE c \notin expired  BY <2>1, <2>2 DEF Requeued
  <2>3. CASE c \in expired
    <3>1. PICK to \in {"unverified", "pending"} :
            /\ now[c] = [item[c] EXCEPT !.state = to]
            /\ to = "pending" => item[c].attempt < MaxCleanup
      BY <2>1, <2>3 DEF Requeued
    <3>2. /\ now[c] \in Items /\ now[c].state = to /\ now[c].attempt = item[c].attempt
          /\ now[c].issued = item[c].issued
      BY <2>1, <3>1 DEF Items, ItemStates
    <3>3. item[c].state = "leased"  BY <2>3
    <3> HIDE DEF now
    <3> QED  BY <1>0, <2>1, <3>1, <3>2, <3>3
  <2> QED  BY <2>2, <2>3
<1>4. ASSUME NEW c \in picked
      PROVE  /\ c \in PlanClips /\ ~item[c].issued
             /\ now[c].attempt + 1 \in CleanupAttempts
             /\ now[c].attempt + 1 <= MaxCleanup + plan.runs
             /\ item'[c] \in Items /\ item'[c].state = "leased"
             /\ item'[c].attempt = now[c].attempt + 1 /\ item'[c].issued = now[c].issued
  <2>1. c \in PlanClips /\ now[c].state = "pending"  BY <1>1
  <2>2. now[c].attempt \in Nat /\ now[c].attempt < MaxCleanup + plan.runs  BY <1>3, <2>1
  <2>3. ~item[c].issued  BY <1>3, <2>1 DEF CleanupInv, Permits
  <2>4. now[c].attempt + 1 \in CleanupAttempts /\ now[c].attempt + 1 <= MaxCleanup + plan.runs
    <3> HIDE DEF now
    <3> QED  BY <1>0, <2>2 DEF CleanupAttempts
  <2>5. item'[c] = [now[c] EXCEPT !.state = "leased", !.attempt = now[c].attempt + 1]
    BY <1>1, <2>1
  <2>6. now[c] \in Items  BY <1>3, <2>1
  <2>7. /\ item'[c] \in Items /\ item'[c].state = "leased"
        /\ item'[c].attempt = now[c].attempt + 1 /\ item'[c].issued = now[c].issued
    <3> HIDE DEF now
    <3> QED  BY <2>4, <2>5, <2>6 DEF Items, ItemStates
  <2> QED  BY <2>1, <2>3, <2>4, <2>7
<1>5. ASSUME NEW c \in PlanClips, c \notin picked PROVE item'[c] = now[c]
  BY <1>1, <1>5
<1>6. item' \in [PlanClips -> Items]
  <2>1. \A c \in PlanClips : item'[c] \in Items  BY <1>3, <1>4, <1>5
  <2> QED  BY <1>1, <2>1
<1>7. ASSUME NEW c \in PlanClips
      PROVE  /\ client'[c] \in Receipts
             /\ client'[c].phase = "permitted" => client[c].phase = "permitted"
  <2>1. CASE client'[c] = client[c]  BY <1>0, <2>1
  <2>2. CASE /\ c \in picked
             /\ client'[c] = [phase |-> "proving", attempt |-> now[c].attempt + 1, match |-> FALSE]
    BY <1>4, <2>2 DEF Receipts, ClientPhases
  <2> QED  BY <1>1, <2>1, <2>2
<1>8. client' \in [PlanClips -> Receipts]
  <2>1. client' = [c \in PlanClips |-> client'[c]]  BY <1>0, <1>1
  <2> QED  BY <1>7, <2>1
<1> HIDE DEF now
<1>9. AttemptsBounded'
  <2> SUFFICES ASSUME NEW c \in PlanClips
               PROVE  /\ item'[c].attempt <= MaxCleanup + plan.runs
                      /\ item'[c].state = "pending" => item'[c].attempt < MaxCleanup + plan.runs
    BY <1>2 DEF AttemptsBounded
  <2> QED  BY <1>3, <1>4, <1>5
<1>10. Permits'
  <2> SUFFICES ASSUME NEW c \in PlanClips
               PROVE  /\ item'[c].issued = item[c].issued
                      /\ item[c].issued => item'[c].state = item[c].state
                      /\ client'[c].phase = "permitted" => client[c].phase = "permitted"
    BY <1>2 DEF CleanupInv, Permits
  <2> QED  BY <1>3, <1>4, <1>5, <1>7
<1>11. \A c \in PlanClips : item'[c].issued = item[c].issued  BY <1>3, <1>4, <1>5
<1>12. FilesGone'  BY <1>2, <1>11 DEF CleanupInv, FilesGone
<1> QED  BY <1>2, <1>6, <1>8, <1>9, <1>10, <1>11, <1>12 DEF CleanupInv, CleanupTypes

\* What an answer makes of a receipt: only a permit lets the client delete.
LEMMA AnswerTypes ==
  ASSUME NEW c \in PlanClips, NEW answer \in {"ack", "permit", "reconcile", "409"},
         client \in [PlanClips -> Receipts], Answered(c, answer)
  PROVE  /\ client' \in [PlanClips -> Receipts]
         /\ \A d \in PlanClips : client'[d].phase = "permitted" =>
              client[d].phase = "permitted" \/ (d = c /\ answer = "permit")
<1> USE CopiesAssumption
<1>0. client[c] \in Receipts /\ IdleClient \in Receipts
  <2>1. 0 \in CleanupAttempts  BY DEF CleanupAttempts
  <2> QED  BY <2>1 DEF Receipts, IdleClient, ClientPhases
<1>1. ASSUME NEW receipt \in Receipts, client' = [client EXCEPT ![c] = receipt],
             receipt.phase = "permitted" => answer = "permit"
      PROVE  /\ client' \in [PlanClips -> Receipts]
             /\ \A d \in PlanClips : client'[d].phase = "permitted" =>
                  client[d].phase = "permitted" \/ (d = c /\ answer = "permit")
  BY <1>1
<1>2. ASSUME NEW phase \in ClientPhases
      PROVE  /\ [client[c] EXCEPT !.phase = phase] \in Receipts
             /\ [client[c] EXCEPT !.phase = phase].phase = phase
  BY <1>0 DEF Receipts
<1>3. {"permitted", "unverified", "replay"} \subseteq ClientPhases /\ IdleClient.phase = "idle"
  BY DEF ClientPhases, IdleClient
<1>4. CASE client' = [client EXCEPT ![c].phase = "replay"]
  <2>1. client' = [client EXCEPT ![c] = [client[c] EXCEPT !.phase = "replay"]]  BY <1>4
  <2> QED  BY <1>1, <1>2, <1>3, <2>1
<1>5. CASE client' = [client EXCEPT ![c] =
       CASE answer = "permit" /\ client[c].phase = "observe" -> [@ EXCEPT !.phase = "permitted"]
         [] answer \in {"permit", "reconcile"} /\ client[c].phase = "replay" -> [@ EXCEPT !.phase = "unverified"]
         [] answer = "409" /\ client[c].phase = "observe" -> [@ EXCEPT !.phase = "replay"]
         [] OTHER -> IdleClient]
  <2>1. CASE answer = "permit" /\ client[c].phase = "observe"
    <3>1. client' = [client EXCEPT ![c] = [client[c] EXCEPT !.phase = "permitted"]]
      BY <1>5, <2>1
    <3> QED  BY <1>1, <1>2, <1>3, <2>1, <3>1
  <2>2. CASE answer \in {"permit", "reconcile"} /\ client[c].phase = "replay"
    <3>1. client' = [client EXCEPT ![c] = [client[c] EXCEPT !.phase = "unverified"]]
      BY <1>5, <2>2
    <3> QED  BY <1>1, <1>2, <1>3, <3>1
  <2>3. CASE answer = "409" /\ client[c].phase = "observe"
    <3>1. client' = [client EXCEPT ![c] = [client[c] EXCEPT !.phase = "replay"]]
      BY <1>5, <2>3
    <3> QED  BY <1>1, <1>2, <1>3, <3>1
  <2>4. CASE /\ ~(answer = "permit" /\ client[c].phase = "observe")
             /\ ~(answer \in {"permit", "reconcile"} /\ client[c].phase = "replay")
             /\ ~(answer = "409" /\ client[c].phase = "observe")
    <3>1. client' = [client EXCEPT ![c] = IdleClient]  BY <1>5, <2>4
    <3> QED  BY <1>0, <1>1, <1>3, <3>1
  <2> QED  BY <2>1, <2>2, <2>3, <2>4
<1> QED  BY <1>4, <1>5 DEF Answered

\* What an observation writes: nothing, a finding, or the one permit of the item.
ItemEffect(c, permit) ==
  /\ item[c].state = "leased" /\ item'[c].state # "pending"
  /\ item' = [item EXCEPT ![c] = item'[c]] /\ item'[c] \in Items
  /\ item'[c].attempt = item[c].attempt
  /\ item'[c].issued = (item[c].issued \/ permit)
  /\ permit => item'[c].state = "delete_issued" /\ plan.mode # "none"
  /\ permits' = [permits EXCEPT ![c] = IF permit THEN @ + 1 ELSE @]

\* One permit for an item that had none keeps the rows in order.
LEMMA ItemEffectKeeps ==
  ASSUME NEW c \in PlanClips, NEW permit \in BOOLEAN, CleanupInv, ItemEffect(c, permit),
         UNCHANGED <<plan, nas>>, client' \in [PlanClips -> Receipts],
         \A d \in PlanClips : client'[d].phase = "permitted" =>
           client[d].phase = "permitted" \/ (d = c /\ permit)
  PROVE  CleanupInv'
<1>0. item \in [PlanClips -> Items] /\ permits \in [PlanClips -> {0, 1}]
  BY DEF CleanupInv, CleanupTypes
<1>1. ~item[c].issued /\ permits[c] = 0  BY DEF ItemEffect, CleanupInv, Permits
<1>2. item' \in [PlanClips -> Items] /\ \A d \in PlanClips : d # c => item'[d] = item[d]
  BY <1>0 DEF ItemEffect
<1>3. /\ permits' \in [PlanClips -> {0, 1}]
      /\ permits'[c] = IF permit THEN 1 ELSE 0
      /\ \A d \in PlanClips : d # c => permits'[d] = permits[d]
  BY <1>0, <1>1 DEF ItemEffect
<1>4. AttemptsBounded'
  BY <1>2 DEF ItemEffect, CleanupInv, AttemptsBounded
<1>5. item'[c].issued <=> permit  BY <1>1 DEF ItemEffect
<1>6. Permits'
  <2> SUFFICES ASSUME NEW d \in PlanClips
               PROVE  /\ permits'[d] = IF item'[d].issued THEN 1 ELSE 0
                      /\ item'[d].issued => item'[d].state \in {"delete_issued", "deleted", "unverified"}
                      /\ item'[d].issued => plan.mode # "none"
                      /\ client'[d].phase = "permitted" => item'[d].issued
    BY DEF Permits
  <2>1. CASE d = c  BY <1>1, <1>3, <1>5, <2>1 DEF ItemEffect, CleanupInv, Permits
  <2>2. CASE d # c  BY <1>2, <1>3, <2>2 DEF CleanupInv, Permits
  <2> QED  BY <2>1, <2>2
<1>7. FilesGone'  BY <1>1, <1>2 DEF CleanupInv, FilesGone
<1> QED  BY <1>2, <1>3, <1>4, <1>6, <1>7 DEF CleanupInv, CleanupTypes

\* An observation is recorded for a leased item, which has no permit yet.
LEMMA ObserveEffect ==
  ASSUME NEW c \in PlanClips, CleanupInv, ObserveRecord(c)
  PROVE  \E permit \in BOOLEAN :
           /\ ItemEffect(c, permit)
           /\ client' \in [PlanClips -> Receipts]
           /\ \A d \in PlanClips : client'[d].phase = "permitted" =>
                client[d].phase = "permitted" \/ (d = c /\ permit)
           /\ permit => /\ c \notin purge.locked
                        /\ r2[c] = "good" \/ c \in waived'
           /\ waived \subseteq waived' /\ waived' \subseteq waived \cup {c}
<1> DEFINE n == client[c].attempt
<1>0. /\ item \in [PlanClips -> Items] /\ client \in [PlanClips -> Receipts]
      /\ permits \in [PlanClips -> {0, 1}]
      /\ item[c] \in Items /\ client[c] \in Receipts
  BY DEF CleanupInv, CleanupTypes
<1>1. item[c].state = "leased" /\ item[c].attempt = n  BY DEF ObserveRecord
<1>2. n \in CleanupAttempts /\ client[c].match \in BOOLEAN  BY <1>0 DEF Receipts
<1>3. item[c].issued \in BOOLEAN  BY <1>0 DEF Items
<1>4. ~item[c].issued  BY <1>1 DEF CleanupInv, Permits
<1> HIDE DEF n
<1>5. CASE /\ item' = [item EXCEPT ![c].state = "kept", ![c].proof = client[c].match,
                                   ![c].recovery = "unchecked", ![c].observed = n]
           /\ Answered(c, "ack") /\ UNCHANGED <<permits, waived>>
  <2>1. item'[c] = [item[c] EXCEPT !.state = "kept", !.proof = client[c].match,
                                   !.recovery = "unchecked", !.observed = n]
    BY <1>0, <1>5
  <2>2. item' = [item EXCEPT ![c] = item'[c]]  BY <1>0, <1>5
  <2>3. item'[c] \in Items  BY <1>0, <1>2, <2>1 DEF Items, ItemStates, Recoveries
  <2>4. /\ item'[c].state = "kept" /\ item'[c].attempt = item[c].attempt
        /\ item'[c].issued = item[c].issued
    BY <1>0, <2>1 DEF Items
  <2>5. permits' = [permits EXCEPT ![c] = permits[c]]  BY <1>0, <1>5
  <2>6. item'[c].issued = (item[c].issued \/ FALSE)  BY <1>3, <2>4
  <2>7. permits' = [permits EXCEPT ![c] = IF FALSE THEN @ + 1 ELSE @]  BY <2>5
  <2>8. ItemEffect(c, FALSE)
    BY <1>1, <2>2, <2>3, <2>4, <2>6, <2>7, Zenon DEF ItemEffect
  <2> QED  BY <1>0, <1>5, <2>8, AnswerTypes
<1>6. CASE \E recovery \in RecoveryOf(c), approved \in BOOLEAN :
        LET permit == /\ plan.mode = "enabled" /\ approved /\ item[c].proof
                      /\ Recoverable(recovery, plan.allow)
        IN  /\ client[c].match /\ c \notin purge.locked
            /\ item' = [item EXCEPT ![c] =
                 [state |-> IF permit THEN "delete_issued" ELSE "would_delete", attempt |-> n,
                  recovery |-> recovery, proof |-> TRUE, observed |-> n, issued |-> @.issued \/ permit]]
            /\ Answered(c, IF permit THEN "permit" ELSE "ack")
            /\ permits' = [permits EXCEPT ![c] = IF permit THEN @ + 1 ELSE @]
            /\ waived' = IF permit /\ recovery = "nas_only_at_check" THEN waived \cup {c} ELSE waived
  <2>1. PICK recovery \in RecoveryOf(c), permit \in BOOLEAN :
            /\ permit => plan.mode = "enabled" /\ Recoverable(recovery, plan.allow)
            /\ client[c].match /\ c \notin purge.locked
            /\ item' = [item EXCEPT ![c] =
                 [state |-> IF permit THEN "delete_issued" ELSE "would_delete", attempt |-> n,
                  recovery |-> recovery, proof |-> TRUE, observed |-> n,
                  issued |-> item[c].issued \/ permit]]
            /\ Answered(c, IF permit THEN "permit" ELSE "ack")
            /\ permits' = [permits EXCEPT ![c] = IF permit THEN @ + 1 ELSE @]
            /\ waived' = IF permit /\ recovery = "nas_only_at_check" THEN waived \cup {c} ELSE waived
    <3>1. PICK recovery \in RecoveryOf(c), approved \in BOOLEAN :
        LET permit == /\ plan.mode = "enabled" /\ approved /\ item[c].proof
                      /\ Recoverable(recovery, plan.allow)
        IN  /\ client[c].match /\ c \notin purge.locked
            /\ item' = [item EXCEPT ![c] =
                 [state |-> IF permit THEN "delete_issued" ELSE "would_delete", attempt |-> n,
                  recovery |-> recovery, proof |-> TRUE, observed |-> n, issued |-> @.issued \/ permit]]
            /\ Answered(c, IF permit THEN "permit" ELSE "ack")
            /\ permits' = [permits EXCEPT ![c] = IF permit THEN @ + 1 ELSE @]
            /\ waived' = IF permit /\ recovery = "nas_only_at_check" THEN waived \cup {c} ELSE waived
      BY <1>6
    <3> DEFINE granted == /\ plan.mode = "enabled" /\ approved /\ item[c].proof
                          /\ Recoverable(recovery, plan.allow)
    <3>2. granted \in BOOLEAN  OBVIOUS
    <3>3. item' = [item EXCEPT ![c] =
                 [state |-> IF granted THEN "delete_issued" ELSE "would_delete", attempt |-> n,
                  recovery |-> recovery, proof |-> TRUE, observed |-> n,
                  issued |-> item[c].issued \/ granted]]
      BY <1>0, <3>1
    <3>4. granted => plan.mode = "enabled" /\ Recoverable(recovery, plan.allow)  OBVIOUS
    <3> QED  BY <3>1, <3>2, <3>3, <3>4
  <2>2. recovery \in Recoveries  BY <2>1 DEF RecoveryOf, Recoveries
  <2>3. item'[c] = [state |-> IF permit THEN "delete_issued" ELSE "would_delete", attempt |-> n,
                    recovery |-> recovery, proof |-> TRUE, observed |-> n,
                    issued |-> item[c].issued \/ permit]
    BY <1>0, <2>1
  <2>4. item' = [item EXCEPT ![c] = item'[c]]  BY <2>1, <2>3
  <2>5. (item[c].issued \/ permit) \in BOOLEAN  BY <1>3
  <2>6. item'[c] \in Items  BY <1>2, <2>2, <2>3, <2>5 DEF Items, ItemStates
  <2>7. /\ item'[c].state = IF permit THEN "delete_issued" ELSE "would_delete"
        /\ item'[c].attempt = n /\ item'[c].issued = (item[c].issued \/ permit)
    BY <2>3
  <2>8. ItemEffect(c, permit)
    BY <1>1, <2>1, <2>4, <2>6, <2>7 DEF ItemEffect
  <2>9. permit => r2[c] = "good" \/ c \in waived'
    <3> SUFFICES ASSUME permit PROVE r2[c] = "good" \/ c \in waived'  OBVIOUS
    <3>1. recovery = "r2_sha_verified" \/ recovery = "nas_only_at_check"
      BY <2>1 DEF Recoverable
    <3> QED  BY <2>1, <3>1 DEF RecoveryOf
  <2>10. /\ client' \in [PlanClips -> Receipts]
         /\ \A d \in PlanClips : client'[d].phase = "permitted" =>
              client[d].phase = "permitted" \/ (d = c /\ permit)
    <3>1. CASE permit  BY <1>0, <2>1, <3>1, AnswerTypes
    <3>2. CASE ~permit  BY <1>0, <2>1, <3>2, AnswerTypes
    <3> QED  BY <3>1, <3>2
  <2> QED  BY <2>1, <2>8, <2>9, <2>10
<1> QED  BY <1>5, <1>6 DEF ObserveRecord, n

\* A receipt may move on, but only an answer gives it a permit.
LEMMA ReceiptKeeps ==
  ASSUME CleanupInv, UNCHANGED <<plan, item, permits, nas>>,
         client' \in [PlanClips -> Receipts],
         \A d \in PlanClips : client'[d].phase = "permitted" => client[d].phase = "permitted"
  PROVE  CleanupInv'
BY DEF CleanupInv, CleanupTypes, AttemptsBounded, Permits, FilesGone

\* The steps of the client that do not touch the file or the plan's rows.
LEMMA ReceiptNext ==
  ASSUME NEW c \in PlanClips, CleanupInv, Prove(c) \/ ObserveAgain(c) \/ ClientCrash
  PROVE  CleanupInv' /\ UNCHANGED <<item, permits, nas>>
<1> USE CopiesAssumption
<1>0. client \in [PlanClips -> Receipts] /\ client[c] \in Receipts /\ IdleClient \in Receipts
  <2>1. 0 \in CleanupAttempts  BY DEF CleanupAttempts
  <2> QED  BY <2>1 DEF CleanupInv, CleanupTypes, Receipts, IdleClient, ClientPhases
<1>1. UNCHANGED <<plan, item, permits, nas>>
  BY DEF Prove, ObserveAgain, ClientCrash, copyVars, histVars
<1>2. ASSUME NEW receipt \in Receipts, client' = [client EXCEPT ![c] = receipt],
             receipt.phase # "permitted"
      PROVE  CleanupInv'
  BY <1>0, <1>1, <1>2, ReceiptKeeps
<1>3. CASE Prove(c)
  <2>1. CASE client' = [client EXCEPT ![c] = IdleClient]
    <3>1. IdleClient.phase # "permitted"  BY DEF IdleClient
    <3> QED  BY <1>0, <1>1, <1>2, <2>1, <3>1
  <2>2. CASE \E match \in BOOLEAN :
               client' = [client EXCEPT ![c].phase = "observe", ![c].match = match]
    <3>1. PICK match \in BOOLEAN :
            client' = [client EXCEPT ![c].phase = "observe", ![c].match = match]
      BY <2>2
    <3>2. client' = [client EXCEPT ![c] = [client[c] EXCEPT !.phase = "observe", !.match = match]]
      BY <3>1
    <3>3. [client[c] EXCEPT !.phase = "observe", !.match = match] \in Receipts
      BY <1>0 DEF Receipts, ClientPhases
    <3>4. [client[c] EXCEPT !.phase = "observe", !.match = match].phase = "observe"
      BY <1>0 DEF Receipts
    <3> QED  BY <1>1, <1>2, <3>2, <3>3, <3>4
  <2> QED  BY <1>3, <2>1, <2>2 DEF Prove
<1>4. CASE ObserveAgain(c)
  <2>1. PICK answer \in {"ack", "reconcile", "409"} : Answered(c, answer)
    BY <1>4 DEF ObserveAgain
  <2> QED  BY <1>0, <1>1, <2>1, AnswerTypes, ReceiptKeeps
<1>5. CASE ClientCrash
  <2>1. ASSUME NEW d \in PlanClips
        PROVE  client'[d] \in Receipts /\ client'[d].phase # "permitted"
    <3>0. client[d] \in Receipts  BY <1>0
    <3>1. ASSUME NEW phase \in ClientPhases, phase # "permitted",
                 client'[d] = [client[d] EXCEPT !.phase = phase]
          PROVE  client'[d] \in Receipts /\ client'[d].phase # "permitted"
      BY <3>0, <3>1 DEF Receipts
    <3>2. {"replay", "unverified"} \subseteq ClientPhases  BY DEF ClientPhases
    <3>3. CASE client[d].phase = "proving"
      <4>1. client'[d] = IdleClient  BY <1>5, <3>3 DEF ClientCrash
      <4> QED  BY <1>0, <4>1 DEF IdleClient
    <3>4. CASE client[d].phase = "observe"
      <4>1. client'[d] = [client[d] EXCEPT !.phase = "replay"]  BY <1>5, <3>4 DEF ClientCrash
      <4> QED  BY <3>1, <3>2, <4>1
    <3>5. CASE client[d].phase = "permitted"
      <4>1. client'[d] = [client[d] EXCEPT !.phase = "unverified"]  BY <1>5, <3>5 DEF ClientCrash
      <4> QED  BY <3>1, <3>2, <4>1
    <3>6. CASE client[d].phase \notin {"proving", "observe", "permitted"}
      <4>1. client'[d] = client[d]  BY <1>5, <3>6 DEF ClientCrash
      <4> QED  BY <3>0, <3>6, <4>1
    <3> QED  BY <3>3, <3>4, <3>5, <3>6
  <2>2. client' = [d \in PlanClips |-> client'[d]]  BY <1>5 DEF ClientCrash
  <2>3. client' \in [PlanClips -> Receipts]  BY <2>1, <2>2
  <2> QED  BY <1>1, <2>1, <2>3, ReceiptKeeps
<1> QED  BY <1>1, <1>3, <1>4, <1>5

\* The file goes under a permit.
LEMMA UnlinkKeeps ==
  ASSUME NEW c \in PlanClips, CleanupInv, Unlink(c)
  PROVE  CleanupInv' /\ UNCHANGED <<item, permits>>
<1> USE CopiesAssumption
<1>0. client \in [PlanClips -> Receipts] /\ client[c] \in Receipts
  BY DEF CleanupInv, CleanupTypes
<1>1. item[c].issued  BY DEF Unlink, CleanupInv, Permits
<1>2. UNCHANGED <<plan, item, permits>>  BY DEF Unlink, histVars
<1>3. PICK receipt \in {"deleted", "unverified"} :
        /\ client' = [client EXCEPT ![c].phase = receipt]
        /\ nas' = nas \/ nas' = [nas EXCEPT ![c] = FALSE]
  BY DEF Unlink
<1>4. client' = [client EXCEPT ![c] = [client[c] EXCEPT !.phase = receipt]]  BY <1>3
<1>5. /\ [client[c] EXCEPT !.phase = receipt] \in Receipts
      /\ [client[c] EXCEPT !.phase = receipt].phase # "permitted"
  BY <1>0 DEF Receipts, ClientPhases
<1>6. /\ client' \in [PlanClips -> Receipts]
      /\ \A d \in PlanClips : client'[d].phase = "permitted" => client[d].phase = "permitted"
  BY <1>0, <1>4, <1>5
<1>7. nas' \in [Clips -> BOOLEAN]
  <2>1. nas \in [Clips -> BOOLEAN]  BY DEF CleanupInv
  <2> QED  BY <1>3, <2>1
<1>8. FilesGone'
  <2>1. ASSUME NEW d \in Clips PROVE nas'[d] \/ (d \in PlanClips /\ item[d].issued)
    <3>1. CASE d = c  BY <1>1, <3>1
    <3>2. CASE d # c
      <4>1. nas'[d] = nas[d]  BY <1>3, <3>2 DEF CleanupInv
      <4> QED  BY <4>1 DEF CleanupInv, FilesGone
    <3> QED  BY <3>1, <3>2
  <2> QED  BY <1>2, <2>1 DEF FilesGone
<1> QED  BY <1>2, <1>6, <1>7, <1>8 DEF CleanupInv, CleanupTypes, AttemptsBounded, Permits

\* A result is recorded for an item whose permit is out.
LEMMA ResultKeeps ==
  ASSUME NEW c \in PlanClips, CleanupInv, CleanupResult(c)
  PROVE  /\ CleanupInv' /\ UNCHANGED <<permits, nas>>
         /\ \A d \in PlanClips : item'[d].issued = item[d].issued
<1> USE CopiesAssumption
<1>0. /\ client \in [PlanClips -> Receipts] /\ client[c] \in Receipts
      /\ item \in [PlanClips -> Items] /\ item[c] \in Items
      /\ IdleClient \in Receipts /\ 0 \in CleanupAttempts
  <2>1. 0 \in CleanupAttempts  BY DEF CleanupAttempts
  <2> QED  BY <2>1 DEF CleanupInv, CleanupTypes, Receipts, IdleClient, ClientPhases
<1>1. UNCHANGED <<plan, permits, nas>>  BY DEF CleanupResult, copyVars, histVars
<1>2. client[c].phase \in {"deleted", "unverified"}  BY DEF CleanupResult
<1>3. /\ client' \in [PlanClips -> Receipts]
      /\ \A d \in PlanClips : client'[d].phase = "permitted" => client[d].phase = "permitted"
  <2>1. CASE client' = client  BY <1>0, <2>1
  <2>2. CASE client' = [client EXCEPT ![c] = IdleClient]
    <3>1. IdleClient.phase # "permitted"  BY DEF IdleClient
    <3> QED  BY <1>0, <2>2, <3>1
  <2> QED  BY <2>1, <2>2 DEF CleanupResult
<1>4. CASE item' = item
  BY <1>1, <1>3, <1>4, ReceiptKeeps
<1>5. CASE /\ item[c].state = "delete_issued"
           /\ item' = [item EXCEPT ![c].state = client[c].phase, ![c].observed = 0]
  <2>1. item' = [item EXCEPT ![c] = [item[c] EXCEPT !.state = client[c].phase, !.observed = 0]]
    BY <1>5
  <2>2. PICK row : row = [item[c] EXCEPT !.state = client[c].phase, !.observed = 0]  OBVIOUS
  <2>3. /\ row \in Items /\ row.state \in {"deleted", "unverified"}
        /\ row.attempt = item[c].attempt /\ row.issued = item[c].issued
    BY <1>0, <1>2, <2>2 DEF Items, ItemStates
  <2>4. item' = [item EXCEPT ![c] = row]  BY <2>1, <2>2
  <2>5. item' \in [PlanClips -> Items] /\ item'[c] = row
        /\ \A d \in PlanClips : d # c => item'[d] = item[d]
    BY <1>0, <2>3, <2>4
  <2>6. \A d \in PlanClips : /\ item'[d].issued = item[d].issued
                             /\ item'[d].attempt = item[d].attempt
                             /\ item'[d].state = "pending" => item[d].state = "pending"
    BY <2>3, <2>5
  <2>7. \A d \in PlanClips : item[d].issued =>
          item'[d].state \in {"delete_issued", "deleted", "unverified"}
    BY <2>3, <2>5 DEF CleanupInv, Permits
  <2>8. AttemptsBounded'  BY <1>1, <2>6 DEF CleanupInv, AttemptsBounded
  <2>9. Permits'  BY <1>1, <1>3, <2>6, <2>7 DEF CleanupInv, Permits
  <2>10. FilesGone'  BY <1>1, <2>6 DEF CleanupInv, FilesGone
  <2> QED  BY <1>1, <1>3, <2>5, <2>6, <2>8, <2>9, <2>10 DEF CleanupInv, CleanupTypes
<1> QED  BY <1>1, <1>4, <1>5 DEF CleanupResult

-----------------------------------------------------------------------------
(* The restore alone: its requests, the uploads and the handlers.          *)

RestoreInv == RestoreTypes /\ AttemptsLeft /\ Handlers /\ Swept

\* Nothing but the restore writes its rows, uploads, handlers or test objects.
LEMMA RestoreStays == RestoreInv /\ UNCHANGED restoreVars => RestoreInv'
BY DEF RestoreInv, restoreVars, RestoreTypes, AttemptsLeft, Handlers, Swept, Finished

\* A handler that has something to do serves a report.
LEMMA Serving ==
  ASSUME NEW s \in Slots, RestoreTypes,
         handler[s].phase \in {"verify", "mismatch", "delete", "record"}
  PROVE  handler[s] \in Reports /\ handler[s] # NoHandler
<1>1. NoHandler.phase = "free"  BY DEF NoHandler
<1>2. handler[s] # NoHandler  BY <1>1
<1> QED  BY <1>2 DEF RestoreTypes

\* One handler moves; the object of a test request may go.
LEMMA HandlerStep ==
  ASSUME RestoreInv, NEW s \in Slots, NEW h \in Reports \cup {NoHandler},
         handler' = [handler EXCEPT ![s] = h],
         h # NoHandler => /\ h.a <= req[h.r].attempts
                          /\ h.phase \in {"mismatch", "delete"} => h.next = "failed"
                          /\ h.phase = "record" => h.next # "unknown",
         UNCHANGED <<req, up>>, test' \in [Requests -> Objects],
         \A r \in Requests : test'[r] \in {test[r], "none"}
  PROVE  RestoreInv'
<1>0. handler \in [Slots -> Reports \cup {NoHandler}]  BY DEF RestoreInv, RestoreTypes
<1>1. /\ handler' \in [Slots -> Reports \cup {NoHandler}] /\ handler'[s] = h
      /\ \A z \in Slots : z # s => handler'[z] = handler[z]
  BY <1>0
<1>2. Handlers'
  <2> SUFFICES ASSUME NEW z \in Slots, handler'[z] # NoHandler
               PROVE  /\ handler'[z].a <= req[handler'[z].r].attempts
                      /\ handler'[z].phase \in {"mismatch", "delete"} => handler'[z].next = "failed"
                      /\ handler'[z].phase = "record" => handler'[z].next # "unknown"
    BY DEF Handlers
  <2>1. CASE z = s  BY <1>1, <2>1
  <2>2. CASE z # s  BY <1>1, <2>2 DEF RestoreInv, Handlers
  <2> QED  BY <2>1, <2>2
<1>3. Swept'  BY DEF RestoreInv, Swept, Finished
<1> QED  BY <1>1, <1>2, <1>3 DEF RestoreInv, RestoreTypes, AttemptsLeft

\* What the handlers do before they record: the verdict, the read that allows a
\* delete, the delete.
LEMMA HandlerNext ==
  ASSUME NEW s \in Slots, RestoreInv, Verify(s) \/ Deletable(s) \/ MismatchDelete(s)
  PROVE  /\ RestoreInv'
         /\ handler[s] \in Reports /\ handler[s] # NoHandler
         /\ \E phase \in {"mismatch", "delete", "record"}, next \in {"verified", "failed", "retry"} :
              /\ handler' = [handler EXCEPT ![s] =
                   [handler[s] EXCEPT !.phase = phase, !.next = next]]
              /\ next = "verified" => Object(handler[s].r) = "good" /\ UNCHANGED r2
<1> USE CopiesAssumption
<1>0. /\ handler[s] \in Reports /\ handler[s] # NoHandler
      /\ test \in [Requests -> Objects] /\ handler[s].a <= req[handler[s].r].attempts
      /\ handler[s].r \in Requests
  <2>1. handler[s].phase \in {"verify", "mismatch", "delete", "record"}
    BY DEF Verify, Deletable, MismatchDelete
  <2>2. handler[s] \in Reports /\ handler[s] # NoHandler  BY <2>1, Serving DEF RestoreInv
  <2> QED  BY <2>2 DEF RestoreInv, RestoreTypes, Handlers, Reports
<1>1. ASSUME NEW phase \in {"mismatch", "delete", "record"},
             NEW next \in {"verified", "failed", "retry"},
             handler' = [handler EXCEPT ![s] = [handler[s] EXCEPT !.phase = phase, !.next = next]],
             phase # "record" => next = "failed",
             UNCHANGED <<req, up>>, test' \in [Requests -> Objects],
             \A r \in Requests : test'[r] \in {test[r], "none"}
      PROVE  RestoreInv'
  <2>1. PICK h : h = [handler[s] EXCEPT !.phase = phase, !.next = next]  OBVIOUS
  <2>2. /\ h \in Reports /\ h # NoHandler
        /\ h.phase = phase /\ h.next = next /\ h.r = handler[s].r /\ h.a = handler[s].a
    <3>1. /\ h \in Reports /\ h.phase = phase /\ h.next = next
          /\ h.r = handler[s].r /\ h.a = handler[s].a
      BY <1>0, <2>1 DEF Reports
    <3>2. NoHandler.phase = "free"  BY DEF NoHandler
    <3>3. h # NoHandler  BY <3>1, <3>2
    <3> QED  BY <3>1, <3>3
  <2>3. handler' = [handler EXCEPT ![s] = h]  BY <1>1, <2>1
  <2>4. h \in Reports \cup {NoHandler}  BY <2>2
  <2>5. /\ h.a <= req[h.r].attempts
        /\ h.phase \in {"mismatch", "delete"} => h.next = "failed"
        /\ h.phase = "record" => h.next # "unknown"
    BY <1>0, <1>1, <2>2
  <2> QED  BY <1>1, <2>3, <2>4, <2>5, HandlerStep
<1>2. CASE Verify(s)
  <2>1. PICK verdict \in Verdict(handler[s].r) :
          handler' = [handler EXCEPT ![s].phase = IF verdict = "mismatch" THEN "mismatch" ELSE "record",
                                     ![s].next = IF verdict = "mismatch" THEN "failed" ELSE verdict]
    BY <1>2 DEF Verify
  <2>2. verdict \in {"retry", "verified", "mismatch"} /\ (verdict = "verified" => Object(handler[s].r) = "good")
    BY DEF Verdict
  <2>3. UNCHANGED <<req, up, test, r2>>  BY <1>2 DEF Verify, copyVars
  <2>4. PICK phase \in {"mismatch", "delete", "record"}, next \in {"verified", "failed", "retry"} :
          /\ phase = IF verdict = "mismatch" THEN "mismatch" ELSE "record"
          /\ next = IF verdict = "mismatch" THEN "failed" ELSE verdict
    BY <2>2
  <2>5. handler' = [handler EXCEPT ![s] = [handler[s] EXCEPT !.phase = phase, !.next = next]]
    BY <2>1, <2>4
  <2>6. next = "verified" => verdict = "verified"  BY <2>4
  <2>7. phase # "record" => next = "failed"  BY <2>4
  <2>8. RestoreInv'  BY <1>0, <1>1, <2>3, <2>5, <2>7
  <2> QED  BY <1>0, <2>2, <2>3, <2>5, <2>6, <2>8
<1>3. CASE Deletable(s)
  <2>1. PICK phase \in {"delete", "record"} : handler' = [handler EXCEPT ![s].phase = phase]
    BY <1>3 DEF Deletable
  <2>2. UNCHANGED <<req, up, test, r2>>  BY <1>3 DEF Deletable, copyVars
  <2>3. handler[s].next = "failed"  BY <1>0, <1>3 DEF Deletable, RestoreInv, Handlers
  <2>4. [handler[s] EXCEPT !.phase = phase] = [handler[s] EXCEPT !.phase = phase, !.next = "failed"]
    BY <1>0, <2>3 DEF Reports
  <2>5. handler' = [handler EXCEPT ![s] = [handler[s] EXCEPT !.phase = phase]]  BY <2>1
  <2>6. handler' = [handler EXCEPT ![s] = [handler[s] EXCEPT !.phase = phase, !.next = "failed"]]
    BY <2>4, <2>5
  <2>7. RestoreInv'  BY <1>0, <1>1, <2>2, <2>6
  <2> QED  BY <1>0, <2>6, <2>7
<1>4. CASE MismatchDelete(s)
  <2>1. PICK next \in {"failed", "retry"} :
          handler' = [handler EXCEPT ![s] = [handler[s] EXCEPT !.phase = "record", !.next = next]]
    <3>1. CASE handler' = [handler EXCEPT ![s].phase = "record", ![s].next = "retry"]
      <4>1. handler' = [handler EXCEPT ![s] = [handler[s] EXCEPT !.phase = "record", !.next = "retry"]]
        BY <3>1
      <4> QED  BY <4>1
    <3>2. CASE handler' = [handler EXCEPT ![s].phase = "record"]
      <4>1. handler[s].next = "failed"  BY <1>0, <1>4 DEF MismatchDelete, RestoreInv, Handlers
      <4>2. [handler[s] EXCEPT !.phase = "record"] = [handler[s] EXCEPT !.phase = "record", !.next = "failed"]
        BY <1>0, <4>1 DEF Reports
      <4>3. handler' = [handler EXCEPT ![s] = [handler[s] EXCEPT !.phase = "record"]]  BY <3>2
      <4> QED  BY <4>2, <4>3
    <3> QED  BY <1>4, <3>1, <3>2 DEF MismatchDelete
  <2>2. UNCHANGED <<req, up>>  BY <1>4 DEF MismatchDelete
  <2>3. test' = test \/ test' = [test EXCEPT ![handler[s].r] = "none"]
    BY <1>4 DEF MismatchDelete, SetObject
  <2>4. test' \in [Requests -> Objects] /\ \A r \in Requests : test'[r] \in {test[r], "none"}
    BY <1>0, <2>3 DEF Objects
  <2>5. RestoreInv'  BY <1>0, <1>1, <2>1, <2>2, <2>4
  <2> QED  BY <1>0, <2>1, <2>5
<1> QED  BY <1>2, <1>3, <1>4

\* A report is taken up for an attempt that is current, and the API may stop.
LEMMA ReportNext ==
  ASSUME NEW s \in Slots, NEW r \in Requests, NEW a \in 1..MaxRestore,
         RestoreInv, Report(s, r, a)
  PROVE  /\ RestoreInv'
         /\ \E h \in Reports : handler' = [handler EXCEPT ![s] = h] /\ h.next # "verified"
<1> USE CopiesAssumption
<1> DEFINE h == [phase |-> IF up[r][a] \in {"uploaded", "exists"} THEN "verify" ELSE "record",
                 r |-> r, a |-> a,
                 next |-> CASE up[r][a] = "local_missing" -> "failed"
                            [] up[r][a] = "upload_failed" -> "retry"
                            [] OTHER -> "unknown"]
<1>1. handler' = [handler EXCEPT ![s] = h] /\ up[r][a] \in Outcomes
  BY DEF Report
<1>2. up[r][a] \in {"uploaded", "exists", "local_missing", "upload_failed"}
  BY <1>1 DEF Outcomes
<1>3. PICK phase \in {"verify", "record"}, next \in {"failed", "retry", "unknown"} :
        /\ h = [phase |-> phase, r |-> r, a |-> a, next |-> next]
        /\ phase = "record" => next # "unknown"
  BY <1>2
<1> HIDE DEF h
<1>4. /\ h \in Reports /\ h.next # "verified" /\ h.a = a /\ h.r = r
      /\ h.phase \notin {"mismatch", "delete"}
      /\ h.phase = "record" => h.next # "unknown"
  BY <1>3 DEF Reports
<1>5. a <= req[r].attempts
  <2>1. req[r].attempts = a  BY DEF Report, Current
  <2> QED  BY <2>1
<1>6. UNCHANGED <<req, up, test>> /\ test \in [Requests -> Objects]
  BY DEF Report, RestoreInv, RestoreTypes
<1>7. RestoreInv'  BY <1>1, <1>4, <1>5, <1>6, HandlerStep
<1> QED  BY <1>1, <1>4, <1>7

LEMMA ServerCrashNext == RestoreInv /\ ServerCrash => RestoreInv'
BY DEF RestoreInv, ServerCrash, RestoreTypes, AttemptsLeft, Handlers, Swept, Finished

\* One request goes to another state; a finished one stays as it is.
LEMMA RequestMoves ==
  ASSUME RestoreInv, NEW r \in Requests,
         NEW state \in {"pending", "verified", "failed", "canceled"},
         req' = [req EXCEPT ![r].state = state], ~Finished(r),
         state = "pending" => req[r].attempts < MaxRestore, UNCHANGED up,
         test' \in [Requests -> Objects], \A q \in Requests : test'[q] \in {test[q], "none"},
         handler' = handler \/ \E s \in Slots : handler' = [handler EXCEPT ![s] = NoHandler]
  PROVE  RestoreInv'
<1>0. req \in [Requests -> Rows] /\ req[r] \in Rows /\ handler \in [Slots -> Reports \cup {NoHandler}]
  BY DEF RestoreInv, RestoreTypes
<1>1. req' = [req EXCEPT ![r] = [req[r] EXCEPT !.state = state]]  OBVIOUS
<1>2. PICK row : row = [req[r] EXCEPT !.state = state]  OBVIOUS
<1>3. row \in Rows /\ row.state = state /\ row.attempts = req[r].attempts /\ row.swept = req[r].swept
  BY <1>0, <1>2 DEF Rows
<1>4. req' = [req EXCEPT ![r] = row]  BY <1>1, <1>2
<1>5. /\ req' \in [Requests -> Rows] /\ req'[r] = row
      /\ \A q \in Requests : q # r => req'[q] = req[q]
  BY <1>0, <1>3, <1>4
<1>6. \A q \in Requests : req'[q].attempts = req[q].attempts /\ req'[q].swept = req[q].swept
  BY <1>3, <1>5
<1>7. /\ handler' \in [Slots -> Reports \cup {NoHandler}]
      /\ \A s \in Slots : handler'[s] # NoHandler => handler'[s] = handler[s]
  BY <1>0
<1>8. AttemptsLeft'
  <2> SUFFICES ASSUME NEW q \in Requests, req'[q].state \in {"none", "pending"}
               PROVE  req'[q].attempts < MaxRestore
    BY DEF AttemptsLeft
  <2>1. CASE q = r  BY <1>3, <1>5, <2>1
  <2>2. CASE q # r  BY <1>5, <2>2 DEF RestoreInv, AttemptsLeft
  <2> QED  BY <2>1, <2>2
<1>9. Handlers'
  <2> SUFFICES ASSUME NEW s \in Slots, handler'[s] # NoHandler
               PROVE  /\ handler[s].a <= req'[handler[s].r].attempts
                      /\ handler[s].phase \in {"mismatch", "delete"} => handler[s].next = "failed"
                      /\ handler[s].phase = "record" => handler[s].next # "unknown"
    BY <1>7 DEF Handlers
  <2>1. handler[s] # NoHandler /\ handler[s] \in Reports  BY <1>0, <1>7
  <2>2. handler[s].r \in Requests  BY <2>1 DEF Reports
  <2> QED  BY <1>6, <2>1, <2>2 DEF RestoreInv, Handlers
<1>10. Swept'
  <2> SUFFICES ASSUME NEW q \in Requests, req'[q].swept
               PROVE  /\ q \in TestRequests /\ Finished(q)' /\ test'[q] = "none"
                      /\ \A a \in 1..MaxRestore : up[q][a] # "upload"
    BY DEF Swept
  <2>1. req[q].swept  BY <1>6
  <2>2. q # r  BY <2>1 DEF RestoreInv, Swept
  <2>3. Finished(q)'  BY <1>5, <2>1, <2>2 DEF RestoreInv, Swept, Finished
  <2>4. test'[q] = "none"  BY <2>1 DEF RestoreInv, Swept
  <2> QED  BY <2>1, <2>3, <2>4 DEF RestoreInv, Swept
<1> QED  BY <1>5, <1>7, <1>8, <1>9, <1>10 DEF RestoreInv, RestoreTypes

\* A request is made or canceled.
LEMMA RequestNext ==
  ASSUME NEW r \in Requests, RestoreInv, RequestRestore(r) \/ CancelRestore(r)
  PROVE  RestoreInv'
<1>1. PICK state \in {"pending", "canceled"} :
        req' = [req EXCEPT ![r].state = state] /\ (state = "pending" => req[r].state = "none")
  BY DEF RequestRestore, CancelRestore
<1>2. ~Finished(r)  BY DEF RequestRestore, CancelRestore, Finished
<1>3. UNCHANGED <<up, handler, test>>  BY DEF RequestRestore, CancelRestore
<1>4. state = "pending" => req[r].attempts < MaxRestore
  BY <1>1 DEF RestoreInv, AttemptsLeft
<1>5. test \in [Requests -> Objects]  BY DEF RestoreInv, RestoreTypes
<1> QED  BY <1>1, <1>2, <1>3, <1>4, <1>5, RequestMoves

\* What the closing transaction records: the outcome of the attempt that is current.
RecordNext(s) ==
  IF handler[s].next = "retry" THEN RetryState(handler[s].r) ELSE handler[s].next

LEMMA RecordState ==
  ASSUME NEW s \in Slots, RestoreInv, Record(s)
  PROVE  /\ handler[s] \in Reports /\ handler[s] # NoHandler /\ handler[s].r \in Requests
         /\ RecordNext(s) \in {"pending", "verified", "failed"}
         /\ RecordNext(s) = "pending" => req[handler[s].r].attempts < MaxRestore
         /\ RecordNext(s) = "verified" => handler[s].next = "verified"
<1> USE CopiesAssumption
<1>1. handler[s] \in Reports /\ handler[s] # NoHandler  BY Serving DEF RestoreInv, Record
<1>2. handler[s].r \in Requests /\ handler[s].next \in {"verified", "failed", "retry"}
  BY <1>1 DEF Reports, RestoreInv, Handlers, Record
<1>3. req[handler[s].r].attempts \in Nat  BY <1>2 DEF RestoreInv, RestoreTypes, Rows
<1>4. /\ RetryState(handler[s].r) \in {"pending", "failed"}
      /\ RetryState(handler[s].r) = "pending" => ~(req[handler[s].r].attempts >= MaxRestore)
  BY DEF RetryState
<1>5. RetryState(handler[s].r) = "pending" => req[handler[s].r].attempts < MaxRestore
  BY <1>3, <1>4
<1> QED  BY <1>1, <1>2, <1>4, <1>5 DEF RecordNext

LEMMA RecordNextInv ==
  ASSUME NEW s \in Slots, RestoreInv, Record(s)
  PROVE  RestoreInv'
<1> DEFINE r == handler[s].r
<1>0. /\ handler[s] \in Reports /\ r \in Requests /\ test \in [Requests -> Objects]
      /\ handler \in [Slots -> Reports \cup {NoHandler}]
  BY RecordState DEF RestoreInv, RestoreTypes
<1>1. /\ handler' = [handler EXCEPT ![s] = NoHandler] /\ UNCHANGED up
      /\ test' = test \/ test' = [test EXCEPT ![r] = "none"]
  BY DEF Record
<1>2. test' \in [Requests -> Objects] /\ \A q \in Requests : test'[q] \in {test[q], "none"}
  BY <1>0, <1>1 DEF Objects
<1>3. CASE req' = req
  <2>1. NoHandler \in Reports \cup {NoHandler}  OBVIOUS
  <2> QED  BY <1>1, <1>2, <1>3, <2>1, HandlerStep
<1>4. CASE Current(r, handler[s].a) /\ req' = [req EXCEPT ![r].state = RecordNext(s)]
  <2>1. ~Finished(r)  BY <1>4 DEF Current, Finished
  <2> QED  BY <1>0, <1>1, <1>2, <1>4, <2>1, RecordState, RequestMoves
<1>5. \/ req' = req
      \/ Current(r, handler[s].a) /\ req' = [req EXCEPT ![r].state = RecordNext(s)]
  BY DEF Record, RecordNext
<1> QED  BY <1>3, <1>4, <1>5

\* An upload lands, fails or finds no file: none of it is under a swept request.
LEMMA UploadNext ==
  ASSUME NEW r \in Requests, NEW a \in 1..MaxRestore, RestoreInv, Upload(r, a)
  PROVE  RestoreInv'
<1>1. PICK out \in Outcomes : up' = [up EXCEPT ![r][a] = out]
  BY DEF Upload, Outcomes
<1>2. UNCHANGED <<req, handler>> /\ (test' = test \/ test' = [test EXCEPT ![r] = "good"])
  BY DEF Upload, SetObject
<1>3. up \in [Requests -> Uploads] /\ test \in [Requests -> Objects]
  BY DEF RestoreInv, RestoreTypes
<1>4. test' \in [Requests -> Objects] /\ \A q \in Requests : q # r => test'[q] = test[q]
  BY <1>2, <1>3 DEF Objects
<1>5. up[r] \in Uploads /\ up' = [up EXCEPT ![r] = [up[r] EXCEPT ![a] = out]]
  BY <1>1, <1>3
<1>6. [up[r] EXCEPT ![a] = out] \in Uploads  BY <1>5 DEF Uploads
<1>7. up' \in [Requests -> Uploads] /\ \A q \in Requests : q # r => up'[q] = up[q]
  BY <1>3, <1>5, <1>6
<1>8. ~req[r].swept  BY DEF Upload, RestoreInv, Swept
<1>9. Swept'
  <2> SUFFICES ASSUME NEW q \in Requests, req[q].swept
               PROVE  /\ q \in TestRequests /\ Finished(q) /\ test'[q] = "none"
                      /\ \A b \in 1..MaxRestore : up'[q][b] # "upload"
    BY <1>2 DEF Swept, Finished
  <2>1. q # r  BY <1>8
  <2> QED  BY <1>4, <1>7, <2>1 DEF RestoreInv, Swept
<1>10. AttemptsLeft' /\ Handlers'  BY <1>2 DEF RestoreInv, AttemptsLeft, Handlers
<1> QED  BY <1>2, <1>4, <1>7, <1>9, <1>10 DEF RestoreInv, RestoreTypes

\* What a lease call makes of the requests.
LeaseRow(r, swept, expired, picked) ==
  LET now == IF r \in expired THEN RetryState(r) ELSE req[r].state IN
  [state |-> IF r \in picked THEN "leased" ELSE now,
   attempts |-> IF r \in picked THEN req[r].attempts + 1 ELSE req[r].attempts,
   swept |-> req[r].swept \/ r \in swept]

\* A lease call sweeps finished requests only, and hands out waiting ones only: a
\* new upload never belongs to a swept request.
LEMMA RestoreLeaseNext ==
  ASSUME RestoreInv, RestoreLease
  PROVE  /\ RestoreInv' /\ UNCHANGED handler
         /\ \A r \in Requests :
              /\ req'[r].state \in {"pending", "leased"} => req[r].state \in {"pending", "leased"}
              /\ \/ req'[r].attempts = req[r].attempts
                    /\ (req'[r].state = "leased" => req[r].state = "leased")
                 \/ req'[r].attempts = req[r].attempts + 1
<1> USE CopiesAssumption
<1>1. PICK swept \in SUBSET {r \in Requests : Sweepable(r)},
           expired \in SUBSET {r \in Requests : req[r].state = "leased"},
           picked \in SUBSET Requests, lost \in BOOLEAN :
    LET now(r) == IF r \in expired THEN RetryState(r) ELSE req[r].state IN
    /\ swept \cup expired \cup picked # {}
    /\ \A r \in picked : now(r) = "pending"
    /\ lost => picked # {}
    /\ test' = [r \in Requests |-> IF r \in swept THEN "none" ELSE test[r]]
    /\ req' = [r \in Requests |->
         [state |-> IF r \in picked THEN "leased" ELSE now(r),
          attempts |-> IF r \in picked THEN req[r].attempts + 1 ELSE req[r].attempts,
          swept |-> req[r].swept \/ r \in swept]]
    /\ up' = [r \in Requests |-> IF r \in picked /\ ~lost
                THEN [up[r] EXCEPT ![req[r].attempts + 1] = "upload"] ELSE up[r]]
    /\ UNCHANGED <<copyVars, purge, cleanupVars, handler, histVars>>
  BY Zenon DEF RestoreLease
<1>a. /\ test' = [r \in Requests |-> IF r \in swept THEN "none" ELSE test[r]]
      /\ up' = [r \in Requests |-> IF r \in picked /\ ~lost
                  THEN [up[r] EXCEPT ![req[r].attempts + 1] = "upload"] ELSE up[r]]
  BY <1>1
<1>b. req' = [r \in Requests |-> LeaseRow(r, swept, expired, picked)]
  BY <1>1, Zenon DEF LeaseRow
<1>c. \A r \in picked : (IF r \in expired THEN RetryState(r) ELSE req[r].state) = "pending"
  BY <1>1
<1>d. /\ \A r \in swept : r \in Requests /\ Sweepable(r)
      /\ \A r \in expired : r \in Requests /\ req[r].state = "leased"
      /\ picked \subseteq Requests
  OBVIOUS
<1>2. UNCHANGED handler  BY DEF RestoreLease
<1>0. req \in [Requests -> Rows] /\ up \in [Requests -> Uploads] /\ test \in [Requests -> Objects]
  BY DEF RestoreInv, RestoreTypes
<1>3. ASSUME NEW r \in Requests
      PROVE  /\ req[r] \in Rows /\ req[r].attempts \in Nat /\ req[r].attempts <= MaxRestore
             /\ req[r].state \in {"none", "pending"} => req[r].attempts < MaxRestore
             /\ RetryState(r) \in {"failed", "pending"}
             /\ RetryState(r) = "pending" => req[r].attempts < MaxRestore
  <2>1. req[r].attempts \in Nat /\ req[r].attempts <= MaxRestore /\ req[r] \in Rows
    BY <1>0 DEF Rows
  <2>2. RetryState(r) = "pending" => ~(req[r].attempts >= MaxRestore)  BY DEF RetryState
  <2>3. RetryState(r) = "pending" => req[r].attempts < MaxRestore  BY <2>1, <2>2
  <2>4. RetryState(r) \in {"failed", "pending"}  BY DEF RetryState
  <2> QED  BY <2>1, <2>3, <2>4 DEF RestoreInv, AttemptsLeft
<1>4. ASSUME NEW r \in Requests, r \in picked
      PROVE  /\ req[r].state \in {"pending", "leased"}
             /\ req[r].attempts + 1 \in 1..MaxRestore
             /\ req'[r].state = "leased" /\ req'[r].attempts = req[r].attempts + 1
             /\ req'[r].swept = req[r].swept /\ req'[r] \in Rows /\ r \notin swept
  <2>1. req[r].state \in {"pending", "leased"}  BY <1>c, <1>d, <1>4
  <2>2. req[r].attempts < MaxRestore /\ req[r].attempts \in Nat
    BY <1>3, <1>4, <1>c
  <2>3. r \notin swept  BY <1>d, <2>1 DEF Sweepable, Finished
  <2>4. req[r].swept \in BOOLEAN  BY <1>3 DEF Rows
  <2>5. (req[r].swept \/ r \in swept) = req[r].swept  BY <2>3, <2>4
  <2>6. req'[r] = [state |-> "leased", attempts |-> req[r].attempts + 1, swept |-> req[r].swept]
    BY <1>4, <1>b, <2>5 DEF LeaseRow
  <2>7. req[r].attempts + 1 \in 0..MaxRestore /\ req[r].attempts + 1 \in 1..MaxRestore  BY <2>2
  <2>8. /\ req'[r].state = "leased" /\ req'[r].attempts = req[r].attempts + 1
        /\ req'[r].swept = req[r].swept /\ req'[r] \in Rows
    BY <2>4, <2>6, <2>7 DEF Rows
  <2> QED  BY <2>1, <2>3, <2>7, <2>8
<1>5. ASSUME NEW r \in Requests, r \notin picked
      PROVE  /\ req'[r].attempts = req[r].attempts
             /\ req'[r].state = req[r].state
                \/ (r \in expired /\ req[r].state = "leased" /\ req'[r].state = RetryState(r))
             /\ req'[r].swept = (req[r].swept \/ r \in swept)
             /\ req'[r] \in Rows
  <2>1. req'[r] = [state |-> IF r \in expired THEN RetryState(r) ELSE req[r].state,
                   attempts |-> req[r].attempts, swept |-> req[r].swept \/ r \in swept]
    BY <1>5, <1>b DEF LeaseRow
  <2>2. r \in expired => req[r].state = "leased"  BY <1>d
  <2>3. (req[r].swept \/ r \in swept) \in BOOLEAN  OBVIOUS
  <2>4. req'[r] \in Rows  BY <1>3, <2>1, <2>3 DEF Rows
  <2>5. req'[r].swept = (req[r].swept \/ r \in swept)  BY <2>1
  <2> QED  BY <2>1, <2>2, <2>4, <2>5
<1>6. req' \in [Requests -> Rows]
  <2>1. \A r \in Requests : req'[r] \in Rows  BY <1>4, <1>5
  <2> QED  BY <1>b, <2>1
<1>7. up' \in [Requests -> Uploads]
  <2>1. ASSUME NEW r \in Requests PROVE up'[r] \in Uploads
    <3>1. CASE r \in picked /\ ~lost
      <4>1. up'[r] = [up[r] EXCEPT ![req[r].attempts + 1] = "upload"]  BY <1>a, <3>1
      <4>2. up[r] \in [1..MaxRestore -> {"idle", "upload"} \cup Outcomes]  BY <1>0 DEF Uploads
      <4>3. PICK u : u = up[r]  OBVIOUS
      <4>4. PICK k : k = req[r].attempts + 1  OBVIOUS
      <4>5. [u EXCEPT ![k] = "upload"] \in [1..MaxRestore -> {"idle", "upload"} \cup Outcomes]
        BY <4>2, <4>3
      <4> QED  BY <4>1, <4>3, <4>4, <4>5 DEF Uploads
    <3>2. CASE ~(r \in picked /\ ~lost)
      <4>1. up'[r] = up[r]  BY <1>a, <3>2
      <4> QED  BY <1>0, <4>1
    <3> QED  BY <3>1, <3>2
  <2> QED  BY <1>a, <2>1
<1>8. test' \in [Requests -> Objects]  BY <1>0, <1>a DEF Objects
<1>9. AttemptsLeft'
  <2> SUFFICES ASSUME NEW r \in Requests, req'[r].state \in {"none", "pending"}
               PROVE  req'[r].attempts < MaxRestore
    BY DEF AttemptsLeft
  <2>1. r \notin picked  BY <1>4
  <2> QED  BY <1>3, <1>5, <2>1
<1>10. Handlers'
  <2>1. \A r \in Requests : req'[r].attempts >= req[r].attempts
    <3> SUFFICES ASSUME NEW r \in Requests PROVE req'[r].attempts >= req[r].attempts  OBVIOUS
    <3>1. req[r].attempts \in Nat  BY <1>3
    <3>2. req'[r].attempts = req[r].attempts \/ req'[r].attempts = req[r].attempts + 1
      BY <1>4, <1>5
    <3> QED  BY <3>1, <3>2
  <2>2. ASSUME NEW s \in Slots, handler[s] # NoHandler
        PROVE  handler[s].a <= req'[handler[s].r].attempts
    <3>1. handler[s] \in Reports  BY <2>2 DEF RestoreInv, RestoreTypes
    <3>2. handler[s].r \in Requests /\ handler[s].a \in Nat  BY <3>1 DEF Reports
    <3>3. handler[s].a <= req[handler[s].r].attempts  BY <2>2 DEF RestoreInv, Handlers
    <3>4. req[handler[s].r].attempts \in Nat /\ req'[handler[s].r].attempts \in Nat
      BY <1>3, <1>6, <3>2 DEF Rows
    <3> QED  BY <2>1, <3>2, <3>3, <3>4
  <2> QED  BY <1>2, <2>2 DEF RestoreInv, Handlers
<1>11. Swept'
  <2> SUFFICES ASSUME NEW r \in Requests, req'[r].swept
               PROVE  /\ r \in TestRequests /\ Finished(r)' /\ test'[r] = "none"
                      /\ \A a \in 1..MaxRestore : up'[r][a] # "upload"
    BY DEF Swept
  <2>0. req[r].swept \/ r \in swept
    <3>1. CASE r \in picked
      <4>1. req'[r].swept = req[r].swept  BY <1>4, <3>1
      <4> QED  BY <4>1
    <3>2. CASE r \notin picked  BY <1>5, <3>2
    <3> QED  BY <3>1, <3>2
  <2>1. r \in TestRequests /\ Finished(r) /\ \A a \in 1..MaxRestore : up[r][a] # "upload"
    BY <1>d, <2>0 DEF RestoreInv, Swept, Sweepable
  <2>2. r \notin picked  BY <1>4, <2>1 DEF Finished
  <2>3. req[r].state # "leased"  BY <2>1 DEF Finished
  <2>4. Finished(r)'  BY <1>5, <2>1, <2>2, <2>3 DEF Finished
  <2>5. up'[r] = up[r]  BY <1>a, <2>2
  <2>6. test'[r] = "none"  BY <1>a, <2>0 DEF RestoreInv, Swept
  <2> QED  BY <2>1, <2>4, <2>5, <2>6
<1>12. ASSUME NEW r \in Requests
       PROVE  /\ req'[r].state \in {"pending", "leased"} => req[r].state \in {"pending", "leased"}
              /\ \/ req'[r].attempts = req[r].attempts
                    /\ (req'[r].state = "leased" => req[r].state = "leased")
                 \/ req'[r].attempts = req[r].attempts + 1
  <2>1. CASE r \in picked  BY <1>4, <2>1
  <2>2. CASE r \notin picked
    <3>1. RetryState(r) \in {"failed", "pending"}  BY <1>3
    <3> QED  BY <1>5, <2>2, <3>1
  <2> QED  BY <2>1, <2>2
<1> QED  BY <1>2, <1>6, <1>7, <1>8, <1>9, <1>10, <1>11, <1>12 DEF RestoreInv, RestoreTypes

-----------------------------------------------------------------------------
(* What the programs promise each other.                                   *)

Joint ==
  /\ CopyTypes /\ PurgeTypes /\ PurgeOK
  /\ PermitHolds /\ LockedAlone /\ LiveKept /\ VerifiedStays

\* The invariant is what each program promises alone and what they promise each other.
LEMMA InvParts ==
  /\ CopiesInv => CleanupInv /\ RestoreInv /\ Joint
  /\ CleanupInv' /\ RestoreInv' /\ Joint' => CopiesInv'
BY DEF CopiesInv, CleanupInv, RestoreInv, Joint, CopyTypes

\* What every step outside the purge does to the copies: a good object is lost to a
\* mismatch delete only, other bytes come to purged clips only, and a clip is live
\* again only with its object.
CalmCopies ==
  /\ UNCHANGED <<purge, torn>> /\ CopyTypes'
  /\ waived \subseteq waived' /\ clobbered \subseteq clobbered'
  /\ \A c \in Clips :
       /\ purged'[c] => purged[c]
       /\ purged[c] /\ ~purged'[c] => r2[c] = "good" \/ c \in clobbered
       /\ r2[c] = "good" => r2'[c] = "good" \/ c \in clobbered'
       /\ r2[c] = "none" => r2'[c] \in {"none", "good"} \/ purged'[c]

\* A permit is issued only while the clip is not being purged and is recoverable.
CalmItems ==
  \A c \in PlanClips : item'[c].issued =>
    \/ item[c].issued
    \/ c \notin purge.locked /\ (r2'[c] = "good" \/ c \in waived')

\* A restore of an original starts only for a purged clip; a lease is a new attempt.
CalmRequests ==
  \A r \in Requests :
    /\ req'[r].state \in {"pending", "leased"} =>
         req[r].state \in {"pending", "leased"} \/ r \in TestRequests \/ purged[ReqClip[r]]
    /\ \/ req'[r].attempts = req[r].attempts /\ (req'[r].state = "leased" => req[r].state = "leased")
       \/ req'[r].attempts = req[r].attempts + 1

\* A handler verifies only what is there.
CalmHandlers ==
  \A s \in Slots : handler'[s] # NoHandler =>
    \/ handler'[s] = handler[s]
    \/ handler'[s].next # "verified"
    \/ handler'[s].r \in TestRequests
    \/ r2'[ReqClip[handler'[s].r]] = "good"

\* Steps outside the purge keep what the programs promise each other.
LEMMA CalmKeeps ==
  ASSUME CopiesInv, CalmCopies, CalmItems, CalmRequests, CalmHandlers, RestoreTypes'
  PROVE  Joint'
<1> USE CopiesAssumption
<1>0. Joint /\ RestoreInv  BY InvParts
<1>1. PurgeTypes' /\ PurgeOK'  BY <1>0 DEF CalmCopies, Joint, PurgeTypes, PurgeOK
<1>2. PermitHolds'
  <2> SUFFICES ASSUME NEW c \in PlanClips, item'[c].issued
               PROVE  c \notin purge.locked /\ (r2'[c] = "good" \/ c \in waived' \cup clobbered')
    BY DEF PermitHolds, CalmCopies
  <2>1. CASE item[c].issued
    <3>1. c \notin purge.locked /\ (r2[c] = "good" \/ c \in waived \cup clobbered)
      BY <1>0, <2>1 DEF Joint, PermitHolds
    <3> QED  BY <3>1 DEF CalmCopies
  <2>2. CASE c \notin purge.locked /\ (r2'[c] = "good" \/ c \in waived')
    BY <2>2
  <2> QED  BY <2>1, <2>2 DEF CalmItems
<1>3. LockedAlone'
  <2>1. \A c \in purge.locked : c \in Clips /\ ~purged[c]
    BY <1>0 DEF Joint, PurgeTypes, Purges, LockedAlone
  <2>2. \A c \in purge.locked : ~purged'[c]  BY <2>1 DEF CalmCopies
  <2>3. ASSUME NEW r \in Requests \ TestRequests, req'[r].state \in {"pending", "leased"}
        PROVE  ReqClip[r] \notin purge.locked
    <3>1. req[r].state \in {"pending", "leased"} \/ purged[ReqClip[r]]
      BY <2>3 DEF CalmRequests
    <3> QED  BY <1>0, <2>1, <3>1 DEF Joint, LockedAlone
  <2> QED  BY <2>2, <2>3 DEF LockedAlone, CalmCopies
<1>4. LiveKept'
  <2> SUFFICES ASSUME NEW c \in Clips, ~purged'[c]
               PROVE  \/ r2'[c] = "good" \/ c \in torn \cup clobbered'
                      \/ /\ c \in purge.locked \ purge.failed /\ purge.phase = "deleted"
                         /\ r2'[c] = "none"
    BY DEF LiveKept, Kept, CalmCopies
  <2>1. CASE purged[c] \/ r2[c] = "good" \/ c \in torn \cup clobbered
    BY <2>1 DEF CalmCopies
  <2>2. CASE /\ c \in purge.locked \ purge.failed /\ purge.phase = "deleted"
             /\ r2[c] = "none"
    BY <2>2 DEF CalmCopies
  <2> QED  BY <1>0, <2>1, <2>2 DEF Joint, LiveKept, Kept
<1>5. VerifiedStays'
  <2> SUFFICES ASSUME NEW s \in Slots, handler'[s] # NoHandler,
                      handler'[s].phase = "record", handler'[s].next = "verified",
                      handler'[s].r \notin TestRequests,
                      req'[handler'[s].r].state = "leased",
                      req'[handler'[s].r].attempts = handler'[s].a
               PROVE  r2'[ReqClip[handler'[s].r]] = "good" \/ ReqClip[handler'[s].r] \in clobbered'
    BY DEF VerifiedStays, Current
  <2>1. CASE r2'[ReqClip[handler'[s].r]] = "good"  BY <2>1
  <2>2. CASE handler'[s] = handler[s]
    <3>1. handler[s] \in Reports /\ handler[s] # NoHandler
      BY <1>0, <2>2 DEF RestoreInv, RestoreTypes
    <3>2. PICK r \in Requests, a \in 1..MaxRestore : r = handler[s].r /\ a = handler[s].a
      BY <3>1 DEF Reports
    <3>3. a <= req[r].attempts /\ req[r].attempts \in Nat
      BY <1>0, <3>1, <3>2 DEF RestoreInv, Handlers, RestoreTypes, Rows
    <3>4. req'[r].state = "leased" /\ req'[r].attempts = a  BY <2>2, <3>2 DEF Current
    <3>5. req'[r].attempts # req[r].attempts + 1  BY <3>3, <3>4
    <3>6. req'[r].attempts = req[r].attempts /\ req[r].state = "leased"
      BY <3>4, <3>5 DEF CalmRequests
    <3>7. Current(r, a)  BY <3>4, <3>6 DEF Current
    <3>8. r2[ReqClip[r]] = "good" \/ ReqClip[r] \in clobbered
      BY <1>0, <2>2, <3>1, <3>2, <3>7 DEF Joint, VerifiedStays
    <3>9. ReqClip[r] \in Clips  BY <3>2
    <3> QED  BY <2>2, <3>2, <3>8, <3>9 DEF CalmCopies
  <2> QED  BY <2>1, <2>2 DEF CalmHandlers
<1> QED  BY <1>1, <1>2, <1>3, <1>4, <1>5 DEF Joint, CalmCopies

\* A step that leaves a side alone is calm there.
LEMMA CalmRest ==
  ASSUME CopiesInv
  PROVE  /\ UNCHANGED <<copyVars, purge, histVars>> => CalmCopies
         /\ UNCHANGED item => CalmItems
         /\ UNCHANGED req => CalmRequests
         /\ UNCHANGED handler => CalmHandlers
<1>1. ASSUME UNCHANGED <<copyVars, purge, histVars>> PROVE CalmCopies
  BY <1>1 DEF copyVars, histVars, CalmCopies, CopiesInv, CopyTypes
<1> QED  BY <1>1 DEF CalmItems, CalmRequests, CalmHandlers

\* Every step of the cleanup keeps the invariant.
LEMMA CleanupNext == CopiesInv /\ CleanupStep => CopiesInv'
<1> SUFFICES ASSUME CopiesInv, CleanupStep PROVE CopiesInv'  OBVIOUS
<1> USE CopiesAssumption
<1>0. CleanupInv /\ RestoreInv /\ Joint  BY InvParts
<1>1. ASSUME UNCHANGED restoreVars, CleanupInv', CalmCopies, CalmItems
      PROVE  CopiesInv'
  <2>1. UNCHANGED <<req, handler>>  BY <1>1 DEF restoreVars
  <2>2. CalmRequests /\ CalmHandlers  BY <2>1, CalmRest
  <2>3. RestoreInv'  BY <1>0, <1>1, RestoreStays
  <2>4. RestoreTypes'  BY <2>3 DEF RestoreInv
  <2>5. Joint'  BY <1>1, <2>2, <2>4, CalmKeeps
  <2> QED  BY <1>1, <2>3, <2>5, InvParts
<1>2. CASE CleanupCreate \/ ControlPause \/ ControlDryRun
  <2>1. CleanupInv'  BY <1>0, <1>2, OperatorKeeps
  <2>2. UNCHANGED <<copyVars, purge, item, restoreVars, histVars>>
    BY <1>2 DEF CleanupCreate, ControlPause, ControlDryRun
  <2>3. CalmCopies /\ CalmItems  BY <2>2, CalmRest
  <2> QED  BY <1>1, <2>1, <2>2, <2>3
<1>3. CASE ControlEnable
  <2>1. CleanupInv'  BY <1>0, <1>3, OperatorKeeps
  <2>2. UNCHANGED <<copyVars, purge, restoreVars, histVars>>  BY <1>3 DEF ControlEnable
  <2>3. CalmItems
    <3>1. ASSUME NEW c \in PlanClips PROVE item'[c].issued = item[c].issued
      <4>1. item[c] \in Items  BY <1>0 DEF CleanupInv, CleanupTypes
      <4>2. item'[c] = [item[c] EXCEPT !.state = "pending"]  BY <1>3 DEF ControlEnable
      <4> QED  BY <4>1, <4>2 DEF Items
    <3> QED  BY <3>1 DEF CalmItems
  <2>4. CalmCopies  BY <2>2, CalmRest
  <2> QED  BY <1>1, <2>1, <2>2, <2>3, <2>4
<1>4. CASE CleanupLease
  <2>1. CleanupInv' /\ CalmItems  BY <1>0, <1>4, LeaseKeeps DEF CalmItems
  <2>2. UNCHANGED <<copyVars, purge, restoreVars, histVars>>  BY <1>4 DEF CleanupLease
  <2>3. CalmCopies  BY <2>2, CalmRest
  <2> QED  BY <1>1, <2>1, <2>2, <2>3
<1>5. ASSUME NEW c \in PlanClips,
             Prove(c) \/ ObserveRecord(c) \/ ObserveAgain(c) \/ Unlink(c) \/ CleanupResult(c)
      PROVE  CopiesInv'
  <2>1. CASE Prove(c) \/ ObserveAgain(c)
    <3>1. CleanupInv' /\ UNCHANGED item  BY <1>0, <2>1, ReceiptNext
    <3>2. UNCHANGED <<copyVars, purge, restoreVars, histVars>>
      BY <2>1 DEF Prove, ObserveAgain
    <3>3. CalmCopies /\ CalmItems  BY <3>1, <3>2, CalmRest
    <3> QED  BY <1>1, <3>1, <3>2, <3>3
  <2>2. CASE ObserveRecord(c)
    <3>1. PICK permit \in BOOLEAN :
           /\ ItemEffect(c, permit)
           /\ client' \in [PlanClips -> Receipts]
           /\ \A d \in PlanClips : client'[d].phase = "permitted" =>
                client[d].phase = "permitted" \/ (d = c /\ permit)
           /\ permit => /\ c \notin purge.locked
                        /\ r2[c] = "good" \/ c \in waived'
           /\ waived \subseteq waived' /\ waived' \subseteq waived \cup {c}
      BY <1>0, <2>2, ObserveEffect
    <3>2. UNCHANGED <<copyVars, purge, plan, restoreVars, bad, torn, clobbered>>
      BY <2>2 DEF ObserveRecord
    <3>3. UNCHANGED <<nas, r2, purged, inv>>  BY <3>2 DEF copyVars
    <3>4. CleanupInv'  BY <1>0, <3>1, <3>2, <3>3, ItemEffectKeeps
    <3>5. CalmCopies
      BY <1>0, <3>1, <3>2, <3>3 DEF CalmCopies, Joint, CopyTypes
    <3>6. CalmItems
      <4> SUFFICES ASSUME NEW d \in PlanClips, item'[d].issued
                   PROVE  item[d].issued \/ (d \notin purge.locked /\ (r2'[d] = "good" \/ d \in waived'))
        BY DEF CalmItems
      <4>1. CASE d # c
        <5>1. item \in [PlanClips -> Items] /\ item' = [item EXCEPT ![c] = item'[c]]
          BY <1>0, <3>1 DEF CleanupInv, CleanupTypes, ItemEffect
        <5>2. item'[d] = item[d]  BY <4>1, <5>1
        <5> QED  BY <5>2
      <4>2. CASE d = c
        <5>1. item'[c].issued = (item[c].issued \/ permit)  BY <3>1 DEF ItemEffect
        <5>2. item[c].issued \/ permit  BY <4>2, <5>1
        <5> QED  BY <3>1, <3>3, <4>2, <5>2
      <4> QED  BY <4>1, <4>2
    <3> QED  BY <1>1, <3>2, <3>4, <3>5, <3>6
  <2>3. CASE Unlink(c)
    <3>1. CleanupInv' /\ UNCHANGED item  BY <1>0, <2>3, UnlinkKeeps
    <3>2. UNCHANGED <<r2, purged, inv, purge, restoreVars, histVars>>  BY <2>3 DEF Unlink
    <3>3. CalmCopies
      BY <1>0, <3>1, <3>2 DEF CalmCopies, histVars, CleanupInv, Joint, CopyTypes
    <3>4. CalmItems  BY <3>1, CalmRest
    <3> QED  BY <1>1, <3>1, <3>2, <3>3, <3>4
  <2>4. CASE CleanupResult(c)
    <3>1. CleanupInv' /\ CalmItems  BY <1>0, <2>4, ResultKeeps DEF CalmItems
    <3>2. UNCHANGED <<copyVars, purge, restoreVars, histVars>>  BY <2>4 DEF CleanupResult
    <3>3. CalmCopies  BY <3>2, CalmRest
    <3> QED  BY <1>1, <3>1, <3>2, <3>3
  <2> QED  BY <1>5, <2>1, <2>2, <2>3, <2>4
<1>6. CASE ClientCrash
  <2>1. PICK c : c \in PlanClips
    <3>1. client = [c \in PlanClips |-> client[c]]  BY <1>0 DEF CleanupInv, CleanupTypes
    <3>2. client' # client  BY <1>6 DEF ClientCrash
    <3>3. DOMAIN client' = PlanClips  BY <1>6 DEF ClientCrash
    <3>4. client' = [c \in PlanClips |-> client'[c]]  BY <1>6 DEF ClientCrash
    <3> QED  BY <3>1, <3>2, <3>4
  <2>2. CleanupInv' /\ UNCHANGED item  BY <1>0, <1>6, <2>1, ReceiptNext
  <2>3. UNCHANGED <<copyVars, purge, restoreVars, histVars>>  BY <1>6 DEF ClientCrash
  <2>4. CalmCopies /\ CalmItems  BY <2>2, <2>3, CalmRest
  <2> QED  BY <1>1, <2>2, <2>3, <2>4
<1> QED  BY <1>2, <1>3, <1>4, <1>5, <1>6 DEF CleanupStep

\* A restore step leaves the cleanup alone.
LEMMA RestoreRest ==
  ASSUME CopiesInv, RestoreInv', CalmCopies, CalmRequests, CalmHandlers,
         UNCHANGED <<cleanupVars, permits, nas>>
  PROVE  CopiesInv'
<1>1. UNCHANGED item  BY DEF cleanupVars
<1>2. CalmItems  BY <1>1, CalmRest
<1>3. CleanupInv'  BY CleanupStays, InvParts
<1>4. RestoreTypes'  BY DEF RestoreInv
<1>5. Joint'  BY <1>2, <1>4, CalmKeeps
<1> QED  BY <1>3, <1>5, InvParts

\* The object of a request whose target is the original is the clip's.
LEMMA ObjectOfOriginal ==
  ASSUME NEW r \in Requests \ TestRequests PROVE Object(r) = r2[ReqClip[r]]
BY DEF Object

\* Requests, leases and handlers that only look.
LEMMA RestoreLooks ==
  ASSUME CopiesInv,
         \/ RestoreLease \/ ServerCrash
         \/ \E r \in Requests : RequestRestore(r) \/ CancelRestore(r)
         \/ \E r \in Requests, a \in 1..MaxRestore, s \in Slots : Report(s, r, a)
         \/ \E s \in Slots : Verify(s) \/ Deletable(s)
  PROVE  CopiesInv'
<1> USE CopiesAssumption
<1>0. CleanupInv /\ RestoreInv /\ Joint  BY InvParts
<1>a. UNCHANGED <<copyVars, purge, cleanupVars, histVars>>
  BY DEF RestoreLease, ServerCrash, RequestRestore, CancelRestore, Report, Verify, Deletable
<1>b. CalmCopies  BY <1>a, CalmRest
<1>c. UNCHANGED <<cleanupVars, permits, nas>>  BY <1>a DEF copyVars, histVars
<1>1. CASE RestoreLease
  <2>1. RestoreInv' /\ UNCHANGED handler /\ CalmRequests
    BY <1>0, <1>1, RestoreLeaseNext DEF CalmRequests
  <2> QED  BY <1>b, <1>c, <2>1, CalmRest, RestoreRest
<1>2. CASE ServerCrash
  <2>1. RestoreInv'  BY <1>0, <1>2, ServerCrashNext
  <2>2. UNCHANGED req /\ handler' = [s \in Slots |-> NoHandler]  BY <1>2 DEF ServerCrash
  <2>3. CalmHandlers  BY <2>2 DEF CalmHandlers
  <2> QED  BY <1>b, <1>c, <2>1, <2>2, <2>3, CalmRest, RestoreRest
<1>3. ASSUME NEW r \in Requests, RequestRestore(r) \/ CancelRestore(r)
      PROVE  CopiesInv'
  <2>1. RestoreInv'  BY <1>0, <1>3, RequestNext
  <2>2. UNCHANGED handler  BY <1>3 DEF RequestRestore, CancelRestore
  <2>3. CalmRequests
    <3>1. req \in [Requests -> Rows] /\ req[r] \in Rows  BY <1>0 DEF RestoreInv, RestoreTypes
    <3>2. PICK state \in {"pending", "canceled"} :
            /\ req' = [req EXCEPT ![r].state = state]
            /\ state = "pending" => r \in TestRequests \/ purged[ReqClip[r]]
      BY <1>3 DEF RequestRestore, CancelRestore
    <3>3. req' = [req EXCEPT ![r] = [req[r] EXCEPT !.state = state]]  BY <3>2
    <3>4. /\ req'[r].state = state /\ req'[r].attempts = req[r].attempts
          /\ \A q \in Requests : q # r => req'[q] = req[q]
      BY <3>1, <3>3 DEF Rows
    <3> QED  BY <3>2, <3>4 DEF CalmRequests
  <2> QED  BY <1>b, <1>c, <2>1, <2>2, <2>3, CalmRest, RestoreRest
<1>4. ASSUME NEW r \in Requests, NEW a \in 1..MaxRestore, NEW s \in Slots, Report(s, r, a)
      PROVE  CopiesInv'
  <2>1. RestoreInv' /\ \E h \in Reports : handler' = [handler EXCEPT ![s] = h] /\ h.next # "verified"
    BY <1>0, <1>4, ReportNext
  <2>2. handler \in [Slots -> Reports \cup {NoHandler}]  BY <1>0 DEF RestoreInv, RestoreTypes
  <2>3. CalmHandlers  BY <2>1, <2>2 DEF CalmHandlers
  <2>4. UNCHANGED req  BY <1>4 DEF Report
  <2> QED  BY <1>b, <1>c, <2>1, <2>3, <2>4, CalmRest, RestoreRest
<1>5. ASSUME NEW s \in Slots, Verify(s) \/ Deletable(s)
      PROVE  CopiesInv'
  <2>1. /\ RestoreInv' /\ handler[s] \in Reports
        /\ \E phase \in {"mismatch", "delete", "record"}, next \in {"verified", "failed", "retry"} :
             /\ handler' = [handler EXCEPT ![s] =
                  [handler[s] EXCEPT !.phase = phase, !.next = next]]
             /\ next = "verified" => Object(handler[s].r) = "good" /\ UNCHANGED r2
    BY <1>0, <1>5, HandlerNext
  <2>2. PICK phase \in {"mismatch", "delete", "record"}, next \in {"verified", "failed", "retry"} :
          /\ handler' = [handler EXCEPT ![s] =
               [handler[s] EXCEPT !.phase = phase, !.next = next]]
          /\ next = "verified" => Object(handler[s].r) = "good" /\ UNCHANGED r2
    BY <2>1
  <2>3. handler \in [Slots -> Reports \cup {NoHandler}]  BY <1>0 DEF RestoreInv, RestoreTypes
  <2>4. /\ handler'[s].next = next /\ handler'[s].r = handler[s].r
        /\ handler'[s].r \in Requests
        /\ \A z \in Slots : z # s => handler'[z] = handler[z]
    BY <2>1, <2>2, <2>3 DEF Reports
  <2>5. \/ handler'[s].next # "verified" \/ handler'[s].r \in TestRequests
        \/ r2'[ReqClip[handler'[s].r]] = "good"
    BY <2>2, <2>4, ObjectOfOriginal
  <2>6. CalmHandlers  BY <2>4, <2>5 DEF CalmHandlers
  <2>7. UNCHANGED req  BY <1>5 DEF Verify, Deletable
  <2> QED  BY <1>b, <1>c, <2>1, <2>6, <2>7, CalmRest, RestoreRest
<1> QED  BY <1>1, <1>2, <1>3, <1>4, <1>5

\* An upload creates an object and never replaces one.
LEMMA UploadKeeps ==
  ASSUME NEW r \in Requests, NEW a \in 1..MaxRestore, CopiesInv, Upload(r, a)
  PROVE  CopiesInv'
<1> USE CopiesAssumption
<1>0. CleanupInv /\ RestoreInv /\ Joint  BY InvParts
<1>1. RestoreInv'  BY <1>0, UploadNext
<1>2. UNCHANGED <<nas, purged, inv, purge, cleanupVars, req, handler, histVars>>  BY DEF Upload
<1>3. r2' = r2 \/ (r2[ReqClip[r]] = "none" /\ r2' = [r2 EXCEPT ![ReqClip[r]] = "good"])
  BY DEF Upload, SetObject, Object
<1>4. CalmCopies
  <2>1. r2 \in [Clips -> Objects]  BY <1>0 DEF Joint, CopyTypes
  <2>2. /\ r2' \in [Clips -> Objects]
        /\ \A c \in Clips : r2'[c] = r2[c] \/ (r2[c] = "none" /\ r2'[c] = "good")
    BY <1>3, <2>1 DEF Objects
  <2> QED  BY <1>0, <1>2, <2>2 DEF CalmCopies, histVars, Joint, CopyTypes
<1>5. CalmRequests /\ CalmHandlers  BY <1>2, CalmRest
<1> QED  BY <1>1, <1>2, <1>4, <1>5, RestoreRest DEF histVars

\* A mismatch delete takes whatever is at the key; what it took is on record.
LEMMA MismatchKeeps ==
  ASSUME NEW s \in Slots, CopiesInv, MismatchDelete(s)
  PROVE  CopiesInv'
<1> USE CopiesAssumption
<1> DEFINE c == ReqClip[handler[s].r]
<1>0. CleanupInv /\ RestoreInv /\ Joint  BY InvParts
<1>1. /\ RestoreInv' /\ handler[s] \in Reports
      /\ \E phase \in {"mismatch", "delete", "record"}, next \in {"verified", "failed", "retry"} :
           handler' = [handler EXCEPT ![s] = [handler[s] EXCEPT !.phase = phase, !.next = next]]
  BY <1>0, HandlerNext
<1>2. c \in Clips /\ handler[s].r \in Requests  BY <1>1 DEF Reports
<1>3. UNCHANGED <<nas, purged, inv, purge, cleanupVars, req, up, bad, permits, waived, torn>>
  BY DEF MismatchDelete
<1>4. \/ r2' = r2 /\ clobbered' = clobbered
      \/ /\ r2' = [r2 EXCEPT ![c] = "none"] \/ (handler[s].r \in TestRequests /\ r2' = r2)
         /\ clobbered' = IF handler[s].r \notin TestRequests /\ r2[c] = "good"
                         THEN clobbered \cup {c} ELSE clobbered
         /\ handler[s].r \in TestRequests => r2' = r2
  BY DEF MismatchDelete, SetObject
<1>5. CalmCopies
  <2>1. r2 \in [Clips -> Objects] /\ clobbered \in SUBSET Clips  BY <1>0 DEF Joint, CopyTypes
  <2>2. /\ r2' \in [Clips -> Objects] /\ clobbered' \in SUBSET Clips
        /\ clobbered \subseteq clobbered'
    BY <1>2, <1>4, <2>1 DEF Objects
  <2>3. ASSUME NEW d \in Clips
        PROVE  /\ r2[d] = "good" => r2'[d] = "good" \/ d \in clobbered'
               /\ r2[d] = "none" => r2'[d] = "none"
    <3>1. CASE r2' = r2  BY <3>1
    <3>2. CASE r2' = [r2 EXCEPT ![c] = "none"] /\ handler[s].r \notin TestRequests
      <4>1. d = c => r2'[d] = "none"  BY <1>2, <2>1, <3>2
      <4>2. d # c => r2'[d] = r2[d]  BY <1>2, <2>1, <3>2
      <4>3. d = c /\ r2[d] = "good" => r2' = r2 \/ d \in clobbered'  BY <1>4, <3>2
      <4> QED  BY <4>1, <4>2, <4>3
    <3> QED  BY <1>4, <3>1, <3>2
  <2> QED  BY <1>0, <1>3, <2>2, <2>3 DEF CalmCopies, Joint, CopyTypes
<1>6. CalmHandlers
  <2>1. PICK phase \in {"mismatch", "delete", "record"}, next \in {"failed", "retry"} :
          handler' = [handler EXCEPT ![s] = [handler[s] EXCEPT !.phase = phase, !.next = next]]
    <3>1. CASE handler' = [handler EXCEPT ![s].phase = "record", ![s].next = "retry"]
      <4>1. handler' = [handler EXCEPT ![s] = [handler[s] EXCEPT !.phase = "record", !.next = "retry"]]
        BY <3>1
      <4> QED  BY <4>1
    <3>2. CASE handler' = [handler EXCEPT ![s].phase = "record"]
      <4>1. handler[s] # NoHandler  BY Serving, <1>0 DEF MismatchDelete, RestoreInv
      <4>2. handler[s].next = "failed"  BY <1>0, <4>1 DEF MismatchDelete, RestoreInv, Handlers
      <4>3. [handler[s] EXCEPT !.phase = "record"] = [handler[s] EXCEPT !.phase = "record", !.next = "failed"]
        BY <1>1, <4>2 DEF Reports
      <4>4. handler' = [handler EXCEPT ![s] = [handler[s] EXCEPT !.phase = "record"]]  BY <3>2
      <4> QED  BY <4>3, <4>4
    <3> QED  BY <3>1, <3>2 DEF MismatchDelete
  <2>2. handler \in [Slots -> Reports \cup {NoHandler}]  BY <1>0 DEF RestoreInv, RestoreTypes
  <2>3. /\ handler'[s].next # "verified" /\ \A z \in Slots : z # s => handler'[z] = handler[z]
    BY <1>1, <2>1, <2>2 DEF Reports
  <2> QED  BY <2>3 DEF CalmHandlers
<1>7. CalmRequests  BY <1>3, CalmRest
<1> QED  BY <1>1, <1>3, <1>5, <1>6, <1>7, RestoreRest

\* A clip is live again only after its object was verified, under the same attempt.
LEMMA RecordKeeps ==
  ASSUME NEW s \in Slots, CopiesInv, Record(s)
  PROVE  CopiesInv'
<1> USE CopiesAssumption
<1> DEFINE r == handler[s].r
           c == ReqClip[r]
<1>0. CleanupInv /\ RestoreInv /\ Joint  BY InvParts
<1>1. /\ handler[s] \in Reports /\ handler[s] # NoHandler /\ r \in Requests
      /\ RecordNext(s) \in {"pending", "verified", "failed"}
      /\ RecordNext(s) = "verified" => handler[s].next = "verified"
  BY <1>0, RecordState
<1>2. RestoreInv'  BY <1>0, RecordNextInv
<1>3. UNCHANGED <<r2, nas, inv, purge, cleanupVars, up, histVars>>  BY DEF Record
<1>4. \/ purged' = purged
      \/ /\ purged' = [purged EXCEPT ![c] = FALSE]
         /\ Current(r, handler[s].a) /\ RecordNext(s) = "verified" /\ r \notin TestRequests
  BY DEF Record, RecordNext
<1>5. purged' = purged \/ r2[c] = "good" \/ c \in clobbered
  <2> SUFFICES ASSUME Current(r, handler[s].a), RecordNext(s) = "verified", r \notin TestRequests
               PROVE  r2[c] = "good" \/ c \in clobbered
    BY <1>4
  <2>1. handler[s].phase = "record"  BY DEF Record
  <2> QED  BY <1>0, <1>1, <2>1 DEF Joint, VerifiedStays
<1>6. CalmCopies
  <2>1. purged \in [Clips -> BOOLEAN]  BY <1>0 DEF Joint, CopyTypes
  <2>2. c \in Clips  BY <1>1
  <2>3. /\ purged' \in [Clips -> BOOLEAN]
        /\ \A d \in Clips : purged'[d] => purged[d]
        /\ \A d \in Clips : purged[d] /\ ~purged'[d] => d = c /\ purged' # purged
    <3>1. CASE purged' = purged  BY <2>1, <3>1
    <3>2. CASE purged' = [purged EXCEPT ![c] = FALSE]  BY <2>1, <2>2, <3>2
    <3> QED  BY <1>4, <3>1, <3>2
  <2> QED  BY <1>0, <1>3, <1>5, <2>3 DEF CalmCopies, histVars, Joint, CopyTypes
<1>7. CalmRequests
  <2>1. req \in [Requests -> Rows]  BY <1>0 DEF RestoreInv, RestoreTypes
  <2>2. CASE req' = req  BY <2>2, CalmRest
  <2>3. CASE Current(r, handler[s].a) /\ req' = [req EXCEPT ![r].state = RecordNext(s)]
    <3>1. req' = [req EXCEPT ![r] = [req[r] EXCEPT !.state = RecordNext(s)]]  BY <2>3
    <3>2. /\ req'[r].state = RecordNext(s) /\ req'[r].attempts = req[r].attempts
          /\ \A q \in Requests : q # r => req'[q] = req[q]
      BY <1>1, <2>1, <3>1 DEF Rows
    <3>3. req[r].state = "leased"  BY <2>3 DEF Current
    <3>4. RecordNext(s) # "leased"  BY <1>1
    <3> HIDE DEF r
    <3> QED  BY <3>2, <3>3, <3>4 DEF CalmRequests
  <2>4. \/ req' = req
        \/ Current(r, handler[s].a) /\ req' = [req EXCEPT ![r].state = RecordNext(s)]
    BY DEF Record, RecordNext
  <2> QED  BY <2>2, <2>3, <2>4
<1>8. CalmHandlers
  <2>1. handler \in [Slots -> Reports \cup {NoHandler}]  BY <1>0 DEF RestoreInv, RestoreTypes
  <2>2. handler' = [handler EXCEPT ![s] = NoHandler]  BY DEF Record
  <2> QED  BY <2>1, <2>2 DEF CalmHandlers
<1> QED  BY <1>2, <1>3, <1>6, <1>7, <1>8, RestoreRest DEF histVars

\* Other bytes at the key of a purged clip, and the inventory.
LEMMA OutsideKeeps ==
  ASSUME CopiesInv, InventoryScan \/ \E c \in Clips : Corrupt(c)
  PROVE  CopiesInv'
<1> USE CopiesAssumption
<1>0. CleanupInv /\ RestoreInv /\ Joint  BY InvParts
<1>1. UNCHANGED <<nas, purged, purge, cleanupVars, restoreVars, permits, waived, torn, clobbered>>
  BY DEF InventoryScan, Corrupt, histVars
<1>2. RestoreInv'  BY <1>0, <1>1, RestoreStays
<1>3. CalmCopies
  <2>1. CASE InventoryScan
    BY <1>0, <1>1, <2>1 DEF InventoryScan, CalmCopies, histVars, Joint, CopyTypes
  <2>2. ASSUME NEW c \in Clips, Corrupt(c) PROVE CalmCopies
    <3>1. /\ purged[c] /\ r2[c] = "none" /\ bad < MaxBad /\ UNCHANGED inv
          /\ r2' = [r2 EXCEPT ![c] = "bad"] /\ bad' = bad + 1
      BY <2>2 DEF Corrupt
    <3>2. r2 \in [Clips -> Objects] /\ bad \in 0..MaxBad  BY <1>0 DEF Joint, CopyTypes
    <3>3. bad' \in 0..MaxBad  BY <3>1, <3>2
    <3>4. /\ r2' \in [Clips -> Objects]
          /\ \A d \in Clips : r2'[d] = r2[d] \/ (r2[d] = "none" /\ purged[d])
      BY <3>1, <3>2 DEF Objects
    <3> QED  BY <1>0, <1>1, <3>1, <3>3, <3>4 DEF CalmCopies, Joint, CopyTypes
  <2> QED  BY <2>1, <2>2
<1>4. UNCHANGED <<req, handler>>  BY <1>1 DEF restoreVars
<1>5. CalmRequests /\ CalmHandlers  BY <1>4, CalmRest
<1> QED  BY <1>1, <1>2, <1>3, <1>5, RestoreRest

-----------------------------------------------------------------------------
(* The purge.                                                              *)

\* The purge leaves the cleanup and the restore alone.
PurgeQuiet == UNCHANGED <<nas, inv, cleanupVars, restoreVars, bad, permits, waived, clobbered>>

LEMMA PurgeRest ==
  ASSUME CopiesInv, PurgeQuiet, Joint' PROVE CopiesInv'
<1>0. CleanupInv /\ RestoreInv  BY InvParts
<1>1. CleanupInv'  BY <1>0, CleanupStays DEF PurgeQuiet
<1>2. RestoreInv'  BY <1>0, RestoreStays DEF PurgeQuiet
<1> QED  BY <1>1, <1>2, InvParts

\* The batches still to do promise nothing.
LEMMA BatchesKeep ==
  ASSUME CopiesInv, PurgeQuiet, UNCHANGED <<r2, purged, torn>>,
         NEW batches \in Seq(SUBSET Clips), purge' = [purge EXCEPT !.batches = batches]
  PROVE  CopiesInv'
<1>0. Joint  BY InvParts
<1>1. /\ purge' \in Purges /\ purge'.locked = purge.locked
      /\ purge'.failed = purge.failed /\ purge'.phase = purge.phase
  BY <1>0 DEF Joint, PurgeTypes, Purges
<1>2. UNCHANGED <<nas, inv, item, req, handler, bad, waived, clobbered>>
  BY DEF PurgeQuiet, cleanupVars, restoreVars
<1>3. CopyTypes' /\ PurgeTypes' /\ PurgeOK'
  BY <1>0, <1>1, <1>2 DEF Joint, CopyTypes, PurgeTypes, PurgeOK
<1>4. PermitHolds' /\ LockedAlone'
  BY <1>0, <1>1, <1>2 DEF Joint, PermitHolds, LockedAlone
<1>5. LiveKept' /\ VerifiedStays'
  BY <1>0, <1>1, <1>2 DEF Joint, LiveKept, Kept, VerifiedStays, Current
<1>6. Joint'  BY <1>3, <1>4, <1>5 DEF Joint
<1> QED  BY <1>6, PurgeRest

LEMMA ScanKeeps == CopiesInv /\ PurgeScan => CopiesInv'
<1> SUFFICES ASSUME CopiesInv, PurgeScan PROVE CopiesInv'  OBVIOUS
<1>1. PICK ready \in SUBSET Clips : purge' = [purge EXCEPT !.batches = <<ready>>]
  BY DEF PurgeScan
<1>2. <<ready>> \in Seq(SUBSET Clips)  OBVIOUS
<1>3. UNCHANGED <<copyVars, cleanupVars, restoreVars, histVars>>  BY DEF PurgeScan
<1>4. PurgeQuiet /\ UNCHANGED <<r2, purged, torn>>  BY <1>3 DEF PurgeQuiet, copyVars, histVars
<1> QED  BY <1>1, <1>2, <1>4, BatchesKeep

\* A clip with a permit is held, whatever the mode of the plan.
LEMMA IssuedHeld ==
  ASSUME CopiesInv, NEW c \in PlanClips, item[c].issued PROVE Held(c)
BY DEF CopiesInv, Permits, Held

\* The rows are locked under every fact: not purged, not being restored, not held.
LEMMA LockKeeps == CopiesInv /\ PurgeLock => CopiesInv'
<1> SUFFICES ASSUME CopiesInv, PurgeLock PROVE CopiesInv'  OBVIOUS
<1> USE CopiesAssumption
<1>0. Joint /\ purge \in Purges  BY InvParts DEF Joint, PurgeTypes
<1>1. purge.phase = "idle" /\ purge.batches # <<>>  BY DEF PurgeLock
<1>2. UNCHANGED <<copyVars, cleanupVars, restoreVars, histVars>>  BY DEF PurgeLock
<1>3. PurgeQuiet /\ UNCHANGED <<r2, purged, torn>>  BY <1>2 DEF PurgeQuiet, copyVars, histVars
<1>4. purge.batches \in Seq(SUBSET Clips)  BY <1>0 DEF Purges
<1>5. Head(purge.batches) \in SUBSET Clips /\ Tail(purge.batches) \in Seq(SUBSET Clips)
  BY <1>1, <1>4
<1>6. CASE purge' = [purge EXCEPT !.batches = Tail(@)]
  <2>1. purge' = [purge EXCEPT !.batches = Tail(purge.batches)]  BY <1>6
  <2> QED  BY <1>3, <1>5, <2>1, BatchesKeep
<1>7. CASE \E half \in SUBSET Head(purge.batches) :
             purge' = [purge EXCEPT !.batches = <<half, Head(purge.batches) \ half>> \o Tail(@)]
  <2>1. PICK half \in SUBSET Head(purge.batches) :
          purge' = [purge EXCEPT !.batches = <<half, Head(purge.batches) \ half>> \o Tail(purge.batches)]
    BY <1>7
  <2>2. half \in SUBSET Clips /\ Head(purge.batches) \ half \in SUBSET Clips  BY <1>5
  <2>3. <<half, Head(purge.batches) \ half>> \in Seq(SUBSET Clips)  BY <2>2
  <2>4. <<half, Head(purge.batches) \ half>> \o Tail(purge.batches) \in Seq(SUBSET Clips)
    BY <1>5, <2>3
  <2> QED  BY <1>3, <2>1, <2>4, BatchesKeep
<1>8. CASE \E aged \in SUBSET Requests :
             LET locked == {c \in Head(purge.batches) : PurgeFacts(c, aged)} IN
             /\ \A c \in locked : ~Held(c)
             /\ purge' = [purge EXCEPT !.batches = Tail(@), !.locked = locked, !.phase = "locked"]
  <2>1. PICK locked \in SUBSET Clips, aged \in SUBSET Requests :
          /\ \A c \in locked : PurgeFacts(c, aged) /\ ~Held(c)
          /\ purge' = [purge EXCEPT !.batches = Tail(purge.batches), !.locked = locked,
                                    !.phase = "locked"]
    BY <1>5, <1>8
  <2>2. /\ purge' \in Purges /\ purge'.locked = locked
        /\ purge'.failed = purge.failed /\ purge'.phase = "locked"
    BY <1>0, <1>5, <2>1 DEF Purges
  <2>3. UNCHANGED <<nas, inv, plan, item, req, handler, bad, waived, clobbered>>
    BY <1>2 DEF copyVars, cleanupVars, restoreVars, histVars
  <2>4. purge.failed = {} /\ purge.locked = {}  BY <1>0, <1>1 DEF Joint, PurgeOK
  <2>5. CopyTypes' /\ PurgeTypes' /\ PurgeOK'
    BY <1>0, <1>3, <2>2, <2>3, <2>4 DEF Joint, CopyTypes, PurgeTypes, PurgeOK
  <2>6. PermitHolds'
    <3>1. \A c \in PlanClips : item[c].issued => c \notin locked  BY <2>1, IssuedHeld
    <3> QED  BY <1>0, <1>3, <2>2, <2>3, <3>1 DEF Joint, PermitHolds
  <2>7. LockedAlone'
    <3>1. \A c \in locked : ~purged[c]  BY <2>1 DEF PurgeFacts
    <3>2. \A r \in Requests : req[r].state \in {"pending", "leased"} => ReqClip[r] \notin locked
      BY <2>1 DEF PurgeFacts, NoRestore
    <3> QED  BY <1>3, <2>2, <2>3, <3>1, <3>2 DEF LockedAlone
  <2>8. LiveKept'
    BY <1>0, <1>3, <2>3, <2>4 DEF Joint, LiveKept, Kept
  <2>9. VerifiedStays'  BY <1>0, <1>3, <2>3 DEF Joint, VerifiedStays, Current
  <2>10. Joint'  BY <2>5, <2>6, <2>7, <2>8, <2>9 DEF Joint
  <2> QED  BY <1>3, <2>10, PurgeRest
<1> QED  BY <1>6, <1>7, <1>8 DEF PurgeLock

\* The deletes take objects of locked clips only.
LEMMA DeleteKeeps == CopiesInv /\ PurgeDelete => CopiesInv'
<1> SUFFICES ASSUME CopiesInv, PurgeDelete PROVE CopiesInv'  OBVIOUS
<1> USE CopiesAssumption
<1>0. Joint /\ RestoreInv /\ purge \in Purges /\ r2 \in [Clips -> Objects]
  BY InvParts DEF Joint, PurgeTypes, CopyTypes
<1>1. PICK failed \in SUBSET purge.locked :
        /\ purge' = [purge EXCEPT !.phase = "deleted", !.failed = failed]
        /\ r2' = [c \in Clips |-> IF c \in purge.locked \ failed THEN "none" ELSE r2[c]]
  BY DEF PurgeDelete
<1>2. UNCHANGED <<nas, purged, inv, cleanupVars, restoreVars, histVars>> /\ purge.phase = "locked"
  BY DEF PurgeDelete
<1>3. PurgeQuiet /\ UNCHANGED torn  BY <1>2 DEF PurgeQuiet, histVars
<1>4. UNCHANGED <<nas, purged, inv, plan, item, req, handler, bad, waived, torn, clobbered>>
  BY <1>2 DEF cleanupVars, restoreVars, histVars
<1>5. purge.locked \in SUBSET Clips  BY <1>0 DEF Purges
<1>6. /\ purge' \in Purges /\ purge'.locked = purge.locked
      /\ purge'.failed = failed /\ purge'.phase = "deleted"
  <2>1. failed \in SUBSET Clips  BY <1>5
  <2> QED  BY <1>0, <1>1, <2>1 DEF Purges
<1>7. /\ r2' \in [Clips -> Objects]
      /\ \A c \in Clips : c \notin purge.locked \ failed => r2'[c] = r2[c]
      /\ \A c \in purge.locked \ failed : r2'[c] = "none"
  BY <1>0, <1>1, <1>5 DEF Objects
<1>8. CopyTypes' /\ PurgeTypes' /\ PurgeOK'
  BY <1>0, <1>4, <1>6, <1>7 DEF Joint, CopyTypes, PurgeTypes, PurgeOK
<1>9. PermitHolds'
  BY <1>0, <1>4, <1>6, <1>7 DEF Joint, PermitHolds
<1>10. LockedAlone'  BY <1>0, <1>4, <1>6 DEF Joint, LockedAlone
<1>11. LiveKept'
  <2> SUFFICES ASSUME NEW c \in Clips, ~purged[c]
               PROVE  \/ r2'[c] = "good" \/ c \in torn \cup clobbered
                      \/ c \in purge.locked \ failed /\ r2'[c] = "none"
    BY <1>4, <1>6 DEF LiveKept, Kept
  <2>1. CASE c \in purge.locked \ failed  BY <1>7, <2>1
  <2>2. CASE c \notin purge.locked \ failed
    <3>1. r2[c] = "good" \/ c \in torn \cup clobbered  BY <1>0, <1>2 DEF Joint, LiveKept, Kept
    <3> QED  BY <1>7, <2>2, <3>1
  <2> QED  BY <2>1, <2>2
<1>12. VerifiedStays'
  <2> SUFFICES ASSUME NEW s \in Slots, handler[s] # NoHandler, handler[s].phase = "record",
                      handler[s].next = "verified", handler[s].r \notin TestRequests,
                      Current(handler[s].r, handler[s].a)
               PROVE  r2'[ReqClip[handler[s].r]] = "good" \/ ReqClip[handler[s].r] \in clobbered
    BY <1>4 DEF VerifiedStays, Current
  <2>1. handler[s] \in Reports  BY <1>0 DEF RestoreInv, RestoreTypes
  <2>2. handler[s].r \in Requests \ TestRequests  BY <2>1 DEF Reports
  <2>3. ReqClip[handler[s].r] \notin purge.locked  BY <1>0, <2>2 DEF Joint, LockedAlone, Current
  <2>4. ReqClip[handler[s].r] \in Clips  BY <2>2
  <2> QED  BY <1>0, <1>7, <2>3, <2>4 DEF Joint, VerifiedStays
<1>13. Joint'  BY <1>8, <1>9, <1>10, <1>11, <1>12 DEF Joint
<1> QED  BY <1>3, <1>13, PurgeRest

\* The transaction ends: committed, the deleted clips are purged; rolled back, the
\* clips whose object is gone are torn.
LEMMA EndKeeps == CopiesInv /\ (PurgeCommit \/ PurgeAbort) => CopiesInv'
<1> SUFFICES ASSUME CopiesInv, PurgeCommit \/ PurgeAbort PROVE CopiesInv'  OBVIOUS
<1> USE CopiesAssumption
<1>0. Joint /\ purge \in Purges /\ purged \in [Clips -> BOOLEAN]
      /\ purge.locked \in SUBSET Clips /\ purge.batches \in Seq(SUBSET Clips)
  BY InvParts DEF Joint, PurgeTypes, CopyTypes, Purges
<1>1. UNCHANGED <<r2, nas, inv, cleanupVars, restoreVars, bad, permits, waived, clobbered>>
  BY DEF PurgeCommit, PurgeAbort, copyVars
<1>2. PurgeQuiet  BY <1>1 DEF PurgeQuiet
<1>3. UNCHANGED <<r2, nas, inv, plan, item, req, handler, bad, waived, clobbered>>
  BY <1>1 DEF cleanupVars, restoreVars
<1>4. purge' \in Purges /\ purge'.locked = {} /\ purge'.failed = {} /\ purge'.phase = "idle"
  <2>1. CASE PurgeCommit
    <3>1. purge' = [purge EXCEPT !.phase = "idle", !.locked = {}, !.failed = {}]
      BY <2>1 DEF PurgeCommit
    <3> QED  BY <1>0, <3>1 DEF Purges
  <2>2. CASE PurgeAbort
    <3>1. purge' = [batches |-> <<>>, locked |-> {}, failed |-> {}, phase |-> "idle"]
      BY <2>2 DEF PurgeAbort
    <3>2. <<>> \in Seq(SUBSET Clips)  OBVIOUS
    <3> QED  BY <3>1, <3>2 DEF Purges
  <2> QED  BY <2>1, <2>2
<1>5. /\ purged' \in [Clips -> BOOLEAN] /\ torn' \in SUBSET Clips
      /\ LiveKept'
  <2>0. torn \in SUBSET Clips  BY <1>0 DEF Joint, CopyTypes
  <2>1. CASE PurgeCommit
    <3>1. /\ purged' = [c \in Clips |-> purged[c] \/ c \in purge.locked \ purge.failed]
          /\ torn' = torn \ (purge.locked \ purge.failed)
      BY <2>1 DEF PurgeCommit
    <3>2. \A c \in Clips : purged'[c] \/ r2[c] = "good" \/ c \in torn' \cup clobbered
      <4> SUFFICES ASSUME NEW c \in Clips, ~purged[c], c \notin purge.locked \ purge.failed
                   PROVE  r2[c] = "good" \/ c \in torn \cup clobbered
        BY <3>1
      <4> QED  BY <1>0 DEF Joint, LiveKept, Kept
    <3>3. purged' \in [Clips -> BOOLEAN]
      <4>1. \A c \in Clips : (purged[c] \/ c \in purge.locked \ purge.failed) \in BOOLEAN  OBVIOUS
      <4> QED  BY <3>1, <4>1
    <3>4. torn' \in SUBSET Clips  BY <2>0, <3>1
    <3> QED  BY <1>3, <3>2, <3>3, <3>4 DEF LiveKept, Kept
  <2>2. CASE PurgeAbort
    <3>1. torn' = torn \cup {c \in purge.locked : r2[c] = "none"} /\ purged' = purged
      BY <2>2 DEF PurgeAbort, copyVars
    <3>2. \A c \in Clips : purged[c] \/ r2[c] = "good" \/ c \in torn' \cup clobbered
      BY <1>0, <3>1 DEF Joint, LiveKept, Kept
    <3> QED  BY <1>0, <1>3, <2>0, <3>1, <3>2 DEF LiveKept, Kept
  <2> QED  BY <2>1, <2>2
<1>6. CopyTypes' /\ PurgeTypes' /\ PurgeOK'
  BY <1>0, <1>3, <1>4, <1>5 DEF Joint, CopyTypes, PurgeTypes, PurgeOK
<1>7. PermitHolds' /\ LockedAlone' /\ VerifiedStays'
  BY <1>0, <1>3, <1>4 DEF Joint, PermitHolds, LockedAlone, VerifiedStays, Current
<1>8. Joint'  BY <1>5, <1>6, <1>7 DEF Joint
<1> QED  BY <1>2, <1>8, PurgeRest

-----------------------------------------------------------------------------
(* The theorems.                                                           *)

\* The invariant holds in every reachable state.
THEOREM CopiesInvariant == Spec => []CopiesInv
<1>1. CopiesInv /\ [Next]_vars => CopiesInv'
  <2> SUFFICES ASSUME CopiesInv, [Next]_vars PROVE CopiesInv'  OBVIOUS
  <2>1. CASE PurgeStep  BY <2>1, ScanKeeps, LockKeeps, DeleteKeeps, EndKeeps DEF PurgeStep
  <2>2. CASE CleanupStep  BY <2>2, CleanupNext
  <2>3. CASE RestoreStep
    BY <2>3, RestoreLooks, UploadKeeps, MismatchKeeps, RecordKeeps DEF RestoreStep
  <2>4. CASE InventoryScan \/ \E c \in Clips : Corrupt(c)  BY <2>4, OutsideKeeps
  <2>5. CASE UNCHANGED vars
    <3>1. UNCHANGED <<copyVars, purge, cleanupVars, restoreVars, histVars>>  BY <2>5 DEF vars
    <3>2. CalmCopies  BY <3>1, CalmRest
    <3>3. UNCHANGED <<req, handler, cleanupVars, permits, nas>>
      BY <3>1 DEF copyVars, restoreVars, histVars
    <3>4. RestoreInv'  BY <3>1, RestoreStays, InvParts
    <3> QED  BY <3>2, <3>3, <3>4, CalmRest, RestoreRest
  <2> QED  BY <2>1, <2>2, <2>3, <2>4, <2>5 DEF Next
<1> QED  BY <1>1, CopiesInit, PTL DEF Spec

\* Rows, receipts, handlers and copies keep their types, attempts within their bounds.
THEOREM CopyTypesHold == Spec => []TypeOK
<1>1. CopiesInv => TypeOK  BY TypesAgree DEF CopiesInv
<1> QED  BY <1>1, CopiesInvariant, PTL

\* One permit at most is issued for an item, over lost answers, expired leases,
\* crashes of the client, pauses and renewed approvals.
THEOREM PermitSafety == Spec => []OnePermit
<1>1. CopiesInv => OnePermit
  <2> SUFFICES ASSUME CopiesInv, NEW c \in PlanClips PROVE permits[c] <= 1  BY DEF OnePermit
  <2>1. permits[c] \in {0, 1}  BY DEF CopiesInv, CleanupTypes
  <2> QED  BY <2>1
<1> QED  BY <1>1, CopiesInvariant, PTL

\* Purge, cleanup and restore together leave one copy of every clip, but for the
\* deletions the operator allowed and what a mismatch delete took.
THEOREM CopySafety == Spec => []LastCopy
<1>1. CopiesInv => LastCopy  BY DEF CopiesInv, FilesGone, PermitHolds, LastCopy
<1> QED  BY <1>1, CopiesInvariant, PTL

\* A clip that is offered has its object, but for a purge that did not commit and what
\* a mismatch delete took.
THEOREM ObjectSafety == Spec => []LiveHasObject
<1>1. CopiesInv => LiveHasObject  BY DEF CopiesInv, LiveKept, Kept, LiveHasObject
<1> QED  BY <1>1, CopiesInvariant, PTL

\* No upload, however late, brings a swept test object back.
THEOREM SweepSafety == Spec => []SweptStaysGone
<1>1. CopiesInv => SweptStaysGone  BY DEF CopiesInv, Swept, SweptStaysGone
<1> QED  BY <1>1, CopiesInvariant, PTL
=============================================================================
