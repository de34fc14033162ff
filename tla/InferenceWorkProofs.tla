------------------------- MODULE InferenceWorkProofs -------------------------
(***************************************************************************)
(* What the inference queue and the box manager guarantee for any number   *)
(* of frames, claims and boxers, whatever expires, is abandoned or rolls   *)
(* back on the way.                                                        *)
(*                                                                         *)
(* A claim of the run and its target point at each other from the grant    *)
(* until the result (RunClaims, Targets): the sweeps that abandon a claim  *)
(* wait for the rows a commit has locked, so a commit in progress keeps    *)
(* its target.  A claim of its own is alone on its frame (AdhocAlone).     *)
(* What a commit wrote for the run stays true until it commits, because a  *)
(* final target stays final (OpenOK).                                      *)
(***************************************************************************)
EXTENDS InferenceWork, SequenceTheorems, TLAPS

-----------------------------------------------------------------------------
(* The inductive invariant.                                                *)

\* A boxer that is not idle works on a stored result, within its attempts; once it
\* goes to close the job, the result is not waiting for it any more.
BoxOK ==
  \A b \in Boxers :
    IF box[b].at = "idle" THEN box[b] = NoBox
    ELSE /\ box[b].res \in Claims
         /\ box[b].tries < MaxTries
         /\ holder[box[b].res] # "working"
         /\ box[b].at \in {"closing", "unsure"} => result[box[b].res] # "queued_boxed"

\* A runner at work has stored nothing yet.
WorkOK == \A c \in Claims : holder[c] = "working" => result[c] = "none"

\* Every open transaction is the only one of its claim, which it has locked; the run
\* status it wrote is right about the targets of the others.
OpenOK ==
  /\ \A i \in DOMAIN open : /\ holder[open[i].claim] = "working"
                            /\ claim[open[i].claim].status = "leased"
  /\ \A i, k \in DOMAIN open : open[i].claim = open[k].claim => i = k
  /\ \A i \in DOMAIN open : open[i].run \in RunEnded =>
       \A f \in Frames : f = claim[open[i].claim].frame \/ target[f].status \in Final

\* A leased claim of the run has its target, and so has one with a result.
RunClaims ==
  \A c \in Claims : claim[c].scope = "run" =>
    /\ claim[c].status = "leased" =>
         target[claim[c].frame].status = "leased" /\ target[claim[c].frame].claim = c
    /\ result[c] # "none" =>
         target[claim[c].frame].status \in Final /\ target[claim[c].frame].claim = c

\* A final target names the claim that ended it, which has its result.
Targets ==
  \A f \in Frames : target[f].status \in Final =>
    LET c == target[f].claim
    IN c \in Claims /\ claim[c].frame = f /\ claim[c].scope = "run" /\ result[c] # "none"

\* A leased claim of its own is the only one of its frame, and unless forced the
\* first to get a result there.
AdhocAlone ==
  \A c, d \in Claims :
    /\ c # d /\ claim[c].frame = claim[d].frame
    /\ claim[c].scope = "adhoc" /\ claim[d].scope = "adhoc" /\ claim[c].status = "leased"
    => claim[d].status # "leased" /\ (claim[c].force \/ result[d] \notin Processed)

AdhocResults ==
  \A c, d \in Claims :
    /\ c # d /\ claim[c].frame = claim[d].frame
    /\ claim[c].scope = "adhoc" /\ claim[d].scope = "adhoc"
    /\ result[c] \in Processed /\ result[d] \in Processed
    => claim[c].force \/ claim[d].force

InferenceInv ==
  /\ TypeOK
  /\ BoxOK
  /\ WorkOK
  /\ OpenOK
  /\ RunClaims
  /\ Targets
  /\ AdhocAlone
  /\ AdhocResults
  /\ RunClosesLast
  /\ QueuedHasJob

-----------------------------------------------------------------------------
(* Sequences, types and the effect of a step.                              *)

\* A sequence that lost one element: the others keep their order.
LEMMA RemovedAt ==
  ASSUME NEW S, NEW s \in Seq(S), NEW i \in DOMAIN s
  PROVE  /\ RemoveAt(s, i) \in Seq(S)
         /\ Len(RemoveAt(s, i)) = Len(s) - 1
         /\ \A k \in 1..(Len(s) - 1) : RemoveAt(s, i)[k] = s[IF k < i THEN k ELSE k + 1]
<1> DEFINE before == SubSeq(s, 1, i - 1)
           after == SubSeq(s, i + 1, Len(s))
<1>1. i \in 1..Len(s) /\ Len(s) \in Nat  OBVIOUS
<1>2. before \in Seq(S) /\ Len(before) = i - 1 /\ \A k \in 1..(i - 1) : before[k] = s[k]  BY <1>1
<1>3. /\ after \in Seq(S) /\ Len(after) = Len(s) - i
      /\ \A k \in 1..(Len(s) - i) : after[k] = s[i + k]
  BY <1>1
<1> HIDE DEF before, after
<1>4. /\ before \o after \in Seq(S) /\ Len(before \o after) = Len(s) - 1
      /\ \A k \in 1..(Len(s) - 1) :
            (before \o after)[k] = IF k <= i - 1 THEN before[k] ELSE after[k - (i - 1)]
  <2>1. before \in Seq(S) /\ after \in Seq(S)  BY <1>2, <1>3
  <2>2. /\ before \o after \in Seq(S)
        /\ Len(before \o after) = Len(before) + Len(after)
        /\ \A k \in 1..(Len(before) + Len(after)) :
              (before \o after)[k] = IF k <= Len(before) THEN before[k] ELSE after[k - Len(before)]
    BY <2>1, ConcatProperties, Zenon
  <2>3. Len(before) + Len(after) = Len(s) - 1  BY <1>1, <1>2, <1>3
  <2>4. Len(before) = i - 1  BY <1>2
  <2> QED  BY <2>2, <2>3, <2>4, Zenon
<1>5. ASSUME NEW k \in 1..(Len(s) - 1)
      PROVE  (before \o after)[k] = s[IF k < i THEN k ELSE k + 1]
  <2>1. CASE k < i  BY <1>1, <1>2, <1>4, <2>1
  <2>2. CASE ~(k < i)
    <3> DEFINE m == k - (i - 1)
    <3>1. m \in 1..(Len(s) - i) /\ i + m = k + 1 /\ ~(k <= i - 1)  BY <1>1, <2>2
    <3>2. (before \o after)[k] = after[m]  BY <1>4, <3>1
    <3>3. after[m] = s[k + 1]  BY <1>3, <3>1
    <3> QED  BY <2>2, <3>2, <3>3
  <2> QED  BY <2>1, <2>2
<1> QED  BY <1>4, <1>5 DEF RemoveAt, before, after

\* The claims of open transactions are claims.
LEMMA OpenClaims ==
  ASSUME TypeOK, NEW i \in DOMAIN open
  PROVE  /\ open[i].claim \in Claims /\ open[i].claim \in Open
         /\ open[i].verdict \in Processed \cup {"error"}
         /\ open[i].run \in {"running"} \cup RunEnded
<1> DEFINE Trans == [claim: Claims, verdict: Processed \cup {"error"}, run: {"running"} \cup RunEnded]
<1>1. open \in Seq(Trans)  BY DEF TypeOK
<1>2. open[i] \in Trans
  <2> HIDE DEF Trans
  <2> QED  BY <1>1
<1>3. open[i].claim \in Open  BY DEF Open
<1> QED  BY <1>2, <1>3

\* What the box manager does to results: one that waits for its box is settled.
Settling ==
  /\ UNCHANGED runnerVars
  /\ \A c \in Claims : \/ result'[c] = result[c]
                       \/ result[c] = "queued_boxed" /\ result'[c] \in {"success", "error"}

LEMMA BoxSettles ==
  ASSUME TypeOK, BoxOK, BoxStep
  PROVE  Settling
<1> USE DEF Settling, Guarded
<1>t. result \in [Claims -> {"none", "error"} \cup Processed]  BY DEF TypeOK
<1>1. CASE ExpireLeases \/ (\E c \in Claims : JobLeaseEnds(c) \/ BackoffElapses(c))
  BY <1>1 DEF ExpireLeases, JobLeaseEnds, BackoffElapses
<1>2. CASE \E b \in Boxers, c \in Claims : ClaimOne(b, c)  BY <1>2 DEF ClaimOne
<1>3. CASE \E b \in Boxers : LoadContext(b) \/ CompleteDoneOnly(b) \/ BoxerDies(b)
  BY <1>3 DEF LoadContext, CompleteDoneOnly, BoxerDies
<1>4. CASE \E b \in Boxers, answered \in BOOLEAN : BoxStored(b, answered)
  BY <1>t, <1>4 DEF BoxStored
<1>5. CASE \E b \in Boxers, terminal \in BOOLEAN : FailJob(b, terminal)
  BY <1>t, <1>5 DEF FailJob
<1> QED  BY <1>1, <1>2, <1>3, <1>4, <1>5 DEF BoxStep

\* Abandoning claims changes nothing but their status.
LEMMA AbandonedRows ==
  ASSUME NEW rows \in [Claims -> NewRow], NEW C
  PROVE  /\ Abandoned(rows, C) \in [Claims -> NewRow]
         /\ \A c \in Claims :
              /\ Abandoned(rows, C)[c].frame = rows[c].frame
              /\ Abandoned(rows, C)[c].scope = rows[c].scope
              /\ Abandoned(rows, C)[c].force = rows[c].force
              /\ Abandoned(rows, C)[c].late = rows[c].late
              /\ Abandoned(rows, C)[c].status =
                   IF c \in C THEN "abandoned" ELSE rows[c].status
<1>1. ASSUME NEW d \in Claims
      PROVE  [rows[d] EXCEPT !.status = "abandoned"] \in NewRow
  BY DEF NewRow
<1>2. Abandoned(rows, C) \in [Claims -> NewRow]  BY <1>1 DEF Abandoned
<1>3. ASSUME NEW c \in Claims
      PROVE  /\ Abandoned(rows, C)[c].frame = rows[c].frame
             /\ Abandoned(rows, C)[c].scope = rows[c].scope
             /\ Abandoned(rows, C)[c].force = rows[c].force
             /\ Abandoned(rows, C)[c].late = rows[c].late
             /\ Abandoned(rows, C)[c].status =
                  IF c \in C THEN "abandoned" ELSE rows[c].status
  <2>1. CASE c \in C
    <3>1. Abandoned(rows, C)[c] = [rows[c] EXCEPT !.status = "abandoned"]  BY <2>1 DEF Abandoned
    <3> QED  BY <2>1, <3>1 DEF NewRow
  <2>2. CASE c \notin C
    <3>1. Abandoned(rows, C)[c] = rows[c]  BY <2>2 DEF Abandoned
    <3> QED  BY <2>2, <3>1
  <2> QED  BY <2>1, <2>2
<1> QED  BY <1>2, <1>3

\* Granting writes one row.
LEMMA GrantedRow ==
  ASSUME NEW rows \in [Claims -> NewRow], NEW c \in Claims, NEW f \in Frames,
         NEW scope \in Scopes, NEW force \in BOOLEAN
  PROVE  /\ Granted(rows, c, f, scope, force) \in [Claims -> NewRow]
         /\ Granted(rows, c, f, scope, force)[c] =
              [frame |-> f, scope |-> scope, force |-> force, status |-> "leased", late |-> FALSE]
         /\ \A d \in Claims : d # c => Granted(rows, c, f, scope, force)[d] = rows[d]
BY DEF Granted, NewRow

-----------------------------------------------------------------------------
(* The invariant is inductive: the initial states.                         *)

LEMMA InferenceInit == Init => InferenceInv
<1> SUFFICES ASSUME Init PROVE InferenceInv  OBVIOUS
<1>f. PICK f \in Frames : claim \in [Claims -> [frame: {f}, scope: {"adhoc"},
                           force: {FALSE}, status: {"none"}, late: {FALSE}]]
  BY InferenceAssumption DEF Init
<1>0. \A c \in Claims : /\ claim[c] \in NewRow /\ claim[c].scope = "adhoc"
                        /\ claim[c].status = "none"
  <2> SUFFICES ASSUME NEW c \in Claims
               PROVE  claim[c] \in NewRow /\ claim[c].scope = "adhoc" /\ claim[c].status = "none"
    OBVIOUS
  <2>1. claim[c] \in [frame: {f}, scope: {"adhoc"}, force: {FALSE}, status: {"none"}, late: {FALSE}]
    BY <1>f
  <2>2. claim[c] = [frame |-> f, scope |-> "adhoc", force |-> FALSE, status |-> "none", late |-> FALSE]
    BY <2>1
  <2>3. [frame |-> f, scope |-> "adhoc", force |-> FALSE, status |-> "none", late |-> FALSE] \in NewRow
    BY DEF NewRow, Scopes
  <2> QED  BY <2>2, <2>3
<1>c. claim \in [Claims -> NewRow]
  BY <1>f, <1>0
<1> USE DEF Init
<1>1. \A c \in Claims : claim[c].scope = "adhoc" /\ claim[c].status = "none" /\ result[c] = "none"
  BY <1>0
<1>2. /\ \A g \in Frames : target[g].status = "pending" /\ target[g].claim = NoClaim
      /\ open \in Seq({}) /\ DOMAIN open = {} /\ Len(open) = 0
  OBVIOUS
<1>3. TypeOK
  <2>2. target \in [Frames -> [status: {"pending", "leased", "completed", "error", "abandoned"},
                               claim: Claims \cup {NoClaim}]]
    OBVIOUS
  <2>3. open \in Seq([claim: Claims, verdict: Processed \cup {"error"}, run: {"running"} \cup RunEnded])
    OBVIOUS
  <2>4. job \in [Claims -> Job]  BY InferenceAssumption DEF Job, NoJob
  <2>5. box \in [Boxers -> Boxer]  BY InferenceAssumption DEF Boxer, NoBox
  <2> QED  BY <1>2, <1>c, <2>2, <2>3, <2>4, <2>5 DEF TypeOK
<1>4. BoxOK /\ WorkOK  BY DEF BoxOK, WorkOK, NoBox
<1>5. OpenOK  BY <1>2 DEF OpenOK
<1>6. RunClaims /\ Targets  BY <1>1, <1>2 DEF RunClaims, Targets, Final
<1>7. AdhocAlone /\ AdhocResults  BY <1>1 DEF AdhocAlone, AdhocResults, Processed
<1>8. RunClosesLast /\ QueuedHasJob  BY <1>1 DEF RunClosesLast, RunEnded, QueuedHasJob
<1> QED  BY <1>3, <1>4, <1>5, <1>6, <1>7, <1>8 DEF InferenceInv

-----------------------------------------------------------------------------
(* The box manager.                                                        *)

\* Settling a result disturbs nothing of claims, targets and transactions.
LEMMA SettlingKeeps ==
  ASSUME InferenceInv, Settling
  PROVE  /\ WorkOK' /\ OpenOK' /\ RunClaims' /\ Targets'
         /\ AdhocAlone' /\ AdhocResults' /\ RunClosesLast'
<1>1. UNCHANGED runnerVars  BY DEF Settling
<1>2. \A c \in Claims : /\ result[c] = "none" <=> result'[c] = "none"
                        /\ result'[c] \in Processed => result[c] \in Processed
  BY DEF Settling, Processed
<1> USE DEF InferenceInv, runnerVars
<1>3. WorkOK' /\ OpenOK' /\ RunClosesLast'  BY <1>1, <1>2 DEF WorkOK, OpenOK, RunClosesLast
<1>4. RunClaims' /\ Targets'  BY <1>1, <1>2 DEF RunClaims, Targets
<1>5. AdhocAlone' /\ AdhocResults'  BY <1>1, <1>2 DEF AdhocAlone, AdhocResults
<1> QED  BY <1>3, <1>4, <1>5

\* Types, boxers and jobs over the steps of the box manager.
LEMMA BoxNext ==
  ASSUME InferenceInv, BoxStep
  PROVE  TypeOK' /\ BoxOK' /\ QueuedHasJob'
<1>s. Settling  BY BoxSettles DEF InferenceInv
<1>t. /\ job \in [Claims -> Job] /\ box \in [Boxers -> Boxer]
      /\ result \in [Claims -> {"none", "error"} \cup Processed]
      /\ MaxTries \in Nat \ {0}
  BY InferenceAssumption DEF InferenceInv, TypeOK
<1>n. NoBox \in Boxer  BY <1>t DEF NoBox, Boxer
\* What has to be shown of each action: the rest follows from Settling.
<1> DEFINE Kept(b) ==
             IF box'[b].at = "idle" THEN box'[b] = NoBox
             ELSE /\ box'[b].res \in Claims
                  /\ box'[b].tries < MaxTries
                  /\ holder[box'[b].res] # "working"
                  /\ box'[b].at \in {"closing", "unsure"} => result'[box'[b].res] # "queued_boxed"
           JobKept(c) == result'[c] = "queued_boxed" =>
                           job'[c].status \in {"pending", "leased", "error"} /\ job'[c].tries < MaxTries
           Goal == /\ job' \in [Claims -> Job] /\ box' \in [Boxers -> Boxer]
                   /\ result' \in [Claims -> {"none", "error"} \cup Processed]
                   /\ \A b \in Boxers : Kept(b)
                   /\ \A c \in Claims : JobKept(c)
<1>g. ASSUME Goal PROVE TypeOK' /\ BoxOK' /\ QueuedHasJob'
  <2>1. TypeOK'  BY <1>g, <1>s DEF Settling, runnerVars, InferenceInv, TypeOK
  <2>2. BoxOK'  BY <1>g, <1>s DEF Settling, runnerVars, BoxOK
  <2>3. QueuedHasJob'  BY <1>g DEF QueuedHasJob
  <2> QED  BY <2>1, <2>2, <2>3
<1>k. /\ \A b \in Boxers : box'[b] = box[b] => Kept(b)
      /\ \A c \in Claims : job'[c] = job[c] => JobKept(c)
      /\ \A c \in Claims : result[c] # "queued_boxed" => result'[c] # "queued_boxed"
  <2>1. \A c \in Claims : result[c] # "queued_boxed" => result'[c] # "queued_boxed"
    BY <1>s DEF Settling
  <2>2. \A c \in Claims : result'[c] = "queued_boxed" => result[c] = "queued_boxed"  BY <2>1
  <2> QED  BY <2>1, <2>2 DEF InferenceInv, BoxOK, QueuedHasJob
<1>i. ASSUME NEW b \in Boxers, Idle(b)
      PROVE  box' \in [Boxers -> Boxer] /\ \A a \in Boxers : Kept(a)
  <2>1. box' = [box EXCEPT ![b] = NoBox]  BY <1>i DEF Idle
  <2>2. box'[b] = NoBox /\ \A a \in Boxers : a # b => box'[a] = box[a]  BY <1>t, <2>1
  <2>3. NoBox.at = "idle"  BY DEF NoBox
  <2>4. \A a \in Boxers : Kept(a)
    <3> SUFFICES ASSUME NEW a \in Boxers PROVE Kept(a)  OBVIOUS
    <3>1. CASE a # b  BY <1>k, <2>2, <3>1
    <3>2. CASE a = b
      <4>1. box'[a] = NoBox /\ box'[a].at = "idle"  BY <2>2, <2>3, <3>2
      <4> QED  BY <4>1
    <3> QED  BY <3>1, <3>2
  <2> QED  BY <1>n, <1>t, <2>1, <2>4
<1>c. ASSUME NEW c \in Claims, Close(c), result'[c] # "queued_boxed"
      PROVE  job' \in [Claims -> Job] /\ \A d \in Claims : JobKept(d)
  <2>1. job' = [job EXCEPT ![c] = [job[c] EXCEPT !.status = "done", !.late = FALSE]]
    BY <1>c DEF Close
  <2>2. [job[c] EXCEPT !.status = "done", !.late = FALSE] \in Job  BY <1>t DEF Job
  <2>3. \A d \in Claims : d # c => job'[d] = job[d]  BY <1>t, <2>1
  <2> QED  BY <1>c, <1>k, <1>t, <2>1, <2>2, <2>3
<1>1. CASE ExpireLeases
  <2>1. /\ box' = box /\ result' = result
        /\ job' = [c \in Claims |-> IF job[c].status = "leased" /\ job[c].late
                               THEN [job[c] EXCEPT !.status = "pending", !.late = FALSE]
                               ELSE job[c]]
    BY <1>1 DEF ExpireLeases
  <2>2. ASSUME NEW c \in Claims PROVE job'[c] \in Job /\ JobKept(c)
    <3>1. CASE job'[c] = job[c]  BY <1>k, <1>t, <3>1
    <3>2. CASE job'[c] = [job[c] EXCEPT !.status = "pending", !.late = FALSE]
      <4> DEFINE row == job[c]
      <4>0. row \in Job  BY <1>t
      <4>1. LET new == [row EXCEPT !.status = "pending", !.late = FALSE]
            IN new \in Job /\ new.status = "pending" /\ new.tries = row.tries
        <5> HIDE DEF row
        <5> QED  BY <4>0 DEF Job
      <4>2. job'[c] \in Job /\ job'[c].status = "pending" /\ job'[c].tries = job[c].tries
        BY <3>2, <4>1
      <4> QED  BY <2>1, <4>2 DEF InferenceInv, QueuedHasJob
    <3> QED  BY <2>1, <3>1, <3>2
  <2>3. job' \in [Claims -> Job]  BY <2>1, <2>2
  <2> QED  BY <1>g, <1>k, <1>t, <2>1, <2>2, <2>3
<1>2. ASSUME NEW c \in Claims, JobLeaseEnds(c) \/ BackoffElapses(c)
      PROVE  TypeOK' /\ BoxOK' /\ QueuedHasJob'
  <2>1. /\ box' = box /\ result' = result
        /\ \/ job' = [job EXCEPT ![c] = [job[c] EXCEPT !.late = TRUE]]
           \/ job' = [job EXCEPT ![c] = [job[c] EXCEPT !.waiting = FALSE]]
    BY <1>2 DEF JobLeaseEnds, BackoffElapses
  <2>2. /\ [job[c] EXCEPT !.late = TRUE] \in Job /\ [job[c] EXCEPT !.waiting = FALSE] \in Job
        /\ job'[c].status = job[c].status /\ job'[c].tries = job[c].tries
    <3>1. PICK row : row = job[c]  OBVIOUS
    <3>2. row \in Job  BY <1>t, <3>1
    <3>3. [row EXCEPT !.late = TRUE] \in Job /\ [row EXCEPT !.waiting = FALSE] \in Job
      BY <3>2 DEF Job
    <3>4. job'[c] = [row EXCEPT !.late = TRUE] \/ job'[c] = [row EXCEPT !.waiting = FALSE]
      BY <1>t, <2>1, <3>1
    <3>5. job'[c].status = row.status /\ job'[c].tries = row.tries
      BY <3>2, <3>4 DEF Job
    <3> QED  BY <3>1, <3>3, <3>5
  <2>3. job' \in [Claims -> Job] /\ \A d \in Claims : d # c => job'[d] = job[d]
    BY <1>t, <2>1, <2>2
  <2>4. \A d \in Claims : JobKept(d)  BY <1>k, <2>1, <2>2, <2>3 DEF InferenceInv, QueuedHasJob
  <2> QED  BY <1>g, <1>k, <1>t, <2>1, <2>3, <2>4
<1>3. ASSUME NEW b \in Boxers, NEW c \in Claims, ClaimOne(b, c)
      PROVE  TypeOK' /\ BoxOK' /\ QueuedHasJob'
  <2>1. /\ result' = result /\ result[c] = "queued_boxed" /\ job[c].tries < MaxTries
        /\ job' = [job EXCEPT ![c] = [job[c] EXCEPT !.status = "leased", !.late = FALSE]]
        /\ box' = [box EXCEPT ![b] = [at |-> "claimed", res |-> c, tries |-> job[c].tries]]
    BY <1>3 DEF ClaimOne, Claimable
  <2>2. /\ [job[c] EXCEPT !.status = "leased", !.late = FALSE] \in Job
        /\ job'[c].status = "leased" /\ job'[c].tries = job[c].tries
        /\ job[c].tries \in 0..MaxTries
    BY <1>t, <2>1 DEF Job
  <2>3. job' \in [Claims -> Job] /\ \A d \in Claims : d # c => job'[d] = job[d]
    BY <1>t, <2>1, <2>2
  <2>4. \A d \in Claims : JobKept(d)  BY <1>k, <2>1, <2>2, <2>3
  <2>5. /\ box' \in [Boxers -> Boxer]
        /\ \A a \in Boxers : a # b => box'[a] = box[a]
        /\ box'[b].at = "claimed" /\ box'[b].res = c /\ box'[b].tries = job[c].tries
    BY <1>t, <2>1, <2>2 DEF Boxer
  <2>6. holder[c] # "working"  BY <2>1 DEF InferenceInv, WorkOK
  <2>7. \A a \in Boxers : Kept(a)  BY <1>k, <2>1, <2>5, <2>6
  <2> QED  BY <1>g, <1>t, <2>1, <2>3, <2>4, <2>5, <2>7
<1>4. ASSUME NEW b \in Boxers, LoadContext(b)
      PROVE  TypeOK' /\ BoxOK' /\ QueuedHasJob'
  <2>1. /\ result' = result /\ job' = job /\ box[b].at = "claimed"
        /\ box' = [box EXCEPT ![b] = [box[b] EXCEPT
                     !.at = IF result[box[b].res] = "queued_boxed" THEN "drawing" ELSE "closing"]]
    BY <1>4 DEF LoadContext
  <2>2. /\ box[b].res \in Claims /\ box[b].tries < MaxTries /\ holder[box[b].res] # "working"
    BY <2>1 DEF InferenceInv, BoxOK
  <2>3. /\ box' \in [Boxers -> Boxer]
        /\ \A a \in Boxers : a # b => box'[a] = box[a]
        /\ box'[b].res = box[b].res /\ box'[b].tries = box[b].tries
        /\ box'[b].at = IF result[box[b].res] = "queued_boxed" THEN "drawing" ELSE "closing"
    BY <1>t, <2>1 DEF Boxer
  <2>4. Kept(b)  BY <2>1, <2>2, <2>3
  <2> QED  BY <1>g, <1>k, <1>t, <2>1, <2>3, <2>4
<1>5. ASSUME NEW b \in Boxers, CompleteDoneOnly(b)
      PROVE  TypeOK' /\ BoxOK' /\ QueuedHasJob'
  <2>1. result' = result /\ box[b].at = "closing" /\ Close(box[b].res) /\ Idle(b)
    BY <1>5 DEF CompleteDoneOnly
  <2>2. box[b].res \in Claims /\ result[box[b].res] # "queued_boxed"
    BY <2>1 DEF InferenceInv, BoxOK
  <2> QED  BY <1>c, <1>g, <1>i, <1>t, <2>1, <2>2
<1>6. ASSUME NEW b \in Boxers, BoxerDies(b)
      PROVE  TypeOK' /\ BoxOK' /\ QueuedHasJob'
  <2>1. result' = result /\ job' = job /\ Idle(b)  BY <1>6 DEF BoxerDies
  <2> QED  BY <1>g, <1>i, <1>k, <1>t, <2>1
<1>7. ASSUME NEW b \in Boxers, NEW answered \in BOOLEAN, BoxStored(b, answered)
      PROVE  TypeOK' /\ BoxOK' /\ QueuedHasJob'
  <2> DEFINE c == box[b].res
  <2>1. /\ box[b].at = "drawing"
        /\ result' = [result EXCEPT ![c] = Guarded(c, "success")]
        /\ Close(c)
        /\ Idle(b) \/ box' = [box EXCEPT ![b] = [box[b] EXCEPT !.at = "unsure"]]
    BY <1>7 DEF BoxStored
  <2>2. c \in Claims /\ box[b].tries < MaxTries /\ holder[c] # "working"
    BY <2>1 DEF InferenceInv, BoxOK
  <2>3. /\ result' \in [Claims -> {"none", "error"} \cup Processed]
        /\ result'[c] # "queued_boxed"
    BY <1>t, <2>1, <2>2 DEF Guarded, Processed
  <2>4. job' \in [Claims -> Job] /\ \A d \in Claims : JobKept(d)  BY <1>c, <2>1, <2>2, <2>3
  <2>5. CASE box' = [box EXCEPT ![b] = [box[b] EXCEPT !.at = "unsure"]]
    <3>1. /\ box' \in [Boxers -> Boxer]
          /\ \A a \in Boxers : a # b => box'[a] = box[a]
          /\ box'[b].res = c /\ box'[b].tries = box[b].tries /\ box'[b].at = "unsure"
      BY <1>t, <2>5 DEF Boxer
    <3>2. Kept(b)  BY <2>2, <2>3, <3>1
    <3> QED  BY <1>g, <1>k, <2>3, <2>4, <3>1, <3>2
  <2> QED  BY <1>g, <1>i, <2>1, <2>3, <2>4, <2>5
<1>8. ASSUME NEW b \in Boxers, NEW terminal \in BOOLEAN, FailJob(b, terminal)
      PROVE  TypeOK' /\ BoxOK' /\ QueuedHasJob'
  <2> DEFINE c == box[b].res
  <2>1. /\ box[b].at # "idle"
        /\ result' = [result EXCEPT ![c] = IF LastTry(b, terminal) THEN Guarded(c, "error") ELSE result[c]]
        /\ job' = [job EXCEPT ![c] = [status |-> "error", tries |-> box[b].tries + 1, late |-> FALSE,
                                      waiting |-> ~LastTry(b, terminal)]]
        /\ Idle(b)
    BY <1>8 DEF FailJob
  <2>2. c \in Claims /\ box[b].tries < MaxTries /\ box[b].tries \in 0..MaxTries
    BY <1>t, <2>1 DEF InferenceInv, BoxOK, Boxer
  <2>3. result' \in [Claims -> {"none", "error"} \cup Processed]
    BY <1>t, <2>1, <2>2 DEF Guarded, Processed
  <2>4. result'[c] = "queued_boxed" => box[b].tries + 1 < MaxTries
    <3>1. LastTry(b, terminal) => result'[c] # "queued_boxed"
      BY <1>t, <2>1, <2>2 DEF Guarded
    <3>2. ~LastTry(b, terminal) => ~(box[b].tries + 1 >= MaxTries)  BY DEF LastTry
    <3> QED  BY <1>t, <2>2, <3>1, <3>2
  <2>5. /\ job' \in [Claims -> Job]
        /\ job'[c].status = "error" /\ job'[c].tries = box[b].tries + 1
        /\ \A d \in Claims : d # c => job'[d] = job[d]
    <3>1. box[b].tries + 1 \in 0..MaxTries  BY <1>t, <2>2
    <3>b. (~LastTry(b, terminal)) \in BOOLEAN  OBVIOUS
    <3>2. [status |-> "error", tries |-> box[b].tries + 1, late |-> FALSE,
           waiting |-> ~LastTry(b, terminal)] \in Job
      BY <3>1, <3>b DEF Job
    <3> QED  BY <1>t, <2>1, <2>2, <3>2
  <2>6. \A d \in Claims : JobKept(d)  BY <1>k, <2>4, <2>5
  <2> QED  BY <1>g, <1>i, <2>1, <2>3, <2>5, <2>6
<1> QED  BY <1>1, <1>2, <1>3, <1>4, <1>5, <1>6, <1>7, <1>8 DEF BoxStep

-----------------------------------------------------------------------------
(* The runners: sweeps, and ends of claims that store nothing.             *)

\* What sweeps and clocks do to claims: the rows keep what they are for, at most
\* their leases end, and those of open transactions do not.
Fading ==
  /\ claim' \in [Claims -> NewRow]
  /\ \A c \in Claims :
       /\ claim'[c].frame = claim[c].frame /\ claim'[c].scope = claim[c].scope
       /\ claim'[c].force = claim[c].force
       /\ \/ claim'[c].status = claim[c].status
          \/ claim'[c].status = "abandoned" /\ c \notin Open
  /\ UNCHANGED <<holder, target, run, open, result, job, box>>

LEMMA SweepsFade ==
  ASSUME TypeOK,
         \/ ClaimNothing
         \/ \E expiredOnly \in BOOLEAN : AbandonClaims(expiredOnly)
         \/ \E c \in Claims : LeaseEnds(c)
  PROVE  Fading
<1>t. claim \in [Claims -> NewRow]  BY DEF TypeOK
<1>1. ASSUME NEW C, claim' = Abandoned(claim, C), Unlocked(C),
             UNCHANGED <<holder, target, run, open, result, job, box>>
      PROVE  Fading
  <2>1. claim' \in [Claims -> NewRow]  BY <1>1, <1>t, AbandonedRows
  <2>2. ASSUME NEW c \in Claims
        PROVE  /\ claim'[c].frame = claim[c].frame /\ claim'[c].scope = claim[c].scope
               /\ claim'[c].force = claim[c].force
               /\ \/ claim'[c].status = claim[c].status
                  \/ claim'[c].status = "abandoned" /\ c \notin Open
    <3>1. c \in C => c \notin Open  BY <1>1 DEF Unlocked
    <3> QED  BY <1>1, <1>t, <3>1, AbandonedRows
  <2> QED  BY <1>1, <2>1, <2>2 DEF Fading
<1>2. CASE ClaimNothing  BY <1>1, <1>2 DEF ClaimNothing, SweepForClaim
<1>3. ASSUME NEW expiredOnly \in BOOLEAN, AbandonClaims(expiredOnly) PROVE Fading
  <2> DEFINE C == IF expiredOnly THEN Late ELSE Leased
  <2>1. claim' = Abandoned(claim, C) /\ Unlocked(C)
        /\ UNCHANGED <<holder, target, run, open, result, job, box>>
    BY <1>3 DEF AbandonClaims
  <2> HIDE DEF C
  <2> QED  BY <1>1, <2>1
<1>4. ASSUME NEW c \in Claims, LeaseEnds(c) PROVE Fading
  <2>1. /\ claim' = [claim EXCEPT ![c] = [claim[c] EXCEPT !.late = TRUE]]
        /\ UNCHANGED <<holder, target, run, open, result, job, box>>
    BY <1>4 DEF LeaseEnds
  <2>2. [claim[c] EXCEPT !.late = TRUE] \in NewRow  BY <1>t DEF NewRow
  <2>3. claim' \in [Claims -> NewRow]
    <3> DEFINE row == [claim[c] EXCEPT !.late = TRUE]
    <3>1. row \in NewRow /\ claim' = [claim EXCEPT ![c] = row]  BY <2>1, <2>2
    <3> HIDE DEF row
    <3> QED  BY <1>t, <3>1
  <2>4. \A d \in Claims :
           /\ claim'[d].frame = claim[d].frame /\ claim'[d].scope = claim[d].scope
           /\ claim'[d].force = claim[d].force /\ claim'[d].status = claim[d].status
    BY <1>t, <2>1 DEF NewRow
  <2> QED  BY <2>1, <2>3, <2>4 DEF Fading
<1> QED  BY <1>2, <1>3, <1>4

LEMMA FadingKeeps ==
  ASSUME InferenceInv, Fading
  PROVE  InferenceInv'
<1>1. UNCHANGED <<holder, target, run, open, result, job, box>>  BY DEF Fading
<1>2. \A c \in Claims :
        /\ claim'[c].frame = claim[c].frame /\ claim'[c].scope = claim[c].scope
        /\ claim'[c].force = claim[c].force
        /\ claim'[c].status = "leased" => claim[c].status = "leased"
  BY DEF Fading
<1>o. \A i \in DOMAIN open : open[i].claim \in Claims /\ open[i].claim \in Open
  BY OpenClaims DEF InferenceInv
<1>3. TypeOK'
  <2>1. \A i \in DOMAIN open : claim'[open[i].claim].scope = "run"
    BY <1>2, <1>o DEF InferenceInv, TypeOK
  <2> QED  BY <1>1, <2>1 DEF InferenceInv, TypeOK, Fading
<1>4. BoxOK' /\ WorkOK' /\ RunClosesLast' /\ QueuedHasJob'
  BY <1>1 DEF InferenceInv, BoxOK, WorkOK, RunClosesLast, QueuedHasJob
<1>5. OpenOK'
  <2>1. \A i \in DOMAIN open : claim'[open[i].claim].status = claim[open[i].claim].status
    BY <1>o DEF Fading
  <2> QED  BY <1>1, <1>2, <1>o, <2>1 DEF InferenceInv, OpenOK
<1>6. RunClaims' /\ Targets'
  BY <1>1, <1>2 DEF InferenceInv, RunClaims, Targets
<1>7. AdhocAlone' /\ AdhocResults'
  BY <1>1, <1>2 DEF InferenceInv, AdhocAlone, AdhocResults
<1> QED  BY <1>3, <1>4, <1>5, <1>6, <1>7 DEF InferenceInv

\* A runner that gives up without an open transaction.
LEMMA GivingUp ==
  ASSUME InferenceInv, NEW c \in Claims, (\E force \in Forces : CommitRefused(c, force)) \/ RunnerDies(c)
  PROVE  InferenceInv'
<1>1. /\ holder' = [holder EXCEPT ![c] = "gone"] /\ c \notin Open
      /\ UNCHANGED <<claim, target, run, open, result, job, box>>
  BY DEF CommitRefused, RunnerDies
<1>2. /\ holder' \in [Claims -> {"idle", "working", "gone"}]
      /\ \A d \in Claims : d # c => holder'[d] = holder[d]
      /\ holder'[c] = "gone"
  BY <1>1 DEF InferenceInv, TypeOK
<1>3. TypeOK'  BY <1>1, <1>2 DEF InferenceInv, TypeOK
<1>4. BoxOK' /\ WorkOK' /\ RunClosesLast' /\ QueuedHasJob'
  BY <1>1, <1>2 DEF InferenceInv, BoxOK, WorkOK, RunClosesLast, QueuedHasJob
<1>5. OpenOK'
  <2>1. \A i \in DOMAIN open : open[i].claim \in Claims /\ open[i].claim # c
    BY <1>1, OpenClaims DEF InferenceInv
  <2> QED  BY <1>1, <1>2, <2>1 DEF InferenceInv, OpenOK
<1>6. RunClaims' /\ Targets' /\ AdhocAlone' /\ AdhocResults'
  BY <1>1 DEF InferenceInv, RunClaims, Targets, AdhocAlone, AdhocResults
<1> QED  BY <1>3, <1>4, <1>5, <1>6 DEF InferenceInv

\* A transaction rolls back: those that stay open keep what they hold.
LEMMA RollingBack ==
  ASSUME InferenceInv, NEW c \in Claims, CommitRollsBack(c)
  PROVE  InferenceInv'
<1> DEFINE Trans == [claim: Claims, verdict: Processed \cup {"error"}, run: {"running"} \cup RunEnded]
<1>1. PICK i \in DOMAIN open : open' = RemoveAt(open, i)  BY DEF CommitRollsBack
<1>u. UNCHANGED <<claim, holder, target, run, result, job, box>>  BY DEF CommitRollsBack
<1>t. open \in Seq(Trans)  BY DEF InferenceInv, TypeOK
<1> DEFINE from(k) == IF k < i THEN k ELSE k + 1
<1>2. /\ open' \in Seq(Trans)
      /\ \A k \in DOMAIN open' : from(k) \in DOMAIN open /\ open'[k] = open[from(k)]
      /\ \A k, m \in DOMAIN open' : from(k) = from(m) => k = m
  <2> HIDE DEF Trans
  <2>1. /\ open' \in Seq(Trans) /\ Len(open') = Len(open) - 1
        /\ \A k \in 1..(Len(open) - 1) : open'[k] = open[from(k)]
    BY <1>1, <1>t, RemovedAt
  <2>2. DOMAIN open' = 1..(Len(open) - 1) /\ DOMAIN open = 1..Len(open) /\ Len(open) \in Nat
    BY <1>t, <2>1
  <2>3. \A k \in 1..(Len(open) - 1) : from(k) \in 1..Len(open)  BY <1>1, <2>2
  <2>4. \A k, m \in 1..(Len(open) - 1) : from(k) = from(m) => k = m  BY <1>1, <2>2
  <2> QED  BY <2>1, <2>2, <2>3, <2>4
<1> HIDE DEF from
<1>3. TypeOK'  BY <1>2, <1>u DEF InferenceInv, TypeOK
<1>4. BoxOK' /\ WorkOK' /\ RunClosesLast' /\ QueuedHasJob'
  BY <1>u DEF InferenceInv, BoxOK, WorkOK, RunClosesLast, QueuedHasJob
<1>5. OpenOK'
  <2>1. \A k \in DOMAIN open : /\ holder[open[k].claim] = "working"
                               /\ claim[open[k].claim].status = "leased"
    BY DEF InferenceInv, OpenOK
  <2>2. \A k, m \in DOMAIN open : open[k].claim = open[m].claim => k = m
    BY DEF InferenceInv, OpenOK
  <2>3. \A k \in DOMAIN open : open[k].run \in RunEnded =>
           \A f \in Frames : f = claim[open[k].claim].frame \/ target[f].status \in Final
    BY DEF InferenceInv, OpenOK
  <2> QED  BY <1>2, <1>u, <2>1, <2>2, <2>3 DEF OpenOK
<1>6. RunClaims' /\ Targets' /\ AdhocAlone' /\ AdhocResults'
  BY <1>u DEF InferenceInv, RunClaims, Targets, AdhocAlone, AdhocResults
<1> QED  BY <1>3, <1>4, <1>5, <1>6 DEF InferenceInv

-----------------------------------------------------------------------------
(* The runners: grants.                                                    *)

\* A grant of claim c on frame f: its row is written over a spare one, the claims in
\* "gone" are abandoned.
GrantEffect(c, f, scope, force, gone) ==
  /\ claim' \in [Claims -> NewRow]
  /\ claim'[c] = [frame |-> f, scope |-> scope, force |-> force, status |-> "leased", late |-> FALSE]
  /\ \A d \in Claims : d # c =>
       /\ claim'[d].frame = claim[d].frame /\ claim'[d].scope = claim[d].scope
       /\ claim'[d].force = claim[d].force
       /\ claim'[d].status = IF d \in gone THEN "abandoned" ELSE claim[d].status
  /\ gone \cap Open = {}
  /\ holder' \in [Claims -> {"idle", "working", "gone"}]
  /\ \A d \in Claims : d # c => holder'[d] = holder[d] /\ result'[d] = result[d] /\ job'[d] = job[d]
  /\ result' \in [Claims -> {"none", "error"} \cup Processed] /\ job' \in [Claims -> Job]
  /\ result'[c] = "none"
  /\ holder[c] # "working" /\ \A b \in Boxers : box[b].res # c
  /\ UNCHANGED <<open, box>>

LEMMA GrantStep ==
  ASSUME InferenceInv, NEW targets, NEW c \in Spare(targets), NEW f \in Frames,
         NEW scope \in Scopes, NEW force \in BOOLEAN, NEW gone, Unlocked(gone),
         NEW h \in {"working", "gone"},
         claim' = Granted(Abandoned(claim, gone), c, f, scope, force),
         holder' = [holder EXCEPT ![c] = h],
         Fresh(c), UNCHANGED <<open, box>>
  PROVE  c \in Claims /\ GrantEffect(c, f, scope, force, gone)
<1> DEFINE rows == Abandoned(claim, gone)
<1>t. /\ claim \in [Claims -> NewRow] /\ job \in [Claims -> Job]
      /\ holder \in [Claims -> {"idle", "working", "gone"}]
      /\ result \in [Claims -> {"none", "error"} \cup Processed]
  BY DEF InferenceInv, TypeOK
<1>c. c \in Claims /\ holder[c] # "working" /\ \A b \in Boxers : box[b].res # c
  BY DEF Spare
<1>1. /\ rows \in [Claims -> NewRow]
      /\ \A d \in Claims :
           /\ rows[d].frame = claim[d].frame /\ rows[d].scope = claim[d].scope
           /\ rows[d].force = claim[d].force
           /\ rows[d].status = IF d \in gone THEN "abandoned" ELSE claim[d].status
  BY <1>t, AbandonedRows
<1>2. /\ claim' \in [Claims -> NewRow]
      /\ claim'[c] = [frame |-> f, scope |-> scope, force |-> force, status |-> "leased", late |-> FALSE]
      /\ \A d \in Claims : d # c => claim'[d] = rows[d]
  <2> HIDE DEF rows
  <2>1. claim' = Granted(rows, c, f, scope, force)  BY DEF rows
  <2> QED  BY <1>1, <1>c, <2>1, GrantedRow
<1>3. \A d \in Claims : d # c =>
       /\ claim'[d].frame = claim[d].frame /\ claim'[d].scope = claim[d].scope
       /\ claim'[d].force = claim[d].force
       /\ claim'[d].status = IF d \in gone THEN "abandoned" ELSE claim[d].status
  <2> HIDE DEF rows
  <2> QED  BY <1>1, <1>2
<1>4. /\ holder' \in [Claims -> {"idle", "working", "gone"}]
      /\ \A d \in Claims : d # c => holder'[d] = holder[d]
  BY <1>t, <1>c
<1>5. /\ result' \in [Claims -> {"none", "error"} \cup Processed] /\ result'[c] = "none"
      /\ \A d \in Claims : d # c => result'[d] = result[d]
  BY <1>t, <1>c DEF Fresh
<1>6. job' \in [Claims -> Job] /\ \A d \in Claims : d # c => job'[d] = job[d]
  <2>1. NoJob \in Job  BY InferenceAssumption DEF NoJob, Job
  <2>2. job' = [job EXCEPT ![c] = NoJob]  BY DEF Fresh
  <2> QED  BY <1>t, <1>c, <2>1, <2>2
<1> QED  BY <1>c, <1>2, <1>3, <1>4, <1>5, <1>6 DEF GrantEffect, Unlocked

\* What a grant preserves whatever it is for.
LEMMA GrantKeeps ==
  ASSUME InferenceInv, NEW c \in Claims, NEW f \in Frames, NEW scope \in Scopes,
         NEW force \in BOOLEAN, NEW gone, GrantEffect(c, f, scope, force, gone)
  PROVE  /\ BoxOK' /\ WorkOK' /\ AdhocResults' /\ QueuedHasJob'
         /\ \A i \in DOMAIN open : /\ open[i].claim \in Claims /\ open[i].claim # c
                                   /\ holder'[open[i].claim] = "working"
                                   /\ claim'[open[i].claim].status = "leased"
                                   /\ claim'[open[i].claim].scope = "run"
                                   /\ claim'[open[i].claim].frame = claim[open[i].claim].frame
<1> USE DEF GrantEffect
<1>1. BoxOK'
  <2> SUFFICES ASSUME NEW b \in Boxers, box[b].at # "idle"
               PROVE  /\ box[b].res \in Claims
                      /\ box[b].tries < MaxTries
                      /\ holder'[box[b].res] # "working"
                      /\ box[b].at \in {"closing", "unsure"} => result'[box[b].res] # "queued_boxed"
    BY DEF InferenceInv, BoxOK
  <2> QED  BY DEF InferenceInv, BoxOK
<1>2. WorkOK'  BY DEF InferenceInv, WorkOK
<1>3. AdhocResults'
  <2> SUFFICES ASSUME NEW d \in Claims, NEW e \in Claims, d # e,
                      claim'[d].frame = claim'[e].frame,
                      claim'[d].scope = "adhoc", claim'[e].scope = "adhoc",
                      result'[d] \in Processed, result'[e] \in Processed
               PROVE  claim'[d].force \/ claim'[e].force
    BY DEF AdhocResults
  <2>1. d # c /\ e # c  BY DEF Processed
  <2> QED  BY <2>1 DEF InferenceInv, AdhocResults
<1>4. QueuedHasJob'  BY DEF InferenceInv, QueuedHasJob
<1>5. ASSUME NEW i \in DOMAIN open
      PROVE  /\ open[i].claim \in Claims /\ open[i].claim # c
             /\ holder'[open[i].claim] = "working"
             /\ claim'[open[i].claim].status = "leased"
             /\ claim'[open[i].claim].scope = "run"
             /\ claim'[open[i].claim].frame = claim[open[i].claim].frame
  <2>1. /\ open[i].claim \in Claims /\ open[i].claim \in Open
        /\ holder[open[i].claim] = "working" /\ claim[open[i].claim].status = "leased"
        /\ claim[open[i].claim].scope = "run"
    BY OpenClaims DEF InferenceInv, OpenOK, TypeOK
  <2>2. open[i].claim # c /\ open[i].claim \notin gone  BY <2>1
  <2> QED  BY <2>1, <2>2
<1> QED  BY <1>1, <1>2, <1>3, <1>4, <1>5

LEMMA ClaimFramesNext ==
  ASSUME InferenceInv, NEW f \in Frames, NEW c \in Claims, NEW force \in BOOLEAN,
         ClaimFrames(f, c, force)
  PROVE  InferenceInv'
<1>u. UNCHANGED <<target, run, open, box>>  BY DEF ClaimFrames
<1>c. c \in Spare(target)  BY DEF ClaimFrames
<1>1. GrantEffect(c, f, "adhoc", force, Late)
  BY <1>c, GrantStep DEF ClaimFrames, SweepForClaim, Scopes
<1>2. /\ BoxOK' /\ WorkOK' /\ AdhocResults' /\ QueuedHasJob'
      /\ \A i \in DOMAIN open : /\ open[i].claim \in Claims /\ open[i].claim # c
                                /\ holder'[open[i].claim] = "working"
                                /\ claim'[open[i].claim].status = "leased"
                                /\ claim'[open[i].claim].scope = "run"
                                /\ claim'[open[i].claim].frame = claim[open[i].claim].frame
  BY <1>1, GrantKeeps DEF Scopes
<1>3. claim'[c].frame = f /\ claim'[c].scope = "adhoc" /\ claim'[c].force = force
  BY <1>1 DEF GrantEffect
<1>4. \A d \in Claims : d # c =>
         /\ claim'[d].frame = claim[d].frame /\ claim'[d].scope = claim[d].scope
         /\ claim'[d].force = claim[d].force
         /\ claim'[d].status = "leased" => claim[d].status = "leased" /\ d \in Leased \ Late
         /\ result'[d] = result[d]
  BY <1>1 DEF GrantEffect, Leased
<1>5. TypeOK'  BY <1>1, <1>2, <1>u DEF InferenceInv, TypeOK, GrantEffect
<1>6. OpenOK'  BY <1>2, <1>u DEF InferenceInv, OpenOK
<1>7. RunClaims'  BY <1>3, <1>4, <1>u DEF InferenceInv, RunClaims
<1>8. Targets'
  <2>1. \A g \in Frames : target[g].claim # c  BY <1>c DEF Spare
  <2> QED  BY <1>4, <1>u, <2>1 DEF InferenceInv, Targets
<1>9. AdhocAlone'
  <2> SUFFICES ASSUME NEW d \in Claims, NEW e \in Claims, d # e,
                      claim'[d].frame = claim'[e].frame,
                      claim'[d].scope = "adhoc", claim'[e].scope = "adhoc",
                      claim'[d].status = "leased"
               PROVE  claim'[e].status # "leased" /\ (claim'[d].force \/ result'[e] \notin Processed)
    BY DEF AdhocAlone
  <2>1. CASE d # c /\ e # c
    BY <1>4, <2>1 DEF InferenceInv, AdhocAlone
  <2>2. CASE d = c
    <3>1. claim[e].frame = f /\ e # c  BY <1>3, <1>4, <2>2
    <3>2. claim'[e].status # "leased"  BY <1>4, <3>1 DEF ClaimFrames
    <3>3. force \/ result[e] \notin Processed  BY <1>4, <3>1 DEF ClaimFrames, HasResult, Scopes
    <3> QED  BY <1>3, <1>4, <2>2, <3>1, <3>2, <3>3
  <2>3. CASE e = c
    <3>1. d # c /\ claim[d].frame = f  BY <1>3, <1>4, <2>3
    <3>2. d \in Leased \ Late  BY <1>4, <3>1
    <3> QED  BY <3>1, <3>2 DEF ClaimFrames
  <2> QED  BY <2>1, <2>2, <2>3
<1>10. RunClosesLast'  BY <1>u DEF InferenceInv, RunClosesLast
<1> QED  BY <1>2, <1>5, <1>6, <1>7, <1>8, <1>9, <1>10 DEF InferenceInv

LEMMA ClaimFramesForRunNext ==
  ASSUME InferenceInv, NEW f \in Frames, NEW c \in Claims, NEW force \in Forces,
         NEW answered \in BOOLEAN, ClaimFramesForRun(f, c, force, answered)
  PROVE  InferenceInv'
<1> DEFINE Row == [status: {"pending", "leased", "completed", "error", "abandoned"},
                   claim: Claims \cup {NoClaim}]
<1>u. UNCHANGED <<open, box>>  BY DEF ClaimFramesForRun
<1>c. /\ c \in Spare(Recovered) /\ Recovered[f].status \in {"pending", "abandoned"}
      /\ target' = [Recovered EXCEPT ![f] = [status |-> "leased", claim |-> c]]
  BY DEF ClaimFramesForRun
<1>n. c # NoClaim  BY InferenceAssumption
<1>t. target \in [Frames -> Row]  BY DEF InferenceInv, TypeOK
<1>1. GrantEffect(c, f, "run", FALSE, RunLate)
  <2>1. \E h \in {"working", "gone"} : holder' = [holder EXCEPT ![c] = h]  BY DEF ClaimFramesForRun
  <2> QED  BY <1>c, <2>1, GrantStep DEF ClaimFramesForRun, Scopes
<1>2. /\ BoxOK' /\ WorkOK' /\ AdhocResults' /\ QueuedHasJob'
      /\ \A i \in DOMAIN open : /\ open[i].claim \in Claims /\ open[i].claim # c
                                /\ holder'[open[i].claim] = "working"
                                /\ claim'[open[i].claim].status = "leased"
                                /\ claim'[open[i].claim].scope = "run"
                                /\ claim'[open[i].claim].frame = claim[open[i].claim].frame
  BY <1>1, GrantKeeps DEF Scopes
<1>3. claim'[c].frame = f /\ claim'[c].scope = "run" /\ result'[c] = "none"
  BY <1>1 DEF GrantEffect
<1>4. \A d \in Claims : d # c =>
         /\ claim'[d].frame = claim[d].frame /\ claim'[d].scope = claim[d].scope
         /\ claim'[d].force = claim[d].force
         /\ claim'[d].status = "leased" => claim[d].status = "leased" /\ d \in Leased \ RunLate
         /\ result'[d] = result[d]
  BY <1>1 DEF GrantEffect, Leased
\* The targets: f is leased, those of late claims are given back, the others stay.
<1>r. \A g \in Frames : /\ Recovered[g] \in Row
                        /\ (Recovered[g].claim = NoClaim) = (Recovered[g].status \in {"pending", "abandoned"})
                        /\ ~TargetLate(g) => Recovered[g] = target[g]
                        /\ Recovered[g].status \in Final <=> target[g].status \in Final
  BY <1>t DEF Recovered, TargetLate, Final, InferenceInv, TypeOK
<1>5. /\ target' \in [Frames -> Row]
      /\ target'[f].status = "leased" /\ target'[f].claim = c
      /\ \A g \in Frames : g # f => target'[g] = Recovered[g]
      /\ target[f].status \notin Final
  <2>1. Recovered \in [Frames -> Row]
    <3>1. Recovered = [g \in Frames |-> Recovered[g]]  BY DEF Recovered
    <3> HIDE DEF Row
    <3> QED  BY <1>r, <3>1
  <2>2. [status |-> "leased", claim |-> c] \in Row  OBVIOUS
  <2>3. target[f].status \notin Final  BY <1>c, <1>r DEF Final
  <2> QED  BY <1>c, <2>1, <2>2, <2>3
<1>6. \A g \in Frames : target[g].status \in Final =>
         g # f /\ target'[g] = target[g] /\ target[g].claim # c
  <2> SUFFICES ASSUME NEW g \in Frames, target[g].status \in Final
               PROVE  g # f /\ target'[g] = target[g] /\ target[g].claim # c
    OBVIOUS
  <2>1. ~TargetLate(g)  BY DEF TargetLate, Final
  <2>2. Recovered[g] = target[g] /\ g # f  BY <1>5, <1>r, <2>1
  <2> QED  BY <1>5, <1>c, <2>2 DEF Spare
<1>7. TypeOK'
  <2>1. \A g \in Frames : (target'[g].claim = NoClaim) = (target'[g].status \in {"pending", "abandoned"})
    BY <1>5, <1>n, <1>r
  <2>2. run' \in {"pending", "running"} \cup RunEnded
    BY DEF ClaimFramesForRun, InferenceInv, TypeOK
  <2> QED  BY <1>1, <1>2, <1>5, <1>u, <2>1, <2>2 DEF InferenceInv, TypeOK, GrantEffect
<1>8. OpenOK'
  <2>1. ASSUME NEW i \in DOMAIN open, open[i].run \in RunEnded, NEW g \in Frames,
               g # claim[open[i].claim].frame
        PROVE  target'[g].status \in Final
    BY <1>6, <2>1 DEF InferenceInv, OpenOK
  <2> QED  BY <1>2, <1>u, <2>1 DEF InferenceInv, OpenOK
<1>9. RunClaims'
  <2> SUFFICES ASSUME NEW d \in Claims, claim'[d].scope = "run"
               PROVE  /\ claim'[d].status = "leased" =>
                           target'[claim'[d].frame].status = "leased" /\ target'[claim'[d].frame].claim = d
                      /\ result'[d] # "none" =>
                           target'[claim'[d].frame].status \in Final /\ target'[claim'[d].frame].claim = d
    BY DEF RunClaims
  <2>1. CASE d = c  BY <1>3, <1>5, <2>1
  <2>2. CASE d # c
    <3> DEFINE g == claim[d].frame
    <3>0. g \in Frames /\ claim[d].scope = "run" /\ claim'[d].frame = g /\ result'[d] = result[d]
      BY <1>4, <2>2 DEF InferenceInv, TypeOK, NewRow
    <3>1. ASSUME claim'[d].status = "leased"
          PROVE  target'[g].status = "leased" /\ target'[g].claim = d
      <4>1. claim[d].status = "leased" /\ d \in Leased /\ d \notin RunLate  BY <1>4, <2>2, <3>1
      <4>2. target[g].status = "leased" /\ target[g].claim = d
        BY <3>0, <4>1 DEF InferenceInv, RunClaims
      <4>3. ~claim[d].late  BY <3>0, <4>1 DEF RunLate, Late
      <4>4. Recovered[g] = target[g]  BY <1>r, <3>0, <4>2, <4>3 DEF TargetLate
      <4>5. g # f  BY <1>c, <4>2, <4>4
      <4> QED  BY <1>5, <3>0, <4>2, <4>4, <4>5
    <3>2. ASSUME result[d] # "none"
          PROVE  target'[g].status \in Final /\ target'[g].claim = d
      BY <1>6, <3>0, <3>2 DEF InferenceInv, RunClaims
    <3> QED  BY <3>0, <3>1, <3>2
  <2> QED  BY <2>1, <2>2
<1>10. Targets'
  <2> SUFFICES ASSUME NEW g \in Frames, target'[g].status \in Final
               PROVE  /\ target'[g].claim \in Claims /\ claim'[target'[g].claim].frame = g
                      /\ claim'[target'[g].claim].scope = "run" /\ result'[target'[g].claim] # "none"
    BY DEF Targets
  <2>1. g # f  BY <1>5 DEF Final
  <2>2. target[g].status \in Final  BY <1>5, <1>r, <2>1
  <2>3. target'[g] = target[g] /\ target[g].claim # c  BY <1>6, <2>2
  <2>4. /\ target[g].claim \in Claims /\ claim[target[g].claim].frame = g
        /\ claim[target[g].claim].scope = "run" /\ result[target[g].claim] # "none"
    BY <2>2 DEF InferenceInv, Targets
  <2> QED  BY <1>4, <2>3, <2>4
<1>11. AdhocAlone'
  <2>1. \A d \in Claims : claim'[d].scope = "adhoc" => d # c  BY <1>3
  <2> QED  BY <1>4, <2>1 DEF InferenceInv, AdhocAlone
<1>12. RunClosesLast'
  <2> SUFFICES ASSUME run' \in RunEnded PROVE FALSE  BY DEF RunClosesLast
  <2>1. run \in RunEnded  BY DEF ClaimFramesForRun, RunEnded
  <2> QED  BY <1>5, <2>1 DEF InferenceInv, RunClosesLast
<1> QED  BY <1>2, <1>7, <1>8, <1>9, <1>10, <1>11, <1>12 DEF InferenceInv

-----------------------------------------------------------------------------
(* The runners: commits.                                                   *)

\* What a commit does to its claim.
StoredEffect(c, verdict) ==
  /\ claim' \in [Claims -> NewRow]
  /\ claim'[c].status = "completed"
  /\ \A d \in Claims : /\ claim'[d].frame = claim[d].frame /\ claim'[d].scope = claim[d].scope
                       /\ claim'[d].force = claim[d].force
                       /\ d # c => claim'[d].status = claim[d].status
  /\ holder' \in [Claims -> {"idle", "working", "gone"}] /\ holder'[c] = "gone"
  /\ result' \in [Claims -> {"none", "error"} \cup Processed] /\ result'[c] = verdict
  /\ \A d \in Claims : d # c => holder'[d] = holder[d] /\ result'[d] = result[d]
  /\ job' \in [Claims -> Job]

LEMMA StoredStep ==
  ASSUME InferenceInv, NEW c \in Claims, NEW verdict \in Processed \cup {"error"},
         holder[c] = "working", Stored(c, verdict), UNCHANGED box
  PROVE  /\ StoredEffect(c, verdict)
         /\ BoxOK' /\ WorkOK' /\ QueuedHasJob'
<1>t. /\ claim \in [Claims -> NewRow] /\ job \in [Claims -> Job]
      /\ holder \in [Claims -> {"idle", "working", "gone"}]
      /\ result \in [Claims -> {"none", "error"} \cup Processed]
  BY DEF InferenceInv, TypeOK
<1>1. /\ claim' \in [Claims -> NewRow] /\ claim'[c].status = "completed"
      /\ \A d \in Claims : /\ claim'[d].frame = claim[d].frame /\ claim'[d].scope = claim[d].scope
                           /\ claim'[d].force = claim[d].force
                           /\ d # c => claim'[d].status = claim[d].status
  <2> DEFINE row == [claim[c] EXCEPT !.status = "completed"]
  <2>1. claim' = [claim EXCEPT ![c] = row]  BY DEF Stored
  <2>2. /\ row \in NewRow /\ row.status = "completed" /\ row.frame = claim[c].frame
        /\ row.scope = claim[c].scope /\ row.force = claim[c].force
    BY <1>t DEF NewRow
  <2> HIDE DEF row
  <2> QED  BY <1>t, <2>1, <2>2
<1>2. /\ holder' \in [Claims -> {"idle", "working", "gone"}] /\ holder'[c] = "gone"
      /\ result' \in [Claims -> {"none", "error"} \cup Processed] /\ result'[c] = verdict
      /\ \A d \in Claims : d # c => holder'[d] = holder[d] /\ result'[d] = result[d]
  BY <1>t DEF Stored
<1>3. /\ job' \in [Claims -> Job]
      /\ \A d \in Claims : d # c => job'[d] = job[d]
      /\ verdict = "queued_boxed" => job'[c].status = "pending" /\ job'[c].tries = 0
  <2>1. CASE verdict = "queued_boxed"
    <3> DEFINE row == [NoJob EXCEPT !.status = "pending"]
    <3>1. job' = [job EXCEPT ![c] = row]  BY <2>1 DEF Stored
    <3>2. NoJob \in Job /\ NoJob.tries = 0  BY InferenceAssumption DEF NoJob, Job
    <3>3. row.status = "pending" /\ row.tries = NoJob.tries  BY <3>2 DEF Job
    <3>4. row \in Job /\ row.status = "pending" /\ row.tries = 0  BY <3>2, <3>3 DEF Job
    <3> HIDE DEF row
    <3> QED  BY <1>t, <3>1, <3>4
  <2>2. CASE verdict # "queued_boxed"  BY <1>t, <2>2 DEF Stored
  <2> QED  BY <2>1, <2>2
<1>4. BoxOK'
  <2> SUFFICES ASSUME NEW b \in Boxers, box[b].at # "idle"
               PROVE  /\ box[b].res \in Claims
                      /\ box[b].tries < MaxTries
                      /\ holder'[box[b].res] # "working"
                      /\ box[b].at \in {"closing", "unsure"} => result'[box[b].res] # "queued_boxed"
    BY DEF InferenceInv, BoxOK
  <2>1. box[b].res \in Claims /\ box[b].res # c  BY DEF InferenceInv, BoxOK
  <2> QED  BY <1>2, <2>1 DEF InferenceInv, BoxOK
<1>5. WorkOK'  BY <1>2 DEF InferenceInv, WorkOK
<1>6. QueuedHasJob'  BY <1>2, <1>3, InferenceAssumption DEF InferenceInv, QueuedHasJob
<1> QED  BY <1>1, <1>2, <1>3, <1>4, <1>5, <1>6 DEF StoredEffect

LEMMA CommitFrameNext ==
  ASSUME InferenceInv, NEW c \in Claims, NEW verdict \in Verdicts(c), NEW force \in Forces,
         CommitFrame(c, verdict, force)
  PROVE  InferenceInv'
<1>u. UNCHANGED <<target, run, open, box>>  BY DEF CommitFrame
<1>c. /\ claim[c].scope = "adhoc" /\ holder[c] = "working" /\ claim[c].status = "leased"
      /\ verdict \in Processed \cup {"error"}
  BY DEF CommitFrame, CommitAllowed, Verdicts, Processed
<1>1. /\ StoredEffect(c, verdict)
      /\ BoxOK' /\ WorkOK' /\ QueuedHasJob'
  BY <1>c, <1>u, StoredStep DEF CommitFrame
<1>o. \A i \in DOMAIN open : open[i].claim \in Claims /\ open[i].claim # c
  BY <1>c, OpenClaims DEF InferenceInv, TypeOK
<1>2. TypeOK'
  <2>1. \A i \in DOMAIN open : claim'[open[i].claim].scope = "run"
    BY <1>1, <1>o DEF InferenceInv, TypeOK, StoredEffect
  <2> QED  BY <1>1, <1>u, <2>1 DEF InferenceInv, TypeOK, StoredEffect
<1>3. OpenOK'
  <2>1. \A i \in DOMAIN open : /\ holder'[open[i].claim] = holder[open[i].claim]
                               /\ claim'[open[i].claim].status = claim[open[i].claim].status
                               /\ claim'[open[i].claim].frame = claim[open[i].claim].frame
    BY <1>1, <1>o DEF StoredEffect
  <2> QED  BY <1>u, <2>1 DEF InferenceInv, OpenOK
<1>4. RunClaims'
  <2>1. \A d \in Claims : claim'[d].scope = "run" =>
           /\ claim[d].scope = "run" /\ claim'[d].frame = claim[d].frame
           /\ claim'[d].status = claim[d].status /\ result'[d] = result[d]
    BY <1>1, <1>c DEF StoredEffect
  <2> QED  BY <1>u, <2>1 DEF InferenceInv, RunClaims
<1>5. Targets'  BY <1>1, <1>c, <1>u DEF InferenceInv, Targets, StoredEffect
<1>6. AdhocAlone'
  <2> SUFFICES ASSUME NEW d \in Claims, NEW e \in Claims, d # e,
                      claim'[d].frame = claim'[e].frame,
                      claim'[d].scope = "adhoc", claim'[e].scope = "adhoc",
                      claim'[d].status = "leased"
               PROVE  claim'[e].status # "leased" /\ (claim'[d].force \/ result'[e] \notin Processed)
    BY DEF AdhocAlone
  <2>1. d # c /\ claim[d].status = "leased" /\ claim[d].frame = claim[e].frame
        /\ claim[d].scope = "adhoc" /\ claim[e].scope = "adhoc" /\ claim'[d].force = claim[d].force
    BY <1>1 DEF StoredEffect
  <2>2. e # c  BY <1>c, <2>1 DEF InferenceInv, AdhocAlone
  <2> QED  BY <1>1, <2>1, <2>2 DEF InferenceInv, AdhocAlone, StoredEffect
<1>7. AdhocResults'
  <2> SUFFICES ASSUME NEW d \in Claims, NEW e \in Claims, d # e,
                      claim'[d].frame = claim'[e].frame,
                      claim'[d].scope = "adhoc", claim'[e].scope = "adhoc",
                      result'[d] \in Processed, result'[e] \in Processed
               PROVE  claim'[d].force \/ claim'[e].force
    BY DEF AdhocResults
  <2>1. /\ claim[d].frame = claim[e].frame /\ claim[d].scope = "adhoc" /\ claim[e].scope = "adhoc"
        /\ claim'[d].force = claim[d].force /\ claim'[e].force = claim[e].force
        /\ d # c => result'[d] = result[d]
        /\ e # c => result'[e] = result[e]
    BY <1>1 DEF StoredEffect
  <2>2. CASE d # c /\ e # c  BY <2>1, <2>2 DEF InferenceInv, AdhocResults
  <2>3. CASE d = c  BY <1>c, <2>1, <2>3 DEF InferenceInv, AdhocAlone
  <2>4. CASE e = c  BY <1>c, <2>1, <2>4 DEF InferenceInv, AdhocAlone
  <2> QED  BY <2>2, <2>3, <2>4
<1>8. RunClosesLast'  BY <1>u DEF InferenceInv, RunClosesLast
<1> QED  BY <1>1, <1>2, <1>3, <1>4, <1>5, <1>6, <1>7, <1>8 DEF InferenceInv

\* What a commit writes for the run is right about the other targets.
LEMMA CommitBeginNext ==
  ASSUME InferenceInv, NEW c \in Claims, NEW verdict \in Verdicts(c), NEW force \in Forces,
         CommitBegin(c, verdict, force)
  PROVE  InferenceInv'
<1> DEFINE Trans == [claim: Claims, verdict: Processed \cup {"error"}, run: {"running"} \cup RunEnded]
           new == [claim |-> c, verdict |-> verdict, run |-> RunStatus(SeenBy(c, verdict))]
<1>u. UNCHANGED <<claim, holder, target, run, result, job, box>>  BY DEF CommitBegin
<1>c. /\ holder[c] = "working" /\ claim[c].scope = "run" /\ c \notin Open
      /\ claim[c].status = "leased" /\ open' = Append(open, new)
  BY DEF CommitBegin, CommitAllowed
<1>t. open \in Seq(Trans)  BY DEF InferenceInv, TypeOK
<1>1. /\ new \in Trans /\ new.claim = c
      /\ new.run \in RunEnded => \A f \in Frames : f = claim[c].frame \/ target[f].status \in Final
  <2>1. RunStatus(SeenBy(c, verdict)) \in {"running"} \cup RunEnded  BY DEF RunStatus, RunEnded
  <2>2. verdict \in Processed \cup {"error"}  BY DEF Verdicts, Processed
  <2>3. ASSUME new.run \in RunEnded, NEW f \in Frames, f # claim[c].frame
        PROVE  target[f].status \in Final
    <3>1. SeenBy(c, verdict) \subseteq Final  BY <2>3 DEF RunStatus, RunEnded
    <3>2. target[f].status \in SeenBy(c, verdict)  BY <2>3 DEF SeenBy
    <3> QED  BY <3>1, <3>2
  <2>4. new \in Trans  BY <2>1, <2>2
  <2> QED  BY <2>3, <2>4
<1> HIDE DEF Trans, new
<1>2. /\ open' \in Seq(Trans) /\ DOMAIN open' = DOMAIN open \cup {Len(open) + 1}
      /\ Len(open) + 1 \notin DOMAIN open
      /\ \A i \in DOMAIN open : open'[i] = open[i]
      /\ open'[Len(open) + 1] = new
  BY <1>1, <1>c, <1>t
<1>3. TypeOK'
  <2>1. \A i \in DOMAIN open' : claim[open'[i].claim].scope = "run"
    BY <1>1, <1>2, <1>c DEF InferenceInv, TypeOK
  <2> QED  BY <1>2, <1>u, <2>1 DEF InferenceInv, TypeOK, Trans
<1>4. OpenOK'
  <2>1. \A i \in DOMAIN open : open[i].claim # c  BY <1>c DEF Open
  <2>2. \A i \in DOMAIN open' : /\ holder[open'[i].claim] = "working"
                                /\ claim[open'[i].claim].status = "leased"
    BY <1>1, <1>2, <1>c DEF InferenceInv, OpenOK
  <2>3. \A i, k \in DOMAIN open' : open'[i].claim = open'[k].claim => i = k
    BY <1>1, <1>2, <2>1 DEF InferenceInv, OpenOK
  <2>4. \A i \in DOMAIN open' : open'[i].run \in RunEnded =>
           \A f \in Frames : f = claim[open'[i].claim].frame \/ target[f].status \in Final
    BY <1>1, <1>2 DEF InferenceInv, OpenOK
  <2> QED  BY <1>u, <2>2, <2>3, <2>4 DEF OpenOK
<1>5. BoxOK' /\ WorkOK' /\ RunClosesLast' /\ QueuedHasJob'
  BY <1>u DEF InferenceInv, BoxOK, WorkOK, RunClosesLast, QueuedHasJob
<1>6. RunClaims' /\ Targets' /\ AdhocAlone' /\ AdhocResults'
  BY <1>u DEF InferenceInv, RunClaims, Targets, AdhocAlone, AdhocResults
<1> QED  BY <1>3, <1>4, <1>5, <1>6 DEF InferenceInv

LEMMA CommitEndNext ==
  ASSUME InferenceInv, CommitEnd
  PROVE  InferenceInv'
<1> DEFINE Trans == [claim: Claims, verdict: Processed \cup {"error"}, run: {"running"} \cup RunEnded]
           t == open[1]
           c == t.claim
           f == claim[c].frame
           Row == [status: {"pending", "leased", "completed", "error", "abandoned"},
                   claim: Claims \cup {NoClaim}]
<1>0. open \in Seq(Trans) /\ open # <<>>  BY DEF InferenceInv, TypeOK, CommitEnd
<1>1. /\ 1 \in DOMAIN open /\ Head(open) = t /\ Tail(open) \in Seq(Trans)
      /\ \A i \in DOMAIN Tail(open) : i + 1 \in DOMAIN open /\ i + 1 # 1 /\ Tail(open)[i] = open[i + 1]
      /\ \A i, k \in DOMAIN Tail(open) : i + 1 = k + 1 => i = k
  <2> HIDE DEF Trans
  <2> QED  BY <1>0
<1>2. c \in Claims /\ t.verdict \in Processed \cup {"error"} /\ t.run \in {"running"} \cup RunEnded
  BY <1>1, OpenClaims DEF InferenceInv
<1>u. /\ Stored(c, t.verdict)
      /\ target' = [target EXCEPT ![f] = [status |-> TargetVerdict(t.verdict), claim |-> c]]
      /\ run' = t.run /\ open' = Tail(open) /\ UNCHANGED box
  BY <1>1 DEF CommitEnd
<1> HIDE DEF t, c, f
<1>3. /\ holder[c] = "working" /\ claim[c].status = "leased" /\ claim[c].scope = "run"
      /\ f \in Frames /\ claim[c].frame = f
  BY <1>1, <1>2 DEF InferenceInv, OpenOK, TypeOK, NewRow, t, c, f
<1>4. StoredEffect(c, t.verdict) /\ BoxOK' /\ WorkOK' /\ QueuedHasJob'
  BY <1>2, <1>3, <1>u, StoredStep
<1>5. target[f].status = "leased" /\ target[f].claim = c
  BY <1>2, <1>3 DEF InferenceInv, RunClaims
<1>6. /\ target' \in [Frames -> Row]
      /\ target'[f].status \in Final /\ target'[f].claim = c
      /\ \A g \in Frames : g # f => target'[g] = target[g]
  <2>1. target \in [Frames -> Row]  BY DEF InferenceInv, TypeOK
  <2>2. [status |-> TargetVerdict(t.verdict), claim |-> c] \in Row /\ TargetVerdict(t.verdict) \in Final
    BY <1>2 DEF TargetVerdict, Final
  <2> QED  BY <1>3, <1>u, <2>1, <2>2
<1>o. \A i \in DOMAIN open' : /\ i + 1 \in DOMAIN open /\ open'[i] = open[i + 1]
                              /\ open'[i].claim \in Claims /\ open'[i].claim # c
  <2> SUFFICES ASSUME NEW i \in DOMAIN open'
               PROVE  /\ i + 1 \in DOMAIN open /\ open'[i] = open[i + 1]
                      /\ open'[i].claim \in Claims /\ open'[i].claim # c
    OBVIOUS
  <2>1. i + 1 \in DOMAIN open /\ i + 1 # 1 /\ open'[i] = open[i + 1]  BY <1>1, <1>u
  <2>2. open[i + 1].claim \in Claims  BY <2>1, OpenClaims DEF InferenceInv
  <2>3. open[i + 1].claim # c  BY <1>1, <2>1 DEF InferenceInv, OpenOK, t, c
  <2> QED  BY <2>1, <2>2, <2>3
<1>s. \A d \in Claims : /\ claim'[d].frame = claim[d].frame /\ claim'[d].scope = claim[d].scope
                        /\ claim'[d].force = claim[d].force
                        /\ d # c => /\ claim'[d].status = claim[d].status
                                    /\ holder'[d] = holder[d] /\ result'[d] = result[d]
  BY <1>4 DEF StoredEffect
<1>c. claim'[c].status = "completed" /\ result'[c] = t.verdict /\ t.verdict # "none"
  BY <1>2, <1>4 DEF StoredEffect, Processed
<1>7. TypeOK'
  <2>1. \A i \in DOMAIN open' : claim'[open'[i].claim].scope = "run"
    <3>1. \A i \in DOMAIN open : claim[open[i].claim].scope = "run"  BY DEF InferenceInv, TypeOK
    <3> QED  BY <1>o, <1>s, <3>1
  <2>2. \A g \in Frames : (target'[g].claim = NoClaim) = (target'[g].status \in {"pending", "abandoned"})
    BY <1>2, <1>6, InferenceAssumption DEF InferenceInv, TypeOK, Final
  <2>3. run' \in {"pending", "running"} \cup RunEnded  BY <1>2, <1>u
  <2> QED  BY <1>1, <1>4, <1>6, <1>u, <2>1, <2>2, <2>3 DEF InferenceInv, TypeOK, StoredEffect
<1>8. OpenOK'
  <2>1. \A i \in DOMAIN open' : /\ holder'[open'[i].claim] = "working"
                                /\ claim'[open'[i].claim].status = "leased"
    BY <1>o, <1>s DEF InferenceInv, OpenOK
  <2>2. \A i, k \in DOMAIN open' : open'[i].claim = open'[k].claim => i = k
    BY <1>1, <1>o, <1>u DEF InferenceInv, OpenOK
  <2>3. ASSUME NEW i \in DOMAIN open', open'[i].run \in RunEnded, NEW g \in Frames,
               g # claim'[open'[i].claim].frame
        PROVE  target'[g].status \in Final
    <3>1. CASE g = f  BY <1>6, <3>1
    <3>2. CASE g # f
      <4>1. target[g].status \in Final  BY <1>o, <1>s, <2>3 DEF InferenceInv, OpenOK
      <4> QED  BY <1>6, <3>2, <4>1
    <3> QED  BY <3>1, <3>2
  <2> QED  BY <2>1, <2>2, <2>3 DEF OpenOK
<1>9. RunClaims'
  <2> SUFFICES ASSUME NEW d \in Claims, claim[d].scope = "run"
               PROVE  /\ claim'[d].status = "leased" =>
                           target'[claim[d].frame].status = "leased" /\ target'[claim[d].frame].claim = d
                      /\ result'[d] # "none" =>
                           target'[claim[d].frame].status \in Final /\ target'[claim[d].frame].claim = d
    BY <1>s DEF RunClaims
  <2>1. CASE d = c  BY <1>3, <1>6, <1>c, <2>1
  <2>2. CASE d # c
    <3>1. claim[d].frame \in Frames  BY DEF InferenceInv, TypeOK, NewRow
    <3>2. /\ claim[d].status = "leased" =>
               target[claim[d].frame].status = "leased" /\ target[claim[d].frame].claim = d
          /\ result[d] # "none" =>
               target[claim[d].frame].status \in Final /\ target[claim[d].frame].claim = d
      BY DEF InferenceInv, RunClaims
    <3>3. claim[d].status = "leased" \/ result[d] # "none" => claim[d].frame # f
      BY <1>5, <2>2, <3>2
    <3> QED  BY <1>6, <1>s, <2>2, <3>1, <3>2, <3>3
  <2> QED  BY <2>1, <2>2
<1>10. Targets'
  <2> SUFFICES ASSUME NEW g \in Frames, target'[g].status \in Final
               PROVE  /\ target'[g].claim \in Claims /\ claim'[target'[g].claim].frame = g
                      /\ claim'[target'[g].claim].scope = "run" /\ result'[target'[g].claim] # "none"
    BY DEF Targets
  <2>1. CASE g = f  BY <1>2, <1>3, <1>6, <1>c, <1>s, <2>1
  <2>2. CASE g # f
    <3>1. /\ target'[g] = target[g]
          /\ target[g].claim \in Claims /\ claim[target[g].claim].frame = g
          /\ claim[target[g].claim].scope = "run" /\ result[target[g].claim] # "none"
      BY <1>6, <2>2 DEF InferenceInv, Targets
    <3> QED  BY <1>3, <1>s, <2>2, <3>1
  <2> QED  BY <2>1, <2>2
<1>11. AdhocAlone' /\ AdhocResults'
  <2>1. \A d \in Claims : claim[d].scope = "adhoc" => d # c  BY <1>3
  <2> QED  BY <1>s, <2>1 DEF InferenceInv, AdhocAlone, AdhocResults
<1>12. RunClosesLast'
  <2> SUFFICES ASSUME t.run \in RunEnded, NEW g \in Frames PROVE target'[g].status \in Final
    BY <1>u DEF RunClosesLast
  <2>1. g = f \/ target[g].status \in Final
    BY <1>1, <1>3 DEF InferenceInv, OpenOK, t, c, f
  <2> QED  BY <1>6, <2>1
<1> QED  BY <1>4, <1>7, <1>8, <1>9, <1>10, <1>11, <1>12 DEF InferenceInv

-----------------------------------------------------------------------------
(* The theorems.                                                           *)

\* The invariant holds in every reachable state, whatever requests, commits and
\* boxers interleave.
THEOREM InferenceInvariant == Spec => []InferenceInv
<1>1. InferenceInv /\ [Next]_vars => InferenceInv'
  <2> SUFFICES ASSUME InferenceInv, [Next]_vars PROVE InferenceInv'  OBVIOUS
  <2>1. CASE RunnerStep
    <3>1. ASSUME NEW f \in Frames, NEW c \in Claims, NEW force \in Forces, ClaimFrames(f, c, force)
          PROVE  InferenceInv'
      BY <3>1, ClaimFramesNext, InferenceAssumption
    <3>2. CASE \/ ClaimNothing
               \/ \E expiredOnly \in BOOLEAN : AbandonClaims(expiredOnly)
               \/ \E c \in Claims : LeaseEnds(c)
      <4>1. Fading  BY <3>2, SweepsFade DEF InferenceInv
      <4> QED  BY <4>1, FadingKeeps
    <3> QED  BY <2>1, <3>1, <3>2, ClaimFramesForRunNext, RollingBack, GivingUp,
                CommitFrameNext, CommitBeginNext, CommitEndNext DEF RunnerStep
  <2>2. CASE BoxStep
    <3>1. Settling  BY <2>2, BoxSettles DEF InferenceInv
    <3>2. TypeOK' /\ BoxOK' /\ QueuedHasJob'  BY <2>2, BoxNext
    <3> QED  BY <3>1, <3>2, SettlingKeeps DEF InferenceInv
  <2>3. CASE UNCHANGED vars
    BY <2>3 DEF vars, runnerVars, InferenceInv, TypeOK, BoxOK, WorkOK, OpenOK, RunClaims, Targets,
                AdhocAlone, AdhocResults, RunClosesLast, QueuedHasJob
  <2> QED  BY <2>1, <2>2, <2>3 DEF Next
<1> QED  BY <1>1, InferenceInit, PTL DEF Spec

\* Every row keeps its type, and a target names a claim exactly while one holds it or
\* has ended it.
THEOREM InferenceTypes == Spec => []TypeOK
<1>1. InferenceInv => TypeOK  BY DEF InferenceInv
<1> QED  BY <1>1, InferenceInvariant, PTL

\* No commit closes the run over a target that is still open, however commits overlap
\* and roll back.
THEOREM RunCloses == Spec => []RunClosesLast
<1>1. InferenceInv => RunClosesLast  BY DEF InferenceInv
<1> QED  BY <1>1, InferenceInvariant, PTL

\* A frame gets one result per run, forced or not, and on its own one unless one of
\* them was claimed by force; a target is final exactly when its run has a result for it.
THEOREM SingleResults == Spec => []ResultsOnce
<1>1. InferenceInv => ResultsOnce
  <2> SUFFICES ASSUME InferenceInv PROVE ResultsOnce  OBVIOUS
  <2>1. ASSUME NEW c \in Claims, NEW d \in Claims, c # d,
               claim[c].frame = claim[d].frame, claim[c].scope = claim[d].scope,
               result[c] \in Processed, result[d] \in Processed
        PROVE  claim[c].scope = "adhoc" /\ (claim[c].force \/ claim[d].force)
    <3>0. result[c] # "none" /\ result[d] # "none"  BY <2>1 DEF Processed
    <3>1. CASE claim[c].scope = "run"  BY <2>1, <3>0, <3>1 DEF InferenceInv, RunClaims
    <3>2. CASE claim[c].scope = "adhoc"  BY <2>1, <3>2 DEF InferenceInv, AdhocResults
    <3> QED  BY <3>1, <3>2 DEF InferenceInv, TypeOK, NewRow, Scopes
  <2>2. ASSUME NEW f \in Frames
        PROVE  target[f].status \in Final <=>
                 \E c \in Claims : claim[c].frame = f /\ claim[c].scope = "run" /\ result[c] # "none"
    BY DEF InferenceInv, RunClaims, Targets
  <2> QED  BY <2>1, <2>2 DEF ResultsOnce
<1> QED  BY <1>1, InferenceInvariant, PTL

\* A result that waits for its box always has a job that some boxer may still take.
THEOREM JobsRemain == Spec => []QueuedHasJob
<1>1. InferenceInv => QueuedHasJob  BY DEF InferenceInv
<1> QED  BY <1>1, InferenceInvariant, PTL
=============================================================================
