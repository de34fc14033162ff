-------------------------- MODULE CaptureJobProofs --------------------------
(***************************************************************************)
(* Why a window job keeps every segment it accepted until the server has   *)
(* it, for any number of segments and upload workers.                      *)
(*                                                                         *)
(* Within an attempt a segment without an acknowledgement is in the queue  *)
(* or with one worker, or the pool has failed (Carried), and its file is   *)
(* on disk.  An attempt begins, and a job ends, only with everything of    *)
(* the earlier attempts acknowledged (Earlier, Ending).                    *)
(***************************************************************************)
EXTENDS CaptureJob, FiniteSetTheorems, TLAPS

-----------------------------------------------------------------------------
(* The inductive invariant.                                                *)

Attempt == {"capture", "wait", "final", "close", "join"}
Going == Attempt \cup {"resolve", "observe"}
Places == Ended \cup Going \cup {"fail", "surrender", "complete"}

Outs == [files : Seq(Contents), held : Contents \cup {NoSeg}, back : {"capture", "final"},
         err : {"none", "canceled", "refused", "ended", "no output"},
         aborted : BOOLEAN, pressed : BOOLEAN]
Pools == [queue : Seq(Contents), closed : BOOLEAN, err : Errors, sub : SUBSET Contents,
          flight : Nat, unique : BOOLEAN]
Hands == [st : {"idle", "asleep", "exited", "deliver", "answered"}, seg : Contents \cup {NoSeg}]

CaptureTypes ==
  /\ pc \in Places
  /\ reason \in {"none", "disk", "update", "lag", "no progress"}
  /\ halt \in {"no", "canceled", "shutdown"}
  /\ open \in BOOLEAN /\ drain \in BOOLEAN /\ pending \in BOOLEAN /\ lagged \in BOOLEAN
  /\ made \in Contents \cup {0} /\ seen \subseteq Contents
  /\ out \in Outs /\ pool \in Pools /\ wk \in [Workers -> Hands]
  /\ stored \subseteq seen /\ acked \subseteq stored /\ media \subseteq seen
  /\ frozen \in 0..3 /\ fresh \subseteq stored /\ lost \subseteq stored

Busy(w) == wk[w].st \in {"deliver", "answered"}

\* What waits in the queue: accepted once, in no hands, not acknowledged.
Queued ==
  /\ \A i \in DOMAIN pool.queue : pool.queue[i] \in pool.sub \ acked
  /\ \A i, k \in DOMAIN pool.queue : pool.queue[i] = pool.queue[k] => i = k
  /\ \A i \in DOMAIN pool.queue : \A w \in Workers : Busy(w) => wk[w].seg # pool.queue[i]

\* What a worker holds, it holds alone.
InHands ==
  /\ \A w \in Workers : IF Busy(w) THEN wk[w].seg \in pool.sub \ acked ELSE wk[w].seg = NoSeg
  /\ \A w \in Workers : wk[w].st = "answered" => wk[w].seg \in stored
  /\ \A v, w \in Workers : Busy(v) /\ Busy(w) /\ wk[v].seg = wk[w].seg => v = w

\* A pool that has not failed carries every segment that it owes.
Carried ==
  pool.err = "none" =>
    \A c \in pool.sub \ acked : \/ \E i \in DOMAIN pool.queue : pool.queue[i] = c
                                \/ \E w \in Workers : Busy(w) /\ wk[w].seg = c

\* The counter of the pool, and the errors that only an ended job has.
Counts ==
  /\ pool.sub \subseteq seen /\ pool.flight = Cardinality(pool.sub \ acked)
  /\ pool.err \in {"canceled", "late"} => JobDone

\* Workers exist within an attempt, and leave a closed pool with nothing to take.
Crew ==
  /\ pc \in Attempt \ {"join"} => \A w \in Workers : wk[w].st # "exited"
  /\ pc = "join" => pool.closed /\ ((\E w \in Workers : wk[w].st = "exited") => pool.queue = <<>>)
  /\ pc \notin Attempt => pool = NewPool /\ \A w \in Workers : wk[w].st = "exited"
  /\ pool.closed => pc = "join"

\* A segment that waits for the wall clock was not accepted before.
Held == pc = "wait" => out.held \in Contents \ seen

\* Within an attempt the files of what it owes are there, the rest is delivered.
Earlier ==
  pc \in Going => /\ seen \ pool.sub \subseteq acked /\ ~pending
                  /\ pool.sub \ acked \subseteq media

\* A job that completes, or is handed over with room on the disk, owes nothing.
Ending ==
  pc \in {"complete", "done", "surrender", "surrendered"} /\ reason # "disk" => seen \subseteq acked

\* Media ingested since the classification is known to the attempt that delivered it, or
\* its answer is under way, or was lost.
Known(c) == pool.unique \/ \E w \in Workers : wk[w].st = "answered" /\ wk[w].seg = c

Episode ==
  pc \in Going => (fresh # {} => frozen = 3) /\ \A c \in fresh \ lost : Known(c)

CaptureInv ==
  /\ CaptureTypes /\ Queued /\ InHands /\ Carried /\ Counts /\ Crew
  /\ Held /\ Earlier /\ Ending /\ Episode /\ LagKeepsMedia

-----------------------------------------------------------------------------
(* Steps that touch neither the pool nor its workers.                      *)

\* A step that leaves the work alone, and begins, ends and judges nothing it may not.
LEMMA QuietKeeps ==
  ASSUME CaptureInv, CaptureTypes', UNCHANGED <<work, seen>>, JobDone => JobDone',
         \/ pc' = pc
         \/ pc \in Attempt \ {"join"} /\ pc' \in Attempt \ {"join"}
         \/ pc \notin Attempt /\ pc' \notin Attempt,
         pc' = "wait" => out'.held \in Contents \ seen,
         pc' \in Going => pc \in Going /\ ~pending',
         pc' \in Going => fresh' \subseteq fresh /\ (fresh' # {} => frozen' = 3),
         pc' \in {"complete", "done", "surrender", "surrendered"} /\ reason' # "disk" => seen \subseteq acked
  PROVE  CaptureInv'
<1>1. /\ CaptureTypes /\ Queued /\ InHands /\ Carried /\ Counts /\ Crew
      /\ Held /\ Earlier /\ Ending /\ Episode /\ LagKeepsMedia
  BY DEF CaptureInv
<1>2. /\ pool' = pool /\ wk' = wk /\ stored' = stored /\ acked' = acked /\ media' = media
      /\ lagged' = lagged /\ lost' = lost /\ seen' = seen
  BY DEF work
<1>3. Queued' /\ InHands' /\ Carried' /\ LagKeepsMedia'
  BY <1>1, <1>2 DEF Queued, InHands, Carried, Busy, LagKeepsMedia
<1>4. Counts'  BY <1>1, <1>2 DEF Counts
<1>5. Crew'  BY <1>1, <1>2 DEF Crew, Attempt
<1>6. Held'  BY <1>2 DEF Held
<1>7. Earlier'  BY <1>1, <1>2 DEF Earlier
<1>8. Ending'  BY <1>2 DEF Ending
<1>9. Episode'  BY <1>1, <1>2 DEF Episode, Known
<1> QED  BY <1>3, <1>4, <1>5, <1>6, <1>7, <1>8, <1>9 DEF CaptureInv

\* The heartbeat, the window's end, a shutdown and the updater.
LEMMA EnvironmentSteps ==
  ASSUME CaptureInv, WindowCloses \/ Canceled \/ Shutdown \/ SetDrain
  PROVE  CaptureInv'
<1>1. CaptureTypes /\ Held /\ Earlier /\ Ending /\ Episode  BY DEF CaptureInv
<1>2. Elsewhere  BY DEF WindowCloses, Canceled, Shutdown, SetDrain
<1>3. UNCHANGED <<life, work, out, made, seen>>  BY <1>2 DEF Elsewhere
<1>4. /\ open' \in BOOLEAN /\ drain' \in BOOLEAN /\ halt' \in {"no", "canceled", "shutdown"}
      /\ JobDone => JobDone'
  BY <1>1 DEF WindowCloses, Canceled, Shutdown, SetDrain, CaptureTypes, JobDone
<1>5. CaptureTypes'  BY <1>1, <1>3, <1>4 DEF CaptureTypes, life, work
<1>6. UNCHANGED <<work, seen>>  BY <1>3
<1>7. pc' = pc /\ UNCHANGED <<reason, pending, frozen, fresh, out>>  BY <1>3 DEF life
<1> QED  BY <1>1, <1>4, <1>5, <1>6, <1>7, QuietKeeps DEF Held, Earlier, Ending, Episode

\* ffmpeg and the monitors: files appear, the capture is told to stop.
LEMMA CaptureSteps ==
  ASSUME CaptureInv, \/ Produce \/ SourceEnds \/ NoOutput \/ StopCapture \/ SweepDone
                     \/ DiskMonitor \/ UpdateMonitor \/ StallMonitor
  PROVE  CaptureInv'
<1>1. CaptureTypes /\ Held /\ Earlier /\ Ending /\ Episode  BY DEF CaptureInv
<1>2. out \in Outs  BY <1>1 DEF CaptureTypes
<1>3. ASSUME out' \in Outs, made' \in Contents \cup {0},
             UNCHANGED <<env, work, seen, reason, pending, frozen, fresh>>,
             \/ pc' = pc /\ out'.held = out.held
             \/ pc \in {"capture", "final"} /\ pc' \in {"final", "close"}
      PROVE  CaptureInv'
  <2>1. CaptureTypes'
    BY <1>1, <1>3 DEF CaptureTypes, work, env, Places, Going, Attempt
  <2>2. JobDone => JobDone'  BY <1>3 DEF env, JobDone
  <2>3. pc' = "wait" => pc = "wait" /\ out'.held = out.held  BY <1>3
  <2>4. pc' \in Going => pc \in Going  BY <1>3 DEF Going, Attempt
  <2>5. \/ pc' = pc
        \/ pc \in Attempt \ {"join"} /\ pc' \in Attempt \ {"join"}
        \/ pc \notin Attempt /\ pc' \notin Attempt
    BY <1>3 DEF Attempt
  <2> QED
    BY <1>1, <1>3, <2>1, <2>2, <2>3, <2>4, <2>5, QuietKeeps DEF Held, Earlier, Ending, Episode
<1>4. CASE Produce
  <2>1. PICK c \in ({made + 1} \cap Contents) \cup seen :
          /\ out' = [out EXCEPT !.files = Append(@, c)]
          /\ made' = IF c > made THEN c ELSE made
    BY <1>4 DEF Produce
  <2>2. UNCHANGED <<env, life, work, seen>>  BY <1>4 DEF Produce
  <2>3. c \in Contents  BY <1>1 DEF CaptureTypes
  <2>4. made' \in Contents \cup {0}  BY <1>1, <2>1, <2>3 DEF CaptureTypes
  <2>5. PICK files : files = Append(out.files, c)  OBVIOUS
  <2>6. files \in Seq(Contents)
    <3>1. out.files \in Seq(Contents)  BY <1>2 DEF Outs
    <3> QED  BY <2>3, <2>5, <3>1
  <2>7. out' = [out EXCEPT !.files = files]  BY <2>1, <2>5
  <2>8. out' \in Outs /\ out'.held = out.held  BY <1>2, <2>6, <2>7 DEF Outs
  <2> QED  BY <1>3, <2>2, <2>4, <2>8 DEF life
<1>5. ASSUME NEW e \in {"none", "ended", "no output"}, Finish(e) PROVE CaptureInv'
  <2>1. /\ pc = "capture" /\ pc' = "final" /\ UNCHANGED <<reason, pending, frozen, fresh>>
        /\ out' = [out EXCEPT !.err = e] /\ UNCHANGED <<env, work, made, seen>>
    BY <1>5 DEF Finish, Goto
  <2>2. out' \in Outs  BY <1>2, <2>1 DEF Outs
  <2> QED  BY <1>1, <1>3, <2>1, <2>2 DEF CaptureTypes
<1>6. CASE SweepDone
  <2>1. /\ pc = "final" /\ pc' = "close" /\ UNCHANGED <<reason, pending, frozen, fresh>>
        /\ UNCHANGED <<env, work, out, made, seen>>
    BY <1>6 DEF SweepDone, Goto
  <2> QED  BY <1>1, <1>2, <1>3, <2>1 DEF CaptureTypes
<1>7. ASSUME NEW o \in Outs, o.held = out.held, Abort(o) PROVE CaptureInv'
  <2>1. out' = [o EXCEPT !.aborted = TRUE] /\ UNCHANGED <<env, life, work, made, seen>>
    BY <1>7 DEF Abort
  <2>2. out' \in Outs /\ out'.held = out.held  BY <1>7, <2>1 DEF Outs
  <2> QED  BY <1>1, <1>3, <2>1, <2>2 DEF CaptureTypes, life
<1>8. CASE DiskMonitor
  <2>1. PICK o : o = [out EXCEPT !.pressed = TRUE]  OBVIOUS
  <2>2. o \in Outs /\ o.held = out.held  BY <1>2, <2>1 DEF Outs
  <2> QED  BY <1>7, <1>8, <2>1, <2>2 DEF DiskMonitor
<1>9. CASE UpdateMonitor \/ StallMonitor
  BY <1>2, <1>7, <1>9 DEF UpdateMonitor, StallMonitor
<1> QED  BY <1>4, <1>5, <1>6, <1>8, <1>9 DEF SourceEnds, NoOutput, StopCapture

\* Ends of a sweep, of a connection attempt and of the job that leave the pool alone.
LEMMA SweepFailsStep ==
  ASSUME CaptureInv, NEW o \in Outs, NEW e \in {"canceled", "refused"},
         pc \in {"capture", "final", "wait"}, SweepFails(o, e)
  PROVE  CaptureInv'
<1>1. CaptureTypes /\ Held /\ Earlier /\ Ending /\ Episode  BY DEF CaptureInv
<1>2. /\ pc' = "close" /\ UNCHANGED <<reason, pending, frozen, fresh>>
      /\ out' = [o EXCEPT !.err = e, !.held = NoSeg] /\ UNCHANGED <<env, work, made, seen>>
  BY DEF SweepFails, Goto
<1>3. out' \in Outs  BY <1>2 DEF Outs
<1>4. CaptureTypes'  BY <1>1, <1>2, <1>3 DEF CaptureTypes, work, env, Places, Going, Attempt
<1>5. JobDone => JobDone'  BY <1>2 DEF env, JobDone
<1>6. pc \in Attempt \ {"join"} /\ pc' \in Attempt \ {"join"} /\ pc \in Going  BY <1>2 DEF Attempt, Going
<1>7. UNCHANGED <<work, seen>> /\ pc' \notin {"wait", "complete", "done", "surrender", "surrendered"}
  BY <1>2
<1> QED  BY <1>1, <1>2, <1>4, <1>5, <1>6, <1>7, QuietKeeps DEF Earlier, Episode

\* A report to the API: the job is over, with what it owes or without.
LEMMA ReportSteps ==
  ASSUME CaptureInv, Surrender \/ Complete \/ ReportFailure
  PROVE  CaptureInv'
<1>1. CaptureTypes /\ Held /\ Earlier /\ Ending /\ Episode  BY DEF CaptureInv
<1>2. /\ pc \in {"surrender", "complete", "fail"} /\ pc' \in Ended
      /\ pc' \in {"done", "surrendered"} => pc \in {"surrender", "complete"}
      /\ UNCHANGED <<reason, pending, frozen, fresh>> /\ UNCHANGED <<env, work, out, made, seen>>
  BY DEF Surrender, Complete, ReportFailure, Goto, Ended
<1>3. CaptureTypes'  BY <1>1, <1>2 DEF CaptureTypes, work, env, Places
<1>4. JobDone => JobDone'  BY <1>2 DEF env, JobDone
<1>5. pc \notin Attempt /\ pc' \notin Attempt /\ pc' \notin Going /\ pc' # "wait"
  BY <1>2 DEF Attempt, Going, Ended
<1>6. pc' \in {"complete", "done", "surrender", "surrendered"} /\ reason' # "disk" => seen \subseteq acked
  BY <1>1, <1>2 DEF Ending, Ended
<1>7. UNCHANGED <<work, seen>>  BY <1>2
<1> QED  BY <1>3, <1>4, <1>5, <1>6, <1>7, QuietKeeps

\* The playlist watch adds nothing to an episode, and a difference ends it.
LEMMA ObserveStep ==
  ASSUME CaptureInv, Observe
  PROVE  CaptureInv'
<1>1. CaptureTypes /\ Held /\ Earlier /\ Ending /\ Episode /\ Crew  BY DEF CaptureInv
<1>2. /\ pc = "observe" /\ UNCHANGED <<env, work, out, made, seen, pending>>
      /\ fresh' = IF frozen' = 3 THEN fresh ELSE {}
  BY DEF Observe
<1>3. pool = NewPool /\ ~pending  BY <1>1, <1>2 DEF Crew, Earlier, Attempt, Going
<1>4. seen \subseteq acked
  BY <1>1, <1>2, <1>3 DEF Earlier, NewPool, Going
<1>5. frozen' \in 0..3
  <2>1. frozen \in 0..3  BY <1>1 DEF CaptureTypes
  <2>2. frozen' \in {frozen, 0, 3} \/ (frozen < 2 /\ frozen' = frozen + 1)  BY DEF Observe
  <2> QED  BY <2>1, <2>2
<1>6. /\ pc' \in {"observe", "resolve", "surrender", "complete"}
      /\ reason' \in {"none", "disk", "update", "lag", "no progress"}
  BY <1>1, <1>2, <1>3 DEF Observe, SurrenderFor, Proceed, Unfinished, CaptureTypes
<1>7. CaptureTypes'
  <2>1. fresh' \subseteq stored'  BY <1>1, <1>2 DEF CaptureTypes, work
  <2> QED  BY <1>1, <1>2, <1>5, <1>6, <2>1 DEF CaptureTypes, work, env, Places, Going
<1>8. JobDone => JobDone'  BY <1>2 DEF env, JobDone
<1>9. pc \notin Attempt /\ pc' \notin Attempt /\ pc' # "wait" /\ pc \in Going
  BY <1>2, <1>6 DEF Attempt, Going
<1>10. /\ fresh' \subseteq fresh /\ (fresh' # {} => frozen' = 3)
       /\ ~pending' /\ UNCHANGED <<work, seen>>
  BY <1>2, <1>3
<1> QED  BY <1>4, <1>7, <1>8, <1>9, <1>10, QuietKeeps

-----------------------------------------------------------------------------
(* Steps of the pool.                                                      *)

\* A segment that the job had not accepted enters the queue.
LEMMA SubmitStep ==
  ASSUME CaptureInv, NEW c \in Contents \ seen, NEW o \in Outs, NEW back \in {"capture", "final"},
         pc \in {"capture", "final", "wait"}, Submit(c, o, back)
  PROVE  CaptureInv'
<1>1. /\ CaptureTypes /\ Queued /\ InHands /\ Carried /\ Counts /\ Crew
      /\ Held /\ Earlier /\ Ending /\ Episode /\ LagKeepsMedia
  BY DEF CaptureInv
<1>2. CASE SweepFails([o EXCEPT !.files = <<c>> \o @], "refused")
  <2>1. PICK p : p = [o EXCEPT !.files = <<c>> \o @]  OBVIOUS
  <2>2. PICK files : files = <<c>> \o o.files  OBVIOUS
  <2>3. o.files \in Seq(Contents)  BY DEF Outs
  <2>4. files \in Seq(Contents)  BY <2>2, <2>3
  <2>5. p = [o EXCEPT !.files = files]  BY <2>1, <2>2
  <2>6. p \in Outs  BY <2>4, <2>5 DEF Outs
  <2> QED  BY <1>2, <2>1, <2>6, SweepFailsStep
<1>3. CASE /\ pool.err = "none"
           /\ pool' = [pool EXCEPT !.queue = Append(@, c), !.sub = @ \cup {c}, !.flight = @ + 1]
           /\ seen' = seen \cup {c} /\ media' = media \cup {c}
           /\ \/ Asleep = {} /\ UNCHANGED wk
              \/ \E w \in Asleep : wk' = Woken({w})
           /\ out' = [o EXCEPT !.aborted = @ \/ drain, !.held = NoSeg]
           /\ Goto(back)
           /\ UNCHANGED <<env, made, stored, acked, lagged, lost>>
  <2>1. /\ pool.err = "none" /\ seen' = seen \cup {c} /\ media' = media \cup {c}
        /\ pc' = back /\ UNCHANGED <<reason, pending, frozen, fresh>>
        /\ UNCHANGED <<env, made, stored, acked, lagged, lost>>
    BY <1>3 DEF Goto
  <2>2. /\ pool \in Pools /\ pool.queue \in Seq(Contents) /\ pool.flight \in Nat
        /\ pool.sub \subseteq seen /\ c \notin pool.sub /\ c \notin acked /\ c \notin stored
        /\ seen \subseteq Contents
    BY <1>1 DEF CaptureTypes, Counts, Pools
  <2>3. PICK queue, sub, flight :
          queue = Append(pool.queue, c) /\ sub = pool.sub \cup {c} /\ flight = pool.flight + 1
    OBVIOUS
  <2>4. pool' = [pool EXCEPT !.queue = queue, !.sub = sub, !.flight = flight]  BY <1>3, <2>3
  <2>5. queue \in Seq(Contents) /\ sub \in SUBSET Contents /\ flight \in Nat  BY <2>2, <2>3
  <2>6. /\ pool' \in Pools /\ pool'.queue = queue /\ pool'.sub = sub /\ pool'.flight = flight
        /\ pool'.err = pool.err /\ pool'.closed = pool.closed /\ pool'.unique = pool.unique
    BY <2>2, <2>4, <2>5 DEF Pools
  <2>7. /\ wk' \in [Workers -> Hands]
        /\ \A w \in Workers : \/ wk'[w] = wk[w]
                              \/ wk[w].st = "asleep" /\ wk'[w] = [st |-> "idle", seg |-> NoSeg]
    <3>1. CASE UNCHANGED wk  BY <1>1, <3>1 DEF CaptureTypes
    <3>2. ASSUME NEW w \in Asleep, wk' = Woken({w})
          PROVE  /\ wk' \in [Workers -> Hands]
                 /\ \A v \in Workers : \/ wk'[v] = wk[v]
                                       \/ wk[v].st = "asleep" /\ wk'[v] = [st |-> "idle", seg |-> NoSeg]
      <4>1. w \in Workers /\ wk[w].st = "asleep" /\ wk \in [Workers -> Hands]
        BY <1>1, <3>2 DEF Asleep, CaptureTypes
      <4>2. [st |-> "idle", seg |-> NoSeg] \in Hands  BY DEF Hands
      <4> QED  BY <3>2, <4>1, <4>2 DEF Woken
    <3> QED  BY <1>3, <3>1, <3>2
  <2>8. \A w \in Workers : /\ Busy(w)' <=> Busy(w)
                           /\ Busy(w) => wk'[w] = wk[w]
                           /\ wk'[w].st = "exited" <=> wk[w].st = "exited"
                           /\ ~Busy(w) => wk'[w].seg = NoSeg
                           /\ wk'[w].st = "answered" <=> wk[w].st = "answered"
    BY <1>1, <2>7 DEF Busy, InHands
  <2>9. out' \in Outs
    <3>1. PICK aborted : aborted = (o.aborted \/ drain)  OBVIOUS
    <3>2. (o.aborted \/ drain) \in BOOLEAN  OBVIOUS
    <3>3. out' = [o EXCEPT !.aborted = aborted, !.held = NoSeg]  BY <1>3, <3>1
    <3> QED  BY <3>1, <3>2, <3>3 DEF Outs
  <2>10. CaptureTypes'
    <3>1. seen' \subseteq Contents /\ stored' \subseteq seen' /\ acked' \subseteq stored' /\ media' \subseteq seen'
          /\ fresh' \subseteq stored' /\ lost' \subseteq stored'
      BY <1>1, <2>1 DEF CaptureTypes
    <3>2. pc' \in Places  BY <2>1 DEF Places, Going, Attempt
    <3> QED  BY <1>1, <2>1, <2>6, <2>7, <2>9, <3>1, <3>2 DEF CaptureTypes, env
  <2>11. /\ DOMAIN queue = 1..(Len(pool.queue) + 1) /\ queue[Len(pool.queue) + 1] = c
         /\ DOMAIN pool.queue = 1..Len(pool.queue) /\ Len(pool.queue) \in Nat
         /\ \A i \in DOMAIN pool.queue : queue[i] = pool.queue[i]
    BY <2>2, <2>3
  <2>12. \A i \in DOMAIN queue : \/ i = Len(pool.queue) + 1 /\ queue[i] = c
                                 \/ i \in DOMAIN pool.queue /\ queue[i] = pool.queue[i]
    BY <2>11
  <2>13. Queued'
    <3>1. \A i \in DOMAIN pool.queue : pool.queue[i] \in pool.sub \ acked /\ pool.queue[i] # c
      BY <1>1, <2>2 DEF Queued
    <3>2. \A i \in DOMAIN queue : queue[i] \in sub \ acked  BY <2>2, <2>3, <2>12, <3>1
    <3>3. \A i, k \in DOMAIN queue : queue[i] = queue[k] => i = k
      <4> SUFFICES ASSUME NEW i \in DOMAIN queue, NEW k \in DOMAIN queue, queue[i] = queue[k]
                   PROVE  i = k
        OBVIOUS
      <4> QED  BY <1>1, <2>12, <3>1 DEF Queued
    <3>4. \A w \in Workers : Busy(w) => wk[w].seg # c  BY <1>1, <2>2 DEF InHands
    <3>5. \A i \in DOMAIN queue : \A w \in Workers : Busy(w)' => wk'[w].seg # queue[i]
      BY <1>1, <2>8, <2>12, <3>4 DEF Queued
    <3> QED  BY <2>1, <2>6, <3>2, <3>3, <3>5 DEF Queued
  <2>14. InHands'  BY <1>1, <2>1, <2>3, <2>6, <2>8 DEF InHands
  <2>15. Carried'
    <3> SUFFICES ASSUME NEW d \in sub \ acked
                 PROVE  \/ \E i \in DOMAIN queue : queue[i] = d
                        \/ \E w \in Workers : Busy(w)' /\ wk'[w].seg = d
      BY <2>1, <2>6 DEF Carried
    <3>1. CASE d = c  
      <4>1. Len(pool.queue) + 1 \in DOMAIN queue  BY <2>11
      <4> QED  BY <2>11, <3>1, <4>1
    <3>2. CASE d # c
      <4>1. d \in pool.sub \ acked  BY <2>3, <3>2
      <4>2. CASE \E i \in DOMAIN pool.queue : pool.queue[i] = d
        <5>1. PICK i \in DOMAIN pool.queue : pool.queue[i] = d  BY <4>2
        <5>2. i \in DOMAIN queue /\ queue[i] = d  BY <2>11, <5>1
        <5> QED  BY <5>2
      <4>3. CASE \E w \in Workers : Busy(w) /\ wk[w].seg = d  BY <2>8, <4>3
      <4> QED  BY <1>1, <2>1, <4>1, <4>2, <4>3 DEF Carried
    <3> QED  BY <3>1, <3>2
  <2>16. Counts'
    <3>1. sub \ acked = (pool.sub \ acked) \cup {c} /\ c \notin pool.sub \ acked  BY <2>2, <2>3
    <3>2. IsFiniteSet(pool.sub \ acked)
      <4>1. pool.sub \ acked \subseteq Contents  BY <2>2
      <4> QED  BY <4>1, CaptureAssumption, FS_Subset
    <3>3. Cardinality(sub \ acked) = Cardinality(pool.sub \ acked) + 1  BY <3>1, <3>2, FS_AddElement
    <3> QED  BY <1>1, <2>1, <2>3, <2>6, <3>3 DEF Counts
  <2>17. Crew'  BY <1>1, <2>1, <2>6, <2>8 DEF Crew, Attempt
  <2>18. Held' /\ Ending'  BY <2>1 DEF Held, Ending
  <2>19. Earlier'  BY <1>1, <2>1, <2>3, <2>6 DEF Earlier, Going, Attempt
  <2>20. Episode' /\ LagKeepsMedia'
    <3>1. \A d : Known(d) => Known(d)'  BY <2>6, <2>8 DEF Known, Busy
    <3> QED  BY <1>1, <2>1, <3>1 DEF Episode, LagKeepsMedia, Going, Attempt
  <2> QED
    BY <2>10, <2>13, <2>14, <2>15, <2>16, <2>17, <2>18, <2>19, <2>20 DEF CaptureInv
<1> QED  BY <1>2, <1>3 DEF Submit

\* The sweep drops what it knows, hands over the next segment, or waits for its time.
LEMMA HandOverStep ==
  ASSUME CaptureInv, HandOver
  PROVE  CaptureInv'
<1>1. CaptureTypes /\ Held /\ Earlier /\ Ending /\ Episode  BY DEF CaptureInv
<1>2. pc \in {"capture", "final"} /\ out.files # <<>>  BY DEF HandOver
<1>3. PICK c, o : c = Head(out.files) /\ o = [out EXCEPT !.files = Tail(@)]  OBVIOUS
<1>4. out \in Outs /\ out.files \in Seq(Contents)  BY <1>1 DEF CaptureTypes, Outs
<1>5. c \in Contents /\ Tail(out.files) \in Seq(Contents)  BY <1>2, <1>3, <1>4
<1>6. o \in Outs
  <2>1. PICK files : files = Tail(out.files)  OBVIOUS
  <2>2. o = [out EXCEPT !.files = files] /\ files \in Seq(Contents)  BY <1>3, <1>5, <2>1
  <2> QED  BY <1>4, <2>2 DEF Outs
<1>7. \/ c \in seen /\ out' = o /\ UNCHANGED <<env, life, work, made, seen>>
      \/ c \notin seen /\ Submit(c, o, pc)
      \/ /\ c \notin seen /\ Goto("wait")
         /\ out' = [o EXCEPT !.held = c, !.back = pc]
         /\ UNCHANGED <<env, work, made, seen>>
  BY <1>3 DEF HandOver
<1>8. CASE c \in seen /\ out' = o /\ UNCHANGED <<env, life, work, made, seen>>
  <2>1. CaptureTypes'  BY <1>1, <1>6, <1>8 DEF CaptureTypes, env, life, work
  <2>2. JobDone => JobDone'  BY <1>8 DEF env, JobDone
  <2>3. pc' = pc /\ UNCHANGED <<reason, pending, frozen, fresh>> /\ UNCHANGED <<work, seen>>
    BY <1>8 DEF life
  <2> QED  BY <1>1, <1>2, <2>1, <2>2, <2>3, QuietKeeps DEF Earlier, Ending, Episode
<1>9. CASE c \notin seen /\ Submit(c, o, pc)
  BY <1>2, <1>5, <1>6, <1>9, SubmitStep
<1>10. CASE /\ c \notin seen /\ Goto("wait")
            /\ out' = [o EXCEPT !.held = c, !.back = pc]
            /\ UNCHANGED <<env, work, made, seen>>
  <2>1. pc' = "wait" /\ UNCHANGED <<reason, pending, frozen, fresh>>  BY <1>10 DEF Goto
  <2>2. out' \in Outs /\ out'.held = c  BY <1>2, <1>5, <1>6, <1>10 DEF Outs
  <2>3. CaptureTypes'
    BY <1>1, <1>10, <2>1, <2>2 DEF CaptureTypes, env, work, Places, Going, Attempt
  <2>4. JobDone => JobDone'  BY <1>10 DEF env, JobDone
  <2>5. pc \in Attempt \ {"join"} /\ pc' \in Attempt \ {"join"} /\ pc \in Going
    BY <1>2, <2>1 DEF Attempt, Going
  <2>6. out'.held \in Contents \ seen /\ UNCHANGED <<work, seen>>  BY <1>5, <1>10, <2>2
  <2> QED  BY <1>1, <2>1, <2>3, <2>4, <2>5, <2>6, QuietKeeps DEF Earlier, Episode
<1> QED  BY <1>7, <1>8, <1>9, <1>10

\* The wait for the wall clock ends in a hand-over, or with the attempt.
LEMMA WaitEndsStep ==
  ASSUME CaptureInv, WaitEnds
  PROVE  CaptureInv'
<1>1. CaptureTypes /\ Held  BY DEF CaptureInv
<1>2. pc = "wait" /\ out.held \in Contents \ seen /\ out \in Outs /\ out.back \in {"capture", "final"}
  BY <1>1 DEF WaitEnds, Held, CaptureTypes, Outs
<1>3. CASE Submit(out.held, out, out.back)  BY <1>2, <1>3, SubmitStep
<1>4. ASSUME NEW e \in {"canceled", "refused"},
             SweepFails([out EXCEPT !.files = <<out.held>> \o @], e)
      PROVE  CaptureInv'
  <2>1. PICK p : p = [out EXCEPT !.files = <<out.held>> \o @]  OBVIOUS
  <2>2. PICK files : files = <<out.held>> \o out.files  OBVIOUS
  <2>3. out.files \in Seq(Contents)  BY <1>2 DEF Outs
  <2>4. files \in Seq(Contents)  BY <1>2, <2>2, <2>3
  <2>5. p = [out EXCEPT !.files = files]  BY <2>1, <2>2
  <2>6. p \in Outs  BY <1>2, <2>4, <2>5 DEF Outs
  <2> QED  BY <1>2, <1>4, <2>1, <2>6, SweepFailsStep
<1> QED  BY <1>3, <1>4 DEF WaitEnds

\* A pool with workers belongs to an attempt; one of them may be at work there.
LEMMA WorkerAtWork ==
  ASSUME CaptureInv, NEW w \in Workers, wk[w].st # "exited"
  PROVE  pc \in Attempt
BY DEF CaptureInv, Crew

\* A worker takes a segment, drops one of a failed pool, falls asleep or leaves.
LEMMA TakeStep ==
  ASSUME CaptureInv, NEW w \in Workers, Take(w)
  PROVE  CaptureInv'
<1>1. /\ CaptureTypes /\ Queued /\ InHands /\ Carried /\ Counts /\ Crew
      /\ Held /\ Earlier /\ Ending /\ Episode /\ LagKeepsMedia
  BY DEF CaptureInv
<1>2. wk[w].st = "idle" /\ UNCHANGED <<env, life, made, seen, stored, acked, media, lost>>  BY DEF Take
<1>3. /\ pc \in Attempt /\ wk[w].seg = NoSeg
  BY <1>1, <1>2, WorkerAtWork DEF InHands, Busy
<1>4. /\ UNCHANGED <<pc, reason, pending, frozen, fresh, open, halt, drain>>
  BY <1>2 DEF env, life
<1>5. /\ pool \in Pools /\ pool.queue \in Seq(Contents) /\ wk \in [Workers -> Hands] /\ out \in Outs
      /\ pool.sub \subseteq Contents
  BY <1>1 DEF CaptureTypes, Pools
<1>6. seen \ acked \subseteq media  BY <1>1, <1>3 DEF Earlier, Going
<1>7. ASSUME lagged' \in BOOLEAN, out' = out \/ out' = [out EXCEPT !.aborted = TRUE],
             wk' \in [Workers -> Hands], pool' \in Pools,
             pool'.sub = pool.sub, pool'.flight = pool.flight, pool'.err = pool.err,
             pool'.closed = pool.closed, pool'.unique = pool.unique,
             Queued', InHands', Carried',
             \A v \in Workers : wk'[v].st = "exited" =>
                                  wk[v].st = "exited" \/ (pool.closed /\ pool.queue = <<>>),
             \A v \in Workers : wk[v].st = "answered" => wk'[v] = wk[v],
             pool.queue = <<>> => pool'.queue = <<>>
      PROVE  CaptureInv'
  <2>1. out' \in Outs /\ out'.held = out.held  BY <1>5, <1>7 DEF Outs
  <2>2. CaptureTypes'  BY <1>1, <1>2, <1>4, <1>7, <2>1 DEF CaptureTypes
  <2>3. Counts'  BY <1>1, <1>2, <1>4, <1>7 DEF Counts, JobDone
  <2>4. Crew'  BY <1>1, <1>3, <1>4, <1>7 DEF Crew
  <2>5. Held' /\ Earlier' /\ Ending'
    BY <1>1, <1>2, <1>4, <1>7, <2>1 DEF Held, Earlier, Ending
  <2>6. LagKeepsMedia'  BY <1>2, <1>6 DEF LagKeepsMedia
  <2>7. Episode'
    <3>1. \A d : Known(d) => Known(d)'  BY <1>7 DEF Known
    <3> QED  BY <1>1, <1>2, <1>4, <3>1 DEF Episode
  <2> QED  BY <1>7, <2>2, <2>3, <2>4, <2>5, <2>6, <2>7 DEF CaptureInv
<1>8. CASE pool.queue # <<>>
  <2>1. PICK c, queue : c = Head(pool.queue) /\ queue = Tail(pool.queue)  OBVIOUS
  <2>2. pool' = [pool EXCEPT !.queue = queue]  BY <1>8, <2>1 DEF Take
  <2>3. /\ queue \in Seq(Contents) /\ c = pool.queue[1] /\ 1 \in DOMAIN pool.queue /\ c \in Contents
        /\ DOMAIN pool.queue = 1..Len(pool.queue) /\ DOMAIN queue = 1..(Len(pool.queue) - 1)
        /\ Len(pool.queue) \in Nat
        /\ \A i \in 1..(Len(pool.queue) - 1) : queue[i] = pool.queue[i + 1]
    BY <1>5, <1>8, <2>1
  <2>4. /\ pool' \in Pools /\ pool'.queue = queue /\ pool'.sub = pool.sub /\ pool'.flight = pool.flight
        /\ pool'.err = pool.err /\ pool'.closed = pool.closed /\ pool'.unique = pool.unique
    BY <1>5, <2>2, <2>3 DEF Pools
  <2>5. \A i \in DOMAIN queue : i + 1 \in DOMAIN pool.queue /\ queue[i] = pool.queue[i + 1] /\ i \in Nat /\ i + 1 # 1
    BY <2>3
  <2>6. /\ \A i \in DOMAIN queue : queue[i] \in pool.sub \ acked /\ queue[i] # c
        /\ \A i, k \in DOMAIN queue : queue[i] = queue[k] => i = k
        /\ \A i \in DOMAIN queue : \A v \in Workers : Busy(v) => wk[v].seg # queue[i]
        /\ c \in pool.sub \ acked /\ \A v \in Workers : Busy(v) => wk[v].seg # c
    <3>1. \A i \in DOMAIN queue : queue[i] \in pool.sub \ acked /\ queue[i] # c
      BY <1>1, <2>3, <2>5 DEF Queued
    <3>2. \A i, k \in DOMAIN queue : queue[i] = queue[k] => i = k
      <4> SUFFICES ASSUME NEW i \in DOMAIN queue, NEW k \in DOMAIN queue, queue[i] = queue[k]
                   PROVE  i = k
        OBVIOUS
      <4>1. i + 1 = k + 1  BY <1>1, <2>5 DEF Queued
      <4> QED  BY <2>5, <4>1
    <3> QED  BY <1>1, <2>3, <2>5, <3>1, <3>2 DEF Queued
  <2>7. CASE pool.err # "none" /\ UNCHANGED <<wk, lagged, out>>
    <3>1. Queued' /\ InHands' /\ Carried'
      BY <1>1, <1>2, <2>4, <2>6, <2>7 DEF Queued, InHands, Carried, Busy
    <3>2. lagged' \in BOOLEAN /\ wk' \in [Workers -> Hands] /\ out' = out
      BY <1>1, <1>5, <2>7 DEF CaptureTypes
    <3> QED  BY <1>7, <1>8, <2>4, <2>7, <3>1, <3>2
  <2>8. CASE /\ pool.err = "none" /\ Set(w, "deliver", c)
             /\ \/ UNCHANGED <<lagged, out>>
                \/ lagged' = TRUE /\ out' = [out EXCEPT !.aborted = TRUE]
    <3>1. /\ wk' \in [Workers -> Hands] /\ wk'[w] = [st |-> "deliver", seg |-> c]
          /\ \A v \in Workers : v # w => wk'[v] = wk[v]
      BY <1>5, <2>3, <2>8 DEF Set, Hands
    <3>2. Queued'  BY <1>1, <1>2, <2>4, <2>6, <3>1 DEF Queued, Busy
    <3>3. InHands'  BY <1>1, <1>2, <2>4, <2>6, <3>1 DEF InHands, Busy
    <3>4. Carried'
      <4> SUFFICES ASSUME NEW d \in pool.sub \ acked
                   PROVE  \/ \E i \in DOMAIN queue : queue[i] = d
                          \/ \E v \in Workers : Busy(v)' /\ wk'[v].seg = d
        BY <1>2, <2>4 DEF Carried
      <4>1. CASE \E i \in DOMAIN pool.queue : pool.queue[i] = d
        <5>1. PICK i \in DOMAIN pool.queue : pool.queue[i] = d  BY <4>1
        <5>2. CASE i = 1  BY <2>3, <3>1, <5>1, <5>2 DEF Busy
        <5>3. CASE i # 1
          <6>1. i - 1 \in DOMAIN queue /\ queue[i - 1] = d  BY <2>3, <5>1, <5>3
          <6> QED  BY <6>1
        <5> QED  BY <5>2, <5>3
      <4>2. CASE \E v \in Workers : Busy(v) /\ wk[v].seg = d
        <5>1. PICK v \in Workers : Busy(v) /\ wk[v].seg = d  BY <4>2
        <5>2. v # w  BY <1>2, <5>1 DEF Busy
        <5> QED  BY <3>1, <5>1, <5>2 DEF Busy
      <4> QED  BY <1>1, <2>8, <4>1, <4>2 DEF Carried
    <3>5. lagged' \in BOOLEAN  BY <1>1, <2>8 DEF CaptureTypes
    <3>6. \A v \in Workers : /\ wk'[v].st = "exited" => wk[v].st = "exited"
                             /\ wk[v].st = "answered" => wk'[v] = wk[v]
      BY <1>2, <3>1
    <3> QED  BY <1>7, <1>8, <2>4, <2>8, <3>1, <3>2, <3>3, <3>4, <3>5, <3>6
  <2> QED  BY <1>8, <2>1, <2>7, <2>8 DEF Take
<1>9. CASE pool.queue = <<>>
  <2>1. /\ Set(w, IF pool.closed THEN "exited" ELSE "asleep", NoSeg)
        /\ UNCHANGED <<pool, lagged, out>>
    BY <1>9 DEF Take
  <2>2. /\ wk' \in [Workers -> Hands]
        /\ wk'[w] = [st |-> IF pool.closed THEN "exited" ELSE "asleep", seg |-> NoSeg]
        /\ \A v \in Workers : v # w => wk'[v] = wk[v]
    BY <1>5, <2>1 DEF Set, Hands
  <2>3. Queued'  BY <1>1, <1>2, <2>1, <2>2 DEF Queued, Busy
  <2>4. InHands'  BY <1>1, <1>2, <2>1, <2>2 DEF InHands, Busy
  <2>5. Carried'
    <3>1. \A v \in Workers : Busy(v) => v # w /\ Busy(v)' /\ wk'[v] = wk[v]
      BY <1>2, <2>2 DEF Busy
    <3> QED  BY <1>1, <1>2, <2>1, <3>1 DEF Carried
  <2>6. \A v \in Workers : wk'[v].st = "exited" =>
                             wk[v].st = "exited" \/ (pool.closed /\ pool.queue = <<>>)
    BY <1>9, <2>2
  <2>7. lagged' \in BOOLEAN /\ pool' = pool /\ out' = out  BY <1>1, <2>1 DEF CaptureTypes
  <2>8. \A v \in Workers : wk[v].st = "answered" => wk'[v] = wk[v]  BY <1>2, <2>2
  <2> QED  BY <1>5, <1>7, <1>9, <2>2, <2>3, <2>4, <2>5, <2>6, <2>7, <2>8
<1> QED  BY <1>8, <1>9

\* The server has a segment, or the answer that it has it is lost.
LEMMA StoreSteps ==
  ASSUME CaptureInv, NEW w \in Workers, Store(w) \/ AnswerLost(w)
  PROVE  CaptureInv'
<1>1. /\ CaptureTypes /\ Queued /\ InHands /\ Carried /\ Counts /\ Crew
      /\ Held /\ Earlier /\ Ending /\ Episode /\ LagKeepsMedia
  BY DEF CaptureInv
<1>2. PICK st \in {"deliver", "answered"} :
        /\ Busy(w) /\ wk' = [wk EXCEPT ![w] = [st |-> st, seg |-> wk[w].seg]]
        /\ stored' = stored \/ stored' = stored \cup {wk[w].seg}
        /\ \/ /\ st = "answered" /\ wk[w].seg \in stored' /\ UNCHANGED lost
              /\ fresh' = IF frozen = 3 THEN fresh \cup {wk[w].seg} ELSE fresh
           \/ /\ st = "deliver" /\ wk[w].st = "answered" /\ UNCHANGED fresh
              /\ lost' = lost \cup {wk[w].seg}
  BY DEF Store, Ingested, AnswerLost, Set, Busy, life
<1>3. UNCHANGED <<env, pc, reason, pending, frozen, out, made, seen, pool, acked, media, lagged>>
  BY DEF Store, Ingested, AnswerLost, life
<1>4. UNCHANGED <<pc, reason, pending, frozen, open, halt, drain>>  BY <1>3 DEF env
<1>5. wk \in [Workers -> Hands] /\ wk[w].seg \in pool.sub \ acked /\ pool.sub \subseteq seen
      /\ wk[w].seg \in Contents
  BY <1>1, <1>2 DEF CaptureTypes, InHands, Counts
<1>6. /\ wk' \in [Workers -> Hands]
      /\ wk'[w].st = st /\ wk'[w].seg = wk[w].seg
      /\ \A v \in Workers : v # w => wk'[v] = wk[v]
  BY <1>2, <1>5 DEF Hands
<1>7. \A v \in Workers : /\ Busy(v)' <=> Busy(v)
                         /\ wk'[v].seg = wk[v].seg
                         /\ wk'[v].st = "exited" <=> wk[v].st = "exited"
  BY <1>2, <1>6 DEF Busy
<1>8. CaptureTypes'
  <2>1. fresh' \subseteq stored' /\ lost' \subseteq stored'
    BY <1>1, <1>2 DEF CaptureTypes, InHands
  <2> QED  BY <1>1, <1>2, <1>3, <1>4, <1>5, <1>6, <2>1 DEF CaptureTypes
<1>9. Queued' /\ Carried'  BY <1>1, <1>3, <1>7 DEF Queued, Carried
<1>10. InHands'
  <2>1. \A v \in Workers : wk'[v].st = "answered" => wk'[v].seg \in stored'
    BY <1>1, <1>2, <1>6 DEF InHands
  <2> QED  BY <1>1, <1>3, <1>7, <2>1 DEF InHands
<1>11. Counts' /\ Crew'  BY <1>1, <1>3, <1>4, <1>7 DEF Counts, Crew, JobDone
<1>12. Held' /\ Earlier' /\ Ending' /\ LagKeepsMedia'
  BY <1>1, <1>3, <1>4 DEF Held, Earlier, Ending, LagKeepsMedia
<1>13. Episode'
  <2>1. fresh' # fresh => frozen = 3  BY <1>2
  <2>2. ASSUME NEW c \in fresh' \ lost', pc \in Going PROVE Known(c)'
    <3>1. CASE c = wk[w].seg
      <4>1. st = "answered"  BY <1>2, <3>1
      <4> QED  BY <1>6, <3>1, <4>1 DEF Known
    <3>2. CASE c # wk[w].seg
      <4>1. c \in fresh \ lost  BY <1>2, <3>2
      <4>2. Known(c)  BY <1>1, <2>2, <4>1 DEF Episode
      <4>3. \A v \in Workers : wk[v].seg = c => wk'[v] = wk[v]  BY <1>6, <3>2
      <4> QED  BY <1>3, <4>2, <4>3 DEF Known
    <3> QED  BY <3>1, <3>2
  <2> QED  BY <1>1, <1>4, <2>1, <2>2 DEF Episode
<1> QED  BY <1>8, <1>9, <1>10, <1>11, <1>12, <1>13 DEF CaptureInv

\* A delivery fails: the pool keeps the first error, the segment stays owed.
LEMMA RefusedStep ==
  ASSUME CaptureInv, NEW w \in Workers, Refused(w)
  PROVE  CaptureInv'
<1>1. /\ CaptureTypes /\ Queued /\ InHands /\ Carried /\ Counts /\ Crew
      /\ Held /\ Earlier /\ Ending /\ Episode /\ LagKeepsMedia
  BY DEF CaptureInv
<1>2. PICK e \in Errors \ {"none"} : Fail(w, e) /\ (e \in {"canceled", "late"} => JobDone)
  BY DEF Refused, Errors
<1>3. /\ wk[w].st = "deliver"
      /\ pool' = [pool EXCEPT !.err = IF @ = "none" THEN e ELSE @]
      /\ out' = [out EXCEPT !.aborted = TRUE]
      /\ wk' = [wk EXCEPT ![w] = [st |-> "idle", seg |-> NoSeg]]
      /\ UNCHANGED <<env, life, made, seen, stored, acked, media, lagged, lost>>
  BY <1>2 DEF Fail, Failed, Set
<1>4. UNCHANGED <<pc, reason, pending, frozen, fresh, open, halt, drain>>  BY <1>3 DEF env, life
<1>5. pool \in Pools /\ out \in Outs /\ wk \in [Workers -> Hands]  BY <1>1 DEF CaptureTypes
<1>6. /\ pool' \in Pools /\ pool'.queue = pool.queue /\ pool'.sub = pool.sub
      /\ pool'.flight = pool.flight /\ pool'.closed = pool.closed /\ pool'.unique = pool.unique
      /\ pool'.err # "none" /\ (pool'.err \in {"canceled", "late"} => JobDone)
  <2>1. PICK err : err = IF pool.err = "none" THEN e ELSE pool.err  OBVIOUS
  <2>2. pool' = [pool EXCEPT !.err = err]  BY <1>3, <2>1
  <2>3. err \in Errors /\ err # "none" /\ (err \in {"canceled", "late"} => JobDone)
    BY <1>1, <1>2, <1>5, <2>1 DEF Pools, Counts
  <2> QED  BY <1>5, <2>2, <2>3 DEF Pools
<1>7. out' \in Outs /\ out'.held = out.held  BY <1>3, <1>5 DEF Outs
<1>8. /\ wk' \in [Workers -> Hands] /\ wk'[w] = [st |-> "idle", seg |-> NoSeg]
      /\ \A v \in Workers : v # w => wk'[v] = wk[v]
  BY <1>3, <1>5 DEF Hands
<1>9. CaptureTypes'  BY <1>1, <1>3, <1>4, <1>6, <1>7, <1>8 DEF CaptureTypes
<1>10. Queued'  BY <1>1, <1>3, <1>6, <1>8 DEF Queued, Busy
<1>11. InHands'  BY <1>1, <1>3, <1>6, <1>8 DEF InHands, Busy
<1>12. Carried'  BY <1>6 DEF Carried
<1>13. Counts'  BY <1>1, <1>3, <1>4, <1>6 DEF Counts, JobDone
<1>14. Crew'
  <2>1. pc \in Attempt  BY <1>3, WorkerAtWork
  <2>2. \A v \in Workers : wk'[v].st = "exited" => wk[v].st = "exited"  BY <1>8
  <2> QED  BY <1>1, <1>4, <1>6, <2>1, <2>2 DEF Crew
<1>15. Held' /\ Earlier' /\ Ending' /\ LagKeepsMedia'
  BY <1>1, <1>3, <1>4, <1>6, <1>7 DEF Held, Earlier, Ending, LagKeepsMedia
<1>16. Episode'
  <2>1. \A d : Known(d) => Known(d)'  BY <1>3, <1>6, <1>8 DEF Known
  <2> QED  BY <1>1, <1>3, <1>4, <2>1 DEF Episode
<1> QED  BY <1>9, <1>10, <1>11, <1>12, <1>13, <1>14, <1>15, <1>16 DEF CaptureInv

\* A segment is delivered: its file goes, the pool owes one less.
LEMMA AcknowledgeStep ==
  ASSUME CaptureInv, NEW w \in Workers, Acknowledge(w)
  PROVE  CaptureInv'
<1>1. /\ CaptureTypes /\ Queued /\ InHands /\ Carried /\ Counts /\ Crew
      /\ Held /\ Earlier /\ Ending /\ Episode /\ LagKeepsMedia
  BY DEF CaptureInv
<1>2. PICK c : c = wk[w].seg  OBVIOUS
<1>3. /\ Busy(w) /\ c \in stored
      /\ acked' = acked \cup {c} /\ media' = media \ {c}
      /\ pool' = [pool EXCEPT !.flight = @ - 1, !.unique = @ \/ wk[w].st = "answered"]
      /\ wk' = [wk EXCEPT ![w] = [st |-> "idle", seg |-> NoSeg]]
      /\ UNCHANGED <<env, pc, reason, pending, frozen, fresh, out, made, seen, stored, lagged, lost>>
  BY <1>1, <1>2 DEF Acknowledge, Set, Busy, InHands, life
<1>4. UNCHANGED <<open, halt, drain>>  BY <1>3 DEF env
<1>5. /\ pool \in Pools /\ wk \in [Workers -> Hands] /\ c \in pool.sub \ acked /\ c \in Contents
      /\ pool.sub \subseteq seen /\ pool.sub \in SUBSET Contents
  BY <1>1, <1>2, <1>3 DEF CaptureTypes, InHands, Counts
<1>6. /\ IsFiniteSet(pool.sub \ acked') /\ pool.sub \ acked = (pool.sub \ acked') \cup {c}
      /\ c \notin pool.sub \ acked'
  <2>1. pool.sub \ acked' \subseteq Contents  BY <1>5
  <2> QED  BY <1>3, <1>5, <2>1, CaptureAssumption, FS_Subset
<1>7. pool.flight - 1 = Cardinality(pool.sub \ acked') /\ pool.flight - 1 \in Nat
  <2>1. Cardinality(pool.sub \ acked) = Cardinality(pool.sub \ acked') + 1
    BY <1>6, FS_AddElement
  <2>2. Cardinality(pool.sub \ acked') \in Nat  BY <1>6, FS_CardinalityType
  <2> QED  BY <1>1, <2>1, <2>2 DEF Counts
<1>8. /\ pool' \in Pools /\ pool'.queue = pool.queue /\ pool'.sub = pool.sub
      /\ pool'.flight = pool.flight - 1 /\ pool'.closed = pool.closed /\ pool'.err = pool.err
      /\ pool'.unique = (pool.unique \/ wk[w].st = "answered")
  <2>1. PICK unique, flight :
          unique = (pool.unique \/ wk[w].st = "answered") /\ flight = pool.flight - 1
    OBVIOUS
  <2>2. (pool.unique \/ wk[w].st = "answered") \in BOOLEAN  OBVIOUS
  <2>3. unique \in BOOLEAN /\ flight \in Nat  BY <1>7, <2>1, <2>2
  <2>4. pool' = [pool EXCEPT !.flight = flight, !.unique = unique]  BY <1>3, <2>1
  <2> QED  BY <1>5, <2>1, <2>3, <2>4 DEF Pools
<1>9. /\ wk' \in [Workers -> Hands] /\ wk'[w] = [st |-> "idle", seg |-> NoSeg]
      /\ \A v \in Workers : v # w => wk'[v] = wk[v]
  BY <1>3, <1>5 DEF Hands
<1>10. CaptureTypes'
  <2>1. acked' \subseteq stored' /\ media' \subseteq seen'
    BY <1>1, <1>3 DEF CaptureTypes
  <2> QED  BY <1>1, <1>3, <1>4, <1>8, <1>9, <2>1 DEF CaptureTypes
<1>11. \A v \in Workers : Busy(v)' => v # w /\ Busy(v) /\ wk'[v] = wk[v] /\ wk[v].seg # c
  BY <1>1, <1>2, <1>3, <1>9 DEF Busy, InHands
<1>12. \A i \in DOMAIN pool.queue : pool.queue[i] # c
  BY <1>1, <1>2, <1>3 DEF Queued
<1>13. Queued'
  BY <1>1, <1>3, <1>8, <1>11, <1>12 DEF Queued
<1>14. InHands'
  <2>1. \A v \in Workers : IF Busy(v)' THEN wk'[v].seg \in pool.sub \ acked' ELSE wk'[v].seg = NoSeg
    BY <1>1, <1>3, <1>9, <1>11 DEF InHands, Busy
  <2>2. \A v \in Workers : wk'[v].st = "answered" => wk'[v].seg \in stored'
    BY <1>1, <1>3, <1>9 DEF InHands
  <2>3. \A u, v \in Workers : Busy(u)' /\ Busy(v)' /\ wk'[u].seg = wk'[v].seg => u = v
    BY <1>1, <1>11 DEF InHands
  <2> QED  BY <1>8, <2>1, <2>2, <2>3 DEF InHands
<1>15. Carried'
  <2> SUFFICES ASSUME pool.err = "none", NEW d \in pool.sub \ acked'
               PROVE  \/ \E i \in DOMAIN pool.queue : pool.queue[i] = d
                      \/ \E v \in Workers : Busy(v)' /\ wk'[v].seg = d
    BY <1>8 DEF Carried
  <2>1. d \in pool.sub \ acked /\ d # c  BY <1>3
  <2>2. \A v \in Workers : Busy(v) /\ wk[v].seg = d => Busy(v)' /\ wk'[v].seg = d
    BY <1>2, <1>9, <2>1 DEF Busy
  <2> QED  BY <1>1, <2>1, <2>2 DEF Carried
<1>16. Counts'  BY <1>1, <1>3, <1>4, <1>7, <1>8 DEF Counts, JobDone
<1>17. Crew'
  <2>1. pc \in Attempt  BY <1>3, WorkerAtWork DEF Busy
  <2>2. \A v \in Workers : wk'[v].st = "exited" => wk[v].st = "exited"  BY <1>9
  <2> QED  BY <1>1, <1>3, <1>8, <2>1, <2>2 DEF Crew
<1>18. Held' /\ Ending'  BY <1>1, <1>3 DEF Held, Ending
<1>19. Earlier' /\ LagKeepsMedia'  BY <1>1, <1>3, <1>8 DEF Earlier, LagKeepsMedia
<1>20. Episode'
  <2>1. ASSUME NEW d, Known(d) PROVE Known(d)'
    <3>1. CASE pool.unique \/ wk[w].st = "answered"  BY <1>8, <3>1 DEF Known
    <3>2. CASE ~pool.unique /\ wk[w].st # "answered"
      <4>1. PICK v \in Workers : wk[v].st = "answered" /\ wk[v].seg = d  BY <2>1, <3>2 DEF Known
      <4>2. wk'[v] = wk[v]  BY <1>9, <3>2, <4>1
      <4> QED  BY <4>1, <4>2 DEF Known
    <3> QED  BY <3>1, <3>2
  <2> QED  BY <1>1, <1>3, <2>1 DEF Episode
<1> QED
  BY <1>10, <1>13, <1>14, <1>15, <1>16, <1>17, <1>18, <1>19, <1>20 DEF CaptureInv

\* The pool is closed: every sleeping worker looks at the queue once more.
LEMMA CloseStep ==
  ASSUME CaptureInv, Close
  PROVE  CaptureInv'
<1>1. /\ CaptureTypes /\ Queued /\ InHands /\ Carried /\ Counts /\ Crew
      /\ Held /\ Earlier /\ Ending /\ Episode /\ LagKeepsMedia
  BY DEF CaptureInv
<1>2. /\ pc = "close" /\ pc' = "join" /\ UNCHANGED <<reason, pending, frozen, fresh>>
      /\ pool' = [pool EXCEPT !.closed = TRUE] /\ wk' = Woken(Asleep)
      /\ UNCHANGED <<env, out, made, seen, stored, acked, media, lagged, lost>>
  BY DEF Close, Goto, Broadcast
<1>3. UNCHANGED <<open, halt, drain>>  BY <1>2 DEF env
<1>4. pool \in Pools /\ wk \in [Workers -> Hands]  BY <1>1 DEF CaptureTypes
<1>5. /\ pool' \in Pools /\ pool'.queue = pool.queue /\ pool'.sub = pool.sub
      /\ pool'.flight = pool.flight /\ pool'.closed /\ pool'.err = pool.err
      /\ pool'.unique = pool.unique
  BY <1>2, <1>4 DEF Pools
<1>6. /\ wk' \in [Workers -> Hands]
      /\ \A v \in Workers : \/ wk'[v] = wk[v]
                            \/ wk[v].st = "asleep" /\ wk'[v] = [st |-> "idle", seg |-> NoSeg]
  <2>1. [st |-> "idle", seg |-> NoSeg] \in Hands  BY DEF Hands
  <2> QED  BY <1>2, <1>4, <2>1 DEF Woken, Asleep
<1>7. \A v \in Workers : /\ Busy(v)' <=> Busy(v)
                         /\ Busy(v) => wk'[v] = wk[v]
                         /\ wk'[v].st = "exited" <=> wk[v].st = "exited"
                         /\ ~Busy(v) => wk'[v].seg = NoSeg
                         /\ wk'[v].st = "answered" <=> wk[v].st = "answered"
  BY <1>1, <1>6 DEF Busy, InHands
<1>8. CaptureTypes'
  BY <1>1, <1>2, <1>3, <1>5, <1>6 DEF CaptureTypes, Places, Going, Attempt
<1>9. Queued' /\ Carried'  BY <1>1, <1>2, <1>5, <1>7 DEF Queued, Carried
<1>10. InHands'  BY <1>1, <1>2, <1>5, <1>7 DEF InHands
<1>11. Counts'  BY <1>1, <1>2, <1>3, <1>5 DEF Counts, JobDone
<1>12. Crew'  BY <1>1, <1>2, <1>5, <1>7 DEF Crew, Attempt
<1>13. Held' /\ Ending' /\ LagKeepsMedia'  BY <1>1, <1>2 DEF Held, Ending, LagKeepsMedia
<1>14. Earlier' /\ Episode'
  <2>1. \A d : Known(d) => Known(d)'  BY <1>5, <1>7 DEF Known, Busy
  <2> QED  BY <1>1, <1>2, <1>5, <2>1 DEF Earlier, Episode, Going, Attempt
<1> QED  BY <1>8, <1>9, <1>10, <1>11, <1>12, <1>13, <1>14 DEF CaptureInv

-----------------------------------------------------------------------------
(* Attempts begin and are judged.                                          *)

\* A connection attempt fails, ends the job, or starts a crew of idle workers.
LEMMA ResolveStep ==
  ASSUME CaptureInv, Resolve
  PROVE  CaptureInv'
<1>1. /\ CaptureTypes /\ Queued /\ InHands /\ Carried /\ Counts /\ Crew
      /\ Held /\ Earlier /\ Ending /\ Episode /\ LagKeepsMedia
  BY DEF CaptureInv
<1>2. pc = "resolve" /\ UNCHANGED <<env, made, seen, stored, acked, media, lagged, lost, out, pool>>
  BY DEF Resolve
<1>3. UNCHANGED <<pending, frozen, fresh>>  BY DEF Resolve, Goto
<1>4. UNCHANGED <<open, halt, drain>> /\ (JobDone => JobDone')  BY <1>2 DEF env, JobDone
<1>5. /\ pool = NewPool /\ ~pending /\ seen \subseteq acked
      /\ \A w \in Workers : wk[w].st = "exited" /\ wk[w].seg = NoSeg
  <2>1. pool = NewPool /\ \A w \in Workers : wk[w].st = "exited"
    BY <1>1, <1>2 DEF Crew, Attempt
  <2>2. \A w \in Workers : wk[w].seg = NoSeg  BY <1>1, <2>1 DEF InHands, Busy
  <2> QED  BY <1>1, <1>2, <2>1, <2>2 DEF Earlier, NewPool, Going
<1>6. CASE /\ pc' \in {"complete", "fail", "surrender"} /\ UNCHANGED wk
           /\ reason' \in {"none", "disk", "update", "lag", "no progress"}
  <2>1. CaptureTypes'
    BY <1>1, <1>2, <1>3, <1>4, <1>6 DEF CaptureTypes, Places
  <2>2. pc \notin Attempt /\ pc' \notin Attempt /\ pc' \notin Going /\ pc' # "wait"
    BY <1>2, <1>6 DEF Attempt, Going
  <2>3. UNCHANGED <<work, seen>>  BY <1>2, <1>6 DEF work
  <2> QED  BY <1>4, <1>5, <2>1, <2>2, <2>3, QuietKeeps
<1>7. CASE /\ pc' = "capture" /\ UNCHANGED reason
           /\ wk' = [w \in Workers |-> [st |-> "idle", seg |-> NoSeg]]
  <2>1. wk' \in [Workers -> Hands]  BY <1>7 DEF Hands
  <2>2. CaptureTypes'
    BY <1>1, <1>2, <1>3, <1>4, <1>7, <2>1 DEF CaptureTypes, Places, Going, Attempt
  <2>3. \A w \in Workers : ~Busy(w)' /\ wk'[w].seg = NoSeg /\ wk'[w].st = "idle"
    BY <1>7 DEF Busy
  <2>4. Queued' /\ InHands' /\ Carried'
    BY <1>2, <1>5, <2>3 DEF Queued, InHands, Carried, NewPool
  <2>5. Counts'  BY <1>1, <1>2, <1>4 DEF Counts, JobDone
  <2>6. Crew'  BY <1>2, <1>5, <1>7, <2>3 DEF Crew, Attempt, NewPool
  <2>7. Held' /\ Ending'  BY <1>7 DEF Held, Ending
  <2>8. Earlier' /\ Episode' /\ LagKeepsMedia'
    <3>1. \A d : Known(d) => Known(d)'  BY <1>2, <1>5 DEF Known
    <3> QED
      BY <1>1, <1>2, <1>3, <1>5, <1>7, <3>1
      DEF Earlier, Episode, LagKeepsMedia, Going, Attempt, NewPool
  <2> QED  BY <2>2, <2>4, <2>5, <2>6, <2>7, <2>8 DEF CaptureInv
<1>8. reason \in {"none", "disk", "update", "lag", "no progress"}  BY <1>1 DEF CaptureTypes
<1> QED  BY <1>6, <1>7, <1>8 DEF Resolve, Goto, SurrenderFor

\* When every worker has left a pool that did not fail, it owes nothing.
LEMMA JoinedPool ==
  ASSUME CaptureInv, pc = "join", Joined
  PROVE  /\ pool.err = "none" => seen \subseteq acked
         /\ Pending \in BOOLEAN
         /\ ~Pending => seen \subseteq acked
         /\ \A w \in Workers : wk[w].st = "exited" /\ wk[w].seg = NoSeg
<1>1. /\ CaptureTypes /\ InHands /\ Carried /\ Counts /\ Crew /\ Earlier  BY DEF CaptureInv
<1>2. \A w \in Workers : wk[w].st = "exited" /\ ~Busy(w) /\ wk[w].seg = NoSeg
  BY <1>1 DEF Joined, Busy, InHands
<1>3. pool.queue = <<>>  BY <1>1, <1>2, CaptureAssumption DEF Crew
<1>4. seen \ pool.sub \subseteq acked /\ ~pending  BY <1>1 DEF Earlier, Going, Attempt
<1>5. pool.err = "none" => pool.sub \subseteq acked  BY <1>1, <1>2, <1>3 DEF Carried
<1>6. pool.flight = 0 => pool.sub \subseteq acked
  <2>1. pool.sub \ acked \subseteq Contents  BY <1>1 DEF CaptureTypes, Pools
  <2>2. IsFiniteSet(pool.sub \ acked)  BY <2>1, CaptureAssumption, FS_Subset
  <2>3. Cardinality(pool.sub \ acked) = 0 => pool.sub \ acked = {}  BY <2>2, FS_EmptySet
  <2> QED  BY <1>1, <2>3 DEF Counts
<1>7. pool.flight \in Nat  BY <1>1 DEF CaptureTypes, Pools
<1>8. (pool.flight > 0) \in BOOLEAN /\ (~(pool.flight > 0) => pool.flight = 0)  BY <1>7
<1>9. Pending \in BOOLEAN  BY <1>1, <1>8 DEF Pending, CaptureTypes
<1>10. ~Pending => pool.sub \subseteq acked  BY <1>6, <1>8 DEF Pending
<1> QED  BY <1>2, <1>4, <1>5, <1>9, <1>10

\* The attempt is judged: it goes on, or the job ends.
LEMMA JudgeStep ==
  ASSUME CaptureInv, Judge
  PROVE  CaptureInv'
<1>1. /\ CaptureTypes /\ Queued /\ InHands /\ Carried /\ Counts /\ Crew
      /\ Held /\ Earlier /\ Ending /\ Episode /\ LagKeepsMedia
  BY DEF CaptureInv
<1>2. /\ pc = "join" /\ Joined /\ pending' = Pending
      /\ media' = IF CleansUp THEN {} ELSE media
      /\ out' = NewOut /\ pool' = NewPool
      /\ UNCHANGED <<env, made, seen, wk, stored, acked, lagged, lost>>
  BY DEF Judge
<1>3. /\ pool.err = "none" => seen \subseteq acked
      /\ Pending \in BOOLEAN
      /\ ~Pending => seen \subseteq acked
      /\ \A w \in Workers : wk[w].st = "exited" /\ wk[w].seg = NoSeg
  BY <1>2, JoinedPool
<1>4. UNCHANGED <<open, halt, drain>>  BY <1>2 DEF env
<1>5. /\ NewPool \in Pools /\ NewPool.queue = <<>> /\ NewPool.sub = {} /\ NewPool.flight = 0
      /\ NewPool.err = "none" /\ ~NewPool.closed
  BY DEF NewPool, Pools, Errors
<1>6. NewOut \in Outs  BY DEF NewOut, Outs
<1>7. Drained => seen \subseteq acked  BY <1>3 DEF Drained
<1>8. ~DiskPressed /\ ~FailsJob /\ ~Stopped => pool.err = "none"
  <2>1. pool.err \in Errors  BY <1>1 DEF CaptureTypes, Pools
  <2> QED  BY <1>1, <2>1 DEF DiskPressed, FailsJob, Stopped, Counts, Errors
<1>9. /\ pc' \in {"surrender", "fail", "observe", "incomplete", "complete", "resolve"}
      /\ reason' \in {"none", "disk", "update", "lag", "no progress"}
      /\ pc' = "surrender" /\ reason' # "disk" => seen \subseteq acked
      /\ pc' = "complete" => seen \subseteq acked
      /\ pc' \in {"observe", "resolve"} =>
           seen \subseteq acked /\ fresh' \subseteq lost /\ (fresh' # {} => frozen' = 3)
      /\ frozen' \in 0..3 /\ fresh' \subseteq stored
  <2>1. reason \in {"none", "disk", "update", "lag", "no progress"} /\ frozen \in 0..3 /\ fresh \subseteq stored
    BY <1>1 DEF CaptureTypes
  <2>2. CASE /\ \/ SurrenderFor("disk")
                \/ Drained /\ (SurrenderFor("update") \/ SurrenderFor("lag"))
             /\ UNCHANGED <<frozen, fresh>>
    BY <1>7, <2>1, <2>2 DEF SurrenderFor
  <2>3. CASE pc' = "fail" /\ UNCHANGED <<reason, frozen, fresh>>
    BY <2>1, <2>3
  <2>4. CASE /\ ~DiskPressed /\ ~FailsJob
             /\ frozen' = Baseline
             /\ fresh' = IF frozen' = 3 THEN fresh ELSE {}
             /\ IF ~Stopped /\ pool.err = "none" /\ ~Pending /\ out.err = "no output"
                THEN pc' = "observe" /\ UNCHANGED reason
                ELSE Proceed(Pending)
    <3>0. frozen' = IF pool.unique \/ frozen < 3 THEN 0 ELSE frozen  BY <2>4, Zenon DEF Baseline
    <3>1. frozen' \in 0..3
      <4>1. frozen \in 0..3  BY <2>1
      <4>2. 0 \in 0..3  OBVIOUS
      <4> QED  BY <3>0, <4>1, <4>2, Zenon
    <3>2. fresh' \subseteq lost /\ fresh' \subseteq stored /\ (fresh' # {} => frozen' = 3)
      <4>1. frozen' = 3 => ~pool.unique
        <5>1. 0 # 3  OBVIOUS
        <5> QED  BY <3>0, <5>1, Zenon
      <4>2. \A c \in fresh \ lost : pool.unique
        BY <1>1, <1>2, <1>3 DEF Episode, Known, Going, Attempt
      <4> QED  BY <2>1, <2>4, <4>1, <4>2
    <3>3. CASE pc' = "observe" /\ UNCHANGED reason /\ pool.err = "none"
      BY <1>3, <2>1, <3>1, <3>2, <3>3
    <3>4. CASE Proceed(Pending)
      <4>1. CASE Stopped
        <5>1. pc' = IF Pending THEN "incomplete" ELSE "complete"
          BY <3>4, <4>1 DEF Proceed, Unfinished
        <5>2. reason' = reason  BY <3>4, <4>1 DEF Proceed
        <5> QED  BY <1>3, <2>1, <3>1, <3>2, <5>1, <5>2
      <4>2. CASE ~Stopped
        <5>1. seen \subseteq acked  BY <1>3, <1>8, <2>4, <4>2
        <5>2. /\ pc' \in {"resolve", "surrender"}
              /\ reason' = reason \/ reason' = "no progress"
          BY <3>4, <4>2 DEF Proceed, SurrenderFor
        <5> QED  BY <2>1, <3>1, <3>2, <5>1, <5>2
      <4> QED  BY <4>1, <4>2
    <3> QED  BY <2>4, <3>3, <3>4
  <2> QED  BY <2>2, <2>3, <2>4 DEF Judge
<1>10. CaptureTypes'
  <2>1. pc' \in Places  BY <1>9 DEF Places, Going, Ended
  <2>2. media' \subseteq seen  BY <1>1, <1>2 DEF CaptureTypes
  <2>3. pending' \in BOOLEAN  BY <1>2, <1>3
  <2> QED  BY <1>1, <1>2, <1>4, <1>5, <1>6, <1>9, <2>1, <2>2, <2>3 DEF CaptureTypes
<1>11. Queued' /\ InHands' /\ Carried'
  BY <1>2, <1>3, <1>5 DEF Queued, InHands, Carried, Busy
<1>12. Counts'
  <2>1. {} \ acked = {} /\ Cardinality({}) = 0  BY FS_EmptySet
  <2> QED  BY <1>2, <1>5, <2>1 DEF Counts
<1>13. Crew'
  BY <1>2, <1>3, <1>5, <1>9 DEF Crew, Attempt
<1>14. Held' /\ Ending'  BY <1>2, <1>9 DEF Held, Ending
<1>15. Earlier' /\ Episode'
  <2>1. pc' \in Going => pc' \in {"observe", "resolve"}  BY <1>9 DEF Going, Attempt
  <2>2. pc' \in {"observe", "resolve"} => ~pending'
    <3>1. CASE Pending
      <4>1. pool.err # "none"
        <5>1. pool.flight = Cardinality(pool.sub \ acked) /\ pool.sub \subseteq seen  BY <1>1 DEF Counts
        <5>2. pool.err = "none" => pool.sub \ acked = {}  BY <1>3, <5>1
        <5>3. pool.err = "none" => pool.flight = 0  BY <5>1, <5>2, FS_EmptySet
        <5>4. ~pending  BY <1>1, <1>2 DEF Earlier, Going, Attempt
        <5>5. pool.flight > 0  BY <3>1, <5>4 DEF Pending
        <5> QED  BY <5>3, <5>5
      <4>2. pc' \in {"observe", "resolve"} => pool.err = "none"
        <5>1. CASE pc' = "observe"  BY <5>1 DEF Judge, SurrenderFor, Proceed, Unfinished
        <5>2. CASE pc' = "resolve"
          <6>1. ~DiskPressed /\ ~FailsJob /\ ~Stopped
            BY <5>2 DEF Judge, SurrenderFor, Proceed, Unfinished
          <6> QED  BY <1>8, <6>1
        <5> QED  BY <5>1, <5>2
      <4> QED  BY <4>1, <4>2
    <3>2. CASE ~Pending  BY <1>2, <3>2
    <3> QED  BY <3>1, <3>2
  <2> QED  BY <1>2, <1>5, <1>9, <2>1, <2>2 DEF Earlier, Episode
<1>16. LagKeepsMedia'
  <2>1. CASE ~CleansUp  BY <1>1, <1>2, <2>1 DEF LagKeepsMedia
  <2>2. CASE CleansUp
    <3>1. lagged => seen \subseteq acked  BY <1>3, <2>2 DEF CleansUp
    <3> QED  BY <1>2, <3>1 DEF LagKeepsMedia
  <2> QED  BY <2>1, <2>2
<1> QED  BY <1>10, <1>11, <1>12, <1>13, <1>14, <1>15, <1>16 DEF CaptureInv

-----------------------------------------------------------------------------
(* The theorems.                                                           *)

\* What no sweep, delivery, monitor, reconnect or end of a job breaks.
THEOREM CaptureInvariant == Spec => []CaptureInv
<1>1. Init => CaptureInv
  <2> SUFFICES ASSUME Init PROVE CaptureInv  OBVIOUS
  <2>1. /\ NewPool \in Pools /\ NewPool.queue = <<>> /\ NewPool.sub = {} /\ NewPool.flight = 0
        /\ NewPool.err = "none" /\ ~NewPool.closed /\ NewOut \in Outs
    BY DEF NewPool, Pools, Errors, NewOut, Outs
  <2>2. /\ pc = "resolve" /\ reason = "none" /\ halt = "no" /\ open = TRUE /\ drain = FALSE
        /\ pending = FALSE /\ lagged = FALSE /\ frozen = 0 /\ fresh = {} /\ lost = {} /\ made = 0 /\ seen = {}
        /\ stored = {} /\ acked = {} /\ media = {} /\ out = NewOut /\ pool = NewPool
        /\ wk = [w \in Workers |-> [st |-> "exited", seg |-> NoSeg]]
    BY DEF Init
  <2>3. wk \in [Workers -> Hands] /\ \A w \in Workers : ~Busy(w) /\ wk[w].st = "exited" /\ wk[w].seg = NoSeg
    BY <2>2 DEF Hands, Busy
  <2>4. CaptureTypes
    <3>1. /\ pc \in Places /\ reason \in {"none", "disk", "update", "lag", "no progress"}
          /\ halt \in {"no", "canceled", "shutdown"}
          /\ open \in BOOLEAN /\ drain \in BOOLEAN /\ pending \in BOOLEAN /\ lagged \in BOOLEAN
      BY <2>2 DEF Places, Going
    <3>2. /\ made \in Contents \cup {0} /\ seen \subseteq Contents
          /\ stored \subseteq seen /\ acked \subseteq stored /\ media \subseteq seen
          /\ fresh \subseteq stored /\ lost \subseteq stored
      BY <2>2
    <3>3. out \in Outs /\ pool \in Pools  BY <2>1, <2>2
    <3>4. frozen \in 0..3  BY <2>2
    <3> QED  BY <2>3, <3>1, <3>2, <3>3, <3>4 DEF CaptureTypes
  <2>5. Counts
    <3>1. {} \ {} = {} /\ Cardinality({}) = 0  BY FS_EmptySet
    <3> QED  BY <2>1, <2>2, <3>1 DEF Counts
  <2>6. Queued /\ InHands /\ Carried
    BY <2>1, <2>2, <2>3 DEF Queued, InHands, Carried
  <2>7. Crew  BY <2>1, <2>2, <2>3 DEF Crew, Attempt
  <2>8. Held /\ Earlier /\ Ending /\ Episode /\ LagKeepsMedia
    BY <2>1, <2>2 DEF Held, Earlier, Ending, Episode, LagKeepsMedia
  <2> QED  BY <2>4, <2>5, <2>6, <2>7, <2>8 DEF CaptureInv
<1>2. CaptureInv /\ [Next]_vars => CaptureInv'
  <2> SUFFICES ASSUME CaptureInv, [Next]_vars PROVE CaptureInv'  OBVIOUS
  <2>1. CASE JobStep
    BY <2>1, ResolveStep, HandOverStep, WaitEndsStep, CaptureSteps, CloseStep, JudgeStep,
       ObserveStep, ReportSteps
    DEF JobStep
  <2>2. CASE Produce \/ SourceEnds \/ NoOutput \/ DiskMonitor \/ UpdateMonitor \/ StallMonitor
    BY <2>2, CaptureSteps
  <2>3. ASSUME NEW w \in Workers, WorkerStep(w) PROVE CaptureInv'
    BY <2>3, TakeStep, RefusedStep, StoreSteps, AcknowledgeStep DEF WorkerStep
  <2>4. CASE WindowCloses \/ Canceled \/ Shutdown \/ SetDrain  BY <2>4, EnvironmentSteps
  <2>5. CASE UNCHANGED vars
    <3>1. /\ CaptureTypes /\ Held /\ Earlier /\ Ending /\ Episode  BY DEF CaptureInv
    <3>2. UNCHANGED <<env, life, work, out, made, seen>>  BY <2>5 DEF vars
    <3>3. UNCHANGED <<open, halt, drain, pc, reason, pending, frozen, fresh>>  BY <3>2 DEF env, life
    <3>4. CaptureTypes'  BY <3>1, <3>2, <3>3 DEF CaptureTypes, work
    <3>5. JobDone => JobDone'  BY <3>3 DEF JobDone
    <3>6. UNCHANGED <<work, seen>> /\ out' = out  BY <3>2
    <3> QED  BY <3>1, <3>3, <3>4, <3>5, <3>6, QuietKeeps DEF Held, Earlier, Ending, Episode
  <2> QED  BY <2>1, <2>2, <2>3, <2>4, <2>5 DEF Next
<1> QED  BY <1>1, <1>2, PTL DEF Spec

\* Every variable of the job keeps its type, and the pool's counter counts what it owes.
THEOREM CaptureTypesHold == Spec => []TypeOK
<1>1. CaptureInv => TypeOK
  <2> SUFFICES ASSUME CaptureInv PROVE TypeOK  OBVIOUS
  <2>1. CaptureTypes /\ InHands /\ Counts  BY DEF CaptureInv
  <2>2. out.files \in Seq(Contents) /\ out.held \in Contents \cup {NoSeg} /\ pool.err \in Errors
    BY <2>1 DEF CaptureTypes, Outs, Pools
  <2>3. \A w \in Workers : (wk[w].seg = NoSeg) = (wk[w].st \in {"idle", "asleep", "exited"})
    <3> SUFFICES ASSUME NEW w \in Workers
                 PROVE  wk[w].seg = NoSeg <=> wk[w].st \in {"idle", "asleep", "exited"}
      OBVIOUS
    <3>1. wk[w] \in Hands  BY <2>1 DEF CaptureTypes
    <3>2. Busy(w) => wk[w].seg \in Contents  BY <2>1 DEF InHands, CaptureTypes, Pools
    <3>3. NoSeg \notin Contents  BY CaptureAssumption DEF NoSeg
    <3> QED  BY <2>1, <3>1, <3>2, <3>3 DEF InHands, Busy, Hands
  <2>4. pc \in Ended \cup {"resolve", "capture", "wait", "final", "close", "join", "observe",
                           "fail", "surrender", "complete"}
    BY <2>1 DEF CaptureTypes, Places, Going, Attempt
  <2>5. {open, drain, pending, lagged} \subseteq BOOLEAN  BY <2>1 DEF CaptureTypes
  <2> QED  BY <2>1, <2>2, <2>3, <2>4, <2>5 DEF TypeOK, CaptureTypes, Counts
<1> QED  BY <1>1, CaptureInvariant, PTL

\* The directory of an attempt is never removed under a worker that uploads from it.
THEOREM UploadSafety == Spec => []UploadHasMedia
<1>1. CaptureInv => UploadHasMedia
  <2> SUFFICES ASSUME CaptureInv, NEW w \in Workers, wk[w].st \in {"deliver", "answered"}
               PROVE  wk[w].seg \in media
    BY DEF UploadHasMedia
  <2>1. InHands /\ Earlier /\ Crew  BY DEF CaptureInv
  <2>2. pc \in Going /\ wk[w].seg \in pool.sub \ acked
    BY <2>1 DEF Crew, InHands, Busy, Going
  <2> QED  BY <2>1, <2>2 DEF Earlier
<1> QED  BY <1>1, CaptureInvariant, PTL

\* No reconnect, completion or hand-over (but for a full disk) leaves a segment behind.
THEOREM DeliverySafety == Spec => []DeliveredFirst
<1>1. CaptureInv => DeliveredFirst
  <2> SUFFICES ASSUME CaptureInv PROVE DeliveredFirst  OBVIOUS
  <2>1. Crew /\ Earlier /\ Ending  BY DEF CaptureInv
  <2>2. pc \in {"done", "surrendered"} /\ reason # "disk" => seen \subseteq acked
    BY <2>1 DEF Ending
  <2>3. pc \in {"resolve", "capture"} => seen \ pool.sub \subseteq acked
    BY <2>1 DEF Earlier, Going, Attempt
  <2>4. pc = "resolve" => pool.sub = {}  BY <2>1 DEF Crew, Attempt, NewPool
  <2> QED  BY <2>2, <2>3, <2>4 DEF DeliveredFirst
<1> QED  BY <1>1, CaptureInvariant, PTL

\* What the lag fence stopped is kept for the operator until it is delivered.
THEOREM LagSafety == Spec => []LagKeepsMedia
<1>1. CaptureInv => LagKeepsMedia  BY DEF CaptureInv
<1> QED  BY <1>1, CaptureInvariant, PTL

\* Whatever is ingested while a source counts as frozen ends the episode before the playlist
\* is looked at again, unless the answer to the ingest was lost.
THEOREM BaselineSafety == Spec => []BaselineFresh
<1>1. CaptureInv => BaselineFresh
  <2> SUFFICES ASSUME CaptureInv, pc = "observe" PROVE fresh \subseteq lost  BY DEF BaselineFresh
  <2>1. Crew /\ Episode  BY DEF CaptureInv
  <2>2. pool = NewPool /\ \A w \in Workers : wk[w].st = "exited"  BY <2>1 DEF Crew, Attempt
  <2> QED  BY <2>1, <2>2 DEF Episode, Known, Going, NewPool
<1> QED  BY <1>1, CaptureInvariant, PTL
=============================================================================
