----------------------------- MODULE CaptureJob -----------------------------
(* One continuous window job inside a recorder: the supervisor loop of      *)
(* processContinuousJob with its monitors, the sweep loop of                 *)
(* captureContinuousAttempt, the segment delivery pool and its upload        *)
(* workers, and the frozen-playlist watch.  ffmpeg, the recording API and    *)
(* the disk are the environment.                                             *)
(* The job goroutine, each upload worker and each monitor take steps of      *)
(* their own; a critical section of the pool's mutex is one step, and a      *)
(* worker that waits on the pool's condition runs again only when woken.     *)
EXTENDS Naturals, Sequences, FiniteSets

CONSTANTS
  Contents,   \* 1..n: the source's segments, by content (SHA-256)
  Workers,    \* upload workers of an attempt
  MaxFiles    \* bound: finalized files not yet handed over

ASSUME CaptureAssumption ==
  Contents \subseteq Nat \ {0} /\ IsFiniteSet(Contents) /\ Workers # {} /\ MaxFiles \in Nat

VARIABLES
  pc,        \* where the job goroutine is
  reason,    \* why the job is surrendered
  open,      \* the window's end lies ahead
  halt,      \* "canceled": the heartbeat saw a cancel signal or the lease run out;
             \* "shutdown": the process stops
  drain,     \* DrainForUpdate
  out,       \* the attempt: [files, held, back, err, aborted, pressed]
  made,      \* contents ffmpeg has written so far
  seen,      \* seenSegmentSHA: contents accepted by the pools of this job
  pool,      \* the attempt's pool: [queue, closed, err, sub, flight, unique]
  wk,        \* the upload workers: [st, seg]
  stored,    \* contents the server has ingested
  acked,     \* contents whose delivery the pool was told of
  media,     \* accepted contents whose file is on disk
  pending,   \* segmentDeliveryPending
  lagged,    \* the media lag fence has tripped
  frozen,    \* equal playlist observations; three classify the source as frozen
  fresh,     \* contents ingested since the classification
  lost       \* contents with an ingest whose answer was lost

env  == <<open, halt, drain>>
life == <<pc, reason, pending, frozen, fresh>>
work == <<pool, wk, stored, acked, media, lagged, lost>>
vars == <<env, life, work, out, made, seen>>

NoSeg == 0
Errors == {"none", "disk", "canceled", "late", "permanent", "exhausted"}
Ended == {"done", "failed", "surrendered", "surrender_failed", "canceled",
          "incomplete", "complete_failed"}

NewPool == [queue |-> <<>>, closed |-> FALSE, err |-> "none", sub |-> {}, flight |-> 0,
            unique |-> FALSE]
NewOut == [files |-> <<>>, held |-> NoSeg, back |-> "capture", err |-> "none",
           aborted |-> FALSE, pressed |-> FALSE]

TypeOK ==
  /\ pc \in Ended \cup {"resolve", "capture", "wait", "final", "close", "join", "observe",
                        "fail", "surrender", "complete"}
  /\ reason \in {"none", "disk", "update", "lag", "no progress"}
  /\ halt \in {"no", "canceled", "shutdown"} /\ {open, drain, pending, lagged} \subseteq BOOLEAN
  /\ made \in Contents \cup {0} /\ seen \subseteq Contents
  /\ stored \subseteq seen /\ acked \subseteq stored /\ media \subseteq seen
  /\ out.files \in Seq(Contents) /\ out.held \in Contents \cup {NoSeg}
  /\ pool.err \in Errors /\ pool.sub \subseteq seen
  /\ pool.flight = Cardinality(pool.sub \ acked)
  /\ \A w \in Workers :
        (wk[w].seg = NoSeg) = (wk[w].st \in {"idle", "asleep", "exited"})
  /\ frozen \in 0..3 /\ fresh \subseteq stored /\ lost \subseteq stored

Init ==
  /\ pc = "resolve" /\ reason = "none"
  /\ open = TRUE /\ halt = "no" /\ drain = FALSE
  /\ out = NewOut /\ made = 0 /\ seen = {}
  /\ pool = NewPool /\ wk = [w \in Workers |-> [st |-> "exited", seg |-> NoSeg]]
  /\ stored = {} /\ acked = {} /\ media = {} /\ lagged = FALSE
  /\ pending = FALSE /\ frozen = 0 /\ fresh = {} /\ lost = {}

JobDone == halt # "no"                  \* jobCtx
Stopped == JobDone \/ ~open             \* windowCtx, or canceled()
AttemptDone == Stopped \/ out.aborted   \* attemptCtx

Goto(l) == pc' = l /\ UNCHANGED <<reason, pending, frozen, fresh>>
SurrenderFor(r) == pc' = "surrender" /\ reason' = r

-----------------------------------------------------------------------------
(* The delivery pool *)

\* Signal wakes one waiting worker, Broadcast all of them.
Woken(S) == [w \in Workers |-> IF w \in S THEN [st |-> "idle", seg |-> NoSeg] ELSE wk[w]]
Asleep == {w \in Workers : wk[w].st = "asleep"}

\* mutant of Broadcast: close signals instead
BroadcastOne == IF Asleep = {} THEN {} ELSE {CHOOSE w \in Asleep : TRUE}

Broadcast == Asleep

Set(w, st, seg) == wk' = [wk EXCEPT ![w] = [st |-> st, seg |-> seg]]

\* After a failure descriptors are drained without an upload.  Otherwise the lag fence
\* looks at the segment, and may stop the capture; the delivery goes on.
Take(w) ==
  /\ wk[w].st = "idle"
  /\ \/ /\ pool.queue # <<>>
        /\ pool' = [pool EXCEPT !.queue = Tail(@)]
        /\ \/ pool.err # "none" /\ UNCHANGED <<wk, lagged, out>>
           \/ /\ pool.err = "none" /\ Set(w, "deliver", Head(pool.queue))
              /\ \/ UNCHANGED <<lagged, out>>
                 \/ lagged' = TRUE /\ out' = [out EXCEPT !.aborted = TRUE]
     \/ /\ pool.queue = <<>>
        /\ Set(w, IF pool.closed THEN "exited" ELSE "asleep", NoSeg)
        /\ UNCHANGED <<pool, lagged, out>>
  /\ UNCHANGED <<env, life, made, seen, stored, acked, media, lost>>

\* fail keeps the first error.
Failed(e) == [pool EXCEPT !.err = IF @ = "none" THEN e ELSE @]

Fail(w, e) ==
  /\ wk[w].st = "deliver"
  /\ pool' = Failed(e)
  /\ out' = [out EXCEPT !.aborted = TRUE]
  /\ Set(w, "idle", NoSeg)
  /\ UNCHANGED <<env, life, made, seen, stored, acked, media, lagged, lost>>

\* How a delivery ends without an acknowledgement.  Any reading may find the disk full.
Refused(w) ==
  \/ Fail(w, "disk")
  \/ JobDone /\ (Fail(w, "canceled") \/ Fail(w, "late"))
  \/ ~JobDone /\ Fail(w, "exhausted")
  \/ Fail(w, "permanent")

\* The server has the segment: new media, in a frozen episode too.
Ingested(w) ==
  /\ wk[w].st = "deliver" /\ wk[w].seg \notin stored
  /\ stored' = stored \cup {wk[w].seg}
  /\ fresh' = IF frozen = 3 THEN fresh \cup {wk[w].seg} ELSE fresh
  /\ Set(w, "answered", wk[w].seg)

\* mutant of Store: the file goes as soon as it is uploaded
StoreRemoves(w) ==
  /\ Ingested(w) /\ media' = media \ {wk[w].seg}
  /\ UNCHANGED <<env, pc, reason, pending, frozen, out, made, seen, pool, acked, lagged, lost>>

\* Reserve, PUT and ingest reach the server; the answer is still under way.
Store(w) ==
  /\ Ingested(w)
  /\ UNCHANGED <<env, pc, reason, pending, frozen, out, made, seen, pool, acked, media, lagged,
                 lost>>

AnswerLost(w) ==
  /\ wk[w].st = "answered"
  /\ lost' = lost \cup {wk[w].seg}
  /\ Set(w, "deliver", wk[w].seg)
  /\ UNCHANGED <<env, life, out, made, seen, pool, stored, acked, media, lagged>>

\* The file is removed and the pool told.  A retry finds that the server has the segment
\* and is told apart as a replay, which is no progress, though after a lost answer the
\* ingest was this worker's own.
Acknowledge(w) ==
  /\ \/ wk[w].st = "answered"
     \/ wk[w].st = "deliver" /\ wk[w].seg \in stored
  /\ acked' = acked \cup {wk[w].seg}
  /\ media' = media \ {wk[w].seg}
  /\ pool' = [pool EXCEPT !.flight = @ - 1, !.unique = @ \/ wk[w].st = "answered"]
  /\ Set(w, "idle", NoSeg)
  /\ UNCHANGED <<env, life, out, made, seen, stored, lagged, lost>>

WorkerStep(w) ==
  Take(w) \/ Refused(w) \/ Store(w) \/ AnswerLost(w) \/ Acknowledge(w)

-----------------------------------------------------------------------------
(* Capture: ffmpeg and the sweep *)

Running == pc = "capture" \/ (pc = "wait" /\ out.back = "capture")

\* ffmpeg closes a file: the next of the source, or, after a reconnect, one again.
Produce ==
  /\ Running /\ Len(out.files) < MaxFiles
  /\ \E c \in ({made + 1} \cap Contents) \cup seen :
        /\ out' = [out EXCEPT !.files = Append(@, c)]
        /\ made' = IF c > made THEN c ELSE made
  /\ UNCHANGED <<env, life, work, seen>>

\* The sweep ends with an error from submitInCaptureOrder: files it has not handed
\* over stay in the attempt's directory.
SweepFails(o, e) ==
  /\ Goto("close")
  /\ out' = [o EXCEPT !.err = e, !.held = NoSeg]
  /\ UNCHANGED <<env, work, made, seen>>

\* pool.Submit
Submit(c, o, back) ==
  \/ pool.err # "none" /\ SweepFails([o EXCEPT !.files = <<c>> \o @], "refused")
  \/ /\ pool.err = "none"
     /\ pool' = [pool EXCEPT !.queue = Append(@, c), !.sub = @ \cup {c}, !.flight = @ + 1]
     /\ seen' = seen \cup {c} /\ media' = media \cup {c}
     /\ \/ Asleep = {} /\ UNCHANGED wk
        \/ \E w \in Asleep : wk' = Woken({w})
     /\ out' = [o EXCEPT !.aborted = @ \/ drain, !.held = NoSeg]
     /\ Goto(back)
     /\ UNCHANGED <<env, made, stored, acked, lagged, lost>>

\* submitInCaptureOrder: drop what this job has accepted before, and do not run ahead
\* of the wall clock.
HandOver ==
  /\ pc \in {"capture", "final"} /\ out.files # <<>>
  /\ LET c == Head(out.files)
         o == [out EXCEPT !.files = Tail(@)]
     IN \/ c \in seen /\ out' = o /\ UNCHANGED <<env, life, work, made, seen>>
        \/ c \notin seen /\ Submit(c, o, pc)
        \/ /\ c \notin seen /\ Goto("wait")
           /\ out' = [o EXCEPT !.held = c, !.back = pc]
           /\ UNCHANGED <<env, work, made, seen>>

\* waitForContinuousTimeline
WaitEnds ==
  /\ pc = "wait"
  /\ \/ Submit(out.held, out, out.back)
     \/ AttemptDone /\ \E e \in {"canceled", "refused"} :
          SweepFails([out EXCEPT !.files = <<out.held>> \o @], e)

\* ffmpeg is stopped or ends: its last file is complete.  e is what the attempt
\* returns when the final sweep succeeds.
Finish(e) ==
  /\ pc = "capture" /\ Goto("final")
  /\ out' = [out EXCEPT !.err = e]
  /\ UNCHANGED <<env, work, made, seen>>

StopCapture == AttemptDone /\ Finish("none")
SourceEnds  == Finish("ended")       \* end of stream, or a hard error
NoOutput    == Finish("no output")   \* the watchdog

SweepDone ==
  /\ pc = "final" /\ out.files = <<>>
  /\ Goto("close")
  /\ UNCHANGED <<env, work, out, made, seen>>

-----------------------------------------------------------------------------
(* Monitors of an attempt, which stop when the capture has returned *)

Watched == pc \in {"capture", "wait", "final"}

Abort(o) == Watched /\ ~out.aborted /\ out' = [o EXCEPT !.aborted = TRUE]
            /\ UNCHANGED <<env, life, work, made, seen>>

DiskMonitor   == Abort([out EXCEPT !.pressed = TRUE])
UpdateMonitor == drain /\ Abort(out)
StallMonitor  == Abort(out)

-----------------------------------------------------------------------------
(* The supervisor *)

\* A reconnect that cannot start may find that nothing was ingested for too long.
Resolve ==
  /\ pc = "resolve"
  /\ \/ Stopped /\ Goto("complete") /\ UNCHANGED <<pool, wk, out>>
     \/ ~Stopped /\ Goto("fail") /\ UNCHANGED <<pool, wk, out>>
     \/ ~Stopped /\ SurrenderFor("no progress")
        /\ UNCHANGED <<pending, frozen, fresh, pool, wk, out>>
     \/ ~Stopped /\ Goto("capture") /\ UNCHANGED <<pool, out>>
        /\ wk' = [w \in Workers |-> [st |-> "idle", seg |-> NoSeg]]
  /\ UNCHANGED <<env, made, seen, stored, acked, media, lagged, lost>>

Close ==
  /\ pc = "close" /\ Goto("join")
  /\ pool' = [pool EXCEPT !.closed = TRUE]
  /\ wk' = Woken(Broadcast)
  /\ UNCHANGED <<env, out, made, seen, stored, acked, media, lagged, lost>>

\* mutant of Joined: the attempt is judged as soon as the queue is empty
JoinedEmpty == pool.queue = <<>>

\* wg.Wait
Joined == \A w \in Workers : wk[w].st = "exited"

\* An attempt that was handed nothing leaves the previous attempt's value.
Pending == IF pool.sub # {} THEN pool.flight > 0 ELSE pending

DiskPressed == out.pressed \/ pool.err = "disk"

\* mutant of CleansUp: the ordinary policy also after a lag stop
CleansUpLagged ==
  ~Pending \/ DiskPressed \/ out.err = "canceled"
           \/ pool.err \in {"canceled", "permanent", "exhausted"}

\* shouldCleanupContinuousAttempt
CleansUp ==
  \/ ~Pending
  \/ /\ ~lagged
     /\ DiskPressed \/ out.err = "canceled" \/ pool.err \in {"canceled", "permanent", "exhausted"}

\* Everything accepted was delivered, and the window is still open.
Drained == pool.err = "none" /\ ~Stopped

FailsJob == pool.err = "permanent" \/ (pool.err = "exhausted" /\ ~Stopped)

\* A window that closed over an unacknowledged segment is not completed.
Unfinished(p) == p

\* Window close, or a dropped source: reconnect, or hand the job over.
Proceed(p) ==
  \/ Stopped /\ pc' = (IF Unfinished(p) THEN "incomplete" ELSE "complete") /\ UNCHANGED reason
  \/ ~Stopped /\ pc' = "resolve" /\ UNCHANGED reason
  \/ ~Stopped /\ SurrenderFor("no progress")

\* mutant of Baseline: the baseline outlives new media
BaselineKept == frozen

\* New unique media end a frozen episode; an unfinished classification starts over.
Baseline == IF pool.unique \/ frozen < 3 THEN 0 ELSE frozen

Judge ==
  /\ pc = "join" /\ Joined
  /\ pending' = Pending
  /\ media' = IF CleansUp THEN {} ELSE media
  /\ out' = NewOut /\ pool' = NewPool
  /\ \/ DiskPressed /\ SurrenderFor("disk") /\ UNCHANGED <<frozen, fresh>>
     \/ ~DiskPressed /\ drain /\ Drained /\ SurrenderFor("update") /\ UNCHANGED <<frozen, fresh>>
     \/ ~DiskPressed /\ ~(drain /\ Drained) /\ lagged /\ Drained
        /\ SurrenderFor("lag") /\ UNCHANGED <<frozen, fresh>>
     \/ ~DiskPressed /\ ~((drain \/ lagged) /\ Drained) /\ FailsJob
        /\ pc' = "fail" /\ UNCHANGED <<reason, frozen, fresh>>
     \/ /\ ~DiskPressed /\ ~((drain \/ lagged) /\ Drained) /\ ~FailsJob
        /\ frozen' = Baseline
        /\ fresh' = IF frozen' = 3 THEN fresh ELSE {}
        /\ IF ~Stopped /\ pool.err = "none" /\ ~Pending /\ out.err = "no output"
           THEN pc' = "observe" /\ UNCHANGED reason
           ELSE Proceed(Pending)
  /\ UNCHANGED <<env, made, seen, wk, stored, acked, lagged, lost>>

\* handleFrozenHLSCycle: three equal observations classify the source, each later
\* cycle confirms them and waits; a difference starts over.  A classified source keeps
\* the lease without progress.
Observe ==
  /\ pc = "observe"
  /\ \/ SurrenderFor("disk") /\ UNCHANGED frozen
     \/ drain /\ SurrenderFor("update") /\ UNCHANGED frozen
     \/ Stopped /\ Proceed(pending) /\ UNCHANGED frozen
     \/ frozen = 3 /\ frozen' \in {0, 3} /\ pc' = "resolve" /\ UNCHANGED reason
     \/ frozen = 2 /\ frozen' = 3 /\ pc' = "resolve" /\ UNCHANGED reason
     \/ frozen < 2 /\ frozen' = frozen + 1 /\ UNCHANGED <<pc, reason>>
     \/ frozen < 3 /\ frozen' = 0 /\ Proceed(pending)
  /\ fresh' = IF frozen' = 3 THEN fresh ELSE {}
  /\ UNCHANGED <<env, work, out, made, seen, pending>>

\* surrenderContinuousJobForReason: a refusal at the window's end completes the job.
Surrender ==
  /\ pc = "surrender"
  /\ \/ halt # "shutdown" /\ Goto("surrendered")
     \/ ~open /\ Goto("done")
     \/ Goto("surrender_failed")
  /\ UNCHANGED <<env, work, out, made, seen>>

Complete ==
  /\ pc = "complete"
  /\ \/ halt = "canceled" /\ Goto("canceled")
     \/ halt = "no" /\ Goto("done")
     \/ halt # "canceled" /\ Goto("complete_failed")
  /\ UNCHANGED <<env, work, out, made, seen>>

ReportFailure ==
  /\ pc = "fail" /\ Goto("failed")
  /\ UNCHANGED <<env, work, out, made, seen>>

JobStep ==
  \/ Resolve \/ HandOver \/ WaitEnds \/ StopCapture \/ SweepDone
  \/ Close \/ Judge \/ Observe \/ Surrender \/ Complete \/ ReportFailure

-----------------------------------------------------------------------------
(* The environment *)

Elsewhere == UNCHANGED <<life, work, out, made, seen>>

WindowCloses == open /\ open' = FALSE /\ UNCHANGED <<halt, drain>> /\ Elsewhere

\* The heartbeat runs until jobCtx is canceled.
Canceled ==
  /\ ~JobDone /\ pc \notin {"surrender", "fail"}
  /\ halt' = "canceled" /\ UNCHANGED <<open, drain>> /\ Elsewhere

\* After a cancellation it makes no difference.
Shutdown == ~JobDone /\ halt' = "shutdown" /\ UNCHANGED <<open, drain>> /\ Elsewhere

\* The self-updater drains, or gives up after a failed restart.
SetDrain == drain' = ~drain /\ UNCHANGED <<open, halt>> /\ Elsewhere

Next ==
  \/ JobStep \/ Produce \/ SourceEnds \/ NoOutput
  \/ \E w \in Workers : WorkerStep(w)
  \/ DiskMonitor \/ UpdateMonitor \/ StallMonitor
  \/ pc \notin Ended /\ (WindowCloses \/ Canceled \/ Shutdown \/ SetDrain)

Spec == Init /\ [][Next]_vars

\* Goroutines run, calls return within their timeouts, a delivery ends within its
\* budget; the select of the sweep loop does not pass over a closed context for ever.
FairSpec ==
  Spec /\ WF_vars(JobStep) /\ WF_vars(StopCapture) /\ \A w \in Workers : WF_vars(WorkerStep(w))

-----------------------------------------------------------------------------
(* Properties *)

\* "so the window never closes (and outDir is never removed) with an upload still
\* running": a worker uploads only from a file that is there.
UploadHasMedia ==
  \A w \in Workers : wk[w].st \in {"deliver", "answered"} => wk[w].seg \in media

\* A reconnect, a completion and every hand-over but the one for a full disk come after
\* each segment the job ever accepted was acknowledged, over all its attempts.
DeliveredFirst ==
  pc \in {"resolve", "capture", "done", "surrendered"} /\ reason # "disk" =>
    seen \ pool.sub \subseteq acked /\ (pc # "capture" => seen \subseteq acked)

\* "retain the files for operator recovery": a stop for media lag never removes an
\* accepted segment the server has not acknowledged.
LagKeepsMedia == lagged => seen \ acked \subseteq media

\* "Any new unique media invalidates the frozen-live-edge baseline": an observation is
\* compared with a baseline older than an ingest only where the answer to the ingest was
\* lost and the retry took it for a replay.
BaselineFresh == pc = "observe" /\ frozen = 3 => fresh \subseteq lost

\* The comment as it stands, whatever became of the answer.
NewMediaEndsBaseline == pc = "observe" /\ frozen = 3 => fresh = {}

\* After the window's end, a cancellation or a shutdown the job ends: close wakes every
\* upload worker and none waits for another.
JobEnds == Stopped ~> pc \in Ended

\* "so no captured footage is dropped at the boundary"
BoundaryKept == pc = "done" => \A c \in 1..made : c \in seen

\* "Finalized media stays in the attempt directory until delivery is acknowledged"
DoneMeansDelivered == pc = "done" => seen \subseteq acked
=============================================================================
