-------------------------- MODULE JoinedWorkProofs --------------------------
(***************************************************************************)
(* The publication of a joined batch, for any days, hours, workers, cap    *)
(* and number of attempts: the safety of the control plane, and that it    *)
(* implements JoinedBatch step by step.                                    *)
(*                                                                         *)
(* What the handlers rely on is an order between the documents: a manifest *)
(* exists once its hour is sealed and its ledger published, the index once *)
(* everything else is published, and nothing published is claimed, sealed  *)
(* or failed again.  A finalize request carries the storage check it made  *)
(* before its transaction; what is stored stays stored.                    *)
(***************************************************************************)
EXTENDS JoinedWork, TLAPS, FiniteSetTheorems

\* Only documents are put and finalized, with the token of some attempt.
WorkersOK ==
  \A w \in Workers : /\ worker[w].phase # "idle" => worker[w].task \in Tasks /\ worker[w].attempt # 0
                     /\ worker[w].phase \in {"put", "wait"} => worker[w].task \in Artifacts
InflightOK == \A c \in inflight : c[1] \in Artifacts /\ Remaining(c[1]) = {}

\* A lease is on a row that is held, under the token of some attempt.
LeasesHeld == \A t \in Tasks : lease[t] # "none" => Held(t) /\ attempt[t] # 0

\* The order in which an hour, its manifest, its ledger and the index come to be.
HourFirst    == \A h \in Hours : st[Manifest(h)] # "absent" => st[Hour(h)] = "sealed"
LedgerFirst  == \A h \in Hours : st[Manifest(h)] # "absent" => LedgerPublished(h)
IndexLast    == st[Index] # "absent" => batch # "frozen"
ManifestKept == \A h \in Hours : purge[h] # "none" => st[Manifest(h)] = "published"

ActiveBounded == IsFiniteSet(ActiveTasks) /\ ActiveWithinCap

JoinedInv ==
  /\ TypeOK
  /\ WorkersOK /\ InflightOK /\ LeasesHeld
  /\ HourFirst /\ LedgerFirst /\ IndexLast /\ ManifestKept
  /\ PublishedComplete /\ FinalizeFenced
  /\ ActiveBounded /\ PausedAdmitsAtMostOne

Published == {a \in Artifacts : st[a] = "published"}

\* What a step does to a row that it neither claims nor publishes: its lease ages, is
\* renewed or runs out, or the row fails for good.
Keeps(t) == /\ st'[t] = st[t]
            /\ lease'[t] = lease[t] \/ (Live(t) /\ lease'[t] # "none")
Fails(t) == Held(t) /\ st'[t] = "terminal_failed" /\ lease'[t] = "none"

-----------------------------------------------------------------------------
(* Names of tasks, and the types of what is read.                          *)

\* The kinds of tasks are apart, and a task names its hour or day.
LEMMA TaskNames ==
    /\ \A h, g : Hour(h) = Hour(g) => h = g
    /\ \A h, g : Manifest(h) = Manifest(g) => h = g
    /\ \A h, d : Hour(h) # Ledger(d) /\ Hour(h) # Manifest(d) /\ Manifest(h) # Ledger(d)
    /\ \A h : Hour(h) # Index /\ Ledger(h) # Index /\ Manifest(h) # Index
BY DEF Hour, Ledger, Manifest, Index

LEMMA TaskKinds ==
    /\ \A h \in Hours : Hour(h) \in Tasks /\ Hour(h) \in HourTasks /\ Hour(h) \notin Artifacts
    /\ \A h \in Hours : Manifest(h) \in Tasks /\ Manifest(h) \in Artifacts /\ Ledger(DayOf[h]) \in Artifacts
    /\ \A d \in Days : Ledger(d) \in Artifacts
    /\ Artifacts \subseteq Tasks /\ Index \in Artifacts
    /\ \A a \in Artifacts : a \notin HourTasks
BY TaskNames, JoinedAssumption DEF HourTasks, LedgerTasks, ManifestTasks, Artifacts, Tasks

LEMMA ClaimShape ==
    /\ \A c \in Claims : c[1] \in Tasks /\ c[2] \in 1..MaxAttempts /\ c = <<c[1], c[2]>>
    /\ \A t \in Tasks, n \in 1..MaxAttempts : <<t, n>> \in Claims
BY DEF Claims

\* A set within a finite one and one element more.
LEMMA OneMore ==
    ASSUME NEW S, IsFiniteSet(S), NEW x, NEW T, T \subseteq S \cup {x}
    PROVE  /\ IsFiniteSet(T) /\ Cardinality(T) \in Nat /\ Cardinality(S) \in Nat
           /\ Cardinality(T) <= Cardinality(S) + 1
<1>1. Cardinality(S) \in Nat  BY FS_CardinalityType
<1>2. IsFiniteSet(S \cup {x}) /\ Cardinality(S \cup {x}) <= Cardinality(S) + 1  BY <1>1, FS_AddElement
<1>3. IsFiniteSet(T) /\ Cardinality(T) <= Cardinality(S \cup {x})  BY <1>2, FS_Subset
<1>4. Cardinality(T) \in Nat /\ Cardinality(S \cup {x}) \in Nat  BY <1>2, <1>3, FS_CardinalityType
<1> QED  BY <1>1, <1>2, <1>3, <1>4

LEMMA InitInv == Init => JoinedInv /\ Batch!Init
<1> SUFFICES ASSUME Init PROVE JoinedInv /\ Batch!Init  OBVIOUS
<1> USE DEF Init
<1>1. \A a \in Artifacts : st[a] \in {"sealed", "absent"}
  BY TaskKinds DEF Artifacts
<1>2. TypeOK
  <2>1. st \in [Tasks -> HourStates \cup ArtifactStates]  BY DEF HourStates, ArtifactStates
  <2>2. 0 \in 0..MaxAttempts  BY JoinedAssumption
  <2>3. attempt \in [Tasks -> 0..MaxAttempts] /\ finalized \in [Artifacts -> 0..MaxAttempts]  BY <2>2
  <2>4. worker \in [Workers -> [task : Tasks \cup {NoTask.task}, attempt : 0..MaxAttempts,
                                phase : Phases \cup {"idle"}]]
    BY <2>2 DEF NoTask
  <2> QED  BY <2>1, <2>2, <2>3, <2>4 DEF TypeOK, Scopes
<1>3. ActiveTasks = {}  BY DEF ActiveTasks, Live
<1>4. ActiveBounded
  <2>1. IsFiniteSet({}) /\ Cardinality({}) = 0  BY FS_EmptySet
  <2> QED  BY <1>3, <2>1, JoinedAssumption DEF ActiveBounded, ActiveWithinCap
<1>5. \A h \in Hours : st[Manifest(h)] = "absent"
  BY TaskKinds, TaskNames DEF HourTasks, LedgerTasks
<1>6. st[Index] = "absent"  BY TaskKinds, TaskNames DEF HourTasks, LedgerTasks
<1>7. WorkersOK /\ InflightOK /\ LeasesHeld  BY DEF WorkersOK, InflightOK, LeasesHeld, NoTask
<1>8. HourFirst /\ LedgerFirst /\ IndexLast /\ ManifestKept
  BY <1>5, <1>6 DEF HourFirst, LedgerFirst, IndexLast, ManifestKept
<1>9. PublishedComplete /\ FinalizeFenced /\ PausedAdmitsAtMostOne
  BY <1>1, <1>6 DEF PublishedComplete, FinalizeFenced, PausedAdmitsAtMostOne
<1>10. Batch!Init
  <2>1. Published = {}  BY <1>1 DEF Published
  <2>2. {h \in Hours : source[h] = "absent"} = GapHours  BY JoinedAssumption
  <2> QED  BY <2>1, <2>2 DEF Batch!Init, Published
<1> QED  BY <1>2, <1>4, <1>7, <1>8, <1>9, <1>10 DEF JoinedInv

-----------------------------------------------------------------------------
(* Steps that publish nothing.                                             *)

\* Rows are kept or fail, the store and the authorizations only grow.
LEMMA KeepingStep ==
    ASSUME JoinedInv, TypeOK', WorkersOK', PausedAdmitsAtMostOne',
           \A t \in Tasks : Keeps(t) \/ Fails(t),
           UNCHANGED <<attempt, finalized, batch>>,
           stored \subseteq stored',
           \A h \in Hours : auth[h] \subseteq auth'[h],
           \A c \in inflight' : c \in inflight \/ (c[1] \in Artifacts /\ Remaining(c[1]) = {}),
           \A h \in Hours : purge'[h] # "none" => purge[h] # "none" \/ st[Manifest(h)] = "published"
    PROVE  JoinedInv' /\ Published' = Published
<1> USE TaskKinds DEF JoinedInv
<1>1. \A t \in Tasks : st[t] \in {"published", "absent", "sealed"} => st'[t] = st[t] /\ (lease[t] = "none" => lease'[t] = "none")
  BY DEF Keeps, Fails, Held, Live
<1>2. \A t \in Tasks : st'[t] \in {"published", "absent", "sealed"} => st'[t] = st[t]
  BY DEF Keeps, Fails
<1>3. \A t \in Tasks : st[t] = "absent" <=> st'[t] = "absent"  BY <1>1, <1>2
<1>4. Published' = Published  BY <1>1, <1>2 DEF Published
<1>5. InflightOK'  BY DEF InflightOK, Remaining
<1>6. LeasesHeld'  BY DEF LeasesHeld, Keeps, Fails, Held, Live
<1>7. HourFirst'  BY <1>1, <1>3 DEF HourFirst
<1>8. LedgerFirst'  BY <1>1, <1>3 DEF LedgerFirst, LedgerPublished
<1>9. IndexLast'  BY <1>3 DEF IndexLast
<1>10. ManifestKept'  BY <1>1 DEF ManifestKept
<1>11. PublishedComplete'
  <2>1. \A a \in Artifacts : st'[a] = "published" => Remaining(a)' = {}
    BY <1>2 DEF PublishedComplete, Remaining
  <2>2. batch' # "frozen" => IndexReady' /\ \A h \in GapHours : "frozen_batch" \in auth'[h]
    BY <1>1, JoinedAssumption DEF PublishedComplete, IndexReady
  <2>3. batch' = "published" <=> st'[Index] = "published"  BY <1>1, <1>2 DEF PublishedComplete
  <2> QED  BY <2>1, <2>2, <2>3 DEF PublishedComplete
<1>12. FinalizeFenced'
  <2> SUFFICES ASSUME NEW a \in Artifacts, st'[a] = "published"
               PROVE  finalized'[a] = attempt'[a] /\ lease'[a] = "none"
    BY DEF FinalizeFenced
  <2>1. st[a] = "published"  BY <1>2
  <2>2. finalized[a] = attempt[a] /\ lease[a] = "none"  BY <2>1 DEF FinalizeFenced
  <2> QED  BY <1>1, <2>1, <2>2
<1>13. ActiveBounded'
  <2>1. ActiveTasks' \subseteq ActiveTasks  BY DEF ActiveTasks, Keeps, Fails, Held, Live
  <2>2. Cardinality(ActiveTasks') <= Cardinality(ActiveTasks) /\ IsFiniteSet(ActiveTasks')
        /\ Cardinality(ActiveTasks') \in Nat /\ Cardinality(ActiveTasks) \in Nat
    BY <2>1, FS_Subset, FS_CardinalityType DEF ActiveBounded
  <2> QED  BY <2>2, JoinedAssumption DEF ActiveBounded, ActiveWithinCap
<1> QED  BY <1>4, <1>5, <1>6, <1>7, <1>8, <1>9, <1>10, <1>11, <1>12, <1>13

\* Steps that leave the rows, the store and the purge alone.
LEMMA QuietStep ==
    ASSUME JoinedInv, TypeOK', WorkersOK', PausedAdmitsAtMostOne',
           UNCHANGED <<st, lease, attempt, finalized, batch, auth, stored, purge>>,
           inflight' \subseteq inflight
    PROVE  JoinedInv' /\ Published' = Published
<1>1. \A t \in Tasks : Keeps(t)  BY DEF Keeps
<1> QED  BY <1>1, KeepingStep

\* A claim takes a row that is neither absent nor published, in a free slot.
LEMMA LeaseStep ==
    ASSUME JoinedInv, NEW w \in Workers, NEW t \in Tasks, NEW state, NEW phase \in Phases,
           Lease(w, t, state, phase), Admits, Admit, SlotAvailable,
           st[t] \notin {"absent", "published"}, attempt[t] < MaxAttempts,
           t \in HourTasks => st[t] # "sealed" /\ batch = "frozen",
           state \in {"leased", "publishing"}, phase = "put" => t \in Artifacts, phase # "wait",
           grant' \in [Hours -> BOOLEAN],
           UNCHANGED <<batch, scope, finalized, auth, stored, inflight, keepVars>>
    PROVE  JoinedInv' /\ Published' = Published
<1> USE TaskKinds DEF JoinedInv, Lease, keepVars
<1>0. /\ st \in [Tasks -> HourStates \cup ArtifactStates] /\ attempt \in [Tasks -> 0..MaxAttempts]
      /\ lease \in [Tasks -> {"none", "fresh", "aging", "expired"}]
      /\ failure \in [Tasks -> {"none", "backoff", "due", "terminal"}]
      /\ worker \in [Workers -> [task : Tasks \cup {NoTask.task}, attempt : 0..MaxAttempts,
                                 phase : Phases \cup {"idle"}]]
  BY DEF TypeOK
<1>1. st'[t] = state /\ lease'[t] = "fresh" /\ attempt'[t] = attempt[t] + 1 /\ attempt[t] + 1 \in 1..MaxAttempts
  BY <1>0, JoinedAssumption
<1>2. \A u \in Tasks \ {t} : st'[u] = st[u] /\ lease'[u] = lease[u] /\ attempt'[u] = attempt[u]  BY <1>0
<1>3. /\ worker' \in [Workers -> [task : Tasks \cup {NoTask.task}, attempt : 0..MaxAttempts,
                                  phase : Phases \cup {"idle"}]]
      /\ \A v \in Workers : worker'[v] = worker[v]
                            \/ worker'[v] = [task |-> t, attempt |-> attempt[t] + 1, phase |-> phase]
  BY <1>0, <1>1
<1>4. /\ admission' \in [paused : BOOLEAN, armed : BOOLEAN, expected : SUBSET Claims]
      /\ admitted' \in 0..2 /\ PausedAdmitsAtMostOne'
  <2>1. /\ admission \in [paused : BOOLEAN, armed : BOOLEAN, expected : SUBSET Claims]
        /\ admitted \in 0..2 /\ PausedAdmitsAtMostOne
    BY DEF TypeOK
  <2>2. CASE OneShot
    <3>1. admission' = [admission EXCEPT !.armed = FALSE, !.expected = {}] /\ admitted = 0 /\ admitted' = 1
      BY <2>1, <2>2 DEF Admit, OneShot, PausedAdmitsAtMostOne
    <3>2. admission' \in [paused : BOOLEAN, armed : BOOLEAN, expected : SUBSET Claims] /\ ~admission'.armed
      BY <2>1, <3>1
    <3> QED  BY <3>1, <3>2 DEF PausedAdmitsAtMostOne
  <2>3. CASE ~OneShot
    <3>1. ~admission.paused /\ UNCHANGED <<admission, admitted>>
      BY <2>3 DEF Admit, Admits
    <3> QED  BY <2>1, <3>1 DEF PausedAdmitsAtMostOne
  <2> QED  BY <2>2, <2>3
<1>5. TypeOK'
  <2>1. st' \in [Tasks -> HourStates \cup ArtifactStates]  BY <1>0 DEF HourStates, ArtifactStates
  <2>2. /\ lease' \in [Tasks -> {"none", "fresh", "aging", "expired"}]
        /\ failure' \in [Tasks -> {"none", "backoff", "due", "terminal"}]
        /\ attempt' \in [Tasks -> 0..MaxAttempts]
    BY <1>0, <1>1
  <2> QED  BY <1>3, <1>4, <2>1, <2>2 DEF TypeOK
<1>6. WorkersOK'  BY <1>1, <1>3 DEF WorkersOK
<1>7. InflightOK'  BY DEF InflightOK, Remaining
<1>8. LeasesHeld'  BY <1>0, <1>1, <1>2 DEF LeasesHeld, Held
<1>9. \A u \in Tasks : (st[u] = "published" <=> st'[u] = "published") /\ (st[u] = "absent" <=> st'[u] = "absent")
  BY <1>1, <1>2
<1>10. \A h \in Hours : st[Hour(h)] = "sealed" => st'[Hour(h)] = "sealed"  BY <1>2
<1>11. Published' = Published  BY <1>9 DEF Published
<1>12. HourFirst' /\ LedgerFirst' /\ IndexLast' /\ ManifestKept'
  BY <1>9, <1>10 DEF HourFirst, LedgerFirst, LedgerPublished, IndexLast, ManifestKept
<1>13. PublishedComplete'
  <2>1. \A a \in Artifacts : st'[a] = "published" => Remaining(a)' = {}
    BY <1>9 DEF PublishedComplete, Remaining
  <2>2. batch' # "frozen" => IndexReady' /\ \A h \in GapHours : "frozen_batch" \in auth'[h]
    BY <1>9, <1>10 DEF PublishedComplete, IndexReady
  <2> QED  BY <1>9, <2>1, <2>2 DEF PublishedComplete
<1>14. FinalizeFenced'
  <2>1. \A a \in Artifacts : st'[a] = "published" => a # t  BY <1>1
  <2> QED  BY <1>2, <1>9, <2>1 DEF FinalizeFenced
<1>15. ActiveBounded'
  <2>1. ActiveTasks' \subseteq ActiveTasks \cup {t}  BY <1>2 DEF ActiveTasks, Held, Live
  <2>2. IsFiniteSet(ActiveTasks) /\ Cardinality(ActiveTasks) < Cap  BY DEF SlotAvailable, ActiveBounded
  <2>3. /\ IsFiniteSet(ActiveTasks') /\ Cardinality(ActiveTasks') \in Nat
        /\ Cardinality(ActiveTasks) \in Nat
        /\ Cardinality(ActiveTasks') <= Cardinality(ActiveTasks) + 1
    BY <2>1, <2>2, OneMore
  <2> QED  BY <2>2, <2>3, JoinedAssumption DEF ActiveBounded, ActiveWithinCap
<1> QED  BY <1>4, <1>5, <1>6, <1>7, <1>8, <1>11, <1>12, <1>13, <1>14, <1>15

\* An hour is claimed while it is pending or its lease ran out, a document while it is
\* sealed or its lease ran out.
LEMMA ClaimHourStep ==
    ASSUME JoinedInv, NEW w \in Workers, NEW h \in Hours, ClaimHour(w, h)
    PROVE  JoinedInv' /\ Published' = Published
<1>1. Hour(h) \in Tasks /\ Hour(h) \notin Artifacts  BY TaskKinds
<1>2. st[Hour(h)] \in {"pending", "leased"} /\ attempt[Hour(h)] < MaxAttempts /\ batch = "frozen"
  BY DEF ClaimHour, HourClaimable, ExactRetry
<1>3. grant' \in [Hours -> BOOLEAN]  BY DEF ClaimHour, JoinedInv, TypeOK
<1>4. /\ Lease(w, Hour(h), "leased", "build") /\ Admits /\ Admit /\ SlotAvailable
      /\ UNCHANGED <<batch, scope, finalized, auth, stored, inflight, keepVars>>
  BY DEF ClaimHour
<1> QED  BY <1>1, <1>2, <1>3, <1>4, LeaseStep DEF Phases

LEMMA ClaimPublicationStep ==
    ASSUME JoinedInv, NEW w \in Workers, NEW a \in Artifacts, ClaimPublication(w, a)
    PROVE  JoinedInv' /\ Published' = Published
<1> DEFINE phase == IF a \in ManifestTasks THEN "build" ELSE "put"
<1>1. a \in Tasks /\ a \notin HourTasks  BY TaskKinds
<1>2. st[a] \in {"sealed", "publishing"} /\ attempt[a] < MaxAttempts
  BY DEF ClaimPublication, ArtifactClaimable
<1>3. grant' \in [Hours -> BOOLEAN]  BY DEF ClaimPublication, JoinedInv, TypeOK
<1>4. /\ Lease(w, a, "publishing", phase) /\ Admits /\ Admit /\ SlotAvailable
      /\ UNCHANGED <<batch, scope, finalized, auth, stored, inflight, keepVars>>
  BY DEF ClaimPublication
<1>5. phase \in Phases /\ phase # "wait"  BY DEF Phases
<1> HIDE DEF phase
<1> QED  BY <1>1, <1>2, <1>3, <1>4, <1>5, LeaseStep

\* The lease of the hour becomes the lease of its manifest, which did not exist.
LEMMA SealHourStep ==
    ASSUME JoinedInv, NEW w \in Workers, SealHour(w)
    PROVE  JoinedInv' /\ Published' = Published
<1> USE TaskKinds DEF JoinedInv, keepVars, admVars
<1>1. PICK h \in Hours :
        /\ worker[w].task = Hour(h) /\ worker[w].phase = "build" /\ source[h] = "present"
        /\ batch = "frozen" /\ Fenced(Hour(h), worker[w].attempt) /\ LedgerPublished(h)
        /\ st' = [st EXCEPT ![Hour(h)] = "sealed", ![Manifest(h)] = "publishing"]
        /\ lease' = [lease EXCEPT ![Hour(h)] = "none", ![Manifest(h)] = "fresh"]
        /\ attempt' = [attempt EXCEPT ![Manifest(h)] = 1]
        /\ \/ worker' = [worker EXCEPT ![w] = [task |-> Manifest(h), attempt |-> 1, phase |-> "put"]]
           \/ UNCHANGED worker
        /\ UNCHANGED <<batch, scope, failure, finalized, grant, auth, admVars, stored,
                       inflight, keepVars>>
  BY DEF SealHour
<1> DEFINE hour == Hour(h)
           doc == Manifest(h)
<1>2. hour \in Tasks /\ doc \in Tasks /\ doc \in Artifacts /\ hour \notin Artifacts /\ hour # doc
      /\ doc # Index /\ \A g \in Hours : doc # Ledger(DayOf[g])
  BY TaskNames
<1>3. /\ st \in [Tasks -> HourStates \cup ArtifactStates] /\ attempt \in [Tasks -> 0..MaxAttempts]
      /\ lease \in [Tasks -> {"none", "fresh", "aging", "expired"}]
      /\ worker \in [Workers -> [task : Tasks \cup {NoTask.task}, attempt : 0..MaxAttempts,
                                 phase : Phases \cup {"idle"}]]
  BY DEF TypeOK
<1>4. Held(hour) /\ Live(hour) /\ st[hour] # "sealed" /\ st[doc] = "absent" /\ lease[doc] = "none"
  BY <1>1, <1>2, <1>3 DEF Fenced, Held, HourFirst, LeasesHeld
<1>5. /\ st'[hour] = "sealed" /\ st'[doc] = "publishing" /\ lease'[hour] = "none" /\ lease'[doc] = "fresh"
      /\ attempt'[doc] = 1
      /\ \A u \in Tasks \ {doc} : attempt'[u] = attempt[u]
      /\ \A u \in Tasks \ {hour, doc} : st'[u] = st[u] /\ lease'[u] = lease[u]
  BY <1>1, <1>2, <1>3
<1>6. TypeOK'
  <2>1. st' \in [Tasks -> HourStates \cup ArtifactStates]
    BY <1>1, <1>3 DEF HourStates, ArtifactStates
  <2>2. lease' \in [Tasks -> {"none", "fresh", "aging", "expired"}]  BY <1>1, <1>3
  <2>3. attempt' \in [Tasks -> 0..MaxAttempts]  BY <1>1, <1>3, JoinedAssumption
  <2>4. worker' \in [Workers -> [task : Tasks \cup {NoTask.task}, attempt : 0..MaxAttempts,
                                 phase : Phases \cup {"idle"}]]
    BY <1>1, <1>2, <1>3, JoinedAssumption DEF Phases
  <2> QED  BY <1>1, <2>1, <2>2, <2>3, <2>4 DEF TypeOK
<1>7. WorkersOK'
  <2>1. \A v \in Workers : worker'[v] = worker[v]
                           \/ worker'[v] = [task |-> doc, attempt |-> 1, phase |-> "put"]
    BY <1>1, <1>3
  <2> QED  BY <1>2, <2>1 DEF WorkersOK
<1>8. InflightOK'  BY <1>1 DEF InflightOK, Remaining
<1>9. LeasesHeld'  BY <1>2, <1>5 DEF LeasesHeld, Held
<1>10. \A g \in Hours : Manifest(g) = doc => g = h  BY TaskNames
<1>11. \A g \in Hours : Hour(g) # doc /\ Manifest(g) # hour  BY TaskNames
<1>12. \A u \in Artifacts : st'[u] = "published" <=> st[u] = "published"  BY <1>2, <1>4, <1>5
<1>13. Published' = Published  BY <1>12 DEF Published
<1>14. batch' = "frozen" /\ st'[Index] = st[Index]  BY <1>1, <1>2, <1>5
<1> HIDE DEF hour, doc
<1>15. HourFirst'  BY <1>5, <1>10, <1>11 DEF HourFirst, hour, doc
<1>16. LedgerFirst'
  <2> SUFFICES ASSUME NEW g \in Hours, st'[Manifest(g)] # "absent" PROVE LedgerPublished(g)'
    BY DEF LedgerFirst
  <2>1. LedgerPublished(g)
    <3>1. CASE g = h  BY <1>1, <3>1
    <3>2. CASE g # h
      <4>1. Manifest(g) \in Tasks \ {hour, doc}  BY <1>10, <1>11, <3>2
      <4> QED  BY <1>5, <4>1 DEF LedgerFirst
    <3> QED  BY <3>1, <3>2
  <2> QED  BY <1>12, <2>1 DEF LedgerPublished
<1>17. IndexLast' /\ ManifestKept'  BY <1>1, <1>12, <1>14 DEF IndexLast, ManifestKept
<1>18. PublishedComplete'  BY <1>1, <1>12, <1>14 DEF PublishedComplete, Remaining
<1>19. FinalizeFenced'
  <2> SUFFICES ASSUME NEW a \in Artifacts, st'[a] = "published"
               PROVE  finalized'[a] = attempt'[a] /\ lease'[a] = "none"
    BY DEF FinalizeFenced
  <2>1. a \in Tasks \ {hour, doc} /\ st[a] = "published"  BY <1>2, <1>5, <1>12
  <2>2. finalized[a] = attempt[a] /\ lease[a] = "none"  BY <2>1 DEF FinalizeFenced
  <2>3. finalized' = finalized  BY <1>1
  <2> QED  BY <1>5, <2>1, <2>2, <2>3
<1>20. ActiveBounded'
  <2>1. ActiveTasks' \subseteq (ActiveTasks \ {hour}) \cup {doc} /\ hour \in ActiveTasks
    BY <1>2, <1>4, <1>5 DEF ActiveTasks, Held, Live
  <2>2. IsFiniteSet(ActiveTasks) /\ Cardinality(ActiveTasks) <= Cap  BY DEF ActiveBounded, ActiveWithinCap
  <2>3. IsFiniteSet(ActiveTasks \ {hour}) /\ Cardinality(ActiveTasks \ {hour}) = Cardinality(ActiveTasks) - 1
    BY <2>1, <2>2, FS_RemoveElement
  <2>4. /\ IsFiniteSet(ActiveTasks') /\ Cardinality(ActiveTasks') \in Nat
        /\ Cardinality(ActiveTasks \ {hour}) \in Nat
        /\ Cardinality(ActiveTasks') <= Cardinality(ActiveTasks \ {hour}) + 1
    BY <2>1, <2>3, OneMore
  <2>5. Cardinality(ActiveTasks) \in Nat  BY <2>2, FS_CardinalityType
  <2> QED  BY <2>2, <2>3, <2>4, <2>5, JoinedAssumption DEF ActiveBounded, ActiveWithinCap
<1>21. PausedAdmitsAtMostOne'  BY <1>1 DEF PausedAdmitsAtMostOne
<1> QED  BY <1>6, <1>7, <1>8, <1>9, <1>13, <1>15, <1>16, <1>17, <1>18, <1>19, <1>20, <1>21

\* The index is sealed over a batch of which everything is published.
LEMMA SealIndexStep ==
    ASSUME JoinedInv, SealIndex
    PROVE  JoinedInv' /\ Published' = Published
<1> USE TaskKinds DEF JoinedInv, SealIndex, keepVars, admVars
<1>1. st \in [Tasks -> HourStates \cup ArtifactStates]  BY DEF TypeOK
<1>2. st[Index] = "absent" /\ lease[Index] = "none"  BY DEF IndexLast, LeasesHeld, Held
<1>3. st'[Index] = "sealed" /\ \A t \in Tasks \ {Index} : st'[t] = st[t]  BY <1>1
<1>4. TypeOK'
  <2>1. st' \in [Tasks -> HourStates \cup ArtifactStates]  BY <1>1 DEF ArtifactStates
  <2> QED  BY <2>1 DEF TypeOK
<1>5. \A h \in Hours : Hour(h) # Index /\ Manifest(h) # Index /\ Ledger(DayOf[h]) # Index
  BY TaskNames
<1>6. \A a \in Artifacts : st'[a] = "published" <=> st[a] = "published"  BY <1>2, <1>3
<1>7. Published' = Published  BY <1>6 DEF Published
<1>8. WorkersOK' /\ InflightOK'  BY DEF WorkersOK, InflightOK, Remaining
<1>9. LeasesHeld'  BY <1>2, <1>3 DEF LeasesHeld, Held
<1>10. HourFirst' /\ LedgerFirst' /\ IndexLast' /\ ManifestKept'
  BY <1>3, <1>5, <1>6 DEF HourFirst, LedgerFirst, LedgerPublished, IndexLast, ManifestKept
<1>11. PublishedComplete'
  <2>1. IndexReady'  BY <1>3, <1>5, <1>6 DEF IndexReady
  <2>2. st'[Index] # "published" /\ batch' = "index_sealed"  BY <1>3
  <2> QED  BY <1>6, <2>1, <2>2 DEF PublishedComplete, Remaining
<1>12. FinalizeFenced'  BY <1>6 DEF FinalizeFenced
<1>13. ActiveBounded'
  <2>1. ActiveTasks' = ActiveTasks  BY <1>2, <1>3 DEF ActiveTasks, Held, Live
  <2> QED  BY <2>1 DEF ActiveBounded, ActiveWithinCap
<1>14. PausedAdmitsAtMostOne'  BY DEF PausedAdmitsAtMostOne
<1> QED  BY <1>4, <1>7, <1>8, <1>9, <1>10, <1>11, <1>12, <1>13, <1>14

-----------------------------------------------------------------------------
(* The finalize transaction.                                               *)

\* What it leaves behind, published now or by the request it repeats.
Commits(a) ==
  /\ st' \in [Tasks -> HourStates \cup ArtifactStates] /\ st'[a] = "published"
  /\ \A h \in GapSealed(a) : st'[Hour(h)] = "sealed" /\ st'[Manifest(h)] = "sealed"
  /\ \A t \in Tasks \ {a} : st'[t] = st[t] \/ \E h \in GapSealed(a) : t \in {Hour(h), Manifest(h)}
  /\ lease' = [lease EXCEPT ![a] = "none"]
  /\ finalized' \in [Artifacts -> 0..MaxAttempts] /\ finalized'[a] = attempt[a]
  /\ \A b \in Artifacts \ {a} : finalized'[b] = finalized[b]
  /\ auth' \in [Hours -> SUBSET Scopes] /\ \A h \in Hours : auth[h] \subseteq auth'[h]
  /\ batch' = IF a = Index THEN "published" ELSE batch

\* A gap-only hour that is sealed is pending, and has no manifest yet.
LEMMA GapShape ==
    ASSUME JoinedInv, NEW a \in Artifacts, NEW h \in GapSealed(a)
    PROVE  /\ h \in Hours /\ a = Ledger(DayOf[h]) /\ batch = "frozen"
           /\ st[Hour(h)] = "pending" /\ st[Manifest(h)] = "absent"
           /\ lease[Hour(h)] = "none" /\ lease[Manifest(h)] = "none"
<1>1. h \in Hours /\ a = Ledger(DayOf[h]) /\ batch = "frozen" /\ st[Hour(h)] = "pending"
  BY JoinedAssumption DEF GapSealed
<1>2. Hour(h) \in Tasks /\ Manifest(h) \in Tasks  BY <1>1, TaskKinds
<1>3. st[Manifest(h)] = "absent"  BY <1>1 DEF JoinedInv, HourFirst
<1> QED  BY <1>1, <1>2, <1>3 DEF JoinedInv, LeasesHeld, Held

LEMMA PublishCommits ==
    ASSUME JoinedInv, NEW a \in Artifacts, NEW n \in 1..MaxAttempts, Fenced(a, n), Publish(a, n)
    PROVE  Commits(a)
<1> USE TaskKinds DEF Publish
<1>0. /\ st \in [Tasks -> HourStates \cup ArtifactStates] /\ finalized \in [Artifacts -> 0..MaxAttempts]
      /\ auth \in [Hours -> SUBSET Scopes] /\ scope \in Scopes
  BY DEF JoinedInv, TypeOK
<1>1. ASSUME NEW h \in GapSealed(a) PROVE Hour(h) # a /\ Manifest(h) # a /\ Hour(h) \in Tasks /\ Manifest(h) \in Tasks
  BY GapShape, TaskNames
<1>2. st' \in [Tasks -> HourStates \cup ArtifactStates]  BY <1>0 DEF HourStates, ArtifactStates
<1>3. st'[a] = "published"
  <2>1. ~ \E h \in GapSealed(a) : a \in {Hour(h), Manifest(h)}  BY <1>1
  <2> QED  BY <2>1
<1>4. \A h \in GapSealed(a) : st'[Hour(h)] = "sealed" /\ st'[Manifest(h)] = "sealed"
  BY <1>1
<1>5. \A t \in Tasks \ {a} : st'[t] = st[t] \/ \E h \in GapSealed(a) : t \in {Hour(h), Manifest(h)}
  OBVIOUS
<1>6. /\ finalized' \in [Artifacts -> 0..MaxAttempts] /\ finalized'[a] = attempt[a]
      /\ \A b \in Artifacts \ {a} : finalized'[b] = finalized[b]
  BY <1>0 DEF Fenced
<1>7. auth' \in [Hours -> SUBSET Scopes] /\ \A h \in Hours : auth[h] \subseteq auth'[h]  BY <1>0
<1> QED  BY <1>2, <1>3, <1>4, <1>5, <1>6, <1>7 DEF Commits

LEMMA ReplayCommits ==
    ASSUME JoinedInv, NEW a \in Artifacts, st[a] = "published", Replay(a)
    PROVE  Commits(a)
<1> USE TaskKinds DEF Replay
<1>0. /\ st \in [Tasks -> HourStates \cup ArtifactStates] /\ finalized \in [Artifacts -> 0..MaxAttempts]
      /\ auth \in [Hours -> SUBSET Scopes] /\ scope \in Scopes
      /\ lease \in [Tasks -> {"none", "fresh", "aging", "expired"}]
  BY DEF JoinedInv, TypeOK
<1>1. ASSUME NEW h \in GapSealed(a) PROVE Hour(h) # a /\ Manifest(h) # a /\ Hour(h) \in Tasks /\ Manifest(h) \in Tasks
  BY GapShape, TaskNames
<1>2. st' \in [Tasks -> HourStates \cup ArtifactStates]  BY <1>0 DEF HourStates, ArtifactStates
<1>3. st'[a] = "published"
  <2>1. ~ \E h \in GapSealed(a) : a \in {Hour(h), Manifest(h)}  BY <1>1
  <2> QED  BY <2>1
<1>4. \A h \in GapSealed(a) : st'[Hour(h)] = "sealed" /\ st'[Manifest(h)] = "sealed"
  BY <1>1
<1>5. \A t \in Tasks \ {a} : st'[t] = st[t] \/ \E h \in GapSealed(a) : t \in {Hour(h), Manifest(h)}
  OBVIOUS
<1>6. finalized[a] = attempt[a] /\ lease[a] = "none"  BY DEF JoinedInv, FinalizeFenced
<1>7. lease' = [lease EXCEPT ![a] = "none"]  BY <1>0, <1>6
<1>8. auth' \in [Hours -> SUBSET Scopes] /\ \A h \in Hours : auth[h] \subseteq auth'[h]  BY <1>0
<1>9. batch' = IF a = Index THEN "published" ELSE batch  BY DEF JoinedInv, PublishedComplete
<1> QED  BY <1>0, <1>2, <1>3, <1>4, <1>5, <1>6, <1>7, <1>8, <1>9 DEF Commits

\* The document was there and stored, and what it refers to was published before it.
LEMMA CommitStep ==
    ASSUME JoinedInv, NEW a \in Artifacts, st[a] # "absent", Remaining(a) = {}, Commits(a),
           WorkersOK',
           worker' \in [Workers -> [task : Tasks \cup {NoTask.task}, attempt : 0..MaxAttempts,
                                    phase : Phases \cup {"idle"}]],
           inflight' \subseteq inflight,
           UNCHANGED <<scope, attempt, failure, grant, admVars, stored, keepVars>>
    PROVE  /\ JoinedInv' /\ Published' = Published \cup {a}
           /\ \A h \in Hours : a = Manifest(h) => Ledger(DayOf[h]) \in Published
           /\ a = Index => /\ \A d \in Days : Ledger(d) \in Published
                           /\ \A h \in Hours : Manifest(h) \in Published
<1> USE TaskKinds DEF JoinedInv, keepVars, admVars
<1>0. /\ st \in [Tasks -> HourStates \cup ArtifactStates]
      /\ lease \in [Tasks -> {"none", "fresh", "aging", "expired"}]
  BY DEF TypeOK
<1>1. st'[a] = "published"  BY DEF Commits
<1>2. ASSUME NEW t \in Tasks, t # a
      PROVE  st'[t] = st[t] \/ (batch = "frozen" /\ st[t] \in {"pending", "absent"} /\ st'[t] = "sealed" /\ lease[t] = "none")
  <2>1. CASE st'[t] = st[t]  BY <2>1
  <2>2. CASE st'[t] # st[t]
    <3>1. PICK h \in GapSealed(a) : t \in {Hour(h), Manifest(h)}  BY <1>2, <2>2 DEF Commits
    <3> QED  BY <3>1, GapShape DEF Commits
  <2> QED  BY <2>1, <2>2
<1>3. lease'[a] = "none" /\ \A t \in Tasks \ {a} : lease'[t] = lease[t]  BY <1>0 DEF Commits
<1>4. \A b \in Artifacts : st'[b] = "published" <=> (b = a \/ st[b] = "published")  BY <1>1, <1>2
<1>5. Published' = Published \cup {a}  BY <1>4 DEF Published
<1>6. /\ \A h \in Hours : a = Manifest(h) => Ledger(DayOf[h]) \in Published
      /\ a = Index => /\ \A d \in Days : Ledger(d) \in Published
                      /\ \A h \in Hours : Manifest(h) \in Published
  BY DEF LedgerFirst, LedgerPublished, IndexLast, PublishedComplete, IndexReady, Published
<1>7. TypeOK'
  <2>1. lease' \in [Tasks -> {"none", "fresh", "aging", "expired"}]  BY <1>0 DEF Commits
  <2>2. batch' \in {"frozen", "index_sealed", "published"}  BY DEF Commits, TypeOK
  <2>3. inflight' \subseteq Claims  BY DEF TypeOK
  <2> QED  BY <2>1, <2>2, <2>3 DEF TypeOK, Commits
<1>8. InflightOK'  BY DEF InflightOK, Remaining
<1>9. LeasesHeld'
  <2> SUFFICES ASSUME NEW t \in Tasks, lease'[t] # "none" PROVE Held(t)' /\ attempt'[t] # 0
    BY DEF LeasesHeld
  <2>1. t # a /\ lease[t] # "none"  BY <1>3
  <2>2. Held(t) /\ attempt[t] # 0  BY <2>1 DEF LeasesHeld
  <2>3. st'[t] = st[t]  BY <1>2, <2>1
  <2> QED  BY <2>2, <2>3 DEF Held
<1>10. ASSUME NEW h \in Hours, st'[Manifest(h)] # "absent" PROVE st'[Hour(h)] = "sealed" /\ LedgerPublished(h)'
  <2>1. Hour(h) # a  OBVIOUS
  <2>2. CASE st[Manifest(h)] # "absent"
    <3>1. st[Hour(h)] = "sealed" /\ LedgerPublished(h)  BY <2>2 DEF HourFirst, LedgerFirst
    <3>2. st'[Hour(h)] = "sealed"  BY <1>2, <2>1, <3>1
    <3> QED  BY <1>4, <3>1, <3>2 DEF LedgerPublished
  <2>3. CASE st[Manifest(h)] = "absent"
    <3>1. PICK g \in GapSealed(a) : Manifest(h) \in {Hour(g), Manifest(g)}
      BY <1>10, <2>3 DEF Commits
    <3>2. g = h  BY <3>1, TaskNames
    <3> QED  BY <1>1, <3>1, <3>2, GapShape DEF Commits, LedgerPublished
  <2> QED  BY <2>2, <2>3
<1>11. HourFirst' /\ LedgerFirst'  BY <1>10 DEF HourFirst, LedgerFirst
<1>12. batch # "frozen" => batch' # "frozen"  BY DEF Commits
<1>13. \A h \in Hours : Manifest(h) # Index /\ Hour(h) # Index  BY TaskNames
<1>14. st'[Index] = IF a = Index THEN "published" ELSE st[Index]
  <2>1. CASE a = Index  BY <1>1, <2>1
  <2>2. CASE a # Index
    <3>1. \A g \in GapSealed(a) : Index \notin {Hour(g), Manifest(g)}  BY <1>13, GapShape
    <3> QED  BY <2>2, <3>1 DEF Commits
  <2> QED  BY <2>1, <2>2
<1>15. IndexLast'  BY <1>12, <1>14 DEF IndexLast, Commits
<1>16. ManifestKept'  BY <1>4 DEF ManifestKept
<1>17. PublishedComplete'
  <2>1. \A b \in Artifacts : st'[b] = "published" => Remaining(b)' = {}
    BY <1>4 DEF PublishedComplete, Remaining
  <2>2. batch' # "frozen" => batch # "frozen"  BY DEF Commits, IndexLast
  <2>3. batch # "frozen" => IndexReady'
    <3> SUFFICES ASSUME batch # "frozen" PROVE IndexReady'  OBVIOUS
    <3>1. IndexReady  BY DEF PublishedComplete
    <3>2. \A h \in Hours : st'[Hour(h)] = "sealed"  BY <1>2, <3>1 DEF IndexReady
    <3> QED  BY <1>4, <3>1, <3>2 DEF IndexReady
  <2>4. batch # "frozen" => \A h \in GapHours : "frozen_batch" \in auth'[h]
    BY JoinedAssumption DEF PublishedComplete, Commits
  <2>5. batch' = "published" <=> st'[Index] = "published"  BY <1>14 DEF Commits, PublishedComplete
  <2> QED  BY <2>1, <2>2, <2>3, <2>4, <2>5 DEF PublishedComplete
<1>18. FinalizeFenced'
  <2> SUFFICES ASSUME NEW b \in Artifacts, st'[b] = "published"
               PROVE  finalized'[b] = attempt'[b] /\ lease'[b] = "none"
    BY DEF FinalizeFenced
  <2>1. CASE b = a  BY <1>3, <2>1 DEF Commits
  <2>2. CASE b # a
    <3>1. finalized[b] = attempt[b] /\ lease[b] = "none"  BY <1>4, <2>2 DEF FinalizeFenced
    <3> QED  BY <1>3, <2>2, <3>1 DEF Commits
  <2> QED  BY <2>1, <2>2
<1>19. ActiveBounded'
  <2>1. ActiveTasks' \subseteq ActiveTasks  BY <1>2, <1>3 DEF ActiveTasks, Live, LeasesHeld
  <2>2. /\ IsFiniteSet(ActiveTasks) /\ Cardinality(ActiveTasks) <= Cap
    BY DEF ActiveBounded, ActiveWithinCap
  <2>3. /\ IsFiniteSet(ActiveTasks') /\ Cardinality(ActiveTasks') <= Cardinality(ActiveTasks)
        /\ Cardinality(ActiveTasks') \in Nat /\ Cardinality(ActiveTasks) \in Nat
    BY <2>1, <2>2, FS_Subset, FS_CardinalityType
  <2> QED  BY <2>2, <2>3, JoinedAssumption DEF ActiveBounded, ActiveWithinCap
<1>20. PausedAdmitsAtMostOne'  BY DEF PausedAdmitsAtMostOne
<1> QED  BY <1>5, <1>6, <1>7, <1>8, <1>9, <1>11, <1>15, <1>16, <1>17, <1>18, <1>19, <1>20

\* Whether the token is the live one or the one that published, the row ends up the same.
LEMMA FinalizeCommitStep ==
    ASSUME JoinedInv, NEW c \in Claims, FinalizeCommit(c)
    PROVE  /\ JoinedInv' /\ Published' = Published \cup {c[1]} /\ c[1] \in Artifacts
           /\ \A h \in Hours : c[1] = Manifest(h) => Ledger(DayOf[h]) \in Published
           /\ c[1] = Index => /\ \A d \in Days : Ledger(d) \in Published
                              /\ \A h \in Hours : Manifest(h) \in Published
<1> USE DEF FinalizeCommit
<1>1. c[1] \in Artifacts /\ Remaining(c[1]) = {} /\ c[2] \in 1..MaxAttempts
  BY ClaimShape DEF JoinedInv, InflightOK
<1>2. Commits(c[1]) /\ st[c[1]] # "absent"
  <2>1. CASE CommitAllowed(c[1], c[2]) /\ Publish(c[1], c[2])
    BY <1>1, <2>1, PublishCommits DEF CommitAllowed, Fenced, Held
  <2>2. CASE st[c[1]] = "published" /\ Replay(c[1])
    BY <1>1, <2>2, ReplayCommits
  <2> QED  BY <2>1, <2>2
<1>3. worker \in [Workers -> [task : Tasks \cup {NoTask.task}, attempt : 0..MaxAttempts,
                              phase : Phases \cup {"idle"}]]
  BY DEF JoinedInv, TypeOK
<1>4. \A w \in Workers : worker'[w] \in {worker[w], NoTask}  OBVIOUS
<1>5. worker' \in [Workers -> [task : Tasks \cup {NoTask.task}, attempt : 0..MaxAttempts,
                               phase : Phases \cup {"idle"}]]
  <2>1. NoTask \in [task : Tasks \cup {NoTask.task}, attempt : 0..MaxAttempts, phase : Phases \cup {"idle"}]
    BY JoinedAssumption DEF NoTask
  <2> QED  BY <1>3, <2>1
<1>6. WorkersOK'  BY <1>4 DEF JoinedInv, WorkersOK, NoTask
<1> QED  BY <1>1, <1>2, <1>5, <1>6, CommitStep

-----------------------------------------------------------------------------
(* The remaining steps of the server, of workers and of the operator.      *)

LEMMA AdmissionFenceStep ==
    ASSUME JoinedInv, AdmissionFence
    PROVE  JoinedInv' /\ Published' = Published
<1> USE DEF AdmissionFence, taskVars, keepVars
<1>1. admission.paused /\ admission.armed  BY DEF OneShot
<1>2. TypeOK'  BY DEF JoinedInv, TypeOK
<1>3. WorkersOK'  BY DEF JoinedInv, WorkersOK
<1>4. PausedAdmitsAtMostOne'  BY <1>1 DEF JoinedInv, PausedAdmitsAtMostOne
<1> QED  BY <1>2, <1>3, <1>4, QuietStep

\* The claims behind the hash of the active set.
LEMMA ActiveClaimsTyped == ASSUME JoinedInv PROVE ActiveClaims \subseteq Claims
<1> SUFFICES ASSUME NEW t \in ActiveTasks PROVE <<t, attempt[t]>> \in Claims  BY DEF ActiveClaims
<1>1. t \in Tasks /\ lease[t] # "none"  BY DEF ActiveTasks, Live
<1>2. attempt[t] \in 0..MaxAttempts /\ attempt[t] # 0  BY <1>1 DEF JoinedInv, TypeOK, LeasesHeld
<1>3. attempt[t] \in 1..MaxAttempts  BY <1>2, JoinedAssumption
<1> QED  BY <1>1, <1>3, ClaimShape

LEMMA AdmissionCommandStep ==
    ASSUME JoinedInv, PauseClaims \/ ResumeClaims \/ ArmOneShot
    PROVE  JoinedInv' /\ Published' = Published
<1> USE DEF taskVars, keepVars
<1>1. PICK armed \in BOOLEAN, paused \in BOOLEAN, expected \in SUBSET Claims :
        SetAdmission([paused |-> paused, armed |-> armed, expected |-> expected])
  BY ActiveClaimsTyped DEF PauseClaims, ResumeClaims, ArmOneShot
<1>2. TypeOK'  BY <1>1 DEF JoinedInv, TypeOK, SetAdmission
<1>3. WorkersOK'  BY <1>1 DEF JoinedInv, WorkersOK, SetAdmission
<1>4. PausedAdmitsAtMostOne'  BY <1>1 DEF PausedAdmitsAtMostOne, SetAdmission
<1> QED  BY <1>1, <1>2, <1>3, <1>4, QuietStep DEF SetAdmission

LEMMA PromoteScopeStep ==
    ASSUME JoinedInv, PromoteScope
    PROVE  JoinedInv' /\ Published' = Published
<1> USE DEF PromoteScope, taskVars, keepVars, admVars
<1>1. TypeOK'  BY DEF JoinedInv, TypeOK, Scopes
<1>2. WorkersOK' /\ PausedAdmitsAtMostOne'  BY DEF JoinedInv, WorkersOK, PausedAdmitsAtMostOne
<1> QED  BY <1>1, <1>2, QuietStep

LEMMA GrantRetryStep ==
    ASSUME JoinedInv, NEW h \in Hours, GrantRetry(h)
    PROVE  JoinedInv' /\ Published' = Published
<1> USE DEF GrantRetry, taskVars, keepVars, admVars
<1>1. TypeOK'  BY DEF JoinedInv, TypeOK
<1>2. WorkersOK' /\ PausedAdmitsAtMostOne'  BY DEF JoinedInv, WorkersOK, PausedAdmitsAtMostOne
<1> QED  BY <1>1, <1>2, QuietStep

LEMMA AuthorizeGapStep ==
    ASSUME JoinedInv, NEW h \in Hours, AuthorizeGap(h)
    PROVE  JoinedInv' /\ Published' = Published
<1> USE DEF AuthorizeGap, taskVars, keepVars, admVars
<1>1. auth \in [Hours -> SUBSET Scopes]  BY DEF JoinedInv, TypeOK
<1>2. auth' \in [Hours -> SUBSET Scopes] /\ \A g \in Hours : auth[g] \subseteq auth'[g]
  BY <1>1 DEF Scopes
<1>3. TypeOK'  BY <1>2 DEF JoinedInv, TypeOK
<1>4. WorkersOK' /\ PausedAdmitsAtMostOne'  BY DEF JoinedInv, WorkersOK, PausedAdmitsAtMostOne
<1>5. \A t \in Tasks : Keeps(t)  BY DEF Keeps
<1> QED  BY <1>2, <1>3, <1>4, <1>5, KeepingStep

\* A lease ages, runs out, or is renewed while it is live; a backoff ends.
LEMMA LeaseClockStep ==
    ASSUME JoinedInv, NEW t \in Tasks, Age(t) \/ Expire(t) \/ BackoffElapses(t)
    PROVE  JoinedInv' /\ Published' = Published
<1> USE DEF Age, Expire, BackoffElapses, keepVars, admVars
<1>1. /\ lease \in [Tasks -> {"none", "fresh", "aging", "expired"}]
      /\ failure \in [Tasks -> {"none", "backoff", "due", "terminal"}]
  BY DEF JoinedInv, TypeOK
<1>2. TypeOK'
  <2>1. /\ lease' \in [Tasks -> {"none", "fresh", "aging", "expired"}]
        /\ failure' \in [Tasks -> {"none", "backoff", "due", "terminal"}]
    BY <1>1
  <2> QED  BY <2>1 DEF JoinedInv, TypeOK
<1>3. WorkersOK' /\ PausedAdmitsAtMostOne'  BY DEF JoinedInv, WorkersOK, PausedAdmitsAtMostOne
<1>4. \A u \in Tasks : Keeps(u)  BY <1>1 DEF Keeps, Live
<1> QED  BY <1>2, <1>3, <1>4, KeepingStep

LEMMA HeartbeatStep ==
    ASSUME JoinedInv, NEW w \in Workers, Heartbeat(w)
    PROVE  JoinedInv' /\ Published' = Published
<1> DEFINE t == worker[w].task
<1> USE DEF Heartbeat, keepVars, admVars
<1>1. lease \in [Tasks -> {"none", "fresh", "aging", "expired"}]  BY DEF JoinedInv, TypeOK
<1>2. Live(t) /\ lease' = [lease EXCEPT ![t] = "fresh"]  BY DEF Renewable, Fenced
<1>3. TypeOK'
  <2>1. lease' \in [Tasks -> {"none", "fresh", "aging", "expired"}]  BY <1>1, <1>2
  <2> QED  BY <2>1 DEF JoinedInv, TypeOK
<1>4. WorkersOK' /\ PausedAdmitsAtMostOne'  BY DEF JoinedInv, WorkersOK, PausedAdmitsAtMostOne
<1>5. \A u \in Tasks : Keeps(u)  BY <1>1, <1>2 DEF Keeps, Live
<1> QED  BY <1>3, <1>4, <1>5, KeepingStep

\* The worker's own steps: it goes on to the PUTs of a manifest, or drops its task.
LEMMA WorkerPhaseStep ==
    ASSUME JoinedInv, NEW w \in Workers, Rebuild(w) \/ Abandon(w)
    PROVE  JoinedInv' /\ Published' = Published
<1> USE DEF taskVars, keepVars, admVars
<1>1. worker \in [Workers -> [task : Tasks \cup {NoTask.task}, attempt : 0..MaxAttempts,
                              phase : Phases \cup {"idle"}]]
  BY DEF JoinedInv, TypeOK
<1>2. CASE Rebuild(w)
  <2>1. PICK h \in Hours : worker[w].task = Manifest(h) /\ worker[w].phase = "build"  BY <1>2 DEF Rebuild
  <2>2. /\ worker' = [worker EXCEPT ![w].phase = "put"]
        /\ UNCHANGED <<batch, scope, st, lease, attempt, failure, finalized, grant, auth, admission, admitted,
                       stored, inflight, source, purge, denied>>
    BY <1>2 DEF Rebuild
  <2>3. TypeOK'  BY <1>1, <2>2 DEF JoinedInv, TypeOK, Phases
  <2>4. worker'[w].task = Manifest(h) /\ worker'[w].attempt = worker[w].attempt
        /\ \A v \in Workers \ {w} : worker'[v] = worker[v]
    BY <1>1, <2>1, <2>2
  <2>5. WorkersOK'  BY <2>1, <2>4, TaskKinds DEF JoinedInv, WorkersOK
  <2>6. PausedAdmitsAtMostOne'  BY <2>2 DEF JoinedInv, PausedAdmitsAtMostOne
  <2> QED  BY <2>2, <2>3, <2>5, <2>6, QuietStep
<1>3. CASE Abandon(w)
  <2> USE <1>3 DEF Abandon
  <2>1. TypeOK'
    <3>1. worker' \in [Workers -> [task : Tasks \cup {NoTask.task}, attempt : 0..MaxAttempts,
                                   phase : Phases \cup {"idle"}]]
      BY <1>1, JoinedAssumption DEF NoTask
    <3> QED  BY <3>1 DEF JoinedInv, TypeOK
  <2>2. WorkersOK'
    <3>1. \A v \in Workers : worker'[v] \in {worker[v], NoTask}  BY <1>1
    <3> QED  BY <3>1 DEF JoinedInv, WorkersOK, NoTask
  <2>3. PausedAdmitsAtMostOne'  BY DEF JoinedInv, PausedAdmitsAtMostOne
  <2> QED  BY <2>1, <2>2, <2>3, QuietStep
<1> QED  BY <1>2, <1>3

LEMMA PutStep ==
    ASSUME JoinedInv, NEW w \in Workers, Put(w)
    PROVE  JoinedInv' /\ Published' = Published
<1> USE DEF Put, taskVars, keepVars, admVars
<1>1. worker[w].task \in Artifacts  BY DEF JoinedInv, WorkersOK
<1>2. PICK o \in Remaining(worker[w].task) : stored' = stored \cup {o}  OBVIOUS
<1>3. o \in Objects  BY <1>1, <1>2 DEF Remaining, Objects
<1>4. TypeOK'  BY <1>2, <1>3 DEF JoinedInv, TypeOK
<1>5. WorkersOK' /\ PausedAdmitsAtMostOne'  BY DEF JoinedInv, WorkersOK, PausedAdmitsAtMostOne
<1>6. \A t \in Tasks : Keeps(t)  BY DEF Keeps
<1> QED  BY <1>2, <1>4, <1>5, <1>6, KeepingStep

\* The request that goes on to the transaction has found everything stored.
LEMMA FinalizeCheckStep ==
    ASSUME JoinedInv, NEW w \in Workers, FinalizeCheck(w)
    PROVE  JoinedInv' /\ Published' = Published
<1> DEFINE a == worker[w].task
           n == worker[w].attempt
<1> USE DEF FinalizeCheck, taskVars, keepVars, admVars
<1>1. worker \in [Workers -> [task : Tasks \cup {NoTask.task}, attempt : 0..MaxAttempts,
                              phase : Phases \cup {"idle"}]]
  BY DEF JoinedInv, TypeOK
<1>2. a \in Artifacts /\ a \in Tasks /\ n # 0 /\ n \in 0..MaxAttempts /\ Remaining(a) = {}
  BY <1>1 DEF JoinedInv, WorkersOK
<1>3. <<a, n>> \in Claims
  <2>1. n \in 1..MaxAttempts  BY <1>2, JoinedAssumption
  <2> QED  BY <1>2, <2>1, ClaimShape
<1>4. TypeOK'
  <2>1. inflight' \subseteq Claims  BY <1>3 DEF JoinedInv, TypeOK
  <2>2. worker' \in [Workers -> [task : Tasks \cup {NoTask.task}, attempt : 0..MaxAttempts,
                                 phase : Phases \cup {"idle"}]]
    BY <1>1 DEF Phases
  <2> QED  BY <2>1, <2>2 DEF JoinedInv, TypeOK
<1>5. WorkersOK'
  <2>1. worker'[w].task = a /\ worker'[w].attempt = n /\ \A v \in Workers \ {w} : worker'[v] = worker[v]
    BY <1>1
  <2> QED  BY <1>2, <2>1 DEF JoinedInv, WorkersOK
<1>6. \A c \in inflight' : c \in inflight \/ (c[1] \in Artifacts /\ Remaining(c[1]) = {})  BY <1>2
<1>7. \A t \in Tasks : Keeps(t)  BY DEF Keeps
<1>8. PausedAdmitsAtMostOne'  BY DEF JoinedInv, PausedAdmitsAtMostOne
<1> QED  BY <1>4, <1>5, <1>6, <1>7, <1>8, KeepingStep

LEMMA FinalizeRejectStep ==
    ASSUME JoinedInv, NEW c \in Claims, FinalizeReject(c)
    PROVE  JoinedInv' /\ Published' = Published
<1> USE DEF FinalizeReject, taskVars, keepVars, admVars
<1>1. TypeOK'  BY DEF JoinedInv, TypeOK
<1>2. WorkersOK' /\ PausedAdmitsAtMostOne'  BY DEF JoinedInv, WorkersOK, PausedAdmitsAtMostOne
<1> QED  BY <1>1, <1>2, QuietStep

\* A report fails the row it holds or starts a backoff.
LEMMA ReportFailureStep ==
    ASSUME JoinedInv, NEW w \in Workers, ReportFailure(w)
    PROVE  JoinedInv' /\ Published' = Published
<1> DEFINE t == worker[w].task
<1> USE DEF ReportFailure, taskVars, keepVars, admVars
<1>1. /\ st \in [Tasks -> HourStates \cup ArtifactStates]
      /\ lease \in [Tasks -> {"none", "fresh", "aging", "expired"}]
      /\ failure \in [Tasks -> {"none", "backoff", "due", "terminal"}]
      /\ worker \in [Workers -> [task : Tasks \cup {NoTask.task}, attempt : 0..MaxAttempts,
                                 phase : Phases \cup {"idle"}]]
  BY DEF JoinedInv, TypeOK
<1>2. Held(t) /\ t \in Tasks  BY DEF Fenced, JoinedInv, WorkersOK
<1>3. TypeOK'
  <2>1. worker' \in [Workers -> [task : Tasks \cup {NoTask.task}, attempt : 0..MaxAttempts,
                                 phase : Phases \cup {"idle"}]]
    BY <1>1, JoinedAssumption DEF NoTask
  <2>2. /\ st' \in [Tasks -> HourStates \cup ArtifactStates]
        /\ lease' \in [Tasks -> {"none", "fresh", "aging", "expired"}]
        /\ failure' \in [Tasks -> {"none", "backoff", "due", "terminal"}]
    BY <1>1 DEF HourStates, ArtifactStates
  <2> QED  BY <2>1, <2>2 DEF JoinedInv, TypeOK
<1>4. WorkersOK'
  <2>1. \A v \in Workers : worker'[v] \in {worker[v], NoTask}  BY <1>1
  <2> QED  BY <2>1 DEF JoinedInv, WorkersOK, NoTask
<1>5. PausedAdmitsAtMostOne'  BY DEF JoinedInv, PausedAdmitsAtMostOne
<1>6. \A u \in Tasks : Keeps(u) \/ Fails(u)  BY <1>1, <1>2 DEF Keeps, Fails
<1> QED  BY <1>3, <1>4, <1>5, <1>6, KeepingStep

LEMMA ExpireEvidenceStep ==
    ASSUME JoinedInv, ExpireEvidence
    PROVE  JoinedInv' /\ Published' = Published
<1> USE DEF ExpireEvidence, keepVars, admVars
<1>1. /\ st \in [Tasks -> HourStates \cup ArtifactStates]
      /\ lease \in [Tasks -> {"none", "fresh", "aging", "expired"}]
      /\ failure \in [Tasks -> {"none", "backoff", "due", "terminal"}]
  BY DEF JoinedInv, TypeOK
<1>2. TypeOK'
  <2>1. /\ st' \in [Tasks -> HourStates \cup ArtifactStates]
        /\ lease' \in [Tasks -> {"none", "fresh", "aging", "expired"}]
        /\ failure' \in [Tasks -> {"none", "backoff", "due", "terminal"}]
    BY <1>1 DEF HourStates, ArtifactStates
  <2> QED  BY <2>1 DEF JoinedInv, TypeOK
<1>3. WorkersOK' /\ PausedAdmitsAtMostOne'  BY DEF JoinedInv, WorkersOK, PausedAdmitsAtMostOne
<1>4. ASSUME NEW u \in Tasks PROVE Keeps(u) \/ Fails(u)
  <2>1. CASE Exhausted(u)  BY <2>1 DEF Exhausted, Fails
  <2>2. CASE ~Exhausted(u)  BY <2>2 DEF Keeps
  <2> QED  BY <2>1, <2>2
<1> QED  BY <1>2, <1>3, <1>4, KeepingStep

\* A purge is marked under a published manifest.
LEMMA PurgeHourStep ==
    ASSUME JoinedInv, NEW h \in Hours, PurgeMark(h) \/ PurgeAbort(h) \/ PurgeDelete(h) \/ PurgeCommit(h)
    PROVE  JoinedInv' /\ Published' = Published
<1> USE DEF PurgeMark, PurgeAbort, PurgeDelete, PurgeCommit, taskVars, admVars
<1>1. source \in [Hours -> {"present", "absent"}] /\ purge \in [Hours -> {"none", "marked", "purged"}]
  BY DEF JoinedInv, TypeOK
<1>2. TypeOK'
  <2>1. source' \in [Hours -> {"present", "absent"}] /\ purge' \in [Hours -> {"none", "marked", "purged"}]
    BY <1>1
  <2> QED  BY <2>1 DEF JoinedInv, TypeOK
<1>3. WorkersOK' /\ PausedAdmitsAtMostOne'  BY DEF JoinedInv, WorkersOK, PausedAdmitsAtMostOne
<1>4. \A g \in Hours : purge'[g] # "none" => purge[g] # "none" \/ st[Manifest(g)] = "published"
  BY <1>1 DEF Purgeable
<1>5. \A t \in Tasks : Keeps(t)  BY DEF Keeps
<1> QED  BY <1>2, <1>3, <1>4, <1>5, KeepingStep

-----------------------------------------------------------------------------
(* The theorems                                                            *)

\* Every step preserves the invariant, and is a step of the batch promise or changes
\* neither the published documents nor the source clips.
LEMMA BatchStep == JoinedInv /\ [Next]_vars => JoinedInv' /\ [Batch!Next]_(Batch!vars)
<1> DEFINE Released == {h \in Hours : source[h] = "absent"}
<1> SUFFICES ASSUME JoinedInv, [Next]_vars PROVE JoinedInv' /\ [Batch!Next]_(Batch!vars)
  OBVIOUS
<1>0. source \in [Hours -> {"present", "absent"}]  BY DEF JoinedInv, TypeOK
<1>1. ASSUME JoinedInv', Published' = Published, source' = source
      PROVE  JoinedInv' /\ [Batch!Next]_(Batch!vars)
  <2>1. Released' = Released  BY <1>1
  <2> QED  BY <1>1, <2>1 DEF Batch!vars, Published
<1>2. CASE ServerStep
  <2>1. CASE AdmissionFence  BY <1>1, <2>1, AdmissionFenceStep DEF AdmissionFence, keepVars
  <2>2. CASE ExpireEvidence  BY <1>1, <2>2, ExpireEvidenceStep DEF ExpireEvidence, keepVars
  <2>3. CASE \E t \in Tasks : Age(t) \/ Expire(t) \/ BackoffElapses(t)
    BY <1>1, <2>3, LeaseClockStep DEF Age, Expire, BackoffElapses, keepVars
  <2>4. CASE \E c \in Claims : FinalizeReject(c)
    BY <1>1, <2>4, FinalizeRejectStep DEF FinalizeReject, keepVars
  <2>5. ASSUME NEW c \in Claims, FinalizeCommit(c) PROVE JoinedInv' /\ [Batch!Next]_(Batch!vars)
    <3> DEFINE a == c[1]
    <3>1. /\ JoinedInv' /\ Published' = Published \cup {a} /\ a \in Artifacts
          /\ \A h \in Hours : a = Manifest(h) => Ledger(DayOf[h]) \in Published
          /\ a = Index => /\ \A d \in Days : Ledger(d) \in Published
                          /\ \A h \in Hours : Manifest(h) \in Published
      BY <2>5, FinalizeCommitStep
    <3>2. source' = source  BY <2>5 DEF FinalizeCommit, keepVars
    <3>3. CASE a \in Published  BY <1>1, <3>1, <3>2, <3>3
    <3>4. CASE a \notin Published
      <4>1. Batch!Publish(a)
        <5>1. Released' = Released  BY <3>2
        <5> QED  BY <3>1, <3>4, <5>1 DEF Batch!Publish, Published
      <4>2. CASE a \in LedgerTasks
        <5>1. PICK d \in Days : a = Ledger(d)  BY <4>2 DEF LedgerTasks
        <5>2. Batch!PublishLedger(d)  BY <4>1, <5>1 DEF Batch!PublishLedger, Batch!Ledger, Ledger
        <5> QED  BY <3>1, <5>2 DEF Batch!Next
      <4>3. CASE a \in ManifestTasks
        <5>1. PICK h \in Hours : a = Manifest(h)  BY <4>3 DEF ManifestTasks
        <5>2. Batch!PublishManifest(h)
          BY <3>1, <4>1, <5>1 DEF Batch!PublishManifest, Batch!Ledger, Batch!Manifest, Ledger, Manifest, Published
        <5> QED  BY <3>1, <5>2 DEF Batch!Next
      <4>4. CASE a = Index
        <5>1. Batch!PublishIndex
          BY <3>1, <4>1, <4>4 DEF Batch!PublishIndex, Batch!Ledger, Batch!Manifest, Batch!Index, Index,
                                  Ledger, Manifest, Published
        <5> QED  BY <3>1, <5>1 DEF Batch!Next
      <4> QED  BY <3>1, <4>2, <4>3, <4>4 DEF Artifacts
    <3> QED  BY <3>3, <3>4
  <2> QED  BY <1>2, <2>1, <2>2, <2>3, <2>4, <2>5 DEF ServerStep
<1>3. ASSUME NEW w \in Workers,
             \/ \E h \in Hours : ClaimHour(w, h)
             \/ \E a \in Artifacts : ClaimPublication(w, a)
             \/ Heartbeat(w) \/ SealHour(w) \/ Rebuild(w) \/ Put(w)
             \/ FinalizeCheck(w) \/ ReportFailure(w) \/ Abandon(w)
      PROVE  JoinedInv' /\ [Batch!Next]_(Batch!vars)
  <2>1. CASE \E h \in Hours : ClaimHour(w, h)  BY <1>1, <2>1, ClaimHourStep DEF ClaimHour, keepVars
  <2>2. CASE \E a \in Artifacts : ClaimPublication(w, a)
    BY <1>1, <2>2, ClaimPublicationStep DEF ClaimPublication, keepVars
  <2>3. CASE Heartbeat(w)  BY <1>1, <2>3, HeartbeatStep DEF Heartbeat, keepVars
  <2>4. CASE SealHour(w)  BY <1>1, <2>4, SealHourStep DEF SealHour, keepVars
  <2>5. CASE Rebuild(w) \/ Abandon(w)  BY <1>1, <2>5, WorkerPhaseStep DEF Rebuild, Abandon, keepVars
  <2>6. CASE Put(w)  BY <1>1, <2>6, PutStep DEF Put, keepVars
  <2>7. CASE FinalizeCheck(w)  BY <1>1, <2>7, FinalizeCheckStep DEF FinalizeCheck, keepVars
  <2>8. CASE ReportFailure(w)  BY <1>1, <2>8, ReportFailureStep DEF ReportFailure, keepVars
  <2> QED  BY <1>3, <2>1, <2>2, <2>3, <2>4, <2>5, <2>6, <2>7, <2>8
<1>4. CASE OperatorStep
  <2>1. CASE PauseClaims \/ ResumeClaims \/ ArmOneShot
    BY <1>1, <2>1, AdmissionCommandStep DEF PauseClaims, ResumeClaims, ArmOneShot, SetAdmission, keepVars
  <2>2. CASE PromoteScope  BY <1>1, <2>2, PromoteScopeStep DEF PromoteScope, keepVars
  <2>3. CASE SealIndex  BY <1>1, <2>3, SealIndexStep DEF SealIndex, keepVars
  <2>4. CASE \E h \in Hours : GrantRetry(h)  BY <1>1, <2>4, GrantRetryStep DEF GrantRetry, keepVars
  <2>5. CASE \E h \in Hours : AuthorizeGap(h)  BY <1>1, <2>5, AuthorizeGapStep DEF AuthorizeGap, keepVars
  <2> QED  BY <1>4, <2>1, <2>2, <2>3, <2>4, <2>5 DEF OperatorStep
<1>5. ASSUME NEW h \in Hours, PurgeMark(h) \/ PurgeAbort(h) \/ PurgeCommit(h)
      PROVE  JoinedInv' /\ [Batch!Next]_(Batch!vars)
  BY <1>1, <1>5, PurgeHourStep DEF PurgeMark, PurgeAbort, PurgeCommit
<1>6. ASSUME NEW h \in Hours, PurgeDelete(h)
      PROVE  JoinedInv' /\ [Batch!Next]_(Batch!vars)
  <2>1. JoinedInv' /\ Published' = Published  BY <1>6, PurgeHourStep
  <2>2. Released' = Released \cup {h} /\ h \notin Released  BY <1>0, <1>6 DEF PurgeDelete
  <2>3. Manifest(h) \in Published  BY <1>6, TaskKinds DEF PurgeDelete, JoinedInv, ManifestKept, Published
  <2>4. Batch!Release(h)
    BY <2>1, <2>2, <2>3 DEF Batch!Release, Batch!Manifest, Manifest, Published
  <2> QED  BY <2>1, <2>4 DEF Batch!Next
<1>7. CASE UNCHANGED vars
  <2>1. TypeOK'  BY <1>7 DEF vars, JoinedInv, TypeOK
  <2>2. WorkersOK' /\ PausedAdmitsAtMostOne'  BY <1>7 DEF vars, JoinedInv, WorkersOK, PausedAdmitsAtMostOne
  <2> QED  BY <1>1, <1>7, <2>1, <2>2, QuietStep DEF vars
<1> QED  BY <1>2, <1>3, <1>4, <1>5, <1>6, <1>7 DEF Next, WorkerStep, PurgeStep

\* The inductive invariant of the control plane.
THEOREM JoinedInvariant == Spec => []JoinedInv
<1>1. Init => JoinedInv  BY InitInv
<1>2. JoinedInv /\ [Next]_vars => JoinedInv'  BY BatchStep
<1> QED  BY <1>1, <1>2, PTL DEF Spec

\* Every variable keeps its type.
THEOREM JoinedTypes == Spec => []TypeOK
<1>1. JoinedInv => TypeOK  BY DEF JoinedInv
<1> QED  BY <1>1, JoinedInvariant, PTL

\* The live leases of preflight and publication together stay within the cap, for any
\* number of workers and tasks: each claim reads the count under the lock of the batch,
\* and sealing an hour hands its slot on to its manifest.
THEOREM ActiveCap == Spec => []ActiveWithinCap
<1>1. JoinedInv => ActiveWithinCap  BY DEF JoinedInv, ActiveBounded
<1> QED  BY <1>1, JoinedInvariant, PTL

\* What is published is stored, and a sealed index refers to published documents only:
\* the storage check comes before the transaction, and the store is create-only.
THEOREM PublicationComplete == Spec => []PublishedComplete
<1>1. JoinedInv => PublishedComplete  BY DEF JoinedInv
<1> QED  BY <1>1, JoinedInvariant, PTL

\* A finalize of a superseded attempt never publishes: the transaction tests the token
\* again, and no claim takes a published row.
THEOREM FinalizeFencing == Spec => []FinalizeFenced
<1>1. JoinedInv => FinalizeFenced  BY DEF JoinedInv
<1> QED  BY <1>1, JoinedInvariant, PTL

\* While claims are paused, a one-shot admits one claim and is consumed by it.
THEOREM OneShotAdmission == Spec => []PausedAdmitsAtMostOne
<1>1. JoinedInv => PausedAdmitsAtMostOne  BY DEF JoinedInv
<1> QED  BY <1>1, JoinedInvariant, PTL

\* The control plane implements the batch promise, step by step: every behaviour of it
\* publishes each document once, a manifest after its ledger and the index last, and
\* gives source clips up after their manifest.
THEOREM BatchRefinement == Spec => BatchSpec
<1>1. Init => JoinedInv /\ Batch!Init  BY InitInv
<1>2. JoinedInv /\ [Next]_vars => JoinedInv' /\ [Batch!Next]_(Batch!vars)  BY BatchStep
<1> QED  BY <1>1, <1>2, PTL DEF Spec, BatchSpec, Batch!Spec
=============================================================================
