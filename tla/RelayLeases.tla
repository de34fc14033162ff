---------------------------- MODULE RelayLeases ----------------------------
(* Relay computers (nodes) of one account, their internet groups and the   *)
(* leases they poll for: the relay branch of the lease handler             *)
(* (server_recording_clips.go), the node and group handlers                *)
(* (server_nodes.go, server_relay_groups.go) and the short reservations    *)
(* that keep a diagnostic canary away from production work                 *)
(* (server_recording_canary.go).                                           *)
(* A lease transaction locks the account, the node and its group first, as *)
(* do the handlers that move or reserve a node, so each is one step.  A    *)
(* lease heartbeat is two: it compares the expiry with the time its        *)
(* transaction began, and may get the locks after another transaction.     *)
(* All windows reserve the same bandwidth, no group has a bandwidth budget.*)
EXTENDS Naturals, Sequences, FiniteSets

CONSTANTS
  Nodes, Groups, Jobs,   \* computers, internet groups, one window job per recording
  NoNode, NoGroup,
  Home, MaxStreams,      \* the group of a node and the stream cap of a group, at first
  NodeStreams,           \* relay_max_streams of a node
  YouTube, YouTubeReady, \* jobs on a youtube_direct stream, nodes ready for them
  Preferred,             \* preferred_relay_group_id of a job's recording, or NoGroup
  CanaryJobs,            \* recordings whose canary the operator runs
  Pollers,               \* nodes in service: polling, heartbeating, left alone by the owner
  MaxRuns,               \* bound: windows of a job
  MaxTries,              \* max_attempts: leases of a window of the job
  MaxOps                 \* bound: owner operations that take something away or move it

ASSUME RelayAssumption ==
  /\ NoNode \notin Nodes /\ NoGroup \notin Groups /\ IsFiniteSet(Jobs)
  /\ Home \in [Nodes -> Groups \cup {NoGroup}]
  /\ MaxStreams \in [Groups -> Nat] /\ NodeStreams \in [Nodes -> Nat]
  /\ Preferred \in [Jobs -> Groups \cup {NoGroup}] /\ CanaryJobs \subseteq Jobs
  /\ MaxTries \in [Jobs -> Nat \ {0}] /\ {MaxRuns, MaxOps} \subseteq Nat

Seqs == INSTANCE SequencesExt

VARIABLES
  node,    \* [active, token, online, group] of a computer
  max,     \* max_streams of a group
  job,     \* the jobs' rows, and the affinity node of the recording
  due,     \* pending jobs in scheduled_for order
  beat,    \* leases with a heartbeat transaction begun before they expired
  canary,  \* the live reservation of a recording: [node, moved]
  exempt,  \* leases granted under other limits, or renewed after they expired
  ops

vars == <<node, max, job, due, beat, canary, exempt, ops>>

NoCanary == [node |-> NoNode, moved |-> FALSE]

TypeOK ==
  /\ node \in [Nodes -> [active : BOOLEAN, token : BOOLEAN, online : BOOLEAN,
                         group : Groups \cup {NoGroup}]]
  /\ max \in [Groups -> Nat]
  /\ job \in [Jobs -> [st : {"closed", "canceled", "pending", "leased"}, live : BOOLEAN,
                       owner : Nodes \cup {NoNode}, turn : 0..3, failed : SUBSET Nodes,
                       held : Nodes \cup {NoNode}, home : Nodes \cup {NoNode},
                       runs : 0..MaxRuns, tries : Nat]]
  /\ \A j \in Jobs : /\ (job[j].st = "leased") = (job[j].owner # NoNode)
                     /\ job[j].tries <= MaxTries[j]
  /\ due \in Seq(Jobs)
  /\ \A j \in Jobs : Cardinality({i \in DOMAIN due : due[i] = j}) =
                     IF job[j].st = "pending" THEN 1 ELSE 0
  /\ beat \subseteq {j \in Jobs : job[j].st = "leased"}
  /\ canary \in [Jobs -> [node : Nodes \cup {NoNode}, moved : BOOLEAN]]
  /\ exempt \subseteq {j \in Jobs : job[j].st = "leased"}
  /\ ops \in 0..MaxOps

Init ==
  /\ node = [n \in Nodes |-> [active |-> TRUE, token |-> TRUE, online |-> TRUE, group |-> Home[n]]]
  /\ max = MaxStreams
  /\ job = [j \in Jobs |-> [st |-> "closed", live |-> FALSE, owner |-> NoNode, turn |-> 0,
                            failed |-> {}, held |-> NoNode, home |-> NoNode,
                            runs |-> 0, tries |-> 0]]
  /\ due = <<>> /\ beat = {} /\ exempt = {} /\ ops = 0
  /\ canary = [j \in Jobs |-> NoCanary]

-----------------------------------------------------------------------------
(* Capacity and the order in which nodes get their chance *)

LiveOf(n) == {j \in Jobs : job[j].live /\ job[j].owner = n}
Members(g) == {n \in Nodes : node[n].group = g}
LiveIn(g) == UNION {LiveOf(n) : n \in Members(g)}

\* The computers that share a node's uplink.
Domain(n) == IF node[n].group = NoGroup THEN {n} ELSE Members(node[n].group)

GroupRoom(g) == g = NoGroup \/ Cardinality(LiveIn(g)) < max[g]
NodeRoom(n) == Cardinality(LiveOf(n)) < NodeStreams[n]
Serving(n) == node[n].active /\ node[n].online
Ready(n, j) == j \in YouTube => n \in YouTubeReady
TurnOver(j) == job[j].turn >= 2

\* A peer that could take j at once: for it another node steps back.
CouldTake(n, j) == Serving(n) /\ Ready(n, j) /\ job[j].held # n /\ n \notin job[j].failed /\ NodeRoom(n)

\* mutant of FailureYields: a node steps back for any other that is online, even one
\* that failed the window too
FailureYieldsAlways(n, j) ==
  \/ n \notin job[j].failed
  \/ job[j].turn = 3
  \/ ~\E m \in Nodes \ {n} : Serving(m) /\ Ready(m, j) /\ NodeRoom(m)

FailureYields(n, j) ==
  \/ n \notin job[j].failed
  \/ job[j].turn = 3
  \/ ~\E m \in Nodes \ {n} : CouldTake(m, j) /\ GroupRoom(node[m].group)

AffinityYields(n, j) ==
  \/ job[j].home \in {NoNode, n}
  \/ TurnOver(j)
  \/ ~CouldTake(job[j].home, j)

\* mutant of PreferenceYields: the preferred group is waited for as long as it is there
PreferenceYieldsAlways(n, j) ==
  \/ Preferred[j] \in {NoGroup, node[n].group}
  \/ ~GroupRoom(Preferred[j])
  \/ ~\E m \in Members(Preferred[j]) : Serving(m) /\ NodeRoom(m)

PreferenceYields(n, j) ==
  \/ Preferred[j] \in {NoGroup, node[n].group}
  \/ TurnOver(j)
  \/ ~GroupRoom(Preferred[j])
  \/ ~\E m \in Members(Preferred[j]) : Serving(m) /\ NodeRoom(m)

\* n is the window's healthy home: balancing does not move it away.
Settled(n, j) == job[j].home = n /\ n \notin job[j].failed

\* Utilisation of group h with one more window is below that of g.
LessUsed(h, g) == (Cardinality(LiveIn(h)) + 1) * max[g] < (Cardinality(LiveIn(g)) + 1) * max[h]

GroupYields(n, j) ==
  \/ TurnOver(j)
  \/ node[n].group \in {NoGroup, Preferred[j]}
  \/ Settled(n, j)
  \/ ~\E g \in Groups \ {node[n].group} :
        /\ GroupRoom(g) /\ LessUsed(g, node[n].group)
        /\ \E m \in Members(g) : Serving(m) /\ NodeRoom(m)

MachineYields(n, j) ==
  \/ TurnOver(j)
  \/ node[n].group = NoGroup
  \/ Settled(n, j)
  \/ ~\E m \in Members(node[n].group) :
        /\ Serving(m) /\ NodeRoom(m)
        /\ Cardinality(LiveOf(m)) < Cardinality(LiveOf(n))

\* relayLeaseSQL: the jobs node n may lease now.
Leasable(n) ==
  {j \in Jobs : /\ job[j].st = "pending" /\ job[j].held # n
                /\ Serving(n) /\ Ready(n, j)
                /\ NodeRoom(n) /\ GroupRoom(node[n].group)
                /\ FailureYields(n, j) /\ AffinityYields(n, j) /\ PreferenceYields(n, j)
                /\ GroupYields(n, j) /\ MachineYields(n, j)}

\* The jobs whose turn a poll of n may start: what the node could take is not asked.
Considered(n) == {j \in Jobs : job[j].st = "pending" /\ job[j].held # n}

\* The member of S that is due first, as a set of at most one.
Oldest(S) ==
  {j \in S : \E i \in DOMAIN due : due[i] = j /\ \A k \in 1..(i - 1) : due[k] \notin S}

\* The queue without the one job that was leased, if any.
Without(js) ==
  IF \E i \in DOMAIN due : due[i] \in js
  THEN Seqs!RemoveAt(due, CHOOSE i \in DOMAIN due : due[i] \in js) ELSE due

-----------------------------------------------------------------------------
(* Leases *)

\* mutant of Outranked: only the reservation of the polling computer
OutrankedOwn(n) == {j \in Jobs : canary[j].node = n}

\* The reservations a production lease of n ends.
Outranked(n) == {j \in Jobs : canary[j].node \in Domain(n)}

TurnStarted(row) == IF row.turn = 0 THEN [row EXCEPT !.turn = 1] ELSE row

Granted(n, row) ==
  [row EXCEPT !.st = "leased", !.owner = n, !.live = TRUE, !.held = NoNode, !.tries = @ + 1]

\* leaseRelayRecordingJob: starts the turn of the oldest due job, leases the oldest
\* leasable one and clears the canaries of the node's uplink.
Poll(n) ==
  /\ node[n].token
  /\ LET first == Oldest(Considered(n))
         taken == Oldest(Leasable(n))
         turned == [j \in Jobs |-> IF j \in first THEN TurnStarted(job[j]) ELSE job[j]]
     IN /\ job' = [j \in Jobs |-> IF j \in taken THEN Granted(n, turned[j]) ELSE turned[j]]
        /\ due' = Without(taken)
        /\ canary' = [j \in Jobs |-> IF taken # {} /\ j \in Outranked(n) THEN NoCanary ELSE canary[j]]
  /\ UNCHANGED <<node, max, beat, exempt, ops>>

\* heartbeatRecordingJob: now() is the time of BEGIN ...
BeatBegin(j) ==
  /\ job[j].live /\ node[job[j].owner].token
  /\ beat' = beat \cup {j}
  /\ UNCHANGED <<node, max, job, due, canary, exempt, ops>>

\* ... and the update runs once the node's and the group's locks are free.
BeatCommit(j) ==
  /\ j \in beat
  /\ beat' = beat \ {j}
  /\ job' = [job EXCEPT ![j].live = TRUE]
  /\ exempt' = IF job[j].live THEN exempt ELSE exempt \cup {j}
  /\ UNCHANGED <<node, max, due, canary, ops>>

Released(row, st) == [row EXCEPT !.st = st, !.owner = NoNode, !.live = FALSE]

\* The lease of j ends: its heartbeat, if one is under way, will match no row.
Release(j, row) ==
  /\ job' = [job EXCEPT ![j] = row]
  /\ due' = IF row.st = "pending" THEN Append(due, j) ELSE due
  /\ beat' = beat \ {j} /\ exempt' = exempt \ {j}
  /\ UNCHANGED <<node, max, canary, ops>>

MayTryAgain(j) == job[j].tries < MaxTries[j]

\* The lease runs out: its recorder died, or could not reach the server.
Expire(j) ==
  /\ job[j].live /\ MayTryAgain(j)
  /\ job' = [job EXCEPT ![j].live = FALSE]
  /\ UNCHANGED <<node, max, due, beat, canary, exempt, ops>>

\* The scheduler's sweep.
Reclaim(j) ==
  /\ job[j].st = "leased" /\ ~job[j].live
  /\ Release(j, [Released(job[j], "pending") EXCEPT !.turn = 0])

\* The window is over: its node is the affinity node of the next one.
Complete(j) ==
  /\ job[j].live
  /\ Release(j, [Released(job[j], "closed") EXCEPT !.home = job[j].owner])

\* recordingJobFailSQL leaves the fairness turn alone.
Fail(j) ==
  /\ job[j].live
  /\ \/ MayTryAgain(j) /\ Release(j, Released(job[j], "pending"))
     \/ Release(j, Released(job[j], "closed"))

Surrender(j, noProgress) ==
  /\ job[j].live /\ MayTryAgain(j)
  /\ Release(j, [Released(job[j], "pending") EXCEPT
                   !.turn = 0, !.held = job[j].owner,
                   !.failed = IF noProgress THEN @ \cup {job[j].owner} ELSE @])

\* The scheduler opens the next window of a recording, or revives a canceled one.
Open(j) ==
  /\ \/ job[j].st = "closed" /\ job[j].runs < MaxRuns
        /\ job' = [job EXCEPT ![j] = [job[j] EXCEPT !.st = "pending", !.turn = 0, !.failed = {},
                                                    !.held = NoNode, !.runs = @ + 1, !.tries = 0]]
     \/ job[j].st = "canceled"
        /\ job' = [job EXCEPT ![j] = [job[j] EXCEPT !.st = "pending", !.turn = 0, !.tries = 0]]
  /\ due' = Append(due, j)
  /\ UNCHANGED <<node, max, beat, canary, exempt, ops>>

\* Twelve seconds, and the longest failure wait, after the turn started.  It matters
\* to pending jobs, the second stage to those a node has failed.
TurnPasses(j) ==
  /\ job[j].st = "pending"
  /\ \/ job[j].turn = 1
     \/ job[j].turn = 2 /\ job[j].failed # {}
  /\ job' = [job EXCEPT ![j].turn = @ + 1]
  /\ UNCHANGED <<node, max, due, beat, canary, exempt, ops>>

\* Five minutes after a surrender.
HandoffEnds(j) ==
  /\ job[j].st = "pending" /\ job[j].held # NoNode
  /\ job' = [job EXCEPT ![j].held = NoNode]
  /\ UNCHANGED <<node, max, due, beat, canary, exempt, ops>>

-----------------------------------------------------------------------------
(* Nodes and groups *)

NodeBeat(n) ==
  /\ node[n].token /\ ~node[n].online
  /\ node' = [node EXCEPT ![n].online = TRUE]
  /\ UNCHANGED <<max, job, due, beat, canary, exempt, ops>>

\* No heartbeat for 120 seconds.
Quiet(n) ==
  /\ n \notin Pollers /\ node[n].online
  /\ node' = [node EXCEPT ![n].online = FALSE]
  /\ UNCHANGED <<max, job, due, beat, canary, exempt, ops>>

Owner == ops < MaxOps /\ ops' = ops + 1

\* mutant of CanceledWith: an expired lease is left to the scheduler
CanceledWithLive(n) == LiveOf(n)

\* The jobs a PATCH to "disabled" cancels.
CanceledWith(n) == {j \in Jobs : job[j].owner = n}

Disable(n) ==
  /\ Owner /\ n \notin Pollers /\ node[n].active
  /\ node' = [node EXCEPT ![n].active = FALSE]
  /\ job' = [j \in Jobs |-> IF j \in CanceledWith(n) THEN Released(job[j], "canceled") ELSE job[j]]
  /\ beat' = beat \ CanceledWith(n) /\ exempt' = exempt \ CanceledWith(n)
  /\ UNCHANGED <<max, due, canary>>

\* Enabling and re-enrolling undo an operation: they need no bound of their own.
Enable(n) ==
  /\ ~node[n].active
  /\ node' = [node EXCEPT ![n].active = TRUE]
  /\ UNCHANGED <<max, job, due, beat, canary, exempt, ops>>

\* mutant of MayMove: a busy computer takes its leases along
MayMoveBusy(n, g) == node[n].active \/ node[n].group # g

\* relayGroupChangeAllowed
MayMove(n, g) == LiveOf(n) = {} \/ node[n].group \in {NoGroup, g}

\* Moves look at leases, not at reservations.
Moved(n) == [j \in Jobs |-> IF canary[j].node = n THEN [canary[j] EXCEPT !.moved = TRUE] ELSE canary[j]]

\* Live leases of an ungrouped node stay with its recorder until they end.
Remove(n) ==
  /\ Owner /\ n \notin Pollers /\ MayMove(n, NoGroup)
  /\ node' = [node EXCEPT ![n] = [@ EXCEPT !.active = FALSE, !.token = FALSE, !.group = NoGroup]]
  /\ canary' = Moved(n)
  /\ UNCHANGED <<max, job, due, beat, exempt>>

\* A node of the same name and type comes back as the same row.
Enroll(n) ==
  /\ ~node[n].active
  /\ node' = [node EXCEPT ![n] = [@ EXCEPT !.active = TRUE, !.token = TRUE, !.online = TRUE]]
  /\ UNCHANGED <<max, job, due, beat, canary, exempt, ops>>

\* handleAccountNodeRelayGroupPut, handleAccountNodeRelayGroupDelete (g = NoGroup)
SetGroup(n, g) ==
  /\ Owner /\ n \notin Pollers /\ node[n].group # g /\ MayMove(n, g)
  /\ node' = [node EXCEPT ![n].group = g]
  /\ canary' = Moved(n)
  /\ exempt' = IF node[n].group = NoGroup THEN exempt \cup LiveOf(n) ELSE exempt
  /\ UNCHANGED <<max, job, due, beat>>

\* handleAccountRelayGroupPatch: live leases are not asked.
SetMax(g, m) ==
  /\ Owner /\ max[g] # m
  /\ max' = [max EXCEPT ![g] = m]
  /\ exempt' = IF m < max[g] THEN exempt \cup LiveIn(g) ELSE exempt
  /\ UNCHANGED <<node, job, due, beat, canary>>

-----------------------------------------------------------------------------
(* Canary reservations *)

Reserved(n) == \E j \in Jobs : canary[j].node \in Domain(n)

\* A pending job that this uplink might be asked to take.
Imminent(n) == \E j \in Jobs : job[j].st = "pending" /\ Preferred[j] \in {NoGroup, node[n].group}

CanaryStart(n, j) ==
  /\ node[n].token /\ Serving(n)
  /\ Preferred[j] \in {NoGroup, node[n].group}
  /\ \A m \in Domain(n) : LiveOf(m) = {} /\ (node[m].active => node[m].online)
  /\ ~Imminent(n) /\ ~Reserved(n)
  /\ job[j].st # "pending" /\ ~job[j].live
  /\ canary[j] = NoCanary
  /\ canary' = [canary EXCEPT ![j] = [node |-> n, moved |-> FALSE]]
  /\ UNCHANGED <<node, max, job, due, beat, exempt, ops>>

\* Finished by the relay, or three minutes old.
CanaryEnd(j) ==
  /\ canary[j] # NoCanary
  /\ canary' = [canary EXCEPT ![j] = NoCanary]
  /\ UNCHANGED <<node, max, job, due, beat, exempt, ops>>

-----------------------------------------------------------------------------

JobStep(j) ==
  \/ Open(j) \/ BeatBegin(j) \/ BeatCommit(j) \/ Expire(j) \/ Reclaim(j)
  \/ Complete(j) \/ Fail(j) \/ Surrender(j, TRUE) \/ Surrender(j, FALSE)
  \/ TurnPasses(j) \/ HandoffEnds(j) \/ CanaryEnd(j)

NodeStep(n) ==
  \/ Poll(n) \/ NodeBeat(n) \/ Quiet(n)
  \/ Disable(n) \/ Enable(n) \/ Remove(n) \/ Enroll(n)
  \/ \E g \in Groups \cup {NoGroup} : SetGroup(n, g)
  \/ \E j \in CanaryJobs : CanaryStart(n, j)

Next ==
  \/ \E j \in Jobs : JobStep(j)
  \/ \E n \in Nodes : NodeStep(n)
  \/ \E g \in Groups, m \in 1..2 : SetMax(g, m)

Spec == Init /\ [][Next]_vars

\* Relays in service poll about every second, the scheduler ticks, time passes.  A
\* window ends, and no heartbeat renews a lease past its end: a lease that is renewed
\* again and again (SF) completes.
FairSpec ==
  /\ Spec
  /\ \A n \in Pollers : WF_vars(Poll(n))
  /\ \A j \in Jobs : /\ SF_vars(Complete(j)) /\ WF_vars(Reclaim(j))
                     /\ WF_vars(TurnPasses(j)) /\ WF_vars(HandoffEnds(j))

-----------------------------------------------------------------------------
(* Properties *)

\* "The surrounding node/group row locks make these capacity bounds authoritative":
\* the leases granted under the present limits never exceed them, over moves of
\* computers, expiries, surrenders, removals and re-enrolments.
CapacityHeld ==
  /\ \A g \in Groups : Cardinality(LiveIn(g) \ exempt) <= max[g]
  /\ \A n \in Nodes : Cardinality(LiveOf(n) \ exempt) <= NodeStreams[n]

\* "Production always outranks a diagnostic canary": an uplink with a reservation
\* carries no production lease granted after it, whoever of the group polled.
CanaryAlone ==
  \A j, k \in Jobs :
    /\ canary[j].node # NoNode /\ ~canary[j].moved
    /\ job[k].live /\ k \notin exempt
    => job[k].owner \notin Domain(canary[j].node)

\* A disabled computer keeps no live lease, except one removed while it recorded
\* outside a group, whose token is gone.
DisabledHoldsNothing ==
  \A j \in Jobs : job[j].live => node[job[j].owner].active \/ ~node[job[j].owner].token

\* "It never strands capture": once the turn of a due window is over, the nodes never
\* all stand back for each other.  If one could serve the window, somebody may lease it,
\* be it a peer that the failure clause prefers.
TurnEndsWaiting ==
  \A j \in Jobs, n \in Nodes :
    /\ job[j].st = "pending" /\ TurnOver(j) /\ job[j].held # n
    /\ Serving(n) /\ Ready(n, j) /\ NodeRoom(n) /\ GroupRoom(node[n].group)
    => \E m \in Nodes : j \in Leasable(m)

\* When the nodes in service are ready for every job, an unavailable preferred group,
\* a peer that only heartbeats, a busier node or an older window of another kind never
\* strands a due window.  (The turn of a younger job starts only once the oldest is
\* leased, so an oldest job nobody can take is outside the claim.)
DueJobsTaken ==
  (\A j \in Jobs : \E n \in Pollers : Ready(n, j)) =>
    \A j \in Jobs : job[j].st = "pending" ~> job[j].st # "pending"

\* "An expired lease never revives after replacement work was leased": the work of an
\* uplink stays within its cap even when a heartbeat was under way at the expiry.
NoRevival ==
  \A g \in Groups : max[g] = MaxStreams[g] => Cardinality(LiveIn(g)) <= max[g]
=============================================================================
