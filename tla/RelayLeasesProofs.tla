------------------------- MODULE RelayLeasesProofs -------------------------
(***************************************************************************)
(* Why relay capacity and canary reservations hold for any number of       *)
(* computers, groups and jobs.                                             *)
(*                                                                         *)
(* A lease counts when it is live and not exempt.  Only a poll adds one,   *)
(* to a computer and a group with room and no canary on the uplink; every  *)
(* other step adds none and moves no computer with one (Calm).             *)
(***************************************************************************)
EXTENDS RelayLeases, FiniteSetTheorems, SequenceTheorems, TLAPS

-----------------------------------------------------------------------------
(* The inductive invariant.                                                *)

Computers == [active : BOOLEAN, token : BOOLEAN, online : BOOLEAN, group : Groups \cup {NoGroup}]
Rows == [st : {"closed", "canceled", "pending", "leased"}, live : BOOLEAN,
         owner : Nodes \cup {NoNode}, turn : 0..3, failed : SUBSET Nodes,
         held : Nodes \cup {NoNode}, home : Nodes \cup {NoNode},
         runs : 0..MaxRuns, tries : Nat]
Canaries == [node : Nodes \cup {NoNode}, moved : BOOLEAN]

RelayTypes ==
  /\ node \in [Nodes -> Computers]
  /\ max \in [Groups -> Nat]
  /\ job \in [Jobs -> Rows]
  /\ due \in Seq(Jobs)
  /\ canary \in [Jobs -> Canaries]
  /\ beat \subseteq Jobs /\ exempt \subseteq Jobs
  /\ ops \in 0..MaxOps

\* A lease has its owner, and nothing but a lease is live, renewed or exempt.
LeaseOK ==
  \A j \in Jobs :
    /\ job[j].st = "leased" <=> job[j].owner # NoNode
    /\ job[j].live \/ j \in beat \cup exempt => job[j].st = "leased"

\* No job has more leases than tries; one that waits, or whose lease ran out, has one left.
TriesLeft ==
  \A j \in Jobs :
    /\ job[j].tries <= MaxTries[j]
    /\ job[j].st = "pending" \/ (job[j].st = "leased" /\ ~job[j].live) => job[j].tries < MaxTries[j]

\* The queue holds each pending job once, and nothing else.
QueuedOnce ==
  /\ \A i \in DOMAIN due : job[due[i]].st = "pending"
  /\ \A i, k \in DOMAIN due : due[i] = due[k] => i = k
  /\ \A j \in Jobs : job[j].st = "pending" => \E i \in DOMAIN due : due[i] = j

\* A lease, live or not, is on an active computer, or on one removed while it recorded.
OwnerServes ==
  \A j \in Jobs : job[j].st = "leased" => node[job[j].owner].active \/ ~node[job[j].owner].token

RelayInv ==
  /\ RelayTypes /\ LeaseOK /\ TriesLeft /\ QueuedOnce /\ OwnerServes
  /\ CapacityHeld /\ CanaryAlone

-----------------------------------------------------------------------------
(* Sets, sequences and rows.                                               *)

\* A set with at most one more element is at most one larger.
LEMMA OneMore ==
  ASSUME NEW S, IsFiniteSet(S), NEW x, NEW T, T \subseteq S \cup {x}
  PROVE  /\ IsFiniteSet(T) /\ Cardinality(T) \in Nat /\ Cardinality(S) \in Nat
         /\ Cardinality(T) <= Cardinality(S) + 1
<1>1. Cardinality(S) \in Nat  BY FS_CardinalityType
<1>2. IsFiniteSet(S \cup {x}) /\ Cardinality(S \cup {x}) <= Cardinality(S) + 1
  BY <1>1, FS_AddElement
<1>3. IsFiniteSet(T) /\ Cardinality(T) <= Cardinality(S \cup {x})  BY <1>2, FS_Subset
<1>4. Cardinality(T) \in Nat /\ Cardinality(S \cup {x}) \in Nat  BY <1>2, <1>3, FS_CardinalityType
<1> QED  BY <1>1, <1>2, <1>3, <1>4

\* A set of jobs is finite, and what is added to it is counted.
LEMMA JobSets ==
  ASSUME NEW S \in SUBSET Jobs
  PROVE  /\ IsFiniteSet(S) /\ Cardinality(S) \in Nat
         /\ \A T : T \subseteq S => IsFiniteSet(T) /\ Cardinality(T) <= Cardinality(S)
<1>1. IsFiniteSet(S)  BY RelayAssumption, FS_Subset
<1>2. Cardinality(S) \in Nat  BY <1>1, FS_CardinalityType
<1>3. \A T : T \subseteq S => IsFiniteSet(T) /\ Cardinality(T) <= Cardinality(S)
  BY <1>1, FS_Subset
<1> QED  BY <1>1, <1>2, <1>3

\* A sequence that lost one element: the others keep their order.
LEMMA RemovedAt ==
  ASSUME NEW S, NEW s \in Seq(S), NEW i \in DOMAIN s
  PROVE  /\ Seqs!RemoveAt(s, i) \in Seq(S)
         /\ Len(Seqs!RemoveAt(s, i)) = Len(s) - 1
         /\ \A k \in 1..(Len(s) - 1) : Seqs!RemoveAt(s, i)[k] = s[IF k < i THEN k ELSE k + 1]
<1> DEFINE before == SubSeq(s, 1, i - 1)
           after == SubSeq(s, i + 1, Len(s))
<1>1. i \in 1..Len(s) /\ Len(s) \in Nat  OBVIOUS
<1>2. before \in Seq(S) /\ Len(before) = i - 1 /\ \A k \in 1..(i - 1) : before[k] = s[k]  BY <1>1
<1>3. /\ after \in Seq(S) /\ Len(after) = Len(s) - i
      /\ \A k \in 1..(Len(s) - i) : after[k] = s[i + k]
  BY <1>1
<1> HIDE DEF before, after
<1>4. /\ before \o after \in Seq(S) /\ Len(before \o after) = Len(s) - 1
      /\ \A k \in 1..(Len(s) - 1) :
            (before \o after)[k] = IF k <= i - 1 THEN before[k] ELSE after[k - (i - 1)]
  <2>1. before \in Seq(S) /\ after \in Seq(S)  BY <1>2, <1>3
  <2>2. /\ before \o after \in Seq(S)
        /\ Len(before \o after) = Len(before) + Len(after)
        /\ \A k \in 1..(Len(before) + Len(after)) :
              (before \o after)[k] = IF k <= Len(before) THEN before[k] ELSE after[k - Len(before)]
    BY <2>1, ConcatProperties, Zenon
  <2>3. Len(before) + Len(after) = Len(s) - 1  BY <1>1, <1>2, <1>3
  <2>4. Len(before) = i - 1  BY <1>2
  <2> QED  BY <2>2, <2>3, <2>4, Zenon
<1>5. ASSUME NEW k \in 1..(Len(s) - 1)
      PROVE  (before \o after)[k] = s[IF k < i THEN k ELSE k + 1]
  <2>1. CASE k < i  BY <1>1, <1>2, <1>4, <2>1
  <2>2. CASE ~(k < i)
    <3> DEFINE m == k - (i - 1)
    <3>1. m \in 1..(Len(s) - i) /\ i + m = k + 1 /\ ~(k <= i - 1)  BY <1>1, <2>2
    <3>2. (before \o after)[k] = after[m]  BY <1>4, <3>1
    <3>3. after[m] = s[k + 1]  BY <1>3, <3>1
    <3> QED  BY <2>2, <3>2, <3>3
  <2> QED  BY <2>1, <2>2
<1> QED  BY <1>4, <1>5 DEF Seqs!RemoveAt, before, after

\* A queue of distinct jobs that loses one of them still holds the others once.
LEMMA QueueWithout ==
  ASSUME due \in Seq(Jobs), \A i, k \in DOMAIN due : due[i] = due[k] => i = k,
         NEW j \in Jobs, \E i \in DOMAIN due : due[i] = j, due' = Without({j})
  PROVE  /\ due' \in Seq(Jobs)
         /\ \A k \in DOMAIN due' : due'[k] # j /\ \E i \in DOMAIN due : due[i] = due'[k]
         /\ \A k, m \in DOMAIN due' : due'[k] = due'[m] => k = m
         /\ \A i \in DOMAIN due : due[i] # j => \E k \in DOMAIN due' : due'[k] = due[i]
<1> DEFINE at == CHOOSE i \in DOMAIN due : due[i] \in {j}
           rest == Seqs!RemoveAt(due, at)
           from(k) == IF k < at THEN k ELSE k + 1
<1>1. at \in DOMAIN due /\ due[at] = j  OBVIOUS
<1>2. due' = rest  BY DEF Without
<1> HIDE DEF at
<1>3. /\ rest \in Seq(Jobs) /\ Len(rest) = Len(due) - 1
      /\ \A k \in 1..(Len(due) - 1) : rest[k] = due[from(k)]
  BY <1>1, RemovedAt
<1> HIDE DEF rest
<1>4. DOMAIN due = 1..Len(due) /\ Len(due) \in Nat /\ DOMAIN rest = 1..(Len(due) - 1)
  BY <1>3
<1>5. ASSUME NEW k \in DOMAIN rest
      PROVE  from(k) \in DOMAIN due /\ from(k) # at /\ rest[k] = due[from(k)]
  BY <1>1, <1>3, <1>4
<1>6. \A k, m \in DOMAIN rest : from(k) = from(m) => k = m
  BY <1>1, <1>4
<1>7. ASSUME NEW i \in DOMAIN due, i # at
      PROVE  \E k \in DOMAIN rest : from(k) = i
  <2>1. CASE i < at  BY <1>1, <1>4, <2>1
  <2>2. CASE i > at  
    <3>1. i - 1 \in DOMAIN rest /\ from(i - 1) = i  BY <1>1, <1>4, <2>2
    <3> QED  BY <3>1
  <2> QED  BY <1>1, <1>4, <1>7, <2>1, <2>2
<1> HIDE DEF from
<1>8. \A k \in DOMAIN rest : rest[k] # j /\ \E i \in DOMAIN due : due[i] = rest[k]
  BY <1>1, <1>5
<1>9. \A k, m \in DOMAIN rest : rest[k] = rest[m] => k = m
  BY <1>5, <1>6
<1>10. \A i \in DOMAIN due : due[i] # j => \E k \in DOMAIN rest : rest[k] = due[i]
  <2> SUFFICES ASSUME NEW i \in DOMAIN due, due[i] # j
               PROVE  \E k \in DOMAIN rest : rest[k] = due[i]
    OBVIOUS
  <2>1. i # at  BY <1>1
  <2>2. PICK k \in DOMAIN rest : from(k) = i  BY <1>7, <2>1
  <2> QED  BY <1>5, <2>2
<1>11. due' \in Seq(Jobs)  BY <1>2, <1>3
<1>12. \A k \in DOMAIN due' : due'[k] # j /\ \E i \in DOMAIN due : due[i] = due'[k]
  BY <1>2, <1>8
<1>13. \A k, m \in DOMAIN due' : due'[k] = due'[m] => k = m  BY <1>2, <1>9
<1>14. \A i \in DOMAIN due : due[i] # j => \E k \in DOMAIN due' : due'[k] = due[i]
  BY <1>2, <1>10
<1> QED  BY <1>11, <1>12, <1>13, <1>14

\* A job that is due first is the only one: a poll leases one job at most.
LEMMA OldestAlone ==
  ASSUME due \in Seq(Jobs), NEW S \in SUBSET Jobs
  PROVE  /\ Oldest(S) \subseteq S
         /\ \A j \in Oldest(S) : Oldest(S) = {j} /\ \E i \in DOMAIN due : due[i] = j
<1>1. ASSUME NEW j \in Oldest(S), NEW k \in Oldest(S) PROVE j = k
  <2>1. PICK i \in DOMAIN due : due[i] = j /\ \A m \in 1..(i - 1) : due[m] \notin S
    BY DEF Oldest
  <2>2. PICK h \in DOMAIN due : due[h] = k /\ \A m \in 1..(h - 1) : due[m] \notin S
    BY DEF Oldest
  <2>3. j \in S /\ k \in S  BY DEF Oldest
  <2>4. DOMAIN due = 1..Len(due) /\ Len(due) \in Nat  OBVIOUS
  <2>5. i \in Nat /\ h \in Nat /\ i >= 1 /\ h >= 1  BY <2>4
  <2>6. ~(h < i)
    <3> SUFFICES ASSUME h < i PROVE FALSE  OBVIOUS
    <3>1. h \in 1..(i - 1)  BY <2>5
    <3> QED  BY <2>1, <2>2, <2>3, <3>1
  <2>7. ~(i < h)
    <3> SUFFICES ASSUME i < h PROVE FALSE  OBVIOUS
    <3>1. i \in 1..(h - 1)  BY <2>5
    <3> QED  BY <2>1, <2>2, <2>3, <3>1
  <2>8. i = h  BY <2>5, <2>6, <2>7
  <2> QED  BY <2>1, <2>2, <2>8
<1>2. Oldest(S) \subseteq S /\ \A j \in Oldest(S) : \E i \in DOMAIN due : due[i] = j
  BY DEF Oldest
<1> QED  BY <1>1, <1>2

-----------------------------------------------------------------------------
(* What counts against a limit.                                            *)

Counted(j) == job[j].live /\ j \notin exempt
OnNode(n) == {j \in Jobs : Counted(j) /\ job[j].owner = n}
OnGroup(g) == {j \in Jobs : Counted(j) /\ job[j].owner \in Members(g)}

\* The leases CapacityHeld counts, told by their rows.
LEMMA CountedSets ==
  /\ \A n : LiveOf(n) \ exempt = OnNode(n)
  /\ \A g : LiveIn(g) \ exempt = OnGroup(g)
<1>1. ASSUME NEW n PROVE LiveOf(n) \ exempt = OnNode(n)  BY DEF LiveOf, OnNode, Counted
<1>2. ASSUME NEW g PROVE LiveIn(g) \ exempt = OnGroup(g)
  <2>1. ASSUME NEW j PROVE j \in LiveIn(g) <=> j \in Jobs /\ job[j].live /\ job[j].owner \in Members(g)
    BY DEF LiveIn, LiveOf
  <2> QED  BY <2>1 DEF OnGroup, Counted
<1> QED  BY <1>1, <1>2

\* The same of the state after a step.
LEMMA CountedSetsAfter ==
  /\ \A n : LiveOf(n)' \ exempt' = OnNode(n)'
  /\ \A g : LiveIn(g)' \ exempt' = OnGroup(g)'
<1>1. ASSUME NEW n PROVE LiveOf(n)' \ exempt' = OnNode(n)'  BY DEF LiveOf, OnNode, Counted
<1>2. ASSUME NEW g PROVE LiveIn(g)' \ exempt' = OnGroup(g)'
  <2>1. ASSUME NEW j
        PROVE  j \in LiveIn(g)' <=> j \in Jobs /\ job'[j].live /\ job'[j].owner \in Members(g)'
    BY DEF LiveIn, LiveOf
  <2> QED  BY <2>1 DEF OnGroup, Counted
<1> QED  BY <1>1, <1>2

\* No lease starts to count, and none that counts changes its owner or its group.
Calm ==
  \A j \in Jobs :
    job'[j].live /\ j \notin exempt' =>
      /\ job[j].live /\ j \notin exempt
      /\ job'[j].owner = job[j].owner
      /\ node'[job[j].owner].group = node[job[j].owner].group

\* A cap falls only for a group whose leases no longer count.
Limits ==
  \A g \in Groups :
    \/ max[g] <= max'[g]
    \/ \A j \in Jobs : job'[j].live /\ node'[job'[j].owner].group = g => j \in exempt'

\* A reservation that has not moved is an earlier one, of a computer left in its group.
Reservations ==
  \A j \in Jobs :
    canary'[j].node # NoNode /\ ~canary'[j].moved =>
      canary'[j] = canary[j] /\ node'[canary[j].node].group = node[canary[j].node].group

\* A calm step keeps the limits.
LEMMA CapacityKeeps ==
  ASSUME RelayTypes, RelayTypes', CapacityHeld, Calm, Limits
  PROVE  CapacityHeld'
<1> USE DEF RelayTypes
<1>1. ASSUME NEW g \in Groups PROVE Cardinality(OnGroup(g)') <= max'[g]
  <2>1. max[g] \in Nat /\ max'[g] \in Nat  OBVIOUS
  <2>2. CASE max[g] <= max'[g]
    <3>1. OnGroup(g)' \subseteq OnGroup(g)  BY DEF OnGroup, Counted, Members, Calm
    <3>2. OnGroup(g) \in SUBSET Jobs  BY DEF OnGroup
    <3>3. Cardinality(OnGroup(g)') <= Cardinality(OnGroup(g)) /\ OnGroup(g)' \in SUBSET Jobs
      BY <3>1, <3>2, JobSets
    <3>4. Cardinality(OnGroup(g)) \in Nat /\ Cardinality(OnGroup(g)') \in Nat
      BY <3>2, <3>3, JobSets
    <3>5. Cardinality(OnGroup(g)) <= max[g]  BY CountedSets DEF CapacityHeld
    <3> QED  BY <2>1, <2>2, <3>3, <3>4, <3>5
  <2>3. CASE ~(max[g] <= max'[g])
    <3>1. OnGroup(g)' = {}  BY <2>3 DEF OnGroup, Counted, Members, Limits
    <3>2. Cardinality(OnGroup(g)') = 0  BY <3>1, FS_EmptySet
    <3> QED  BY <2>1, <3>2
  <2> QED  BY <2>2, <2>3
<1>2. ASSUME NEW n \in Nodes PROVE Cardinality(OnNode(n)') <= NodeStreams[n]
  <2>1. OnNode(n)' \subseteq OnNode(n) /\ OnNode(n) \in SUBSET Jobs
    BY DEF OnNode, Counted, Calm
  <2>2. Cardinality(OnNode(n)') <= Cardinality(OnNode(n)) /\ OnNode(n)' \in SUBSET Jobs
    BY <2>1, JobSets
  <2>3. Cardinality(OnNode(n)) \in Nat /\ Cardinality(OnNode(n)') \in Nat
    BY <2>1, <2>2, JobSets
  <2>4. Cardinality(OnNode(n)) <= NodeStreams[n]  BY CountedSets DEF CapacityHeld
  <2>5. NodeStreams[n] \in Nat  BY RelayAssumption
  <2> QED  BY <2>2, <2>3, <2>4, <2>5
<1> QED  BY <1>1, <1>2, CountedSetsAfter DEF CapacityHeld

\* A calm step that reserves nothing keeps reserved uplinks free.
LEMMA CanaryKeeps ==
  ASSUME RelayTypes, RelayTypes', LeaseOK, CanaryAlone, Calm, Reservations
  PROVE  CanaryAlone'
<1> SUFFICES ASSUME NEW j \in Jobs, NEW k \in Jobs,
                    canary'[j].node # NoNode, ~canary'[j].moved,
                    job'[k].live, k \notin exempt'
             PROVE  IF node'[canary'[j].node].group = NoGroup
                    THEN job'[k].owner # canary'[j].node
                    ELSE ~(/\ job'[k].owner \in Nodes
                           /\ node'[job'[k].owner].group = node'[canary'[j].node].group)
  BY DEF CanaryAlone, Domain, Members
<1> DEFINE c == canary[j].node
           n == job[k].owner
<1>1. canary'[j] = canary[j] /\ node'[c].group = node[c].group  BY DEF Reservations
<1>2. /\ job[k].live /\ k \notin exempt
      /\ job'[k].owner = n /\ node'[n].group = node[n].group
  BY DEF Calm
<1>3. canary[j].node # NoNode /\ ~canary[j].moved  BY <1>1
<1>4. n \notin Domain(c)  BY <1>2, <1>3 DEF CanaryAlone
<1>5. n \in Nodes
  <2>1. job[k] \in Rows  BY DEF RelayTypes
  <2> QED  BY <1>2, <2>1 DEF LeaseOK, Rows
<1> HIDE DEF c, n
<1>6. IF node[c].group = NoGroup THEN n # c ELSE node[n].group # node[c].group
  BY <1>4, <1>5 DEF Domain, Members
<1>7. canary'[j].node = c  BY <1>1 DEF c
<1> QED  BY <1>1, <1>2, <1>6, <1>7

-----------------------------------------------------------------------------
(* Steps that change one job.                                              *)

\* The queue of pending jobs after one job was added at its end.
LEMMA QueueAppended ==
  ASSUME RelayTypes, QueuedOnce, NEW j \in Jobs, job[j].st # "pending",
         due' = Append(due, j), job'[j].st = "pending",
         \A k \in Jobs : k # j => job'[k] = job[k]
  PROVE  due' \in Seq(Jobs) /\ QueuedOnce'
<1>1. due \in Seq(Jobs) /\ Len(due) \in Nat /\ DOMAIN due = 1..Len(due)  BY DEF RelayTypes
<1>2. /\ due' \in Seq(Jobs) /\ DOMAIN due' = 1..(Len(due) + 1)
      /\ due'[Len(due) + 1] = j /\ \A i \in 1..Len(due) : due'[i] = due[i]
  BY <1>1
<1>3. \A i \in DOMAIN due : due[i] \in Jobs /\ due[i] # j /\ job[due[i]].st = "pending"
  BY <1>1 DEF QueuedOnce
<1>4. ASSUME NEW i \in DOMAIN due'
      PROVE  /\ \/ i = Len(due) + 1 /\ due'[i] = j
                \/ i \in DOMAIN due /\ due'[i] = due[i] /\ due'[i] # j
             /\ job'[due'[i]].st = "pending"
  <2>1. CASE i = Len(due) + 1  BY <1>2, <2>1
  <2>2. CASE i \in DOMAIN due  BY <1>1, <1>2, <1>3, <2>2
  <2> QED  BY <1>1, <1>2, <2>1, <2>2
<1>5. \A i, k \in DOMAIN due' : due'[i] = due'[k] => i = k
  <2> SUFFICES ASSUME NEW i \in DOMAIN due', NEW k \in DOMAIN due', due'[i] = due'[k] PROVE i = k
    OBVIOUS
  <2> QED  BY <1>4 DEF QueuedOnce
<1>6. ASSUME NEW k \in Jobs, job'[k].st = "pending" PROVE \E i \in DOMAIN due' : due'[i] = k
  <2>1. CASE k = j
    <3>1. Len(due) + 1 \in DOMAIN due'  BY <1>1, <1>2
    <3> QED  BY <1>2, <2>1, <3>1
  <2>2. CASE k # j
    <3>1. PICK i \in DOMAIN due : due[i] = k  BY <1>6, <2>2 DEF QueuedOnce
    <3>2. i \in DOMAIN due' /\ due'[i] = k  BY <1>1, <1>2, <3>1
    <3> QED  BY <3>2
  <2> QED  BY <2>1, <2>2
<1> QED  BY <1>2, <1>4, <1>5, <1>6 DEF QueuedOnce

\* A step of one job that leases nothing: its row, its place in the queue, its marks.
LEMMA RowKeeps ==
  ASSUME RelayInv, NEW j \in Jobs, NEW row \in Rows, job' = [job EXCEPT ![j] = row],
         UNCHANGED <<node, max, canary, ops>>,
         row.st = "leased" <=> row.owner # NoNode,
         row.st = "leased" => job[j].st = "leased" /\ row.owner = job[j].owner,
         row.live \/ j \in beat' \/ j \in exempt' => row.st = "leased",
         row.live /\ j \notin exempt' => job[j].live /\ j \notin exempt,
         row.tries <= MaxTries[j],
         row.st = "pending" \/ (row.st = "leased" /\ ~row.live) => row.tries < MaxTries[j],
         beat' \subseteq beat,
         exempt \ {j} \subseteq exempt', exempt' \subseteq exempt \cup {j},
         \/ due' = due /\ (row.st = "pending" <=> job[j].st = "pending")
         \/ due' = Append(due, j) /\ row.st = "pending" /\ job[j].st # "pending"
  PROVE  RelayInv'
<1>1. RelayTypes /\ LeaseOK /\ TriesLeft /\ QueuedOnce /\ OwnerServes /\ CapacityHeld /\ CanaryAlone
  BY DEF RelayInv
<1>2. /\ job' \in [Jobs -> Rows] /\ job'[j] = row
      /\ \A k \in Jobs : k # j => job'[k] = job[k]
  BY <1>1 DEF RelayTypes
<1>3. /\ due' \in Seq(Jobs) /\ QueuedOnce'
  <2>1. CASE due' = due /\ (row.st = "pending" <=> job[j].st = "pending")
    <3>1. \A k \in Jobs : job'[k].st = "pending" <=> job[k].st = "pending"  BY <1>2, <2>1
    <3>2. due \in Seq(Jobs)  BY <1>1 DEF RelayTypes
    <3>3. \A i \in DOMAIN due : due[i] \in Jobs  BY <3>2
    <3> QED  BY <1>1, <2>1, <3>1, <3>2, <3>3 DEF QueuedOnce
  <2>2. CASE due' = Append(due, j) /\ row.st = "pending" /\ job[j].st # "pending"
    <3>1. job'[j].st = "pending" /\ job[j].st # "pending" /\ due' = Append(due, j)  BY <1>2, <2>2
    <3> QED  BY <1>1, <1>2, <3>1, QueueAppended
  <2> QED  BY <2>1, <2>2
<1>4. RelayTypes'  BY <1>1, <1>2, <1>3 DEF RelayTypes
<1>5. LeaseOK'  BY <1>1, <1>2 DEF LeaseOK
<1>6. TriesLeft'  BY <1>1, <1>2 DEF TriesLeft
<1>7. OwnerServes'  BY <1>1, <1>2 DEF OwnerServes
<1>8. Calm
  <2> SUFFICES ASSUME NEW k \in Jobs, job'[k].live, k \notin exempt'
               PROVE  /\ job[k].live /\ k \notin exempt /\ job'[k].owner = job[k].owner
                      /\ node'[job[k].owner].group = node[job[k].owner].group
    BY DEF Calm
  <2>1. CASE k = j  BY <1>2, <2>1
  <2>2. CASE k # j  BY <1>2, <2>2
  <2> QED  BY <2>1, <2>2
<1>9. Limits /\ Reservations  BY <1>1 DEF Limits, Reservations, RelayTypes
<1>10. CapacityHeld' /\ CanaryAlone'  BY <1>1, <1>4, <1>8, <1>9, CapacityKeeps, CanaryKeeps
<1> QED  BY <1>3, <1>4, <1>5, <1>6, <1>7, <1>10 DEF RelayInv

-----------------------------------------------------------------------------
(* Steps that change computers, caps, marks and reservations.              *)

\* A step that leaves the jobs and the queue alone.
LEMMA NodeKeeps ==
  ASSUME RelayInv, RelayTypes', UNCHANGED <<job, due>>,
         \A j \in beat' \cup exempt' : job[j].st = "leased",
         Calm, Limits, Reservations,
         \A n \in Nodes : node[n].active \/ ~node[n].token => node'[n].active \/ ~node'[n].token
  PROVE  RelayInv'
<1>1. RelayTypes /\ LeaseOK /\ TriesLeft /\ QueuedOnce /\ OwnerServes /\ CapacityHeld /\ CanaryAlone
  BY DEF RelayInv
<1>2. LeaseOK'
  <2>1. \A j \in Jobs : job[j].live => job[j].st = "leased"  BY <1>1 DEF LeaseOK
  <2> QED  BY <1>1, <2>1 DEF LeaseOK
<1>3. TriesLeft' /\ QueuedOnce'  BY <1>1 DEF TriesLeft, QueuedOnce
<1>4. OwnerServes'
  <2>1. \A j \in Jobs : job[j].st = "leased" => job[j].owner \in Nodes
    <3>1. \A j \in Jobs : job[j] \in Rows  BY <1>1 DEF RelayTypes
    <3> QED  BY <1>1, <3>1 DEF LeaseOK, Rows
  <2> QED  BY <1>1, <2>1 DEF OwnerServes
<1>5. CapacityHeld' /\ CanaryAlone'  BY <1>1, CapacityKeeps, CanaryKeeps
<1> QED  BY <1>2, <1>3, <1>4, <1>5 DEF RelayInv

-----------------------------------------------------------------------------
(* One lemma per kind of step.                                             *)

\* Opening a window, a heartbeat, the end of a lease, the passing of a turn.
LEMMA JobSteps ==
  ASSUME RelayInv, NEW j \in Jobs,
         \/ Open(j) \/ BeatCommit(j) \/ Expire(j) \/ Reclaim(j) \/ Complete(j) \/ Fail(j)
         \/ Surrender(j, TRUE) \/ Surrender(j, FALSE) \/ TurnPasses(j) \/ HandoffEnds(j)
  PROVE  RelayInv'
<1> DEFINE old == job[j]
<1>1. RelayTypes /\ LeaseOK /\ TriesLeft  BY DEF RelayInv
<1>2. /\ old \in Rows
      /\ old.st = "leased" <=> old.owner # NoNode
      /\ old.live \/ j \in beat \/ j \in exempt => old.st = "leased"
      /\ old.tries <= MaxTries[j]
      /\ old.st = "pending" \/ (old.st = "leased" /\ ~old.live) => old.tries < MaxTries[j]
  BY <1>1 DEF RelayTypes, LeaseOK, TriesLeft
<1>3. 0 < MaxTries[j] /\ MaxTries[j] \in Nat /\ MaxRuns \in Nat  BY RelayAssumption
<1>4. ASSUME NEW row \in Rows, Release(j, row), row.st \in {"pending", "closed"},
             row.owner = NoNode, ~row.live, old.st = "leased",
             row.tries <= MaxTries[j], row.st = "pending" => row.tries < MaxTries[j]
      PROVE  RelayInv'
  <2>1. /\ job' = [job EXCEPT ![j] = row]
        /\ due' = IF row.st = "pending" THEN Append(due, j) ELSE due
        /\ beat' = beat \ {j} /\ exempt' = exempt \ {j}
        /\ UNCHANGED <<node, max, canary, ops>>
    BY <1>4 DEF Release
  <2>2. \/ due' = due /\ (row.st = "pending" <=> job[j].st = "pending")
        \/ due' = Append(due, j) /\ row.st = "pending" /\ job[j].st # "pending"
    BY <1>4, <2>1
  <2>3. /\ row.st = "leased" <=> row.owner # NoNode
        /\ row.st # "leased" /\ ~row.live /\ j \notin beat' /\ j \notin exempt'
    BY <1>4, <2>1
  <2>4. beat' \subseteq beat /\ exempt \ {j} \subseteq exempt' /\ exempt' \subseteq exempt \cup {j}
    BY <2>1
  <2> QED  BY <1>4, <2>1, <2>2, <2>3, <2>4, RowKeeps
<1>5. CASE Open(j)
  <2>1. ASSUME NEW row \in Rows, job' = [job EXCEPT ![j] = row], row.st = "pending",
               row.owner = old.owner, row.live = old.live, row.tries = 0,
               old.st # "pending", old.st # "leased"
        PROVE  RelayInv'
    <3>1. /\ due' = Append(due, j)
          /\ UNCHANGED <<node, max, canary, ops>> /\ beat' = beat /\ exempt' = exempt
      BY <1>5 DEF Open
    <3>2. old.owner = NoNode /\ ~old.live /\ j \notin beat /\ j \notin exempt  BY <1>2, <2>1
    <3>3. row.tries <= MaxTries[j] /\ row.tries < MaxTries[j]  BY <1>3, <2>1
    <3> QED  BY <3>3, <2>1, <3>1, <3>2, RowKeeps
  <2>2. 0 \in 0..3 /\ {} \in SUBSET Nodes  OBVIOUS
  <2>3. CASE /\ old.st = "closed" /\ old.runs < MaxRuns
             /\ job' = [job EXCEPT ![j] = [old EXCEPT !.st = "pending", !.turn = 0, !.failed = {},
                                               !.held = NoNode, !.runs = old.runs + 1, !.tries = 0]]
    <3>1. PICK runs : runs = old.runs + 1  OBVIOUS
    <3>2. runs \in 0..MaxRuns  BY <1>2, <1>3, <2>3, <3>1 DEF Rows
    <3>3. PICK row : row = [old EXCEPT !.st = "pending", !.turn = 0, !.failed = {},
                                      !.held = NoNode, !.runs = old.runs + 1, !.tries = 0]
      OBVIOUS
    <3>4. row \in Rows
      <4>1. row = [old EXCEPT !.st = "pending", !.turn = 0, !.failed = {},
                              !.held = NoNode, !.runs = runs, !.tries = 0]
        BY <3>1, <3>3
      <4> QED  BY <1>2, <1>3, <2>2, <3>2, <4>1 DEF Rows
    <3>5. /\ row.st = "pending" /\ row.owner = old.owner /\ row.live = old.live
          /\ row.tries = 0
      BY <1>2, <3>3 DEF Rows
    <3>6. job' = [job EXCEPT ![j] = row]  BY <2>3, <3>3, Zenon
    <3> QED  BY <2>1, <2>3, <3>4, <3>5, <3>6
  <2>4. CASE /\ old.st = "canceled"
             /\ job' = [job EXCEPT ![j] = [old EXCEPT !.st = "pending", !.turn = 0, !.tries = 0]]
    <3>1. PICK row : row = [old EXCEPT !.st = "pending", !.turn = 0, !.tries = 0]
      OBVIOUS
    <3>2. row \in Rows  BY <1>2, <1>3, <2>2, <3>1 DEF Rows
    <3>3. /\ row.st = "pending" /\ row.owner = old.owner /\ row.live = old.live
          /\ row.tries = 0
      BY <1>2, <3>1 DEF Rows
    <3>4. job' = [job EXCEPT ![j] = row]  BY <2>4, <3>1, Zenon
    <3> QED  BY <2>1, <2>4, <3>2, <3>3, <3>4
  <2>5. \/ /\ old.st = "closed" /\ old.runs < MaxRuns
           /\ job' = [job EXCEPT ![j] = [old EXCEPT !.st = "pending", !.turn = 0, !.failed = {},
                                             !.held = NoNode, !.runs = old.runs + 1, !.tries = 0]]
        \/ /\ old.st = "canceled"
           /\ job' = [job EXCEPT ![j] = [old EXCEPT !.st = "pending", !.turn = 0, !.tries = 0]]
    BY <1>5, Zenon DEF Open
  <2> QED  BY <2>3, <2>4, <2>5
<1>6. CASE BeatCommit(j)
  <2>1. PICK row : row = [old EXCEPT !.live = TRUE]  OBVIOUS
  <2>2. /\ j \in beat /\ beat' = beat \ {j} /\ job' = [job EXCEPT ![j] = row]
        /\ exempt' = IF job[j].live THEN exempt ELSE exempt \cup {j}
        /\ UNCHANGED <<node, max, due, canary, ops>>
    BY <1>6, <2>1 DEF BeatCommit
  <2>3. row \in Rows /\ row.st = old.st /\ row.owner = old.owner /\ row.live /\ row.tries = old.tries
    BY <1>2, <2>1 DEF Rows
  <2>4. old.st = "leased"  BY <1>2, <2>2
  <2>5. /\ exempt \ {j} \subseteq exempt' /\ exempt' \subseteq exempt \cup {j}
        /\ j \notin exempt' => job[j].live /\ j \notin exempt
    BY <2>2
  <2> QED  BY <1>2, <2>2, <2>3, <2>4, <2>5, RowKeeps
<1>7. CASE Expire(j)
  <2>1. PICK row : row = [old EXCEPT !.live = FALSE]  OBVIOUS
  <2>2. /\ job[j].live /\ job[j].tries < MaxTries[j] /\ job' = [job EXCEPT ![j] = row]
        /\ UNCHANGED <<node, max, due, beat, canary, exempt, ops>>
    BY <1>7, <2>1 DEF Expire, MayTryAgain
  <2>3. row \in Rows /\ row.st = old.st /\ row.owner = old.owner /\ ~row.live /\ row.tries = old.tries
    BY <1>2, <2>1 DEF Rows
  <2> QED  BY <1>2, <2>2, <2>3, RowKeeps
<1>8. CASE Reclaim(j)
  <2>1. PICK row : row = [Released(old, "pending") EXCEPT !.turn = 0]  OBVIOUS
  <2>2. /\ row \in Rows /\ row.st = "pending" /\ row.owner = NoNode /\ ~row.live
        /\ row.tries = old.tries
    <3>1. PICK freed : freed = Released(old, "pending")  OBVIOUS
    <3>2. /\ freed \in Rows /\ freed.st = "pending" /\ freed.owner = NoNode /\ ~freed.live
          /\ freed.tries = old.tries
      BY <1>2, <3>1 DEF Rows, Released
    <3>3. row = [freed EXCEPT !.turn = 0] /\ 0 \in 0..3  BY <2>1, <3>1
    <3> QED  BY <3>2, <3>3 DEF Rows
  <2>3. Release(j, row) /\ old.st = "leased" /\ ~old.live  BY <1>8, <2>1 DEF Reclaim
  <2> QED  BY <1>2, <1>4, <2>2, <2>3
<1>9. CASE Complete(j)
  <2>1. PICK row : row = [Released(old, "closed") EXCEPT !.home = old.owner]  OBVIOUS
  <2>2. /\ row \in Rows /\ row.st = "closed" /\ row.owner = NoNode /\ ~row.live
        /\ row.tries = old.tries
    BY <1>2, <2>1 DEF Rows, Released
  <2>3. Release(j, row) /\ old.live  BY <1>9, <2>1 DEF Complete
  <2> QED  BY <1>2, <1>4, <2>2, <2>3
<1>10. CASE Fail(j)
  <2>1. PICK st \in {"pending", "closed"} :
          old.live /\ (st = "pending" => old.tries < MaxTries[j]) /\ Release(j, Released(old, st))
    BY <1>10 DEF Fail, MayTryAgain
  <2>2. PICK row : row = Released(old, st)  OBVIOUS
  <2>3. /\ row \in Rows /\ row.st = st /\ row.owner = NoNode /\ ~row.live /\ row.tries = old.tries
    BY <1>2, <2>2 DEF Rows, Released
  <2>4. Release(j, row)  BY <2>1, <2>2
  <2> QED  BY <1>2, <1>4, <2>1, <2>3, <2>4
<1>11. ASSUME NEW np \in BOOLEAN, Surrender(j, np) PROVE RelayInv'
  <2>1. PICK row : row = [Released(old, "pending") EXCEPT
                            !.turn = 0, !.held = old.owner,
                            !.failed = IF np THEN @ \cup {old.owner} ELSE @]
    OBVIOUS
  <2>2. old.live /\ old.tries < MaxTries[j] /\ Release(j, row)
    BY <1>11, <2>1 DEF Surrender, MayTryAgain
  <2>3. old.owner \in Nodes  BY <1>2, <2>2 DEF Rows
  <2>4. old.failed \cup {old.owner} \in SUBSET Nodes /\ old.failed \in SUBSET Nodes
    BY <1>2, <2>3 DEF Rows
  <2>5. /\ row \in Rows /\ row.st = "pending" /\ row.owner = NoNode /\ ~row.live
        /\ row.tries = old.tries
    <3>1. PICK freed : freed = Released(old, "pending")  OBVIOUS
    <3>2. /\ freed \in Rows /\ freed.st = "pending" /\ freed.owner = NoNode /\ ~freed.live
          /\ freed.tries = old.tries /\ freed.failed = old.failed
      BY <1>2, <3>1 DEF Rows, Released
    <3>3. PICK who \in SUBSET Nodes :
            row = [freed EXCEPT !.turn = 0, !.held = old.owner, !.failed = who]
      BY <2>1, <2>4, <3>1, <3>2
    <3>4. 0 \in 0..3  OBVIOUS
    <3> QED  BY <2>3, <3>2, <3>3, <3>4 DEF Rows
  <2> QED  BY <1>2, <1>4, <2>2, <2>5
<1>12. CASE TurnPasses(j)
  <2>1. PICK row : row = [old EXCEPT !.turn = @ + 1]  OBVIOUS
  <2>2. /\ job[j].st = "pending" /\ old.turn \in {1, 2} /\ job' = [job EXCEPT ![j] = row]
        /\ UNCHANGED <<node, max, due, beat, canary, exempt, ops>>
    BY <1>12, <2>1 DEF TurnPasses
  <2>3. old.turn + 1 \in 0..3  BY <2>2
  <2>4. row \in Rows /\ row.st = old.st /\ row.owner = old.owner /\ row.live = old.live /\ row.tries = old.tries
    BY <1>2, <2>1, <2>3 DEF Rows
  <2> QED  BY <1>2, <2>2, <2>4, RowKeeps
<1>13. CASE HandoffEnds(j)
  <2>1. PICK row : row = [old EXCEPT !.held = NoNode]  OBVIOUS
  <2>2. /\ job[j].st = "pending" /\ job' = [job EXCEPT ![j] = row]
        /\ UNCHANGED <<node, max, due, beat, canary, exempt, ops>>
    BY <1>13, <2>1 DEF HandoffEnds
  <2>3. row \in Rows /\ row.st = old.st /\ row.owner = old.owner /\ row.live = old.live /\ row.tries = old.tries
    BY <1>2, <2>1 DEF Rows
  <2> QED  BY <1>2, <2>2, <2>3, RowKeeps
<1> QED  BY <1>5, <1>6, <1>7, <1>8, <1>9, <1>10, <1>11, <1>12, <1>13

\* A node's heartbeats and enrolments, moves, caps, and the end of a reservation.
LEMMA NodeSteps ==
  ASSUME RelayInv,
         \/ \E n \in Nodes : \/ NodeBeat(n) \/ Quiet(n) \/ Enable(n) \/ Enroll(n) \/ Remove(n)
                             \/ \E g \in Groups \cup {NoGroup} : SetGroup(n, g)
         \/ \E g \in Groups, m \in 1..2 : SetMax(g, m)
         \/ \E j \in Jobs : BeatBegin(j) \/ CanaryEnd(j)
  PROVE  RelayInv'
<1>1. RelayTypes /\ LeaseOK  BY DEF RelayInv
<1>2. /\ \A j \in beat \cup exempt : job[j].st = "leased"
      /\ \A j \in Jobs : job[j].live => job[j].st = "leased" /\ job[j].owner \in Nodes
  <2>1. \A j \in Jobs : job[j] \in Rows  BY <1>1 DEF RelayTypes
  <2> QED  BY <1>1, <2>1 DEF LeaseOK, RelayTypes, Rows
<1>3. MaxOps \in Nat  BY RelayAssumption
<1>4. ASSUME NEW n \in Nodes, NEW c \in Computers, node' = [node EXCEPT ![n] = c],
             c.group = node[n].group,
             node[n].active \/ ~node[n].token => c.active \/ ~c.token,
             UNCHANGED <<max, job, due, beat, canary, exempt, ops>>
      PROVE  RelayInv'
  <2>1. /\ node' \in [Nodes -> Computers] /\ node'[n] = c
        /\ \A m \in Nodes : m # n => node'[m] = node[m]
    BY <1>1, <1>4 DEF RelayTypes
  <2>2. \A m \in Nodes : node'[m].group = node[m].group  BY <1>4, <2>1
  <2>3. RelayTypes'  BY <1>1, <1>4, <2>1 DEF RelayTypes
  <2>4. Calm  BY <1>2, <1>4, <2>2 DEF Calm
  <2>5. Limits  BY <1>1, <1>4 DEF Limits, RelayTypes
  <2>6. Reservations
    <3>1. \A j \in Jobs : canary[j] \in Canaries  BY <1>1 DEF RelayTypes
    <3> QED  BY <1>4, <2>2, <3>1 DEF Reservations, Canaries
  <2>7. \A m \in Nodes : node[m].active \/ ~node[m].token => node'[m].active \/ ~node'[m].token
    BY <1>4, <2>1
  <2> QED  BY <1>2, <1>4, <2>3, <2>4, <2>5, <2>6, <2>7, NodeKeeps
<1>5. ASSUME NEW n \in Nodes, NodeBeat(n) \/ Quiet(n) \/ Enable(n) \/ Enroll(n) PROVE RelayInv'
  <2>1. node[n] \in Computers  BY <1>1 DEF RelayTypes
  <2>2. PICK c : /\ \/ c = [node[n] EXCEPT !.online = TRUE]
                    \/ c = [node[n] EXCEPT !.online = FALSE]
                    \/ c = [node[n] EXCEPT !.active = TRUE]
                    \/ c = [node[n] EXCEPT !.active = TRUE, !.token = TRUE, !.online = TRUE]
                 /\ node' = [node EXCEPT ![n] = c]
    BY <1>5 DEF NodeBeat, Quiet, Enable, Enroll
  <2>3. /\ c \in Computers /\ c.group = node[n].group
        /\ node[n].active \/ ~node[n].token => c.active \/ ~c.token
    BY <2>1, <2>2 DEF Computers
  <2>4. UNCHANGED <<max, job, due, beat, canary, exempt, ops>>
    BY <1>5 DEF NodeBeat, Quiet, Enable, Enroll
  <2> QED  BY <1>4, <2>2, <2>3, <2>4
<1>6. ASSUME NEW n \in Nodes, NEW c \in Computers, node' = [node EXCEPT ![n] = c],
             canary' = Moved(n),
             node[n].active \/ ~node[n].token => c.active \/ ~c.token,
             LiveOf(n) = {} \/ c.group = node[n].group \/ LiveOf(n) \subseteq exempt',
             exempt \subseteq exempt', exempt' \subseteq exempt \cup LiveOf(n),
             UNCHANGED <<max, job, due, beat>>, Owner
      PROVE  RelayInv'
  <2>1. /\ node' \in [Nodes -> Computers] /\ node'[n] = c
        /\ \A m \in Nodes : m # n => node'[m] = node[m]
    BY <1>1, <1>6 DEF RelayTypes
  <2>2. /\ canary' \in [Jobs -> Canaries]
        /\ \A j \in Jobs : canary'[j].node # NoNode /\ ~canary'[j].moved =>
                             canary'[j] = canary[j] /\ canary[j].node # n
    <3>1. \A j \in Jobs : canary[j] \in Canaries  BY <1>1 DEF RelayTypes
    <3>2. ASSUME NEW j \in Jobs
          PROVE  /\ canary'[j] \in Canaries
                 /\ \/ canary[j].node # n /\ canary'[j] = canary[j]
                    \/ canary'[j].moved
      <4>1. canary'[j] = IF canary[j].node = n THEN [canary[j] EXCEPT !.moved = TRUE] ELSE canary[j]
        BY <1>6 DEF Moved
      <4> QED  BY <3>1, <4>1 DEF Canaries
    <3>3. canary' = [j \in Jobs |-> canary'[j]]  BY <1>6 DEF Moved
    <3> QED  BY <3>2, <3>3
  <2>3. LiveOf(n) \subseteq {j \in Jobs : job[j].st = "leased"}  BY <1>2 DEF LiveOf
  <2>4. ops' \in 0..MaxOps  BY <1>1, <1>3, <1>6 DEF RelayTypes, Owner
  <2>5. RelayTypes'  BY <1>1, <1>6, <2>1, <2>2, <2>3, <2>4 DEF RelayTypes
  <2>6. Calm
    <3> SUFFICES ASSUME NEW j \in Jobs, job'[j].live, j \notin exempt'
                 PROVE  /\ job[j].live /\ j \notin exempt /\ job'[j].owner = job[j].owner
                        /\ node'[job[j].owner].group = node[job[j].owner].group
      BY DEF Calm
    <3>1. job[j].live /\ j \notin exempt /\ job'[j].owner = job[j].owner /\ job[j].owner \in Nodes
      BY <1>2, <1>6
    <3>2. CASE job[j].owner = n  BY <1>6, <2>1, <3>1, <3>2 DEF LiveOf
    <3>3. CASE job[j].owner # n  BY <2>1, <3>1, <3>3
    <3> QED  BY <3>1, <3>2, <3>3
  <2>7. Limits  BY <1>1, <1>6 DEF Limits, RelayTypes
  <2>8. Reservations
    <3>1. \A j \in Jobs : canary[j] \in Canaries  BY <1>1 DEF RelayTypes
    <3> QED  BY <2>1, <2>2, <3>1 DEF Reservations, Canaries
  <2>9. \A m \in Nodes : node[m].active \/ ~node[m].token => node'[m].active \/ ~node'[m].token
    BY <1>6, <2>1
  <2>10. \A j \in beat' \cup exempt' : job[j].st = "leased"  BY <1>2, <1>6, <2>3
  <2> QED  BY <1>6, <2>5, <2>6, <2>7, <2>8, <2>9, <2>10, NodeKeeps
<1>7. ASSUME NEW n \in Nodes, Remove(n) PROVE RelayInv'
  <2>1. node[n] \in Computers  BY <1>1 DEF RelayTypes
  <2>2. PICK c : c = [node[n] EXCEPT !.active = FALSE, !.token = FALSE, !.group = NoGroup]
    OBVIOUS
  <2>3. c \in Computers /\ ~c.token /\ c.group = NoGroup  BY <2>1, <2>2 DEF Computers
  <2>4. /\ Owner /\ canary' = Moved(n)
        /\ UNCHANGED <<max, job, due, beat, exempt>>
        /\ LiveOf(n) = {} \/ node[n].group = NoGroup
    BY <1>7 DEF Remove, MayMove
  <2>5. node' = [node EXCEPT ![n] = c]  BY <1>7, <2>2 DEF Remove
  <2> QED  BY <1>6, <2>3, <2>4, <2>5
<1>8. ASSUME NEW n \in Nodes, NEW g \in Groups \cup {NoGroup}, SetGroup(n, g) PROVE RelayInv'
  <2>1. node[n] \in Computers  BY <1>1 DEF RelayTypes
  <2>2. PICK c : c = [node[n] EXCEPT !.group = g]  OBVIOUS
  <2>3. c \in Computers /\ c.active = node[n].active /\ c.token = node[n].token /\ c.group = g
    BY <2>1, <2>2 DEF Computers
  <2>4. /\ Owner /\ canary' = Moved(n) /\ UNCHANGED <<max, job, due, beat>>
        /\ exempt' = IF node[n].group = NoGroup THEN exempt \cup LiveOf(n) ELSE exempt
        /\ LiveOf(n) = {} \/ node[n].group \in {NoGroup, g}
    BY <1>8 DEF SetGroup, MayMove
  <2>5. node' = [node EXCEPT ![n] = c]  BY <1>8, <2>2 DEF SetGroup
  <2>6. /\ LiveOf(n) = {} \/ c.group = node[n].group \/ LiveOf(n) \subseteq exempt'
        /\ exempt \subseteq exempt' /\ exempt' \subseteq exempt \cup LiveOf(n)
    BY <2>3, <2>4
  <2> QED  BY <1>6, <2>3, <2>4, <2>5, <2>6
<1>9. ASSUME NEW g \in Groups, NEW m \in 1..2, SetMax(g, m) PROVE RelayInv'
  <2>1. /\ Owner /\ max' = [max EXCEPT ![g] = m]
        /\ exempt' = IF m < max[g] THEN exempt \cup LiveIn(g) ELSE exempt
        /\ UNCHANGED <<node, job, due, beat, canary>>
    BY <1>9 DEF SetMax
  <2>2. /\ max' \in [Groups -> Nat] /\ max'[g] = m /\ m \in Nat
        /\ \A h \in Groups : h # g => max'[h] = max[h]
    BY <1>1, <2>1 DEF RelayTypes
  <2>3. LiveIn(g) = {j \in Jobs : job[j].live /\ job[j].owner \in Members(g)}
    BY DEF LiveIn, LiveOf
  <2>4. exempt' \subseteq Jobs /\ \A j \in beat' \cup exempt' : job[j].st = "leased"
    BY <1>1, <1>2, <2>1, <2>3 DEF RelayTypes
  <2>5. ops' \in 0..MaxOps  BY <1>1, <1>3, <2>1 DEF RelayTypes, Owner
  <2>6. RelayTypes'  BY <1>1, <2>1, <2>2, <2>4, <2>5 DEF RelayTypes
  <2>7. Calm  BY <2>1 DEF Calm
  <2>8. Limits
    <3> SUFFICES ASSUME NEW h \in Groups, ~(max[h] <= max'[h])
                 PROVE  \A j \in Jobs : job'[j].live /\ node'[job'[j].owner].group = h => j \in exempt'
      BY DEF Limits
    <3>1. max[h] \in Nat  BY <1>1 DEF RelayTypes
    <3>2. h = g /\ m < max[g]  BY <2>2, <3>1
    <3> QED  BY <1>2, <2>1, <2>3, <3>2 DEF Members
  <2>9. Reservations  BY <2>1 DEF Reservations
  <2> QED  BY <2>1, <2>4, <2>6, <2>7, <2>8, <2>9, NodeKeeps
<1>10. ASSUME NEW j \in Jobs, BeatBegin(j) PROVE RelayInv'
  <2>1. job[j].live /\ beat' = beat \cup {j} /\ UNCHANGED <<node, max, job, due, canary, exempt, ops>>
    BY <1>10 DEF BeatBegin
  <2>2. RelayTypes' /\ Calm /\ Limits /\ Reservations
    BY <1>1, <2>1 DEF RelayTypes, Calm, Limits, Reservations
  <2> QED  BY <1>2, <2>1, <2>2, NodeKeeps
<1>11. ASSUME NEW j \in Jobs, CanaryEnd(j) PROVE RelayInv'
  <2>1. canary' = [canary EXCEPT ![j] = NoCanary] /\ UNCHANGED <<node, max, job, due, beat, exempt, ops>>
    BY <1>11 DEF CanaryEnd
  <2>2. NoCanary \in Canaries /\ NoCanary.node = NoNode  BY DEF NoCanary, Canaries
  <2>3. RelayTypes' /\ Calm /\ Limits
    BY <1>1, <2>1, <2>2 DEF RelayTypes, Calm, Limits
  <2>4. Reservations  BY <1>1, <2>1, <2>2 DEF Reservations, RelayTypes
  <2> QED  BY <1>2, <2>1, <2>3, <2>4, NodeKeeps
<1> QED  BY <1>5, <1>7, <1>8, <1>9, <1>10, <1>11

\* Disabling a computer ends its leases, live or not.
LEMMA DisableStep ==
  ASSUME RelayInv, NEW n \in Nodes, Disable(n)
  PROVE  RelayInv'
<1>1. RelayTypes /\ LeaseOK /\ TriesLeft /\ QueuedOnce /\ OwnerServes /\ CapacityHeld /\ CanaryAlone
  BY DEF RelayInv
<1>2. /\ Owner /\ node' = [node EXCEPT ![n].active = FALSE]
      /\ job' = [j \in Jobs |-> IF job[j].owner = n THEN Released(job[j], "canceled") ELSE job[j]]
      /\ beat' = beat \ CanceledWith(n) /\ exempt' = exempt \ CanceledWith(n)
      /\ UNCHANGED <<max, due, canary>>
  BY DEF Disable, CanceledWith
<1>3. \A j \in Jobs : job[j] \in Rows  BY <1>1 DEF RelayTypes
<1>4. ASSUME NEW j \in Jobs, job[j].owner = n
      PROVE  /\ job'[j] \in Rows /\ job'[j].st = "canceled" /\ job'[j].owner = NoNode
             /\ job'[j].tries = job[j].tries
             /\ ~job'[j].live /\ job[j].st = "leased" /\ j \notin beat' /\ j \notin exempt'
  <2>1. job'[j] = Released(job[j], "canceled")  BY <1>2, <1>4
  <2>2. job[j] \in Rows  BY <1>3
  <2>3. job[j].st = "leased"  BY <1>1, <1>4, RelayAssumption DEF LeaseOK
  <2>4. j \notin beat' /\ j \notin exempt'  BY <1>2, <1>4 DEF CanceledWith
  <2> QED  BY <2>1, <2>2, <2>3, <2>4 DEF Released, Rows
<1>5. ASSUME NEW j \in Jobs, job[j].owner # n
      PROVE  /\ job'[j] = job[j]
             /\ j \in beat' => j \in beat /\ (j \in exempt' <=> j \in exempt)
  BY <1>2, <1>5 DEF CanceledWith
<1>6. job' \in [Jobs -> Rows]
  <2>1. \A j \in Jobs : job'[j] \in Rows  BY <1>3, <1>4, <1>5
  <2> QED  BY <1>2, <2>1
<1>7. /\ node' \in [Nodes -> Computers]
      /\ \A m \in Nodes : node'[m].group = node[m].group /\ node'[m].token = node[m].token
      /\ \A m \in Nodes : m # n => node'[m] = node[m]
  <2>1. node[n] \in Computers  BY <1>1 DEF RelayTypes
  <2>2. PICK c : c = [node[n] EXCEPT !.active = FALSE]  OBVIOUS
  <2>3. c \in Computers /\ c.group = node[n].group /\ c.token = node[n].token
    BY <2>1, <2>2 DEF Computers
  <2>4. node' = [node EXCEPT ![n] = c]  BY <1>2, <2>2
  <2> QED  BY <1>1, <2>3, <2>4 DEF RelayTypes
<1>8. MaxOps \in Nat  BY RelayAssumption
<1>9. RelayTypes'
  <2>1. ops' \in 0..MaxOps  BY <1>1, <1>2, <1>8 DEF RelayTypes, Owner
  <2> QED  BY <1>1, <1>2, <1>6, <1>7, <2>1 DEF RelayTypes
<1>10. LeaseOK' /\ TriesLeft'
  <2>1. \A j \in Jobs : j \in beat' \cup exempt' => j \in beat \cup exempt  BY <1>2
  <2> QED  BY <1>1, <1>4, <1>5, <2>1 DEF LeaseOK, TriesLeft
<1>11. QueuedOnce'
  <2>1. \A j \in Jobs : job'[j].st = "pending" <=> job[j].st = "pending"  BY <1>4, <1>5
  <2>2. \A i \in DOMAIN due : due[i] \in Jobs  BY <1>1 DEF RelayTypes
  <2> QED  BY <1>1, <1>2, <2>1, <2>2 DEF QueuedOnce
<1>12. OwnerServes'
  <2> SUFFICES ASSUME NEW j \in Jobs, job'[j].st = "leased"
               PROVE  node'[job'[j].owner].active \/ ~node'[job'[j].owner].token
    BY DEF OwnerServes
  <2>1. job[j].owner # n /\ job'[j] = job[j]  BY <1>4, <1>5
  <2>2. job[j].owner \in Nodes  BY <1>1, <1>3, <2>1 DEF LeaseOK, Rows
  <2>3. node'[job[j].owner] = node[job[j].owner]  BY <1>7, <2>1, <2>2
  <2> QED  BY <1>1, <2>1, <2>3 DEF OwnerServes
<1>13. Calm
  <2> SUFFICES ASSUME NEW j \in Jobs, job'[j].live, j \notin exempt'
               PROVE  /\ job[j].live /\ j \notin exempt /\ job'[j].owner = job[j].owner
                      /\ node'[job[j].owner].group = node[job[j].owner].group
    BY DEF Calm
  <2>1. job[j].owner # n /\ job'[j] = job[j]  BY <1>4, <1>5
  <2>2. j \notin exempt  BY <1>2, <2>1 DEF CanceledWith
  <2>3. job[j].owner \in Nodes  BY <1>1, <1>3, <2>1 DEF LeaseOK, Rows
  <2> QED  BY <1>7, <2>1, <2>2, <2>3
<1>14. Limits  BY <1>1, <1>2 DEF Limits, RelayTypes
<1>15. Reservations
  <2>1. \A j \in Jobs : canary[j] \in Canaries  BY <1>1 DEF RelayTypes
  <2> QED  BY <1>2, <1>7, <2>1 DEF Reservations, Canaries
<1>16. CapacityHeld' /\ CanaryAlone'
  BY <1>1, <1>9, <1>13, <1>14, <1>15, CapacityKeeps, CanaryKeeps
<1> QED  BY <1>9, <1>10, <1>11, <1>12, <1>16 DEF RelayInv

\* A canary is reserved on an uplink without a live lease.
LEMMA CanaryStartStep ==
  ASSUME RelayInv, NEW n \in Nodes, NEW j \in Jobs, CanaryStart(n, j)
  PROVE  RelayInv'
<1>1. RelayTypes /\ LeaseOK /\ TriesLeft /\ QueuedOnce /\ OwnerServes /\ CapacityHeld /\ CanaryAlone
  BY DEF RelayInv
<1>2. /\ \A m \in Domain(n) : LiveOf(m) = {}
      /\ canary' = [canary EXCEPT ![j] = [node |-> n, moved |-> FALSE]]
      /\ UNCHANGED <<node, max, job, due, beat, exempt, ops>>
  BY DEF CanaryStart
<1>3. RelayTypes'  BY <1>1, <1>2 DEF RelayTypes, Canaries
<1>4. LeaseOK' /\ TriesLeft' /\ QueuedOnce' /\ OwnerServes'
  BY <1>1, <1>2 DEF LeaseOK, TriesLeft, QueuedOnce, OwnerServes
<1>5. CapacityHeld'
  BY <1>1, <1>2 DEF CapacityHeld, LiveIn, LiveOf, Members
<1>6. CanaryAlone'
  <2> SUFFICES ASSUME NEW h \in Jobs, NEW k \in Jobs,
                      canary'[h].node # NoNode, ~canary'[h].moved,
                      job[k].live, k \notin exempt
               PROVE  IF node[canary'[h].node].group = NoGroup
                      THEN job[k].owner # canary'[h].node
                      ELSE ~(/\ job[k].owner \in Nodes
                             /\ node[job[k].owner].group = node[canary'[h].node].group)
    BY <1>2 DEF CanaryAlone, Domain, Members
  <2>1. CASE h = j
    <3>1. canary'[h].node = n  BY <1>1, <1>2, <2>1 DEF RelayTypes
    <3>2. k \in LiveOf(job[k].owner)  BY DEF LiveOf
    <3>3. job[k].owner \notin Domain(n)  BY <1>2, <3>2
    <3> QED  BY <3>1, <3>3 DEF Domain, Members
  <2>2. CASE h # j
    <3>1. canary'[h] = canary[h]  BY <1>1, <1>2, <2>2 DEF RelayTypes
    <3> QED  BY <1>1, <3>1 DEF CanaryAlone, Domain, Members
  <2> QED  BY <2>1, <2>2
<1> QED  BY <1>3, <1>4, <1>5, <1>6 DEF RelayInv

\* The row of a job whose turn a poll may have started.
Turned(first, j) == IF j \in first THEN TurnStarted(job[j]) ELSE job[j]

\* What a poll of n that takes the jobs of a set does to the rows.
Polled(n, taken) ==
  /\ job' \in [Jobs -> Rows]
  /\ \A j \in Jobs \ taken :
       /\ job'[j].st = job[j].st /\ job'[j].live = job[j].live
       /\ job'[j].owner = job[j].owner /\ job'[j].tries = job[j].tries
  /\ \A j \in taken : job'[j].st = "leased" /\ job'[j].live /\ job'[j].owner = n
  /\ \A j \in taken : job'[j].tries <= MaxTries[j]

\* It may start one turn, and grants the job it takes.
LEMMA PollRows ==
  ASSUME RelayInv, NEW n \in Nodes, NEW first, NEW taken \in SUBSET Jobs,
         \A j \in taken : job[j].st = "pending" /\ job'[j] = Granted(n, Turned(first, j)),
         \A j \in Jobs \ taken : job'[j] = Turned(first, j),
         job' = [j \in Jobs |-> job'[j]]
  PROVE  Polled(n, taken)
<1>1. RelayTypes /\ TriesLeft  BY DEF RelayInv
<1>2. \A j \in Jobs : job[j] \in Rows  BY <1>1 DEF RelayTypes
<1>3. ASSUME NEW j \in Jobs
      PROVE  /\ Turned(first, j) \in Rows
             /\ Turned(first, j).st = job[j].st /\ Turned(first, j).live = job[j].live
             /\ Turned(first, j).owner = job[j].owner /\ Turned(first, j).tries = job[j].tries
  <2>1. PICK row : row = job[j]  OBVIOUS
  <2>2. row \in Rows  BY <1>2, <2>1
  <2>3. Turned(first, j) = row \/ Turned(first, j) = [row EXCEPT !.turn = 1]  BY <2>1 DEF Turned, TurnStarted
  <2>4. 1 \in 0..3  OBVIOUS
  <2> QED  BY <2>1, <2>2, <2>3, <2>4 DEF Rows
<1>4. ASSUME NEW j \in taken
      PROVE  /\ job'[j] \in Rows /\ job'[j].st = "leased" /\ job'[j].live /\ job'[j].owner = n
             /\ job'[j].tries <= MaxTries[j]
  <2>1. PICK row : row = Turned(first, j)  OBVIOUS
  <2>2. row \in Rows /\ row.tries < MaxTries[j]  BY <1>1, <1>3, <2>1 DEF TriesLeft
  <2>3. PICK tries : tries = row.tries + 1  OBVIOUS
  <2>4. tries \in Nat /\ tries <= MaxTries[j]  BY <2>2, <2>3, RelayAssumption DEF Rows
  <2>5. job'[j] = Granted(n, row)  BY <2>1
  <2>6. job'[j] = [row EXCEPT !.st = "leased", !.owner = n, !.live = TRUE, !.held = NoNode,
                              !.tries = tries]
    BY <2>3, <2>5 DEF Granted
  <2> QED  BY <2>2, <2>4, <2>6 DEF Rows
<1>5. ASSUME NEW j \in Jobs \ taken PROVE job'[j] = Turned(first, j)  OBVIOUS
<1>6. \A j \in Jobs : job'[j] \in Rows  BY <1>3, <1>4, <1>5
<1>7. job' \in [Jobs -> Rows]  BY <1>6
<1>8. ASSUME NEW j \in Jobs \ taken
      PROVE  /\ job'[j].st = job[j].st /\ job'[j].live = job[j].live
             /\ job'[j].owner = job[j].owner /\ job'[j].tries = job[j].tries
  BY <1>3, <1>5
<1> QED  BY <1>4, <1>7, <1>8 DEF Polled

\* The queue without the job that was leased.
LEMMA QueueTaken ==
  ASSUME RelayTypes, QueuedOnce, NEW j \in Jobs, job[j].st = "pending",
         due' = Without({j}), job'[j].st # "pending",
         \A k \in Jobs : k # j => job'[k].st = job[k].st
  PROVE  due' \in Seq(Jobs) /\ QueuedOnce'
<1>1. due \in Seq(Jobs) /\ \A i, k \in DOMAIN due : due[i] = due[k] => i = k
  BY DEF RelayTypes, QueuedOnce
<1>2. \E i \in DOMAIN due : due[i] = j  BY DEF QueuedOnce
<1>3. /\ due' \in Seq(Jobs)
      /\ \A k \in DOMAIN due' : due'[k] # j /\ \E i \in DOMAIN due : due[i] = due'[k]
      /\ \A k, m \in DOMAIN due' : due'[k] = due'[m] => k = m
      /\ \A i \in DOMAIN due : due[i] # j => \E k \in DOMAIN due' : due'[k] = due[i]
  BY <1>1, <1>2, QueueWithout
<1>4. \A k \in DOMAIN due' : due'[k] \in Jobs  BY <1>3
<1>5. \A k \in DOMAIN due' : job'[due'[k]].st = "pending"
  <2> SUFFICES ASSUME NEW k \in DOMAIN due' PROVE job'[due'[k]].st = "pending"  OBVIOUS
  <2>1. PICK i \in DOMAIN due : due[i] = due'[k]  BY <1>3
  <2>2. job[due[i]].st = "pending"  BY DEF QueuedOnce
  <2>3. job[due'[k]].st = "pending"  BY <2>1, <2>2
  <2>4. due'[k] \in Jobs /\ due'[k] # j  BY <1>3, <1>4
  <2> QED  BY <2>3, <2>4
<1>6. \A k \in Jobs : job'[k].st = "pending" => \E i \in DOMAIN due' : due'[i] = k
  <2> SUFFICES ASSUME NEW k \in Jobs, job'[k].st = "pending"
               PROVE  \E i \in DOMAIN due' : due'[i] = k
    OBVIOUS
  <2>1. k # j /\ job[k].st = "pending"  OBVIOUS
  <2>2. PICK i \in DOMAIN due : due[i] = k  BY <2>1 DEF QueuedOnce
  <2> QED  BY <1>3, <2>1, <2>2
<1> QED  BY <1>3, <1>5, <1>6 DEF QueuedOnce

\* A poll leases to a computer and a group with room, and clears the uplink's canaries.
LEMMA PollStep ==
  ASSUME RelayInv, NEW n \in Nodes, Poll(n)
  PROVE  RelayInv'
<1>1. RelayTypes /\ LeaseOK /\ TriesLeft /\ QueuedOnce /\ OwnerServes /\ CapacityHeld /\ CanaryAlone
  BY DEF RelayInv
<1>2. PICK first, taken : first = Oldest(Considered(n)) /\ taken = Oldest(Leasable(n))
  OBVIOUS
<1>3. /\ job' = [j \in Jobs |->
                   IF j \in taken
                   THEN Granted(n, [k \in Jobs |-> IF k \in first THEN TurnStarted(job[k]) ELSE job[k]][j])
                   ELSE [k \in Jobs |-> IF k \in first THEN TurnStarted(job[k]) ELSE job[k]][j]]
      /\ due' = Without(taken)
      /\ canary' = [j \in Jobs |-> IF taken # {} /\ j \in Outranked(n) THEN NoCanary ELSE canary[j]]
  BY <1>2, Zenon DEF Poll
<1>4. UNCHANGED <<node, max, beat, exempt, ops>>  BY DEF Poll
<1>5. due \in Seq(Jobs) /\ Considered(n) \in SUBSET Jobs /\ Leasable(n) \in SUBSET Jobs
  BY <1>1 DEF RelayTypes, Considered, Leasable
<1>6. /\ first \in SUBSET Jobs /\ taken \in SUBSET Jobs /\ taken \subseteq Leasable(n)
      /\ \A j \in taken : taken = {j}
  BY <1>2, <1>5, OldestAlone
<1>7. \A j \in taken : /\ job[j].st = "pending" /\ Serving(n)
                       /\ NodeRoom(n) /\ GroupRoom(node[n].group)
  BY <1>6 DEF Leasable
<1>8. /\ \A j \in Jobs \ taken : job'[j] = Turned(first, j)
      /\ job' = [j \in Jobs |-> job'[j]]
  BY <1>3, <1>6 DEF Turned
<1>9. \A j \in taken : job[j].st = "pending" /\ job'[j] = Granted(n, Turned(first, j))
  BY <1>3, <1>6, <1>7 DEF Turned
<1>10. /\ job' \in [Jobs -> Rows]
       /\ \A j \in Jobs \ taken :
            /\ job'[j].st = job[j].st /\ job'[j].live = job[j].live
            /\ job'[j].owner = job[j].owner /\ job'[j].tries = job[j].tries
       /\ \A j \in taken : job'[j].st = "leased" /\ job'[j].live /\ job'[j].owner = n
       /\ \A j \in taken : job'[j].tries <= MaxTries[j]
  <2>1. taken \in SUBSET Jobs  BY <1>6
  <2>2. \A j \in taken : job[j].st = "pending" /\ job'[j] = Granted(n, Turned(first, j))  BY <1>9
  <2>3. \A j \in Jobs \ taken : job'[j] = Turned(first, j)  BY <1>8
  <2>4. job' = [j \in Jobs |-> job'[j]]  BY <1>8
  <2>5. Polled(n, taken)  BY <2>1, <2>2, <2>3, <2>4, PollRows
  <2> QED  BY <2>5 DEF Polled
<1>11. due' \in Seq(Jobs) /\ QueuedOnce'
  <2>1. CASE taken = {}
    <3>1. due' = due  BY <1>3, <2>1 DEF Without
    <3>2. \A i \in DOMAIN due : due[i] \in Jobs  BY <1>5
    <3>3. \A j \in Jobs : job'[j].st = job[j].st  BY <1>10, <2>1
    <3> QED  BY <1>1, <1>5, <3>1, <3>2, <3>3 DEF QueuedOnce
  <2>2. CASE taken # {}
    <3>1. PICK j \in Jobs : j \in taken  BY <1>6, <2>2
    <3>2. taken = {j} /\ job[j].st = "pending" /\ job'[j].st # "pending"  BY <1>6, <1>7, <1>10, <3>1
    <3>3. \A k \in Jobs : k # j => job'[k].st = job[k].st  BY <1>10, <3>2
    <3>4. due' = Without({j})  BY <1>3, <3>2
    <3> QED  BY <1>1, <3>2, <3>3, <3>4, QueueTaken
  <2> QED  BY <2>1, <2>2
<1>12. RelayTypes'
  <2>1. NoCanary \in Canaries  BY DEF NoCanary, Canaries
  <2>2. canary' \in [Jobs -> Canaries]  BY <1>1, <1>3, <2>1 DEF RelayTypes
  <2> QED  BY <1>1, <1>4, <1>10, <1>11, <2>2 DEF RelayTypes
<1>13. LeaseOK' /\ TriesLeft'
  <2>1. n # NoNode  BY RelayAssumption
  <2> QED  BY <1>1, <1>4, <1>10, <2>1 DEF LeaseOK, TriesLeft
<1>14. OwnerServes'
  BY <1>1, <1>4, <1>7, <1>10 DEF OwnerServes, Serving
<1>15. \A j \in Jobs : j \notin taken /\ Counted(j)' =>
                          Counted(j) /\ job'[j].owner = job[j].owner
  BY <1>4, <1>10 DEF Counted
<1>16. CapacityHeld'
  <2>1. ASSUME NEW g \in Groups PROVE Cardinality(OnGroup(g)') <= max'[g]
    <3>1. OnGroup(g) \in SUBSET Jobs /\ OnGroup(g) \subseteq LiveIn(g) /\ LiveIn(g) \in SUBSET Jobs
      BY CountedSets DEF OnGroup, LiveIn, LiveOf
    <3>2. OnGroup(g)' \in SUBSET Jobs  BY DEF OnGroup
    <3>3. /\ Cardinality(OnGroup(g)) \in Nat /\ Cardinality(OnGroup(g)') \in Nat
          /\ Cardinality(LiveIn(g)) \in Nat /\ IsFiniteSet(OnGroup(g))
          /\ Cardinality(OnGroup(g)) <= Cardinality(LiveIn(g))
      BY <3>1, <3>2, JobSets
    <3>4. Cardinality(OnGroup(g)) <= max[g] /\ max'[g] = max[g] /\ max[g] \in Nat
      BY <1>1, <1>4, CountedSets DEF CapacityHeld, RelayTypes
    <3>5. CASE taken # {} /\ node[n].group = g
      <4>1. PICK j : taken = {j}  BY <1>6, <3>5
      <4>2. OnGroup(g)' \subseteq OnGroup(g) \cup {j}
        BY <1>4, <1>15, <4>1 DEF OnGroup, Members
      <4>3. Cardinality(LiveIn(g)) < max[g]  BY <1>7, <3>5, RelayAssumption DEF GroupRoom
      <4>4. Cardinality(OnGroup(g)') <= Cardinality(OnGroup(g)) + 1  BY <3>3, <4>2, OneMore
      <4> QED  BY <3>3, <3>4, <4>3, <4>4
    <3>6. CASE taken = {} \/ node[n].group # g
      <4>1. OnGroup(g)' \subseteq OnGroup(g)
        <5> SUFFICES ASSUME NEW j \in Jobs, Counted(j)', job'[j].owner \in Nodes,
                            node'[job'[j].owner].group = g
                     PROVE  j \in OnGroup(g)
          BY DEF OnGroup, Members
        <5>1. j \notin taken  BY <1>4, <1>10, <3>6
        <5> QED  BY <1>4, <1>15, <5>1 DEF OnGroup, Members
      <4>2. Cardinality(OnGroup(g)') <= Cardinality(OnGroup(g))  BY <3>1, <4>1, JobSets
      <4> QED  BY <3>3, <3>4, <4>2
    <3> QED  BY <3>5, <3>6
  <2>2. ASSUME NEW m \in Nodes PROVE Cardinality(OnNode(m)') <= NodeStreams[m]
    <3>1. OnNode(m) \in SUBSET Jobs /\ OnNode(m) \subseteq LiveOf(m) /\ LiveOf(m) \in SUBSET Jobs
      BY CountedSets DEF OnNode, LiveOf
    <3>2. OnNode(m)' \in SUBSET Jobs  BY DEF OnNode
    <3>3. /\ Cardinality(OnNode(m)) \in Nat /\ Cardinality(OnNode(m)') \in Nat
          /\ Cardinality(LiveOf(m)) \in Nat /\ IsFiniteSet(OnNode(m))
          /\ Cardinality(OnNode(m)) <= Cardinality(LiveOf(m))
      BY <3>1, <3>2, JobSets
    <3>4. Cardinality(OnNode(m)) <= NodeStreams[m] /\ NodeStreams[m] \in Nat
      BY <1>1, CountedSets, RelayAssumption DEF CapacityHeld
    <3>5. CASE taken # {} /\ m = n
      <4>1. PICK j : taken = {j}  BY <1>6, <3>5
      <4>2. OnNode(m)' \subseteq OnNode(m) \cup {j}  BY <1>15, <4>1 DEF OnNode
      <4>3. Cardinality(LiveOf(m)) < NodeStreams[m]  BY <1>7, <3>5 DEF NodeRoom
      <4>4. Cardinality(OnNode(m)') <= Cardinality(OnNode(m)) + 1  BY <3>3, <4>2, OneMore
      <4> QED  BY <3>3, <3>4, <4>3, <4>4
    <3>6. CASE taken = {} \/ m # n
      <4>1. OnNode(m)' \subseteq OnNode(m)  BY <1>10, <1>15, <3>6 DEF OnNode
      <4>2. Cardinality(OnNode(m)') <= Cardinality(OnNode(m))  BY <3>1, <4>1, JobSets
      <4> QED  BY <3>3, <3>4, <4>2
    <3> QED  BY <3>5, <3>6
  <2> QED  BY <2>1, <2>2, CountedSetsAfter DEF CapacityHeld
<1>17. CanaryAlone'
  <2> SUFFICES ASSUME NEW h \in Jobs, NEW k \in Jobs,
                      canary'[h].node # NoNode, ~canary'[h].moved,
                      job'[k].live, k \notin exempt'
               PROVE  IF node[canary'[h].node].group = NoGroup
                      THEN job'[k].owner # canary'[h].node
                      ELSE ~(/\ job'[k].owner \in Nodes
                             /\ node[job'[k].owner].group = node[canary'[h].node].group)
    BY <1>4 DEF CanaryAlone, Domain, Members
  <2>1. NoCanary.node = NoNode  BY DEF NoCanary
  <2>2. canary'[h] = canary[h] /\ (taken # {} => h \notin Outranked(n))  BY <1>3, <2>1
  <2>3. canary[h].node \in Nodes  BY <1>1, <2>2 DEF RelayTypes, Canaries
  <2>4. CASE k \in taken
    <3>1. job'[k].owner = n  BY <1>10, <2>4
    <3>2. canary[h].node \notin Domain(n)  BY <2>2, <2>4 DEF Outranked
    <3> QED  BY <2>2, <2>3, <3>1, <3>2 DEF Domain, Members
  <2>5. CASE k \notin taken
    <3>1. job[k].live /\ k \notin exempt /\ job'[k].owner = job[k].owner  BY <1>4, <1>10, <2>5
    <3> QED  BY <1>1, <2>2, <3>1 DEF CanaryAlone, Domain, Members
  <2> QED  BY <2>4, <2>5
<1> QED  BY <1>11, <1>12, <1>13, <1>14, <1>16, <1>17 DEF RelayInv

-----------------------------------------------------------------------------
(* The theorems.                                                           *)

\* What a relay poll, a move, a heartbeat or an owner's change may not break.
THEOREM RelayInvariant == Spec => []RelayInv
<1>1. Init => RelayInv
  <2> SUFFICES ASSUME Init PROVE RelayInv  OBVIOUS
  <2>1. /\ node = [n \in Nodes |-> [active |-> TRUE, token |-> TRUE, online |-> TRUE, group |-> Home[n]]]
        /\ max = MaxStreams /\ due = <<>> /\ beat = {} /\ exempt = {} /\ ops = 0
        /\ canary = [j \in Jobs |-> NoCanary]
    BY DEF Init
  <2>2. /\ \A j \in Jobs : job[j].st = "closed" /\ ~job[j].live /\ job[j].owner = NoNode
        /\ job \in [Jobs -> Rows]
    <3>1. 0 \in 0..3 /\ 0 \in 0..MaxRuns /\ 0 \in Nat  BY RelayAssumption
    <3>2. job = [j \in Jobs |-> [st |-> "closed", live |-> FALSE, owner |-> NoNode, turn |-> 0,
                                 failed |-> {}, held |-> NoNode, home |-> NoNode,
                                 runs |-> 0, tries |-> 0]]
      BY DEF Init
    <3> QED  BY <3>1, <3>2 DEF Rows
  <2>3. node \in [Nodes -> Computers] /\ \A n \in Nodes : node[n].active
    BY <2>1, RelayAssumption DEF Computers
  <2>4. \A j \in Jobs : canary[j] \in Canaries /\ canary[j].node = NoNode
    BY <2>1 DEF NoCanary, Canaries
  <2>5. canary \in [Jobs -> Canaries]  BY <2>1, <2>4
  <2>6. 0 \in 0..MaxOps  BY RelayAssumption
  <2>7. RelayTypes  BY <2>1, <2>2, <2>3, <2>5, <2>6, RelayAssumption DEF RelayTypes
  <2>11. \A j \in Jobs : job[j].tries = 0 /\ MaxTries[j] \in Nat  BY RelayAssumption DEF Init
  <2>8. LeaseOK /\ TriesLeft /\ QueuedOnce /\ OwnerServes
    BY <2>1, <2>2, <2>11 DEF LeaseOK, TriesLeft, QueuedOnce, OwnerServes
  <2>9. CapacityHeld
    <3>1. \A n : OnNode(n) = {}  BY <2>2 DEF OnNode, Counted
    <3>2. \A g : OnGroup(g) = {}  BY <2>2 DEF OnGroup, Counted
    <3>3. Cardinality({}) = 0  BY FS_EmptySet
    <3>4. \A g \in Groups : max[g] \in Nat  BY <2>7 DEF RelayTypes
    <3>5. \A n \in Nodes : NodeStreams[n] \in Nat  BY RelayAssumption
    <3> QED  BY <3>1, <3>2, <3>3, <3>4, <3>5, CountedSets DEF CapacityHeld
  <2>10. CanaryAlone  BY <2>4 DEF CanaryAlone
  <2> QED  BY <2>7, <2>8, <2>9, <2>10 DEF RelayInv
<1>2. RelayInv /\ [Next]_vars => RelayInv'
  <2> SUFFICES ASSUME RelayInv, [Next]_vars PROVE RelayInv'  OBVIOUS
  <2>1. ASSUME NEW j \in Jobs, JobStep(j) PROVE RelayInv'
    <3>1. CASE BeatBegin(j) \/ CanaryEnd(j)
      <4>1. \E k \in Jobs : BeatBegin(k) \/ CanaryEnd(k)  BY <3>1
      <4> QED  BY <4>1, NodeSteps
    <3>2. CASE ~(BeatBegin(j) \/ CanaryEnd(j))
      <4>1. \/ Open(j) \/ BeatCommit(j) \/ Expire(j) \/ Reclaim(j) \/ Complete(j) \/ Fail(j)
            \/ Surrender(j, TRUE) \/ Surrender(j, FALSE) \/ TurnPasses(j) \/ HandoffEnds(j)
        BY <2>1, <3>2 DEF JobStep
      <4> QED  BY <4>1, JobSteps
    <3> QED  BY <3>1, <3>2
  <2>2. ASSUME NEW n \in Nodes, NodeStep(n) PROVE RelayInv'
    <3>1. CASE \E j \in CanaryJobs : CanaryStart(n, j)
      BY <3>1, CanaryStartStep, RelayAssumption
    <3>2. CASE Poll(n) \/ Disable(n)  BY <3>2, PollStep, DisableStep
    <3>3. CASE \/ NodeBeat(n) \/ Quiet(n) \/ Enable(n) \/ Enroll(n) \/ Remove(n)
               \/ \E g \in Groups \cup {NoGroup} : SetGroup(n, g)
      BY <3>3, NodeSteps
    <3> QED  BY <2>2, <3>1, <3>2, <3>3 DEF NodeStep
  <2>3. CASE \E g \in Groups, m \in 1..2 : SetMax(g, m)  BY <2>3, NodeSteps
  <2>4. CASE UNCHANGED vars
    <3>1. UNCHANGED <<node, max, job, due, beat, canary, exempt, ops>>  BY <2>4 DEF vars
    <3>2. RelayTypes /\ LeaseOK  BY DEF RelayInv
    <3>3. RelayTypes' /\ \A j \in beat' \cup exempt' : job[j].st = "leased"
      BY <3>1, <3>2 DEF RelayTypes, LeaseOK
    <3>4. Calm /\ Limits /\ Reservations
      BY <3>1, <3>2 DEF Calm, Limits, Reservations, RelayTypes
    <3> QED  BY <3>1, <3>3, <3>4, NodeKeeps
  <2> QED  BY <2>1, <2>2, <2>3, <2>4 DEF Next
<1> QED  BY <1>1, <1>2, PTL DEF Spec


\* The rows, the queue and the marks keep their types, a pending job is queued once.
THEOREM RelayTypesHold == Spec => []TypeOK
<1>1. RelayInv => TypeOK
  <2> SUFFICES ASSUME RelayInv PROVE TypeOK  OBVIOUS
  <2>1. RelayTypes /\ LeaseOK /\ TriesLeft /\ QueuedOnce  BY DEF RelayInv
  <2>2. \A j \in beat \cup exempt : job[j].st = "leased"
    BY <2>1 DEF RelayTypes, LeaseOK
  <2>3. ASSUME NEW j \in Jobs
        PROVE  Cardinality({i \in DOMAIN due : due[i] = j}) = IF job[j].st = "pending" THEN 1 ELSE 0
    <3>1. CASE job[j].st = "pending"
      <4>1. PICK i \in DOMAIN due : due[i] = j  BY <2>1, <3>1 DEF QueuedOnce
      <4>2. {k \in DOMAIN due : due[k] = j} = {i}  BY <2>1, <4>1 DEF QueuedOnce
      <4> QED  BY <3>1, <4>2, FS_Singleton
    <3>2. CASE job[j].st # "pending"
      <4>1. {k \in DOMAIN due : due[k] = j} = {}  BY <2>1, <3>2 DEF QueuedOnce
      <4> QED  BY <3>2, <4>1, FS_EmptySet
    <3> QED  BY <3>1, <3>2
  <2> QED  BY <2>1, <2>2, <2>3 DEF TypeOK, RelayTypes, LeaseOK, TriesLeft, Computers, Rows, Canaries
<1> QED  BY <1>1, RelayInvariant, PTL

\* The node and group locks of a lease transaction make the stream caps authoritative.
THEOREM CapacitySafety == Spec => []CapacityHeld
<1>1. RelayInv => CapacityHeld  BY DEF RelayInv
<1> QED  BY <1>1, RelayInvariant, PTL

\* No uplink carries a diagnostic canary beside a production lease granted after it.
THEOREM CanarySafety == Spec => []CanaryAlone
<1>1. RelayInv => CanaryAlone  BY DEF RelayInv
<1> QED  BY <1>1, RelayInvariant, PTL

\* A computer that the owner disabled keeps no live lease, whatever was renewed meanwhile.
THEOREM DisableSafety == Spec => []DisabledHoldsNothing
<1>1. RelayInv => DisabledHoldsNothing
  BY DEF RelayInv, LeaseOK, OwnerServes, DisabledHoldsNothing
<1> QED  BY <1>1, RelayInvariant, PTL

\* A node that steps back for one that failed nothing leaves the window to it: that
\* peer has room, and after the turn no other clause holds it.
LEMMA PeerTakes ==
  ASSUME NEW j \in Jobs, NEW m \in Nodes, job[j].st = "pending", TurnOver(j),
         CouldTake(m, j), GroupRoom(node[m].group)
  PROVE  j \in Leasable(m)
<1>1. FailureYields(m, j)  BY DEF CouldTake, FailureYields
<1>2. AffinityYields(m, j) /\ PreferenceYields(m, j) /\ GroupYields(m, j) /\ MachineYields(m, j)
  BY DEF AffinityYields, PreferenceYields, GroupYields, MachineYields
<1> QED  BY <1>1, <1>2 DEF CouldTake, Leasable

\* After its fairness turn no due window is left to nobody: the clauses of the lease
\* query never make every node that could serve it wait for another, in any state of
\* nodes, groups and failures.
THEOREM NobodyStrands == Spec => []TurnEndsWaiting
<1>1. TurnEndsWaiting
  <2> SUFFICES ASSUME NEW j \in Jobs, NEW n \in Nodes, job[j].st = "pending",
                      TurnOver(j), job[j].held # n, Serving(n), Ready(n, j), NodeRoom(n),
                      GroupRoom(node[n].group)
               PROVE  \E m \in Nodes : j \in Leasable(m)
    BY DEF TurnEndsWaiting
  <2>1. CASE FailureYields(n, j)
    <3>1. AffinityYields(n, j) /\ PreferenceYields(n, j) /\ GroupYields(n, j) /\ MachineYields(n, j)
      BY DEF AffinityYields, PreferenceYields, GroupYields, MachineYields
    <3> QED  BY <2>1, <3>1 DEF Leasable
  <2>2. CASE ~FailureYields(n, j)
    <3>1. PICK m \in Nodes \ {n} : CouldTake(m, j) /\ GroupRoom(node[m].group)
      BY <2>2 DEF FailureYields
    <3> QED  BY <3>1, PeerTakes
  <2> QED  BY <2>1, <2>2
<1> QED  BY <1>1, PTL
=============================================================================
