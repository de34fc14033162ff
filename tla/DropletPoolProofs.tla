-------------------------- MODULE DropletPoolProofs --------------------------
(***************************************************************************)
(* The cap, the teardown and the tokens of the droplet pool, for every     *)
(* value of the constants.                                                 *)
(*                                                                         *)
(* LiveWithinCap is not inductive: a batch of scale-ups is decided on one  *)
(* count and written row by row later, and three statements set a row's    *)
(* state without looking at it.  The strengthening counts a name that is   *)
(* still to be inserted as claimed, and records, for every operation that  *)
(* is still to run, the state its row must be in: the tasks of one stage   *)
(* are on different droplets, so nobody else can move that row.            *)
(*                                                                         *)
(* In the same way TaskSafe and TokenSafe record what a list of operations *)
(* may assume when it goes on: that the droplet it deletes can be leased   *)
(* no more (Spent), and that the row whose token it revokes has stopped.   *)
(***************************************************************************)
EXTENDS DropletPool, TLAPS, FiniteSetTheorems

\* What may be left of a task's operations, by the stage that is read next.
Pending(stage) ==
    CASE stage = "promote" ->
           {<<"bind">>, <<"orphan">>,
            <<"begin", "revoke", "destroyed">>, <<"delete", "revoke", "destroyed">>,
            <<"revoke", "destroyed">>, <<"destroyed">>,
            <<"keep", "begin", "delete", "failed", "revoke">>,
            <<"spare", "begin", "delete", "failed", "revoke">>,
            <<"begin", "delete", "failed", "revoke">>, <<"delete", "failed", "revoke">>,
            <<"failed", "revoke">>, <<"revoke">>}
      [] stage = "reap" -> {<<"active">>}
      [] stage \in {"decide", "reconcile"} ->
           {SilentWorker, DrainedWorker, DestroyWorker,
            <<"delete", "revoke", "destroyed">>, <<"revoke", "destroyed">>, <<"destroyed">>}
      [] stage \in {"rollout", "drain"} ->
           {ScaleUp, <<"insert", "create", "setup", "bind">>,
            <<"create", "setup", "bind">>, <<"setup", "bind">>, <<"bind">>,
            <<"failed", "revoke">>, <<"revoke">>}
      [] stage = "progress" -> {<<"drain">>}

\* The lists with the INSERT, or an unguarded MarkDestroying, still to come.
Inserts(ops) == ops \in {ScaleUp, <<"insert", "create", "setup", "bind">>}
Destroys(ops) == ops \in {SilentWorker, DrainedWorker, DestroyWorker}
Drainable == {"active", "draining"}

\* What the operations still to come ask of the row's state.
Premise(ops, s) ==
    /\ Inserts(ops) => s = "absent"
    /\ ops = <<"drain">> => s \in Drainable
    /\ Destroys(ops) => s \in LiveState

\* The live rows and the names about to be inserted.
Claimed == Live \cup {d \in Droplets : \E t \in ctl.tasks : t.d = d /\ Inserts(t.ops)}

TasksShaped == \A t \in ctl.tasks : t.ops \in Pending(ctl.next)
TasksApart == ctl.next # "promote" => \A t, u \in ctl.tasks : t.d = u.d => t = u
TasksSound == \A t \in ctl.tasks : Premise(t.ops, row[t.d].state)
EligibleSound ==
    ctl.next \in {"rollout", "drain"} =>
        /\ \A d \in ctl.eligible : row[d].state \in Drainable
        /\ \A t \in ctl.tasks : t.d \notin ctl.eligible
ClaimsWithinCap ==
    /\ Cardinality(Claimed) <= Max
    /\ ctl.next = "rollout" => Cardinality(Claimed) <= ctl.room /\ ctl.room <= Max
PoolInv == /\ TasksShaped /\ TasksApart /\ TasksSound /\ EligibleSound /\ ClaimsWithinCap

-----------------------------------------------------------------------------
(* What is left of a task, and what is left after its next operation.      *)

\* A task with nothing left asks nothing of its row.
LEMMA NothingLeft == \A x : Premise(<<>>, x) /\ ~Inserts(<<>>)
BY DEF Premise, Inserts, Destroys, ScaleUp, SilentWorker, DrainedWorker, DestroyWorker

\* The operation lists of a stage are closed under taking the next operation, and
\* the first operation tells where in its list a task is.
LEMMA PendingShape ==
    ASSUME NEW stage \in Stage, NEW s \in Pending(stage)
    PROVE  /\ s \in Seq(Op) /\ s # <<>>
           /\ Tail(s) = <<>> \/ Tail(s) \in Pending(stage)
           /\ Inserts(s) => Head(s) \in {"mint", "insert"} /\ stage \in {"rollout", "drain"}
           /\ Head(s) \in {"mint", "insert", "create", "setup"} => stage \in {"rollout", "drain"}
           /\ Head(s) \in {"mint", "insert"} => Inserts(s)
           /\ Inserts(Tail(s)) => Head(s) = "mint"
           /\ Destroys(s) => stage \in {"decide", "reconcile"}
           /\ Head(s) \in {"silent", "drained", "destroying"} => Destroys(s)
           /\ Destroys(Tail(s)) => Head(s) \in {"silent", "drained"}
           /\ s = <<"drain">> => stage = "progress"
           /\ Head(s) = "drain" => s = <<"drain">>
           /\ Tail(s) # <<"drain">>
<1> USE DEF Pending, Inserts, Destroys, Stage, Op,
            SilentWorker, DrainedWorker, DestroyWorker, ScaleUp
<1>1. CASE stage = "promote"
  <2>1. CASE s = <<"bind">>  BY <1>1, <2>1
  <2>2. CASE s = <<"orphan">>  BY <1>1, <2>2
  <2>3. CASE s = <<"begin", "revoke", "destroyed">>  BY <1>1, <2>3
  <2>4. CASE s = <<"delete", "revoke", "destroyed">>  BY <1>1, <2>4
  <2>5. CASE s = <<"revoke", "destroyed">>  BY <1>1, <2>5
  <2>6. CASE s = <<"destroyed">>  BY <1>1, <2>6
  <2>7. CASE s = <<"keep", "begin", "delete", "failed", "revoke">>  BY <1>1, <2>7
  <2>8. CASE s = <<"spare", "begin", "delete", "failed", "revoke">>  BY <1>1, <2>8
  <2>9. CASE s = <<"begin", "delete", "failed", "revoke">>  BY <1>1, <2>9
  <2>10. CASE s = <<"delete", "failed", "revoke">>  BY <1>1, <2>10
  <2>11. CASE s = <<"failed", "revoke">>  BY <1>1, <2>11
  <2>12. CASE s = <<"revoke">>  BY <1>1, <2>12
  <2> QED  BY <1>1, <2>1, <2>2, <2>3, <2>4, <2>5, <2>6, <2>7, <2>8, <2>9, <2>10, <2>11, <2>12
<1>2. CASE stage = "reap"
  <2>1. s = <<"active">>  BY <1>2
  <2> QED  BY <1>2, <2>1
<1>3. CASE stage = "progress"
  <2>1. s = <<"drain">>  BY <1>3
  <2> QED  BY <1>3, <2>1
<1>4. CASE stage = "decide"
  <2>1. CASE s = SilentWorker  BY <1>4, <2>1
  <2>2. CASE s = DrainedWorker  BY <1>4, <2>2
  <2>3. CASE s = DestroyWorker  BY <1>4, <2>3
  <2>4. CASE s = <<"delete", "revoke", "destroyed">>  BY <1>4, <2>4
  <2>5. CASE s = <<"revoke", "destroyed">>  BY <1>4, <2>5
  <2>6. CASE s = <<"destroyed">>  BY <1>4, <2>6
  <2> QED  BY <1>4, <2>1, <2>2, <2>3, <2>4, <2>5, <2>6
<1>5. CASE stage = "reconcile"
  <2>1. CASE s = SilentWorker  BY <1>5, <2>1
  <2>2. CASE s = DrainedWorker  BY <1>5, <2>2
  <2>3. CASE s = DestroyWorker  BY <1>5, <2>3
  <2>4. CASE s = <<"delete", "revoke", "destroyed">>  BY <1>5, <2>4
  <2>5. CASE s = <<"revoke", "destroyed">>  BY <1>5, <2>5
  <2>6. CASE s = <<"destroyed">>  BY <1>5, <2>6
  <2> QED  BY <1>5, <2>1, <2>2, <2>3, <2>4, <2>5, <2>6
<1>6. CASE stage = "rollout"
  <2>1. CASE s = ScaleUp  BY <1>6, <2>1
  <2>2. CASE s = <<"insert", "create", "setup", "bind">>  BY <1>6, <2>2
  <2>3. CASE s = <<"create", "setup", "bind">>  BY <1>6, <2>3
  <2>4. CASE s = <<"setup", "bind">>  BY <1>6, <2>4
  <2>5. CASE s = <<"bind">>  BY <1>6, <2>5
  <2>6. CASE s = <<"failed", "revoke">>  BY <1>6, <2>6
  <2>7. CASE s = <<"revoke">>  BY <1>6, <2>7
  <2> QED  BY <1>6, <2>1, <2>2, <2>3, <2>4, <2>5, <2>6, <2>7
<1>7. CASE stage = "drain"
  <2>1. CASE s = ScaleUp  BY <1>7, <2>1
  <2>2. CASE s = <<"insert", "create", "setup", "bind">>  BY <1>7, <2>2
  <2>3. CASE s = <<"create", "setup", "bind">>  BY <1>7, <2>3
  <2>4. CASE s = <<"setup", "bind">>  BY <1>7, <2>4
  <2>5. CASE s = <<"bind">>  BY <1>7, <2>5
  <2>6. CASE s = <<"failed", "revoke">>  BY <1>7, <2>6
  <2>7. CASE s = <<"revoke">>  BY <1>7, <2>7
  <2> QED  BY <1>7, <2>1, <2>2, <2>3, <2>4, <2>5, <2>6, <2>7
<1> QED  BY <1>1, <1>2, <1>3, <1>4, <1>5, <1>6, <1>7 DEF Stage

-----------------------------------------------------------------------------
(* One operation of a task.                                                *)

\* Fewer claims, a smaller count.
LEMMA ClaimsShrink ==
    ASSUME PoolAssumption, Claimed' \subseteq Claimed
    PROVE  Cardinality(Claimed)' <= Cardinality(Claimed)
           /\ Cardinality(Claimed)' \in Nat /\ Cardinality(Claimed) \in Nat
<1>1. IsFiniteSet(Claimed)
  <2>1. Claimed \subseteq Droplets  BY DEF Claimed, Live
  <2> QED  BY <2>1, FS_Subset DEF PoolAssumption
<1> QED  BY <1>1, FS_Subset, FS_CardinalityType

\* The reconcile stage neither inserts, drains nor sets destroying unguarded.
LEMMA PromotePlain ==
    ASSUME NEW s \in Pending("promote")
    PROVE  ~Inserts(s) /\ ~Destroys(s) /\ s # <<"drain">>
<1>1. "promote" \in Stage  BY DEF Stage
<1> QED  BY <1>1, PendingShape

\* One operation of the task t: what is left is a list of the same stage whose
\* premise holds of the row as written, and no row but t's changed.
LEMMA TaskStep ==
    ASSUME PoolAssumption, TypeOK, PoolInv,
           NEW t \in ctl.tasks, NEW ops,
           ops = <<>> \/ ops \in Pending(ctl.next),
           \/ ctl' = [ctl EXCEPT !.tasks = (ctl.tasks \ {t}) \cup GoOn(t, ops)]
           \/ ctl' = [ctl EXCEPT !.tasks = GoOn(t, ops)],
           row' \in [Droplets -> Row],
           \A d \in Droplets : d # t.d => row'[d] = row[d],
           Inserts(ops) => Inserts(t.ops),
           Premise(ops, row'[t.d].state),
           row'[t.d].state \in LiveState => row[t.d].state \in LiveState \/ Inserts(t.ops)
    PROVE  ctl' \in Controller /\ PoolInv'
<1> DEFINE u == [t EXCEPT !.ops = ops]
<1>1. t \in Task /\ ctl \in Controller /\ t.d \in Droplets /\ ctl.next \in Stage
  BY DEF TypeOK, Controller, Task
<1>2. ctl.tasks \subseteq Task
  BY <1>1 DEF Controller
<1>3. ASSUME ops # <<>> PROVE u \in Task /\ u.d = t.d /\ u.ops = ops
  <2>1. ops \in Seq(Op) \ {<<>>}
    BY <1>1, <1>3, PendingShape
  <2> QED  BY <1>1, <2>1 DEF Task
<1>4. \A v \in ctl'.tasks : \/ v \in ctl.tasks /\ v # t
                            \/ v = u /\ ops # <<>>
  <2>1. GoOn(t, ops) \subseteq {u} /\ (ops = <<>> => GoOn(t, ops) = {})
    BY DEF GoOn
  <2>2. ctl'.tasks = (ctl.tasks \ {t}) \cup GoOn(t, ops) \/ ctl'.tasks = GoOn(t, ops)
    BY <1>1 DEF Controller
  <2> HIDE DEF u
  <2> QED  BY <2>1, <2>2
<1>5. ctl'.next = ctl.next /\ ctl'.eligible = ctl.eligible /\ ctl'.room = ctl.room
  BY <1>1 DEF Controller
<1>6. ctl' \in Controller
  <2>1. ctl'.tasks \subseteq Task  BY <1>2, <1>3, <1>4
  <2>2. ctl' = [ctl EXCEPT !.tasks = ctl'.tasks]
    BY <1>1 DEF Controller
  <2> QED  BY <1>1, <2>1, <2>2 DEF Controller
<1>7. TasksShaped'
  BY <1>3, <1>4, <1>5 DEF PoolInv, TasksShaped
<1>8. TasksApart'
  BY <1>3, <1>4, <1>5 DEF PoolInv, TasksApart
<1>9. TasksSound'
  <2> SUFFICES ASSUME NEW v \in ctl'.tasks PROVE Premise(v.ops, row'[v.d].state)
    BY DEF TasksSound
  <2>1. CASE v = u /\ ops # <<>>
    BY <1>3, <2>1
  <2>2. CASE v \in ctl.tasks /\ v # t /\ v.d # t.d
    BY <1>2, <2>2 DEF PoolInv, TasksSound, Task
  <2>3. CASE v \in ctl.tasks /\ v # t /\ v.d = t.d
    <3>1. ctl.next = "promote"
      BY <2>3 DEF PoolInv, TasksApart
    <3>2. v.ops \in Pending("promote")
      BY <2>3, <3>1 DEF PoolInv, TasksShaped
    <3>3. ~Inserts(v.ops) /\ ~Destroys(v.ops) /\ v.ops # <<"drain">>
      BY <3>2, PromotePlain
    <3> QED  BY <3>3 DEF Premise
  <2> QED  BY <1>4, <2>1, <2>2, <2>3
<1>10. EligibleSound'
  <2> SUFFICES ASSUME ctl.next \in {"rollout", "drain"}
               PROVE  /\ \A d \in ctl.eligible : row'[d].state \in Drainable
                      /\ \A v \in ctl'.tasks : v.d \notin ctl.eligible
    BY <1>5 DEF EligibleSound
  <2>1. /\ \A d \in ctl.eligible : row[d].state \in Drainable
        /\ \A v \in ctl.tasks : v.d \notin ctl.eligible
    BY DEF PoolInv, EligibleSound
  <2>2. ctl.eligible \subseteq Droplets
    BY <1>1 DEF Controller
  <2> QED  BY <1>3, <1>4, <2>1, <2>2
<1>11. ClaimsWithinCap'
  <2>1. Claimed' \subseteq Claimed
    <3>1. ASSUME NEW d \in Live' PROVE d \in Claimed
      BY <1>1, <3>1 DEF Live, Claimed
    <3>2. ASSUME NEW v \in ctl'.tasks, Inserts(v.ops) PROVE v.d \in Claimed
      BY <1>1, <1>2, <1>3, <1>4, <3>2 DEF Claimed, Task
    <3> QED  BY <3>1, <3>2 DEF Claimed
  <2>2. Cardinality(Claimed)' <= Cardinality(Claimed)
        /\ Cardinality(Claimed)' \in Nat /\ Cardinality(Claimed) \in Nat
    BY <2>1, ClaimsShrink
  <2>3. Max \in Nat /\ ctl.room \in Nat
    BY <1>1 DEF Controller, PoolAssumption
  <2>4. /\ Cardinality(Claimed) <= Max
        /\ ctl.next = "rollout" => Cardinality(Claimed) <= ctl.room /\ ctl.room <= Max
    BY DEF PoolInv, ClaimsWithinCap
  <2>n. \A a, b, c \in Nat : a <= b /\ b <= c => a <= c
    OBVIOUS
  <2>5. Cardinality(Claimed)' <= Max
    BY <2>n, <2>2, <2>3, <2>4, Zenon
  <2>6. ctl.next = "rollout" => Cardinality(Claimed)' <= ctl.room /\ ctl.room <= Max
    BY <2>n, <2>2, <2>3, <2>4, Zenon
  <2> QED
    BY <1>5, <2>5, <2>6 DEF ClaimsWithinCap
<1> QED  BY <1>6, <1>7, <1>8, <1>9, <1>10, <1>11 DEF PoolInv

\* What is left after the next operation has its premise met already, if that
\* operation leaves the row alone.
LEMMA AfterHead ==
    ASSUME TypeOK, PoolInv, NEW t \in ctl.tasks
    PROVE  /\ t.ops \in Pending(ctl.next) /\ ctl.next \in Stage
           /\ t \in Task /\ t.d \in Droplets /\ row[t.d] \in Row
           /\ Premise(t.ops, row[t.d].state)
           /\ Tail(t.ops) = <<>> \/ Tail(t.ops) \in Pending(ctl.next)
           /\ Inserts(Tail(t.ops)) => Inserts(t.ops)
           /\ Premise(Tail(t.ops), row[t.d].state)
<1>1. t.ops \in Pending(ctl.next) /\ ctl.next \in Stage /\ t \in Task /\ t.d \in Droplets
  BY DEF TypeOK, PoolInv, TasksShaped, Controller, Task
<1>2. Premise(t.ops, row[t.d].state)
  BY DEF PoolInv, TasksSound
<1>3. Inserts(Tail(t.ops)) => Inserts(t.ops)
  BY <1>1, PendingShape
<1>4. Destroys(Tail(t.ops)) => Destroys(t.ops)
  BY <1>1, PendingShape
<1>5. Tail(t.ops) # <<"drain">> /\ (Tail(t.ops) = <<>> \/ Tail(t.ops) \in Pending(ctl.next))
  BY <1>1, PendingShape
<1> QED  BY <1>1, <1>2, <1>3, <1>4, <1>5 DEF Premise, TypeOK

\* A step of t that leaves the rows alone.
LEMMA QuietStep ==
    ASSUME PoolAssumption, TypeOK, PoolInv, NEW t \in ctl.tasks,
           Continue(t) \/ Skip(t) \/ Broken(t, Tail(t.ops)) \/ Broken(t, <<>>),
           UNCHANGED row
    PROVE  row' \in [Droplets -> Row] /\ ctl' \in Controller /\ PoolInv' /\ RowsAdvance
<1>1. row' \in [Droplets -> Row] /\ RowsAdvance
  BY DEF TypeOK, RowsAdvance
<1>2. PICK ops \in {<<>>, Tail(t.ops)} :
         \/ ctl' = [ctl EXCEPT !.tasks = (ctl.tasks \ {t}) \cup GoOn(t, ops)]
         \/ ctl' = [ctl EXCEPT !.tasks = GoOn(t, ops)]
  BY DEF Continue, Skip, Broken, Proceed
<1>3. /\ ops = <<>> \/ ops \in Pending(ctl.next)
      /\ Inserts(ops) => Inserts(t.ops)
      /\ Premise(ops, row'[t.d].state)
  BY AfterHead, NothingLeft
<1> QED  BY <1>1, <1>2, <1>3, TaskStep

\* A step of t that writes its row.
LEMMA RowStep ==
    ASSUME PoolAssumption, TypeOK, PoolInv, NEW t \in ctl.tasks, NEW r \in Row,
           \/ Continue(t) /\ Premise(Tail(t.ops), r.state)
           \/ Skip(t),
           row' = [row EXCEPT ![t.d] = r],
           r.state \in LiveState => row[t.d].state \in LiveState \/ Inserts(t.ops),
           row[t.d].state \in {"destroyed", "failed"} => r.state \in {"destroyed", "failed"},
           row[t.d].state = "destroying" => r.state \in {"destroying", "destroyed", "failed"}
    PROVE  row' \in [Droplets -> Row] /\ ctl' \in Controller /\ PoolInv' /\ RowsAdvance
<1>1. /\ t.d \in Droplets /\ row' \in [Droplets -> Row] /\ row'[t.d] = r
      /\ \A d \in Droplets : d # t.d => row'[d] = row[d]
  BY AfterHead DEF TypeOK
<1>2. RowsAdvance
  BY <1>1 DEF RowsAdvance
<1>3. PICK ops \in {<<>>, Tail(t.ops)} :
         /\ ctl' = [ctl EXCEPT !.tasks = (ctl.tasks \ {t}) \cup GoOn(t, ops)]
         /\ Premise(ops, r.state)
  BY NothingLeft DEF Continue, Skip, Proceed
<1>4. /\ ops = <<>> \/ ops \in Pending(ctl.next)
      /\ Inserts(ops) => Inserts(t.ops)
  BY AfterHead, NothingLeft
<1> QED  BY <1>1, <1>2, <1>3, <1>4, TaskStep

\* The provider's record of a droplet created or deleted.
LEMMA InstanceTyped ==
    ASSUME PoolAssumption, TypeOK, NEW d \in Droplets
    PROVE  Created(d) \in [Droplets -> Instance] /\ Deleted(d) \in [Droplets -> Instance]
<1>1. now \in Time /\ 0 \in Time /\ instance \in [Droplets -> Instance]
  BY DEF PoolAssumption, TypeOK, Time
<1>2. [state |-> "running", created |-> now, listed |-> FALSE] \in Instance
  BY <1>1 DEF Instance
<1>3. [NoInstance EXCEPT !.state = "deleted"] \in Instance
  BY <1>1 DEF Instance, NoInstance
<1> QED  BY <1>1, <1>2, <1>3 DEF Created, Deleted

\* beginDestroy.
LEMMA RetireStep ==
    ASSUME PoolAssumption, TypeOK, PoolInv, NEW t \in ctl.tasks,
           Head(t.ops) \in {"begin", "silent"}, Retire(t)
    PROVE  row' \in [Droplets -> Row] /\ ctl' \in Controller /\ PoolInv' /\ RowsAdvance
<1>1. CASE UNCHANGED row
  BY <1>1, QuietStep DEF Retire
<1>2. CASE /\ row[t.d].state \in LiveState /\ Continue(t)
           /\ row' = [row EXCEPT ![t.d].state = "destroying"]
  <2> DEFINE r == [row[t.d] EXCEPT !.state = "destroying"]
  <2>1. t.d \in Droplets /\ row[t.d] \in Row
    BY AfterHead
  <2>2. r \in Row /\ r.state = "destroying"
    BY <2>1 DEF Row, RowState
  <2>3. row' = [row EXCEPT ![t.d] = r]
    BY <1>2
  <2>4. Premise(Tail(t.ops), "destroying")
    <3>1. ~Inserts(Tail(t.ops)) /\ Tail(t.ops) # <<"drain">>
      BY AfterHead, PendingShape
    <3> QED  BY <3>1 DEF Premise, LiveState
  <2> HIDE DEF r
  <2> QED  BY <1>2, <2>2, <2>3, <2>4, RowStep DEF LiveState
<1> QED  BY <1>1, <1>2 DEF Retire

\* The UPDATEs that do not look at the state, MarkActive and the INSERT: the
\* premise of the task stands in for the guard the statement lacks.
LEMMA WriteStep ==
    ASSUME PoolAssumption, TypeOK, PoolInv, NEW t \in ctl.tasks, WriteRow(t)
    PROVE  row' \in [Droplets -> Row] /\ ctl' \in Controller /\ PoolInv' /\ RowsAdvance
<1>1. PICK op \in RowOp : Head(t.ops) = op /\ row' = [row EXCEPT ![t.d] = Written(op, row[t.d])]
  BY DEF WriteRow, Doing
<1>2. Continue(t)
  BY DEF WriteRow
<1>3. /\ t.d \in Droplets /\ row[t.d] \in Row /\ Premise(t.ops, row[t.d].state)
      /\ t.ops \in Pending(ctl.next) /\ ctl.next \in Stage
  BY AfterHead
<1>4. \A s : Premise(Tail(t.ops), s)
  <2>1. ~Inserts(Tail(t.ops)) /\ ~Destroys(Tail(t.ops)) /\ Tail(t.ops) # <<"drain">>
    BY <1>1, <1>3, PendingShape DEF RowOp
  <2> QED  BY <2>1 DEF Premise
<1> DEFINE s == row[t.d].state
           r == Written(op, row[t.d])
<1>5. build \in 0..MaxBuild /\ now \in Time /\ 0 \in Time
  BY DEF TypeOK, Time, PoolAssumption
<1>6. r \in Row
  <2>1. CASE op = "insert"
    BY <1>5, <2>1 DEF Written, InsertProvisioning, NoRow, Row, RowState
  <2>2. CASE op \in {"bind", "active", "drain"}
    BY <1>3, <1>5, <2>2 DEF Written, Activated, Row, RowState
  <2>3. CASE op \in {"destroying", "destroyed", "failed"}
    BY <1>3, <2>3 DEF Written, Row, RowState
  <2> QED  BY <2>1, <2>2, <2>3 DEF RowOp
<1>7. /\ r.state \in LiveState => s \in LiveState \/ Inserts(t.ops)
      /\ s \in {"destroyed", "failed"} => r.state \in {"destroyed", "failed"}
      /\ s = "destroying" => r.state \in {"destroying", "destroyed", "failed"}
  <2>1. CASE op = "insert"
    <3>1. Inserts(t.ops) /\ s = "absent"
      BY <1>1, <1>3, <2>1, PendingShape DEF Premise
    <3> QED  BY <3>1
  <2>2. CASE op \in {"bind", "active"}
    BY <1>3, <2>2 DEF Written, Activated, Row, LiveState
  <2>3. CASE op = "drain"
    <3>1. s \in Drainable
      BY <1>1, <1>3, <2>3, PendingShape DEF Premise
    <3> QED  BY <3>1 DEF Drainable, LiveState
  <2>4. CASE op = "destroying"
    <3>1. s \in LiveState
      BY <1>1, <1>3, <2>4, PendingShape DEF Premise
    <3>2. r.state = "destroying"
      BY <1>3, <2>4 DEF Written, Row
    <3> QED  BY <3>1, <3>2 DEF LiveState
  <2>5. CASE op \in {"destroyed", "failed"}
    <3>1. r.state \in {"destroyed", "failed"}
      BY <1>3, <2>5 DEF Written, Row
    <3> QED  BY <3>1 DEF LiveState
  <2> QED  BY <2>1, <2>2, <2>3, <2>4, <2>5 DEF RowOp
<1> HIDE DEF r
<1> QED  BY <1>1, <1>2, <1>4, <1>6, <1>7, RowStep DEF r

\* Every operation of a task keeps the invariant and advances its row.
LEMMA PerformStep ==
    ASSUME PoolAssumption, TypeOK, PoolInv, Perform
    PROVE  TypeOK' /\ PoolInv' /\ RowsAdvance
<1>1. PICK t \in ctl.tasks :
        \/ BeginDestroyIfIdle(t) \/ BeginDestroyIfIdleAndSilent(t) \/ SpareLeased(t)
        \/ CheckDrained(t) \/ WriteRow(t) \/ MintNodeToken(t) \/ RevokeNodeToken(t)
        \/ DeleteDroplet(t) \/ CreateDroplet(t) \/ SetUpDroplet(t)
  BY DEF Perform
<1> DEFINE Goal == row' \in [Droplets -> Row] /\ ctl' \in Controller /\ PoolInv' /\ RowsAdvance
<1>2. t.d \in Droplets /\ row[t.d] \in Row
  BY AfterHead
<1>3. CASE BeginDestroyIfIdle(t)
  <2>1. Goal  BY <1>3, RetireStep DEF BeginDestroyIfIdle, Doing
  <2> QED  BY <1>3, <2>1 DEF BeginDestroyIfIdle, TypeOK
<1>4. CASE BeginDestroyIfIdleAndSilent(t)
  <2>1. Goal
    BY <1>4, RetireStep, QuietStep DEF BeginDestroyIfIdleAndSilent, Doing
  <2> QED  BY <1>4, <2>1 DEF BeginDestroyIfIdleAndSilent, TypeOK
<1>5. CASE SpareLeased(t)
  <2>1. ASSUME UNCHANGED row PROVE Goal
    BY <1>5, <2>1, QuietStep DEF SpareLeased
  <2>2. ASSUME Skip(t), row' = [row EXCEPT ![t.d] = Activated(row[t.d])] PROVE Goal
    <3>1. /\ Activated(row[t.d]) \in Row
          /\ \/ Activated(row[t.d]).state = row[t.d].state
             \/ Activated(row[t.d]).state = "active" /\ row[t.d].state = "provisioning"
      <4>1. 0 \in Time  BY DEF Time, PoolAssumption
      <4> QED  BY <1>2, <4>1 DEF Activated, Row, RowState
    <3> QED  BY <2>2, <3>1, RowStep DEF LiveState
  <2>3. Goal  BY <1>5, <2>1, <2>2 DEF SpareLeased
  <2> QED  BY <1>5, <2>3 DEF SpareLeased, TypeOK
<1>6. CASE CheckDrained(t)
  <2>1. Goal  BY <1>6, QuietStep DEF CheckDrained
  <2> QED  BY <1>6, <2>1 DEF CheckDrained, TypeOK
<1>7. CASE WriteRow(t)
  BY <1>7, WriteStep DEF WriteRow, TypeOK
<1>8. CASE MintNodeToken(t)
  <2>1. Goal  BY <1>8, QuietStep DEF MintNodeToken
  <2> QED  BY <1>2, <1>8, <2>1 DEF MintNodeToken, TypeOK
<1>9. CASE RevokeNodeToken(t)
  <2>1. Goal  BY <1>9, QuietStep DEF RevokeNodeToken
  <2> QED  BY <1>2, <1>9, <2>1 DEF RevokeNodeToken, TypeOK
<1>10. CASE DeleteDroplet(t)
  <2>1. Goal  BY <1>10, QuietStep DEF DeleteDroplet
  <2>2. instance' \in [Droplets -> Instance]
    BY <1>2, <1>10, InstanceTyped DEF DeleteDroplet, TypeOK
  <2> QED  BY <1>10, <2>1, <2>2 DEF DeleteDroplet, TypeOK
<1>11. CASE CreateDroplet(t)
  <2>1. Goal  BY <1>11, QuietStep DEF CreateDroplet
  <2>2. instance' \in [Droplets -> Instance]
    BY <1>2, <1>11, InstanceTyped DEF CreateDroplet, TypeOK
  <2> QED  BY <1>11, <2>1, <2>2 DEF CreateDroplet, TypeOK
<1>12. CASE SetUpDroplet(t)
  <2>1. Goal  BY <1>12, QuietStep DEF SetUpDroplet
  <2> QED  BY <1>12, <2>1 DEF SetUpDroplet, TypeOK
<1> QED  BY <1>1, <1>3, <1>4, <1>5, <1>6, <1>7, <1>8, <1>9, <1>10, <1>11, <1>12

-----------------------------------------------------------------------------
(* The steps of everyone else, and failures.                               *)

\* Rows keep their state, but for an operator's drain of an active one.
RowsKept ==
    /\ row' \in [Droplets -> Row]
    /\ \A d \in Droplets :
         \/ row'[d].state = row[d].state
         \/ row[d].state = "active" /\ row'[d].state = "draining"

\* A step that keeps the rows and the tick, or ends the tick.
LEMMA KeptStep ==
    ASSUME PoolAssumption, TypeOK, PoolInv, ctl' = ctl \/ ctl' = Idle, RowsKept
    PROVE  ctl' \in Controller /\ PoolInv' /\ RowsAdvance
<1>1. ctl \in Controller /\ Idle \in Controller
  BY DEF TypeOK, Controller, Idle, Stage, Time, PoolAssumption
<1>2. ctl.tasks \subseteq Task /\ ctl.eligible \subseteq Droplets
  BY <1>1 DEF Controller
<1>3. RowsAdvance
  BY DEF RowsAdvance, RowsKept
<1>4. Claimed' \subseteq Claimed
  <2>1. Live' \subseteq Live
    BY DEF Live, LiveState, RowsKept
  <2>2. ctl'.tasks \subseteq ctl.tasks
    BY DEF Idle
  <2> QED  BY <2>1, <2>2 DEF Claimed
<1>5. Cardinality(Claimed)' <= Cardinality(Claimed)
      /\ Cardinality(Claimed)' \in Nat /\ Cardinality(Claimed) \in Nat
  BY <1>4, ClaimsShrink
<1>6. CASE ctl' = Idle
  <2>1. ctl'.tasks = {} /\ ctl'.next = "reconcile"
    BY <1>6 DEF Idle
  <2>2. ClaimsWithinCap'
    BY <1>5, <2>1 DEF PoolInv, ClaimsWithinCap, PoolAssumption
  <2> QED
    BY <1>1, <1>3, <1>6, <2>1, <2>2
       DEF PoolInv, TasksShaped, TasksApart, TasksSound, EligibleSound
<1>7. CASE ctl' = ctl
  <2>1. TasksShaped' /\ TasksApart'
    BY <1>7 DEF PoolInv, TasksShaped, TasksApart
  <2>2. TasksSound'
    <3> SUFFICES ASSUME NEW t \in ctl.tasks PROVE Premise(t.ops, row'[t.d].state)
      BY <1>7 DEF TasksSound
    <3>1. Premise(t.ops, row[t.d].state) /\ t.d \in Droplets
      BY <1>2 DEF PoolInv, TasksSound, Task
    <3> QED  BY <3>1 DEF Premise, Drainable, LiveState, RowsKept
  <2>3. EligibleSound'
    BY <1>2, <1>7 DEF PoolInv, EligibleSound, Drainable, RowsKept
  <2>4. ClaimsWithinCap'
    <3>1. Max \in Nat /\ ctl.room \in Nat
      BY <1>1 DEF Controller, PoolAssumption
    <3> QED  BY <1>5, <1>7, <3>1 DEF PoolInv, ClaimsWithinCap
  <2> QED  BY <1>1, <1>3, <1>7, <2>1, <2>2, <2>3, <2>4 DEF PoolInv
<1> QED  BY <1>6, <1>7

\* Recorders, the operator and the clock.
LEMMA OutsideStep ==
    ASSUME PoolAssumption, TypeOK, PoolInv, Outside
    PROVE  TypeOK' /\ PoolInv' /\ RowsAdvance
<1>1. ASSUME UNCHANGED row PROVE RowsKept
  BY <1>1 DEF TypeOK, RowsKept
<1>2. now \in Time /\ row \in [Droplets -> Row] /\ LeaseTerm \in Nat
  BY DEF TypeOK, Time, PoolAssumption
<1>3. ASSUME NEW d \in Droplets, Report(d) PROVE RowsKept
  BY <1>2, <1>3 DEF Report, Row, RowsKept
<1>4. ASSUME NEW d \in Droplets, OperatorDrain(d) PROVE RowsKept
  <2> DEFINE r == [row[d] EXCEPT !.state = "draining", !.drain = now]
  <2>1. r \in Row /\ r.state = "draining"
    BY <1>2, <1>4 DEF Row, RowState
  <2>2. row' = [row EXCEPT ![d] = r] /\ row[d].state = "active"
    BY <1>4 DEF OperatorDrain
  <2> HIDE DEF r
  <2> QED  BY <1>2, <1>4, <2>1, <2>2 DEF RowsKept
<1>5. ASSUME NEW d \in Droplets, LeaseJob(d) \/ RenewLease(d) \/ EndLease(d)
      PROVE  RowsKept /\ lease' \in [Droplets -> 0..LeaseTerm] /\ UNCHANGED <<ctl, now, build, faults, instance, token>>
  <2>1. UNCHANGED <<row, ctl, now, build, faults, instance, token>>
        /\ lease' \in {[lease EXCEPT ![d] = LeaseTerm], [lease EXCEPT ![d] = 0]}
    BY <1>5 DEF LeaseJob, RenewLease, EndLease
  <2> QED  BY <1>1, <1>2, <2>1 DEF TypeOK
<1>6. ASSUME ClockTick
      PROVE  RowsKept /\ lease' \in [Droplets -> 0..LeaseTerm] /\ now' \in 1..MaxNow
  <2>1. now' \in 1..MaxNow
    BY <1>6 DEF ClockTick, TypeOK, PoolAssumption
  <2>2. lease' \in [Droplets -> 0..LeaseTerm]
    BY <1>2, <1>6 DEF ClockTick, TypeOK, Busy
  <2> QED  BY <1>1, <1>6, <2>1, <2>2 DEF ClockTick
<1>7. RowsKept /\ ctl' = ctl
  BY <1>3, <1>4, <1>5, <1>6 DEF Outside, Report, OperatorDrain, ClockTick
<1>8. ctl' \in Controller /\ PoolInv' /\ RowsAdvance
  BY <1>7, KeptStep
<1>9. /\ lease' \in [Droplets -> 0..LeaseTerm] /\ now' \in 1..MaxNow
      /\ UNCHANGED <<instance, token, build, faults>>
  BY <1>5, <1>6 DEF Outside, Report, OperatorDrain, ClockTick, TypeOK
<1> QED  BY <1>7, <1>8, <1>9 DEF TypeOK, RowsKept

\* Failing statements and calls, crashes and deployments.
LEMMA DisturbStep ==
    ASSUME PoolAssumption, TypeOK, PoolInv, Disturb, ~ReadFails
    PROVE  TypeOK' /\ PoolInv' /\ RowsAdvance
<1> DEFINE Goal == row' \in [Droplets -> Row] /\ ctl' \in Controller /\ PoolInv' /\ RowsAdvance
<1>1. ASSUME NEW kind, Fault(kind) PROVE faults' \in 0..MaxFaults
  BY <1>1 DEF Fault, TypeOK, PoolAssumption
<1>2. ASSUME NEW t \in ctl.tasks, NEW ops \in {<<"revoke">>, FailProvision},
             ctl.next \in {"rollout", "drain"}, Broken(t, ops), UNCHANGED row
      PROVE  Goal
  <2>1. ops \in Pending(ctl.next)
    BY <1>2 DEF Pending, FailProvision
  <2>2. ~Inserts(ops) /\ ~Destroys(ops) /\ ops # <<"drain">>
    BY <1>2 DEF Inserts, Destroys, FailProvision, ScaleUp, SilentWorker, DrainedWorker, DestroyWorker
  <2>3. \A s : Premise(ops, s)
    BY <2>2 DEF Premise
  <2>4. ctl' = [ctl EXCEPT !.tasks = GoOn(t, ops)]
    BY <1>2 DEF Broken, ScalingUp
  <2>5. row' \in [Droplets -> Row] /\ RowsAdvance
    BY <1>2 DEF TypeOK, RowsAdvance
  <2> QED  BY <1>2, <2>1, <2>2, <2>3, <2>4, <2>5, TaskStep
<1>3. ASSUME NEW t \in ctl.tasks, StatementFails(t) PROVE TypeOK' /\ PoolInv' /\ RowsAdvance
  <2>1. Broken(t, AfterError(t)) /\ UNCHANGED <<row, instance, token, lease, build, now>>
        /\ faults' \in 0..MaxFaults
    BY <1>1, <1>3 DEF StatementFails
  <2>2. CASE Head(t.ops) = "insert"
    <3>1. ctl.next \in {"rollout", "drain"}
      BY <2>2, AfterHead, PendingShape
    <3>2. AfterError(t) = <<"revoke">>
      BY <2>2 DEF AfterError
    <3>3. Goal  BY <1>2, <2>1, <3>1, <3>2
    <3> QED  BY <2>1, <3>3 DEF TypeOK
  <2>3. CASE Head(t.ops) # "insert"
    <3>1. AfterError(t) \in {<<>>, Tail(t.ops)}
      BY <2>3 DEF AfterError
    <3>2. Goal  BY <2>1, <3>1, QuietStep
    <3> QED  BY <2>1, <3>2 DEF TypeOK
  <2> QED  BY <2>2, <2>3
<1>4. ASSUME NEW t \in ctl.tasks, DeleteFails(t) PROVE TypeOK' /\ PoolInv' /\ RowsAdvance
  <2>1. faults' \in 0..MaxFaults  BY <1>1, <1>4 DEF DeleteFails
  <2>2. Goal  BY <1>4, QuietStep DEF DeleteFails
  <2>3. t.d \in Droplets  BY AfterHead
  <2>4. instance' \in [Droplets -> Instance]
    BY <1>4, <2>3, InstanceTyped DEF DeleteFails, TypeOK
  <2> QED  BY <1>4, <2>1, <2>2, <2>4 DEF DeleteFails, TypeOK
<1>5. ASSUME NEW t \in ctl.tasks, CreateFails(t) PROVE TypeOK' /\ PoolInv' /\ RowsAdvance
  <2>1. faults' \in 0..MaxFaults  BY <1>1, <1>5 DEF CreateFails
  <2>2. t.d \in Droplets /\ ctl.next \in {"rollout", "drain"}
    <3>1. Head(t.ops) \in {"create", "setup"}  BY <1>5 DEF CreateFails, Doing
    <3> QED  BY <3>1, AfterHead, PendingShape
  <2>3. Goal  BY <1>2, <1>5, <2>2 DEF CreateFails
  <2>4. instance' \in [Droplets -> Instance]
    BY <1>5, <2>2, InstanceTyped DEF CreateFails, TypeOK
  <2> QED  BY <1>5, <2>1, <2>3, <2>4 DEF CreateFails, TypeOK
<1>6. ASSUME UNCHANGED row, ctl' = ctl \/ ctl' = Idle PROVE Goal
  <2>1. RowsKept  BY <1>6 DEF TypeOK, RowsKept
  <2> QED  BY <1>6, <2>1, KeptStep DEF RowsKept
<1>7. ASSUME NEW d \in Droplets, Vanish(d) PROVE TypeOK' /\ PoolInv' /\ RowsAdvance
  <2>1. faults' \in 0..MaxFaults  BY <1>1, <1>7 DEF Vanish
  <2>2. Goal  BY <1>6, <1>7 DEF Vanish
  <2>3. instance' \in [Droplets -> Instance]  BY <1>7, InstanceTyped DEF Vanish
  <2> QED  BY <1>7, <2>1, <2>2, <2>3 DEF Vanish, TypeOK
<1>8. CASE Crash
  <2>1. faults' \in 0..MaxFaults  BY <1>1, <1>8 DEF Crash
  <2>2. Goal  BY <1>6, <1>8 DEF Crash
  <2> QED  BY <1>8, <2>1, <2>2 DEF Crash, TypeOK
<1>9. CASE Deploy
  <2>1. build' \in 0..MaxBuild  BY <1>9 DEF Deploy, TypeOK, PoolAssumption
  <2>2. Goal  BY <1>6, <1>9 DEF Deploy
  <2> QED  BY <1>9, <2>1, <2>2 DEF Deploy, TypeOK
<1> QED  BY <1>3, <1>4, <1>5, <1>7, <1>8, <1>9 DEF Disturb

-----------------------------------------------------------------------------
(* The reads.                                                              *)

\* The tasks a read plans: each on a droplet of S, with operations ops.
LEMMA TodoTyped ==
    ASSUME TypeOK, NEW rank \in 0..5, NEW S \in SUBSET Droplets, NEW ops \in Seq(Op) \ {<<>>}
    PROVE  /\ Todo(rank, S, ops) \subseteq Task
           /\ \A t \in Todo(rank, S, ops) : t.d \in S /\ t.ops = ops
           /\ \A t, u \in Todo(rank, S, ops) : t.d = u.d => t = u
<1>1. \A d \in S : row[d].id \in BOOLEAN
  BY DEF TypeOK, Row
<1> QED  BY <1>1 DEF Todo, Task

\* A list of a stage planned for the droplets of S.
LEMMA TodoPlanned ==
    ASSUME TypeOK, NEW stage \in Stage, NEW rank \in 0..5, NEW S \in SUBSET Droplets,
           NEW ops \in Pending(stage)
    PROVE  /\ \A t \in Todo(rank, S, ops) :
                t \in Task /\ t.ops = ops /\ t.ops \in Pending(stage) /\ t.d \in S
           /\ \A t, u \in Todo(rank, S, ops) : t.d = u.d => t = u
<1>1. ops \in Seq(Op) \ {<<>>}
  BY PendingShape
<1> QED  BY <1>1, TodoTyped

\* A plan after which no droplet is claimed but by its live row.
LEMMA PlanStep ==
    ASSUME PoolAssumption, TypeOK, PoolInv, ctl' \in Controller, RowsKept,
           ctl'.next # "rollout",
           \A t \in ctl'.tasks : /\ t.ops \in Pending(ctl'.next)
                                 /\ ~Inserts(t.ops)
                                 /\ Premise(t.ops, row'[t.d].state),
           ctl'.next # "promote" => \A t, u \in ctl'.tasks : t.d = u.d => t = u,
           EligibleSound'
    PROVE  PoolInv' /\ RowsAdvance
<1>1. RowsAdvance
  BY DEF RowsAdvance, RowsKept
<1>2. Claimed' \subseteq Claimed
  <2>1. Live' \subseteq Live
    BY DEF Live, LiveState, RowsKept
  <2> QED  BY <2>1 DEF Claimed
<1>3. ClaimsWithinCap'
  BY <1>2, ClaimsShrink DEF PoolInv, ClaimsWithinCap, PoolAssumption
<1> QED  BY <1>1, <1>3 DEF PoolInv, TasksShaped, TasksApart, TasksSound

\* reconcile: the fleet read and its five loops.
LEMMA ReconcileStep ==
    ASSUME PoolAssumption, TypeOK, PoolInv, Reconcile
    PROVE  TypeOK' /\ PoolInv' /\ RowsAdvance
<1>1. PICK unlisted \in SUBSET Lagging :
        /\ ctl' = [Idle EXCEPT !.next = "promote", !.now = now, !.fleet = Running \ unlisted,
                               !.tasks = ReconcilePlan(Running \ unlisted)]
        /\ instance' = [d \in Droplets |->
             [instance[d] EXCEPT !.listed = instance[d].listed \/ d \in Running \ unlisted]]
  BY DEF Reconcile
<1> DEFINE fleet == Running \ unlisted
<1>2. fleet \subseteq Droplets
  BY DEF Running
<1>3. \A t \in ReconcilePlan(fleet) : t \in Task /\ t.ops \in Pending("promote")
  <2> DEFINE overdue == {d \in Droplets : Overdue(d)}
             seen == {d \in overdue : WorkerSeen(d, fleet, now)}
             resumed == {d \in InState("destroying") \cap fleet : row[d].id}
             P1 == Todo(1, AdoptByName(fleet), <<"bind">>)
             P2 == Todo(2, DestroyOrphan(fleet), <<"orphan">>)
             P3 == Todo(3, MissingFromDO(fleet), <<"begin", "revoke", "destroyed">>)
             P4 == Todo(4, resumed, <<"delete", "revoke", "destroyed">>)
             P5 == Todo(5, seen, <<"keep", "begin", "delete", "failed", "revoke">>)
             P6 == Todo(5, overdue \ seen, <<"spare", "begin", "delete", "failed", "revoke">>)
  <2>1. ReconcilePlan(fleet) = UNION {P1, P2, P3, P4, P5, P6}
    BY DEF ReconcilePlan
  <2>2. /\ AdoptByName(fleet) \subseteq Droplets /\ DestroyOrphan(fleet) \subseteq Droplets
        /\ MissingFromDO(fleet) \subseteq Droplets /\ resumed \subseteq Droplets
        /\ seen \subseteq Droplets /\ overdue \ seen \subseteq Droplets
    BY <1>2 DEF AdoptByName, DestroyOrphan, MissingFromDO, Live, InState
  <2>3. "promote" \in Stage  BY DEF Stage
  <2> DEFINE Q == Pending("promote")
  <2>4. /\ <<"bind">> \in Q /\ <<"orphan">> \in Q
         /\ <<"begin", "revoke", "destroyed">> \in Q
         /\ <<"delete", "revoke", "destroyed">> \in Q
         /\ <<"keep", "begin", "delete", "failed", "revoke">> \in Q
         /\ <<"spare", "begin", "delete", "failed", "revoke">> \in Q
    BY DEF Pending
  <2> HIDE DEF overdue, seen, resumed, fleet
  <2>5. \A t \in P1 : t \in Task /\ t.ops \in Pending("promote")
    BY <2>2, <2>3, <2>4, TodoPlanned
  <2>6. \A t \in P2 : t \in Task /\ t.ops \in Pending("promote")
    BY <2>2, <2>3, <2>4, TodoPlanned
  <2>7. \A t \in P3 : t \in Task /\ t.ops \in Pending("promote")
    BY <2>2, <2>3, <2>4, TodoPlanned
  <2>8. \A t \in P4 : t \in Task /\ t.ops \in Pending("promote")
    BY <2>2, <2>3, <2>4, TodoPlanned
  <2>9. \A t \in P5 : t \in Task /\ t.ops \in Pending("promote")
    BY <2>2, <2>3, <2>4, TodoPlanned
  <2>10. \A t \in P6 : t \in Task /\ t.ops \in Pending("promote")
    BY <2>2, <2>3, <2>4, TodoPlanned
  <2> HIDE DEF P1, P2, P3, P4, P5, P6
  <2> QED  BY <2>1, <2>5, <2>6, <2>7, <2>8, <2>9, <2>10
<1> HIDE DEF fleet
<1>4. ctl'.next = "promote" /\ ctl'.tasks = ReconcilePlan(fleet) /\ ctl' \in Controller
  <2>1. now \in Time /\ 0 \in Time  BY DEF TypeOK, Time, PoolAssumption
  <2> QED  BY <1>1, <1>2, <1>3, <2>1 DEF Idle, Controller, Stage, fleet
<1>5. \A t \in ctl'.tasks : /\ t.ops \in Pending(ctl'.next)
                            /\ ~Inserts(t.ops)
                            /\ Premise(t.ops, row'[t.d].state)
  <2>2. \A t \in ctl'.tasks : ~Inserts(t.ops) /\ ~Destroys(t.ops) /\ t.ops # <<"drain">>
    BY <1>3, <1>4, PromotePlain
  <2> QED  BY <1>3, <1>4, <2>2 DEF Premise
<1>6. RowsKept /\ EligibleSound'
  BY <1>4 DEF Reconcile, RowsKept, TypeOK, EligibleSound
<1>7. PoolInv' /\ RowsAdvance
  BY <1>4, <1>5, <1>6, PlanStep
<1>8. instance' \in [Droplets -> Instance]
  BY <1>1 DEF TypeOK, Instance
<1> QED  BY <1>4, <1>7, <1>8 DEF Reconcile, TypeOK

\* A read that plans one list of operations, for rows that meet its premise.
LEMMA SingleStep ==
    ASSUME PoolAssumption, TypeOK, PoolInv, RowsKept, ctl' \in Controller,
           NEW S \in SUBSET Droplets, NEW ops \in Pending(ctl'.next),
           ctl'.tasks = Todo(0, S, ops), ~Inserts(ops),
           \A d \in S : Premise(ops, row'[d].state),
           ctl'.next # "rollout", EligibleSound'
    PROVE  PoolInv' /\ RowsAdvance
<1>1. ctl'.next \in Stage /\ 0 \in 0..5
  BY DEF Controller
<1>2. /\ \A t \in ctl'.tasks : t.ops = ops /\ t.ops \in Pending(ctl'.next) /\ t.d \in S
      /\ \A t, u \in ctl'.tasks : t.d = u.d => t = u
  BY <1>1, TodoPlanned
<1> QED  BY <1>2, PlanStep

\* promoteActive.
LEMMA PromoteStep ==
    ASSUME PoolAssumption, TypeOK, PoolInv, PromoteActive
    PROVE  TypeOK' /\ PoolInv' /\ RowsAdvance
<1> DEFINE S == {d \in InState("provisioning") :
                   WorkerSeen(d, ctl.fleet, ctl.now) /\ row[d].build = build}
<1>1. ctl' = [ctl EXCEPT !.next = "reap", !.fleet = {}, !.tasks = Todo(0, S, <<"active">>)]
  BY DEF PromoteActive
<1>2. S \subseteq Droplets /\ <<"active">> \in Pending("reap") /\ "reap" \in Stage /\ 0 \in 0..5
  BY DEF InState, Pending, Stage
<1> HIDE DEF S
<1>3. Todo(0, S, <<"active">>) \subseteq Task
  BY <1>2, TodoPlanned
<1>4. /\ ctl' \in Controller /\ ctl'.next = "reap" /\ ctl'.tasks = Todo(0, S, <<"active">>)
  BY <1>1, <1>2, <1>3 DEF TypeOK, Controller
<1>5. RowsKept /\ EligibleSound'
  BY <1>4 DEF PromoteActive, RowsKept, TypeOK, EligibleSound
<1>6. ~Inserts(<<"active">>) /\ \A s : Premise(<<"active">>, s)
  BY DEF Premise, Inserts, Destroys, ScaleUp, SilentWorker, DrainedWorker, DestroyWorker
<1>7. PoolInv' /\ RowsAdvance
  BY <1>2, <1>4, <1>5, <1>6, SingleStep
<1> QED  BY <1>4, <1>7 DEF PromoteActive, TypeOK

\* reapUnresponsive.
LEMMA ReapStep ==
    ASSUME PoolAssumption, TypeOK, PoolInv, ReapUnresponsive
    PROVE  TypeOK' /\ PoolInv' /\ RowsAdvance
<1> DEFINE S == {d \in InState("active") :
                   StaleAfter > 0 /\ ctl.now - WorkerLastLiveAt(row[d]) >= StaleAfter}
<1>1. ctl' = [ctl EXCEPT !.next = "decide", !.tasks = Todo(0, S, SilentWorker)]
  BY DEF ReapUnresponsive
<1>2. S \subseteq Droplets /\ SilentWorker \in Pending("decide") /\ "decide" \in Stage /\ 0 \in 0..5
  BY DEF InState, Pending, Stage
<1>3. \A d \in S : row[d].state \in LiveState
  BY DEF InState, LiveState
<1> HIDE DEF S
<1>4. Todo(0, S, SilentWorker) \subseteq Task
  BY <1>2, TodoPlanned
<1>5. /\ ctl' \in Controller /\ ctl'.next = "decide" /\ ctl'.tasks = Todo(0, S, SilentWorker)
  BY <1>1, <1>2, <1>4 DEF TypeOK, Controller
<1>6. RowsKept /\ EligibleSound'
  BY <1>5 DEF ReapUnresponsive, RowsKept, TypeOK, EligibleSound
<1>7. ~Inserts(SilentWorker) /\ \A s \in LiveState : Premise(SilentWorker, s)
  BY DEF Premise, Inserts, ScaleUp, SilentWorker
<1>8. \A d \in S : Premise(SilentWorker, row'[d].state)
  BY <1>3, <1>7 DEF ReapUnresponsive
<1>9. PoolInv' /\ RowsAdvance
  BY <1>2, <1>5, <1>6, <1>7, <1>8, SingleStep
<1> QED  BY <1>5, <1>9 DEF ReapUnresponsive, TypeOK

\* beginDrains.
LEMMA BeginDrainsStep ==
    ASSUME PoolAssumption, TypeOK, PoolInv, BeginDrains
    PROVE  TypeOK' /\ PoolInv' /\ RowsAdvance
<1>1. PICK S \in SUBSET ctl.eligible :
        ctl' = [ctl EXCEPT !.next = "progress", !.eligible = {}, !.quota = 0,
                           !.tasks = Todo(0, S, <<"drain">>)]
  BY DEF BeginDrains
<1>2. /\ S \subseteq Droplets /\ <<"drain">> \in Pending("progress")
      /\ "progress" \in Stage /\ 0 \in 0..5
  BY DEF TypeOK, Controller, Pending, Stage
<1>3. \A d \in S : row[d].state \in Drainable
  BY DEF BeginDrains, Reading, PoolInv, EligibleSound
<1>4. Todo(0, S, <<"drain">>) \subseteq Task
  BY <1>2, TodoPlanned
<1>5. /\ ctl' \in Controller /\ ctl'.next = "progress" /\ ctl'.tasks = Todo(0, S, <<"drain">>)
  BY <1>1, <1>2, <1>4 DEF TypeOK, Controller
<1>6. RowsKept /\ EligibleSound'
  BY <1>5 DEF BeginDrains, RowsKept, TypeOK, EligibleSound
<1>7. ~Inserts(<<"drain">>) /\ \A s \in Drainable : Premise(<<"drain">>, s)
  BY DEF Premise, Inserts, Destroys, ScaleUp, SilentWorker, DrainedWorker, DestroyWorker
<1>8. \A d \in S : Premise(<<"drain">>, row'[d].state)
  BY <1>3, <1>7 DEF BeginDrains
<1>9. PoolInv' /\ RowsAdvance
  BY <1>2, <1>5, <1>6, <1>7, <1>8, SingleStep
<1> QED  BY <1>5, <1>9 DEF BeginDrains, TypeOK

\* progressDrains.
LEMMA ProgressDrainsStep ==
    ASSUME PoolAssumption, TypeOK, PoolInv, ProgressDrains
    PROVE  TypeOK' /\ PoolInv' /\ RowsAdvance
<1> DEFINE F == {d \in InState("draining") : Forced(d)}
           G == InState("draining") \ F
           P1 == Todo(0, F, DestroyWorker)
           P2 == Todo(0, G, DrainedWorker)
<1>1. ctl' = [Idle EXCEPT !.tasks = P1 \cup P2]
  BY DEF ProgressDrains
<1>2. /\ F \subseteq Droplets /\ G \subseteq Droplets /\ F \cap G = {}
      /\ \A d \in F \cup G : row[d].state \in LiveState
  BY DEF InState, LiveState
<1>3. /\ DestroyWorker \in Pending("reconcile") /\ DrainedWorker \in Pending("reconcile")
      /\ "reconcile" \in Stage /\ 0 \in 0..5
  BY DEF Pending, Stage
<1> HIDE DEF F, G
<1>4. /\ \A t \in P1 : /\ t \in Task /\ t.d \in F /\ t.ops = DestroyWorker
                       /\ t.ops \in Pending("reconcile")
      /\ \A t, u \in P1 : t.d = u.d => t = u
  BY <1>2, <1>3, TodoPlanned
<1>5. /\ \A t \in P2 : /\ t \in Task /\ t.d \in G /\ t.ops = DrainedWorker
                       /\ t.ops \in Pending("reconcile")
      /\ \A t, u \in P2 : t.d = u.d => t = u
  BY <1>2, <1>3, TodoPlanned
<1> HIDE DEF P1, P2
<1>6. ctl' \in Controller /\ ctl'.next = "reconcile" /\ ctl'.tasks = P1 \cup P2
  <2>1. 0 \in Time  BY DEF Time, PoolAssumption
  <2> QED  BY <1>1, <1>4, <1>5, <2>1 DEF Idle, Controller, Stage
<1>7. RowsKept /\ EligibleSound'
  BY <1>6 DEF ProgressDrains, RowsKept, TypeOK, EligibleSound
<1>8. \A ops \in {DestroyWorker, DrainedWorker} :
        ~Inserts(ops) /\ \A s \in LiveState : Premise(ops, s)
  BY DEF Premise, Inserts, ScaleUp, DestroyWorker, DrainedWorker
<1>9. \A t \in ctl'.tasks : /\ t.ops \in Pending(ctl'.next)
                            /\ ~Inserts(t.ops)
                            /\ Premise(t.ops, row'[t.d].state)
  <2> SUFFICES ASSUME NEW t \in P1 \cup P2
               PROVE  /\ t.ops \in Pending("reconcile")
                      /\ ~Inserts(t.ops)
                      /\ Premise(t.ops, row[t.d].state)
    BY <1>6 DEF ProgressDrains
  <2>1. t.ops \in {DestroyWorker, DrainedWorker} /\ t.ops \in Pending("reconcile")
    BY <1>4, <1>5
  <2>2. row[t.d].state \in LiveState
    BY <1>2, <1>4, <1>5
  <2> QED  BY <1>8, <2>1, <2>2
<1>10. \A t, u \in ctl'.tasks : t.d = u.d => t = u
  BY <1>2, <1>4, <1>5, <1>6
<1>11. PoolInv' /\ RowsAdvance
  BY <1>6, <1>7, <1>9, <1>10, PlanStep
<1> QED  BY <1>6, <1>11 DEF ProgressDrains, TypeOK

\* rolloutBuild when it starts no replacement.
LEMMA RolloutQuietStep ==
    ASSUME PoolAssumption, TypeOK, PoolInv, RolloutNothing \/ RolloutDrain
    PROVE  TypeOK' /\ PoolInv' /\ RowsAdvance
<1>1. PICK rolling \in BOOLEAN : ctl' = AfterRollout(rolling, {})
  BY DEF RolloutNothing, RolloutDrain
<1>2. /\ ctl' \in Controller /\ ctl'.next = "drain" /\ ctl'.tasks = {}
      /\ ctl'.eligible \subseteq ctl.eligible /\ ctl.eligible \subseteq Droplets
  BY <1>1 DEF AfterRollout, TypeOK, Controller, Stage
<1>3. RowsKept
  <2>1. CASE UNCHANGED row
    BY <2>1 DEF RowsKept, TypeOK
  <2>2. CASE \E d \in Stale : row' = [row EXCEPT ![d].state = "draining", ![d].drain = now]
    <3>1. PICK d \in Stale : row' = [row EXCEPT ![d].state = "draining", ![d].drain = now]
      BY <2>2
    <3>2. d \in Droplets /\ row[d].state = "active" /\ now \in Time
      BY DEF Stale, InState, TypeOK, Time
    <3> DEFINE r == [row[d] EXCEPT !.state = "draining", !.drain = now]
    <3>3. row \in [Droplets -> Row]  BY DEF TypeOK
    <3>4. r \in Row /\ r.state = "draining"
      BY <3>2, <3>3 DEF Row, RowState
    <3>5. row' = [row EXCEPT ![d] = r]  BY <3>1, <3>2, <3>3
    <3> HIDE DEF r
    <3> QED  BY <3>2, <3>3, <3>4, <3>5 DEF RowsKept
  <2> QED  BY <2>1, <2>2 DEF RolloutNothing, RolloutDrain
<1>4. EligibleSound'
  <2>1. \A d \in ctl.eligible : row[d].state \in Drainable
    BY DEF RolloutNothing, RolloutDrain, Reading, PoolInv, EligibleSound
  <2> QED  BY <1>2, <1>3, <2>1 DEF EligibleSound, RowsKept, Drainable
<1>5. PoolInv' /\ RowsAdvance
  BY <1>2, <1>3, <1>4, PlanStep
<1> QED  BY <1>2, <1>3, <1>5 DEF RowsKept, RolloutNothing, RolloutDrain, TypeOK

\* A read that fails.
LEMMA ReadFailsStep ==
    ASSUME PoolAssumption, TypeOK, PoolInv, ReadFails
    PROVE  TypeOK' /\ PoolInv' /\ RowsAdvance
<1>1. faults' \in 0..MaxFaults /\ RowsKept /\ ctl.tasks = {} /\ ctl \in Controller
  BY DEF ReadFails, Fault, TypeOK, PoolAssumption, RowsKept
<1>2. CASE ctl' = Idle
  <2>1. ctl' \in Controller /\ PoolInv' /\ RowsAdvance
    BY <1>1, <1>2, KeptStep
  <2> QED  BY <1>1, <2>1 DEF ReadFails, TypeOK
<1>3. CASE \/ ctl' = [ctl EXCEPT !.next = "reap", !.fleet = {}]
           \/ ctl' = [ctl EXCEPT !.next = "decide"]
  <2>1. ctl' \in Controller /\ ctl'.next \in {"reap", "decide"} /\ ctl'.tasks = {}
    BY <1>1, <1>3 DEF Controller, Stage
  <2>2. EligibleSound'
    BY <2>1 DEF EligibleSound
  <2>3. PoolInv' /\ RowsAdvance
    BY <1>1, <2>1, <2>2, PlanStep
  <2> QED  BY <1>1, <2>1, <2>3 DEF ReadFails, TypeOK
<1>4. CASE ctl.next = "rollout" /\ \E rolling \in {FALSE, Stale # {}} : ctl' = AfterRollout(rolling, {})
  <2>1. /\ ctl' \in Controller /\ ctl'.next = "drain" /\ ctl'.tasks = {}
        /\ ctl'.eligible \subseteq ctl.eligible
    <3>1. PICK rolling \in BOOLEAN : ctl' = AfterRollout(rolling, {})
      BY <1>4
    <3> QED  BY <1>1, <3>1 DEF AfterRollout, Controller, Stage
  <2>2. \A d \in ctl.eligible : row[d].state \in Drainable
    BY <1>4 DEF PoolInv, EligibleSound
  <2>3. EligibleSound'
    BY <2>1, <2>2 DEF EligibleSound, ReadFails
  <2>4. PoolInv' /\ RowsAdvance
    BY <1>1, <2>1, <2>3, PlanStep
  <2> QED  BY <1>1, <2>1, <2>4 DEF ReadFails, TypeOK
<1> QED  BY <1>2, <1>3, <1>4 DEF ReadFails

\* Names taken for a scale-up add at most their number to the claims.
LEMMA NewClaims ==
    ASSUME PoolAssumption, TypeOK, PoolInv, RowsKept, ctl' \in Controller,
           NEW n \in Nat, NEW names \in NextNames(n),
           ctl'.next \in {"rollout", "drain"}, ctl'.tasks = Todo(0, names, ScaleUp),
           CountLive + n <= Max,
           ctl'.next = "rollout" => CountLive + n <= ctl'.room /\ ctl'.room <= Max,
           \A d \in ctl'.eligible : row'[d].state \in Drainable
    PROVE  PoolInv' /\ RowsAdvance
<1>1. /\ names \subseteq Droplets /\ Cardinality(names) = n
      /\ \A d \in names : row[d].state = "absent" /\ row'[d].state = "absent"
  BY DEF NextNames, Fresh, RowsKept
<1>2. ScaleUp \in Pending(ctl'.next) /\ ctl'.next \in Stage /\ 0 \in 0..5
  BY DEF Pending, Stage
<1>3. /\ \A t \in ctl'.tasks : t.ops = ScaleUp /\ t.ops \in Pending(ctl'.next) /\ t.d \in names
      /\ \A t, u \in ctl'.tasks : t.d = u.d => t = u
  BY <1>1, <1>2, TodoPlanned
<1>4. Premise(ScaleUp, "absent")
  BY DEF Premise, Inserts, Destroys, ScaleUp, SilentWorker, DrainedWorker, DestroyWorker
<1>5. TasksShaped' /\ TasksApart' /\ TasksSound'
  BY <1>1, <1>3, <1>4 DEF TasksShaped, TasksApart, TasksSound
<1>6. EligibleSound'
  BY <1>1, <1>3 DEF EligibleSound, Drainable
<1>7. Live' \subseteq Live
  BY DEF Live, LiveState, RowsKept
<1>8. Claimed' \subseteq Live \cup names
  BY <1>3, <1>7 DEF Claimed
<1>9. /\ Cardinality(Claimed)' \in Nat
      /\ Cardinality(Claimed)' <= CountLive + n /\ CountLive \in Nat
  <2>1. IsFiniteSet(Live) /\ IsFiniteSet(names)
    <3>1. Live \subseteq Droplets  BY DEF Live
    <3> QED  BY <1>1, <3>1, FS_Subset DEF PoolAssumption
  <2>2. /\ IsFiniteSet(Live \cup names)
        /\ Cardinality(Live \cup names)
             = Cardinality(Live) + Cardinality(names) - Cardinality(Live \cap names)
    BY <2>1, FS_Union
  <2>3. IsFiniteSet(Live \cap names)
    BY <2>1, FS_Intersection
  <2>4. Cardinality(Claimed)' <= Cardinality(Live \cup names)
    BY <1>8, <2>2, FS_Subset
  <2>5. IsFiniteSet(Claimed)'
    BY <1>8, <2>2, FS_Subset
  <2>6. /\ Cardinality(Live) \in Nat /\ Cardinality(Live \cap names) \in Nat
        /\ Cardinality(Claimed)' \in Nat
    BY <2>1, <2>3, <2>5, FS_CardinalityType
  <2> QED  BY <1>1, <2>2, <2>4, <2>6 DEF CountLive
<1>10. ClaimsWithinCap'
  <2>1. ctl'.room \in Nat /\ Max \in Nat  BY DEF Controller, PoolAssumption
  <2> QED  BY <1>9, <2>1 DEF ClaimsWithinCap
<1>11. RowsAdvance
  BY DEF RowsAdvance, RowsKept
<1> QED  BY <1>5, <1>6, <1>10, <1>11 DEF PoolInv

\* rolloutBuild when it starts one.
LEMMA SurgeStep ==
    ASSUME PoolAssumption, TypeOK, PoolInv, RolloutSurge
    PROVE  TypeOK' /\ PoolInv' /\ RowsAdvance
<1>1. PICK n \in 0..1 : \E names \in NextNames(n) :
        /\ n = 1 => ctl.room < Max
        /\ ctl' = AfterRollout(TRUE, Todo(0, names, ScaleUp))
  BY DEF RolloutSurge
<1>2. PICK names \in NextNames(n) : ctl' = AfterRollout(TRUE, Todo(0, names, ScaleUp))
  BY <1>1
<1>3. /\ names \subseteq Droplets /\ ScaleUp \in Pending("drain")
      /\ "drain" \in Stage /\ 0 \in 0..5
  BY DEF NextNames, Fresh, Pending, Stage
<1>4. Todo(0, names, ScaleUp) \subseteq Task
  BY <1>3, TodoPlanned
<1>5. /\ ctl' \in Controller /\ ctl'.next = "drain" /\ ctl'.eligible = {}
      /\ ctl'.tasks = Todo(0, names, ScaleUp)
  BY <1>2, <1>3, <1>4 DEF AfterRollout, TypeOK, Controller
<1>6. RowsKept
  BY DEF RolloutSurge, RowsKept, TypeOK
<1>7. CountLive + n <= Max
  <2>1. ctl.tasks = {} /\ ctl.next = "rollout"
    BY DEF RolloutSurge, Reading
  <2>2. Claimed = Live
    BY <2>1 DEF Claimed
  <2>3. CountLive <= ctl.room /\ ctl.room <= Max
    BY <2>1, <2>2 DEF PoolInv, ClaimsWithinCap, CountLive
  <2>4. CountLive \in Nat
    <3>1. Live \subseteq Droplets  BY DEF Live
    <3> QED  BY <3>1, FS_Subset, FS_CardinalityType DEF CountLive, PoolAssumption
  <2>5. ctl.room \in Nat /\ Max \in Nat
    BY DEF TypeOK, Controller, PoolAssumption
  <2> QED  BY <1>1, <2>3, <2>4, <2>5
<1>8. PoolInv' /\ RowsAdvance
  BY <1>5, <1>6, <1>7, NewClaims
<1> QED  BY <1>5, <1>8 DEF RolloutSurge, TypeOK

\* A decision asks for no more than the cap leaves.
LEMMA DecideBounds ==
    ASSUME PoolAssumption, NEW live \in Nat, live <= Max, NEW idle \in Nat, NEW f \in Forecast
    PROVE  /\ Decide(live, idle, f).up \in Nat /\ live + Decide(live, idle, f).up <= Max
           /\ Decide(live, idle, f).drain \in Nat
           /\ Larger(f.peak, Min * Capacity) \in Nat
<1>1. Max \in Nat /\ Min \in Nat /\ Batch \in Nat /\ Capacity \in Nat /\ Capacity # 0
  BY DEF PoolAssumption
<1>2. f.peak \in Nat
  <2>1. Max * Capacity \in Nat  BY <1>1
  <2> QED  BY <2>1 DEF Forecast
<1>3. Required(f.peak) \in Nat /\ Required(f.peak) <= Max
  <2>1. (f.peak + Capacity - 1) \div Capacity \in Int
    BY <1>1, <1>2
  <2> QED  BY <1>1, <2>1 DEF Required, Smaller, Larger
<1>4. Min * Capacity \in Nat
  BY <1>1
<1> DEFINE required == Required(f.peak)
<1> HIDE DEF required
<1>5. /\ Decide(live, idle, f).up \in {Smaller(required - live, Batch), 0}
      /\ Decide(live, idle, f).up # 0 => required > live
      /\ Decide(live, idle, f).drain \in {Smaller(live - Larger(required, Min), idle), 0}
      /\ Decide(live, idle, f).drain # 0 => live > Min /\ live > required
  BY DEF Decide, required
<1>6. required \in Nat /\ required <= Max
  BY <1>3 DEF required
<1> QED  BY <1>1, <1>2, <1>4, <1>5, <1>6 DEF Smaller, Larger

\* refreshIdle, CountLive, Decide and the batch of scale-ups.
LEMMA DecideStep ==
    ASSUME PoolAssumption, TypeOK, PoolInv, DecideScale
    PROVE  TypeOK' /\ PoolInv' /\ RowsAdvance
<1> DEFINE eligible == IdleEligible(RefreshIdle)
           D(f) == Decide(CountLive, Cardinality(eligible), f)
           Planned(f, names) ==
             [ctl EXCEPT !.next = "rollout",
                !.tasks = Todo(0, names, ScaleUp),
                !.room = CountLive + D(f).up,
                !.need = Larger(f.peak, Min * Capacity),
                !.eligible = IF D(f).drain = 0 THEN {} ELSE eligible,
                !.quota = D(f).drain]
<1>a. PICK f \in Forecast :
        \E n \in 0..D(f).up : \E names \in NextNames(n) : ctl' = Planned(f, names)
  BY DEF DecideScale
<1>b. PICK n \in 0..D(f).up : \E names \in NextNames(n) : ctl' = Planned(f, names)
  BY <1>a
<1>1. PICK names \in NextNames(n) : ctl' = Planned(f, names)
  BY <1>b
<1>2. row' = RefreshIdle /\ UNCHANGED <<instance, token, lease, build, faults, now>>
  BY DEF DecideScale
<1>3. \A d \in Droplets : RefreshIdle[d] \in Row /\ RefreshIdle[d].state = row[d].state
  <2>1. now \in Time /\ 0 \in Time  BY DEF TypeOK, Time, PoolAssumption
  <2> SUFFICES ASSUME NEW d \in Droplets
               PROVE  RefreshIdle[d] \in Row /\ RefreshIdle[d].state = row[d].state
    OBVIOUS
  <2>2. row[d] \in Row  BY DEF TypeOK
  <2>3. RefreshIdle[d] \in {row[d], [row[d] EXCEPT !.idle = 0], [row[d] EXCEPT !.idle = now]}
    BY DEF RefreshIdle
  <2> QED  BY <2>1, <2>2, <2>3 DEF Row
<1>4. RowsKept
  <2>1. RefreshIdle \in [Droplets -> Row]
    BY <1>3 DEF RefreshIdle
  <2> QED  BY <1>2, <1>3, <2>1 DEF RowsKept
<1>5. eligible \subseteq Droplets /\ \A d \in eligible : row'[d].state \in Drainable
  BY <1>2 DEF IdleEligible, Drainable
<1>6. CountLive \in Nat /\ CountLive <= Max
  <2>1. ctl.tasks = {}
    BY DEF DecideScale, Reading
  <2>2. Claimed = Live
    BY <2>1 DEF Claimed
  <2>3. Live \subseteq Droplets  BY DEF Live
  <2> QED
    BY <2>2, <2>3, FS_Subset, FS_CardinalityType
       DEF CountLive, PoolAssumption, PoolInv, ClaimsWithinCap
<1>7. Cardinality(eligible) \in Nat
  BY <1>5, FS_Subset, FS_CardinalityType DEF PoolAssumption
<1> HIDE DEF eligible
<1>8. /\ D(f).up \in Nat /\ CountLive + D(f).up <= Max /\ D(f).drain \in Nat
      /\ Larger(f.peak, Min * Capacity) \in Nat
  BY <1>6, <1>7, DecideBounds
<1>9. /\ names \subseteq Droplets /\ ScaleUp \in Pending("rollout")
      /\ "rollout" \in Stage /\ 0 \in 0..5
  BY DEF NextNames, Fresh, Pending, Stage
<1>10. Todo(0, names, ScaleUp) \subseteq Task
  BY <1>9, TodoPlanned
<1> HIDE DEF D
<1>11. CountLive + D(f).up \in Nat
  BY <1>6, <1>8
<1>12. /\ ctl' \in Controller /\ ctl'.next = "rollout"
       /\ ctl'.eligible \subseteq eligible /\ ctl'.room = CountLive + D(f).up
       /\ ctl'.tasks = Todo(0, names, ScaleUp)
  BY <1>1, <1>5, <1>8, <1>9, <1>10, <1>11 DEF TypeOK, Controller
<1>13. n \in Nat /\ CountLive + n <= CountLive + D(f).up /\ CountLive + n <= Max
  BY <1>6, <1>8, Max \in Nat DEF PoolAssumption
<1>14. PoolInv' /\ RowsAdvance
  BY <1>4, <1>5, <1>8, <1>12, <1>13, NewClaims
<1> QED  BY <1>2, <1>4, <1>12, <1>14 DEF RowsKept, TypeOK

-----------------------------------------------------------------------------
(* The theorems.                                                           *)

\* The initial state.
LEMMA InitHolds ==
    ASSUME PoolAssumption, Init PROVE TypeOK /\ PoolInv
<1>1. 0 \in Time /\ 1 \in 1..MaxNow  BY DEF Time, PoolAssumption
<1>2. Idle \in Controller /\ Idle.tasks = {} /\ Idle.next = "reconcile"
  BY <1>1 DEF Idle, Controller, Stage
<1>3. NoRow \in Row /\ NoInstance \in Instance
  BY <1>1 DEF NoRow, Row, RowState, NoInstance, Instance, PoolAssumption
<1>4. TypeOK
  BY <1>1, <1>2, <1>3 DEF Init, TypeOK, PoolAssumption
<1>5. Claimed = {}
  BY <1>2 DEF Init, Claimed, Live, LiveState, NoRow
<1>6. ClaimsWithinCap
  BY <1>2, <1>5, FS_EmptySet DEF Init, ClaimsWithinCap, PoolAssumption
<1> QED
  BY <1>2, <1>4, <1>6
     DEF Init, PoolInv, TasksShaped, TasksApart, TasksSound, EligibleSound

\* Every step keeps the invariant and advances the rows.
LEMMA NextKeeps ==
    ASSUME PoolAssumption, TypeOK, PoolInv, [Next]_vars
    PROVE  TypeOK' /\ PoolInv' /\ (RowsAdvance \/ UNCHANGED vars)
<1>1. CASE Read
  BY <1>1, ReconcileStep, PromoteStep, ReapStep, DecideStep, RolloutQuietStep, SurgeStep,
     BeginDrainsStep, ProgressDrainsStep DEF Read
<1>2. CASE Perform  BY <1>2, PerformStep
<1>3. CASE Disturb  BY <1>3, DisturbStep, ReadFailsStep
<1>4. CASE Outside  BY <1>4, OutsideStep
<1>5. CASE UNCHANGED vars
  <2>1. TypeOK'
    BY <1>5 DEF vars, TypeOK
  <2>2. Claimed' = Claimed
    BY <1>5 DEF vars, Claimed, Live
  <2>3. PoolInv'
    BY <1>5, <2>2 DEF vars, PoolInv, TasksShaped, TasksApart, TasksSound, EligibleSound, ClaimsWithinCap
  <2> QED  BY <1>5, <2>1, <2>3
<1> QED  BY <1>1, <1>2, <1>3, <1>4, <1>5 DEF Next

\* The strengthening is inductive.
THEOREM PoolInductive == Spec => [](TypeOK /\ PoolInv)
<1>1. Init => TypeOK /\ PoolInv
  BY PoolAssumption, InitHolds
<1>2. TypeOK /\ PoolInv /\ [Next]_vars => (TypeOK /\ PoolInv)'
  BY PoolAssumption, NextKeeps
<1> QED  BY <1>1, <1>2, PTL DEF Spec

\* Rows, droplets, tokens, leases and the controller's locals keep their types.
THEOREM PoolTypeCorrect == Spec => []TypeOK
<1>1. TypeOK /\ PoolInv => TypeOK  OBVIOUS
<1> QED  BY <1>1, PoolInductive, PTL

\* The live rows never exceed DROPLET_POOL_MAX, for every cap, batch size,
\* capacity and timeout, whatever calls fail and wherever the controller dies.
THEOREM CapSafety == Spec => []LiveWithinCap
<1>1. TypeOK /\ PoolInv => LiveWithinCap
  <2> SUFFICES ASSUME PoolInv PROVE LiveWithinCap  OBVIOUS
  <2>1. Live \subseteq Claimed /\ Claimed \subseteq Droplets
    BY DEF Claimed, Live
  <2>2. IsFiniteSet(Claimed)
    BY <2>1, PoolAssumption, FS_Subset DEF PoolAssumption
  <2>3. /\ Cardinality(Live) <= Cardinality(Claimed) /\ IsFiniteSet(Live)
    BY <2>1, <2>2, FS_Subset
  <2>4. Cardinality(Live) \in Nat /\ Cardinality(Claimed) \in Nat /\ Max \in Nat
    BY <2>2, <2>3, FS_CardinalityType, PoolAssumption DEF PoolAssumption
  <2> QED  BY <2>3, <2>4 DEF LiveWithinCap, PoolInv, ClaimsWithinCap
<1> QED  BY <1>1, PoolInductive, PTL

\* No statement of the controller, each of which sets a state on what an earlier
\* read of its tick saw, brings a retired row back.
THEOREM NoRevival == Spec => NoResurrection
<1>1. TypeOK /\ PoolInv /\ [Next]_vars => [RowsAdvance]_vars
  BY PoolAssumption, NextKeeps
<1> QED  BY <1>1, PoolInductive, PTL DEF Spec, NoResurrection
-----------------------------------------------------------------------------
(* Teardown and tokens: what a step may assume of the droplet it is about. *)

\* No lease path takes the droplet any more.
Unleasable(d) == row[d].state \notin {"absent", "provisioning", "active"}

\* The drain that the row records has timed out.
Overtime(d) == row[d].drain # 0 /\ now - row[d].drain >= DrainTimeout

\* The droplet may be deleted: it gets no lease, and has none or no right to it.
Spent(d) == Unleasable(d) /\ (~Busy(d) \/ Overtime(d))

\* A row that the statements before a delete have written is spent; a row that
\* was given up before it had the provider's id does not get the id later.
RowSafe(d) ==
    /\ row[d].state = "destroying" => Spent(d)
    /\ row[d].state \in {"destroyed", "failed"} /\ row[d].id => Spent(d)
    /\ row[d].state = "absent" => ~row[d].id

\* The lists that delete and retire a droplet without looking at it again.
Ends(ops) ==
    ops \in {DestroyWorker, <<"delete", "revoke", "destroyed">>, <<"revoke", "destroyed">>,
             <<"destroyed">>, <<"delete", "failed", "revoke">>}

\* The lists of a scale-up between its INSERT and its BindDroplet.
Provisions(ops) ==
    \/ ops \in {<<"create", "setup", "bind">>, <<"setup", "bind">>}
    \/ ops = <<"bind">> /\ ctl.next # "promote"

\* What the operations still to come ask of the row and its lease.
TaskSafe(ops, d) ==
    /\ Ends(ops) => Spent(d)
    /\ ops = DrainedWorker => Unleasable(d)
    /\ ops = <<"orphan">> => row[d].state \notin LiveState /\ (row[d].id => Spent(d))
    /\ ops = FailProvision => Spent(d) \/ (ctl.next # "promote" /\ ~row[d].id)
    /\ ops = <<"bind">> /\ ctl.next = "promote" => row[d].state \in LiveState \/ Spent(d)
    /\ Provisions(ops) => row[d].state = "provisioning" /\ ~row[d].id

ReadBefore == ctl.now <= now
TeardownInv ==
    /\ ReadBefore
    /\ \A d \in Droplets : RowSafe(d)
    /\ \A t \in ctl.tasks : TaskSafe(t.ops, t.d)

\* What they ask of the token: a row that is inserted has one, and one that
\* loses it does not work any more.
Working == {"provisioning", "active", "draining"}
Revokes(ops) ==
    ops \in {<<"delete", "revoke", "destroyed">>, <<"revoke", "destroyed">>, <<"revoke">>}
TokenSafe(ops, d) ==
    /\ ops = <<"insert", "create", "setup", "bind">> => token[d] = "live"
    /\ Revokes(ops) => row[d].state \notin Working
TokenInv == LiveBindings /\ \A t \in ctl.tasks : TokenSafe(t.ops, t.d)

\* Every list of operations that a task may have left.
Lists ==
    {<<"bind">>, <<"orphan">>, <<"begin", "revoke", "destroyed">>,
     <<"delete", "revoke", "destroyed">>, <<"revoke", "destroyed">>, <<"destroyed">>,
     <<"keep", "begin", "delete", "failed", "revoke">>,
     <<"spare", "begin", "delete", "failed", "revoke">>,
     <<"begin", "delete", "failed", "revoke">>, <<"delete", "failed", "revoke">>,
     <<"failed", "revoke">>, <<"revoke">>, <<"active">>, <<"drain">>,
     SilentWorker, DrainedWorker, DestroyWorker, ScaleUp,
     <<"insert", "create", "setup", "bind">>, <<"create", "setup", "bind">>,
     <<"setup", "bind">>}

\* What the next operation says of the list it begins, and the rest of a list of
\* the list.
ListShape(s) ==
    /\ Ends(Tail(s)) => Ends(s) \/ Head(s) \in {"begin", "silent", "drained"}
    /\ Tail(s) # DrainedWorker /\ Tail(s) # <<"orphan">>
    /\ Tail(s) = FailProvision => Ends(s)
    /\ Tail(s) = <<"bind">> => s = <<"setup", "bind">>
    /\ Tail(s) = <<"setup", "bind">> => s = <<"create", "setup", "bind">>
    /\ Tail(s) = <<"create", "setup", "bind">> => Head(s) = "insert"
    /\ Tail(s) = <<"insert", "create", "setup", "bind">> => Head(s) = "mint"
    /\ Revokes(Tail(s)) => Revokes(s) \/ Head(s) \in {"begin", "destroying", "failed"}
    /\ Head(s) = "begin" => ~Ends(s)
    /\ Head(s) = "drained" => s = DrainedWorker
    /\ Head(s) = "orphan" => s = <<"orphan">>
    /\ Head(s) = "bind" => s = <<"bind">>
    /\ Head(s) = "active" => s = <<"active">>
    /\ Head(s) = "drain" => s = <<"drain">>
    /\ Head(s) = "failed" => s = FailProvision
    /\ Head(s) \in {"delete", "destroying", "destroyed"} => Ends(s)
    /\ Head(s) = "destroyed" => s = <<"destroyed">>
    /\ Head(s) = "create" => s = <<"create", "setup", "bind">>
    /\ Head(s) = "setup" => s = <<"setup", "bind">>
    /\ Head(s) = "insert" => s = <<"insert", "create", "setup", "bind">>
    /\ Head(s) = "mint" => s = ScaleUp
    /\ Head(s) = "revoke" => Revokes(s)

\* The lists of the stages, each with its shape.
LEMMA Shapes ==
    ASSUME NEW stage \in Stage, NEW s \in Pending(stage) PROVE ListShape(s)
<1>1. s \in Lists
  BY DEF Stage, Pending, Lists
<1> USE DEF ListShape, Ends, Revokes, FailProvision, SilentWorker, DrainedWorker,
            DestroyWorker, ScaleUp
<1>2. CASE s = <<"bind">>  BY <1>2
<1>3. CASE s = <<"orphan">>  BY <1>3
<1>4. CASE s = <<"begin", "revoke", "destroyed">>  BY <1>4
<1>5. CASE s = <<"delete", "revoke", "destroyed">>  BY <1>5
<1>6. CASE s = <<"revoke", "destroyed">>  BY <1>6
<1>7. CASE s = <<"destroyed">>  BY <1>7
<1>8. CASE s = <<"keep", "begin", "delete", "failed", "revoke">>  BY <1>8
<1>9. CASE s = <<"spare", "begin", "delete", "failed", "revoke">>  BY <1>9
<1>10. CASE s = <<"begin", "delete", "failed", "revoke">>  BY <1>10
<1>11. CASE s = <<"delete", "failed", "revoke">>  BY <1>11
<1>12. CASE s = <<"failed", "revoke">>  BY <1>12
<1>13. CASE s = <<"revoke">>  BY <1>13
<1>14. CASE s = <<"active">>  BY <1>14
<1>15. CASE s = <<"drain">>  BY <1>15
<1>16. CASE s = SilentWorker  BY <1>16
<1>17. CASE s = DrainedWorker  BY <1>17
<1>18. CASE s = DestroyWorker  BY <1>18
<1>19. CASE s = ScaleUp  BY <1>19
<1>20. CASE s = <<"insert", "create", "setup", "bind">>  BY <1>20
<1>21. CASE s = <<"create", "setup", "bind">>  BY <1>21
<1>22. CASE s = <<"setup", "bind">>  BY <1>22
<1> QED
  BY <1>1, <1>2, <1>3, <1>4, <1>5, <1>6, <1>7, <1>8, <1>9, <1>10, <1>11, <1>12, <1>13, <1>14, <1>15, <1>16, <1>17, <1>18, <1>19, <1>20, <1>21, <1>22 DEF Lists

\* The row keeps its state and id, and the droplet what it had lost.
RowCalm(d) ==
    /\ row'[d].state = row[d].state /\ row'[d].id = row[d].id
    /\ Spent(d) => Spent(d)'

\* What the tasks of reconcile do to a row.
RowEnds(d) ==
    /\ Spent(d) => Spent(d)'
    /\ Unleasable(d) => Unleasable(d)'
    /\ row[d].state \notin LiveState => row'[d].state \notin LiveState
    /\ row[d].state \notin LiveState /\ row'[d].id => row[d].id \/ Spent(d)'
    /\ row[d].state \in LiveState => row'[d].state \in LiveState \/ Spent(d)'

\* A drain that nobody asked the task for: of an active row.
RowDrained(d) ==
    row[d].state = "active" /\ row'[d].state = "draining" /\ row'[d].id = row[d].id

\* The lists have nothing in common that the premises tell apart.
LEMMA NothingAsked ==
    \A d : TaskSafe(<<>>, d) /\ TokenSafe(<<>>, d) /\ TaskSafe(<<>>, d)' /\ TokenSafe(<<>>, d)'
BY DEF TaskSafe, TokenSafe, Ends, Provisions, Revokes, FailProvision, DestroyWorker, DrainedWorker

\* What a task asks of its row outlives what others do to the row.
LEMMA TaskKept ==
    ASSUME NEW ops, NEW d \in Droplets, ctl'.next = ctl.next, TaskSafe(ops, d),
           \/ RowCalm(d)
           \/ RowDrained(d)
           \/ ctl.next = "promote" /\ RowEnds(d) /\ ~Provisions(ops)
    PROVE  TaskSafe(ops, d)'
<1>1. CASE RowCalm(d)
  <2>1. /\ Unleasable(d)' = Unleasable(d)
        /\ Provisions(ops)' = Provisions(ops) /\ Ends(ops)' = Ends(ops)
    BY <1>1 DEF RowCalm, Unleasable, Provisions, Ends
  <2> QED  BY <1>1, <2>1 DEF TaskSafe, RowCalm
<1>2. CASE RowDrained(d)
  <2>1. ~Spent(d) /\ ~Unleasable(d) /\ row[d].state \in LiveState /\ row'[d].state \in LiveState
        /\ row[d].state # "provisioning"
    BY <1>2 DEF RowDrained, Spent, Unleasable, LiveState
  <2>2. ~Ends(ops) /\ ops # DrainedWorker /\ ops # <<"orphan">> /\ ~Provisions(ops)
    BY <2>1 DEF TaskSafe
  <2>3. ~Ends(ops)' /\ ~Provisions(ops)'
    BY <2>2 DEF Ends, Provisions
  <2>4. ops = FailProvision => ctl'.next # "promote" /\ ~row'[d].id
    BY <1>2, <2>1 DEF TaskSafe, RowDrained
  <2> QED  BY <2>1, <2>2, <2>3, <2>4 DEF TaskSafe
<1>3. CASE ctl.next = "promote" /\ RowEnds(d) /\ ~Provisions(ops)
  <2>1. /\ Ends(ops)' = Ends(ops) /\ Provisions(ops)' = Provisions(ops)
    BY DEF Ends, Provisions
  <2> QED  BY <1>3, <2>1 DEF TaskSafe, RowEnds
<1> QED  BY <1>1, <1>2, <1>3

\* The rows' part of the invariant under the same changes.
LEMMA RowKept ==
    ASSUME NEW d \in Droplets, RowSafe(d), RowCalm(d) \/ RowDrained(d)
    PROVE  RowSafe(d)'
BY DEF RowSafe, RowCalm, RowDrained

\* A row, lease and clock that nobody touches.
LEMMA RowUntouched ==
    ASSUME NEW d \in Droplets, row'[d] = row[d], lease'[d] = lease[d], now' = now
    PROVE  RowCalm(d)
BY DEF RowCalm, Spent, Unleasable, Busy, Overtime

\* The lists of reconcile are not those of a scale-up.
LEMMA PromoteProvisions ==
    ASSUME NEW s \in Pending("promote"), ctl.next = "promote" PROVE ~Provisions(s)
BY DEF Pending, Provisions

\* One step of the task t, which may write its row.
LEMMA TeardownTask ==
    ASSUME TypeOK, PoolInv, TeardownInv, NEW t \in ctl.tasks, NEW ops,
           \/ ctl' = [ctl EXCEPT !.tasks = (ctl.tasks \ {t}) \cup GoOn(t, ops)]
           \/ ctl' = [ctl EXCEPT !.tasks = GoOn(t, ops)],
           ops # <<>> => TaskSafe(ops, t.d)',
           RowSafe(t.d)',
           ctl.next = "promote" => RowEnds(t.d),
           \A d \in Droplets : d # t.d => row'[d] = row[d],
           UNCHANGED <<lease, now>>
    PROVE  TeardownInv'
<1> DEFINE u == [t EXCEPT !.ops = ops]
<1>1. t \in Task /\ ctl \in Controller /\ t.d \in Droplets /\ ctl.tasks \subseteq Task
  BY DEF TypeOK, Controller, Task
<1>2. u.d = t.d /\ u.ops = ops
  BY <1>1 DEF Task
<1>3. \A v \in ctl'.tasks : \/ v \in ctl.tasks /\ v # t
                            \/ v = u /\ ops # <<>>
  <2>1. GoOn(t, ops) \subseteq {u} /\ (ops = <<>> => GoOn(t, ops) = {})
    BY DEF GoOn
  <2>2. ctl'.tasks = (ctl.tasks \ {t}) \cup GoOn(t, ops) \/ ctl'.tasks = GoOn(t, ops)
    BY <1>1 DEF Controller
  <2> HIDE DEF u
  <2> QED  BY <2>1, <2>2
<1>4. ctl'.next = ctl.next /\ ctl'.now = ctl.now
  BY <1>1 DEF Controller
<1> HIDE DEF u
<1>5. \A d \in Droplets : d # t.d => RowCalm(d)
  BY RowUntouched
<1>6. \A d \in Droplets : RowSafe(d)'
  BY <1>5, RowKept DEF TeardownInv
<1>7. \A v \in ctl'.tasks : TaskSafe(v.ops, v.d)'
  <2> SUFFICES ASSUME NEW v \in ctl'.tasks PROVE TaskSafe(v.ops, v.d)'
    OBVIOUS
  <2>1. CASE v = u /\ ops # <<>>
    BY <1>2, <2>1
  <2>2. CASE v \in ctl.tasks /\ v # t
    <3>1. TaskSafe(v.ops, v.d) /\ v.d \in Droplets
      BY <1>1, <2>2 DEF TeardownInv, Task
    <3>2. CASE v.d # t.d
      BY <1>4, <1>5, <3>1, <3>2, TaskKept
    <3>3. CASE v.d = t.d
      <4>1. ctl.next = "promote"
        BY <2>2, <3>3 DEF PoolInv, TasksApart
      <4>2. v.ops \in Pending("promote")
        BY <2>2, <4>1 DEF PoolInv, TasksShaped
      <4>3. ~Provisions(v.ops)
        BY <4>1, <4>2, PromoteProvisions
      <4> QED  BY <1>4, <3>1, <3>3, <4>1, <4>3, TaskKept
    <3> QED  BY <3>2, <3>3
  <2> QED  BY <1>3, <2>1, <2>2
<1>8. ReadBefore'
  BY <1>4 DEF TeardownInv, ReadBefore
<1> QED  BY <1>6, <1>7, <1>8 DEF TeardownInv

\* An operation that leaves the row alone asks of it what its list asked before:
\* CheckDrained is one that also looks.
LEMMA TailSafe ==
    ASSUME TypeOK, PoolInv, TeardownInv, NEW t \in ctl.tasks,
           Head(t.ops) \notin {"begin", "silent", "insert"},
           Head(t.ops) = "drained" => ~Busy(t.d)
    PROVE  TaskSafe(Tail(t.ops), t.d)
<1>1. ListShape(t.ops)
  BY AfterHead, Shapes
<1>2. TaskSafe(t.ops, t.d)
  BY DEF TeardownInv
<1>3. Ends(Tail(t.ops)) => Spent(t.d)
  BY <1>1, <1>2 DEF ListShape, TaskSafe, Spent
<1>4. Tail(t.ops) = FailProvision => Spent(t.d)
  BY <1>1, <1>2 DEF ListShape, TaskSafe
<1>5. Provisions(Tail(t.ops)) => Provisions(t.ops)
  BY <1>1 DEF ListShape, Provisions
<1>6. Tail(t.ops) = <<"bind">> => ctl.next # "promote"
  <2>1. Tail(t.ops) = <<"bind">> => t.ops = <<"setup", "bind">>
    BY <1>1 DEF ListShape
  <2>2. <<"setup", "bind">> \notin Pending("promote")
    BY DEF Pending
  <2> QED  BY <2>1, <2>2, AfterHead
<1>7. Tail(t.ops) # DrainedWorker /\ Tail(t.ops) # <<"orphan">>
  BY <1>1 DEF ListShape
<1> QED  BY <1>2, <1>3, <1>4, <1>5, <1>6, <1>7 DEF TaskSafe

\* A calm row is among those that reconcile may leave behind.
LEMMA CalmEnds == \A d \in Droplets : RowCalm(d) => RowEnds(d)
BY DEF RowCalm, RowEnds, Unleasable

\* A step of t that leaves rows, leases and clock alone.
LEMMA QuietTeardown ==
    ASSUME TypeOK, PoolInv, TeardownInv, NEW t \in ctl.tasks,
           UNCHANGED <<row, lease, now>>, NEW ops,
           \/ ctl' = [ctl EXCEPT !.tasks = (ctl.tasks \ {t}) \cup GoOn(t, ops)]
           \/ ctl' = [ctl EXCEPT !.tasks = GoOn(t, ops)],
           TaskSafe(ops, t.d)
    PROVE  TeardownInv'
<1>1. t.d \in Droplets /\ ctl'.next = ctl.next
  BY AfterHead DEF TypeOK, Controller
<1>2. RowCalm(t.d)
  BY <1>1, RowUntouched
<1>3. TaskSafe(ops, t.d)'
  BY <1>1, <1>2, TaskKept
<1>4. RowSafe(t.d)' /\ RowEnds(t.d)
  BY <1>1, <1>2, RowKept, CalmEnds DEF TeardownInv
<1>5. \A d \in Droplets : d # t.d => row'[d] = row[d]
  OBVIOUS
<1>6. UNCHANGED <<lease, now>>
  OBVIOUS
<1> QED  BY <1>3, <1>4, <1>5, <1>6, TeardownTask

\* The rest of the list, or nothing.
LEMMA ContinueTeardown ==
    ASSUME TypeOK, PoolInv, TeardownInv, NEW t \in ctl.tasks,
           UNCHANGED <<row, lease, now>>,
           \/ /\ Continue(t) \/ Broken(t, Tail(t.ops))
              /\ Head(t.ops) \notin {"begin", "silent", "insert"}
              /\ Head(t.ops) = "drained" => ~Busy(t.d)
           \/ Skip(t) \/ Broken(t, <<>>)
    PROVE  TeardownInv'
<1>1. CASE Skip(t) \/ Broken(t, <<>>)
  BY <1>1, QuietTeardown, NothingAsked DEF Skip, Proceed, Broken
<1>2. CASE /\ Continue(t) \/ Broken(t, Tail(t.ops))
           /\ Head(t.ops) \notin {"begin", "silent", "insert"}
           /\ Head(t.ops) = "drained" => ~Busy(t.d)
  <2>1. TaskSafe(Tail(t.ops), t.d)
    BY <1>2, TailSafe
  <2> QED  BY <1>2, <2>1, QuietTeardown DEF Continue, Proceed, Broken
<1> QED  BY <1>1, <1>2

\* The rest of the list of a task whose row has become spent.
LEMMA SpentTail ==
    ASSUME TypeOK, PoolInv, NEW t \in ctl.tasks, Spent(t.d)',
           ctl'.next = ctl.next, Head(t.ops) \in {"begin", "silent", "destroying"}
    PROVE  TaskSafe(Tail(t.ops), t.d)'
<1>1. ListShape(t.ops)
  BY AfterHead, Shapes
<1>2. Tail(t.ops) # DrainedWorker /\ Tail(t.ops) # <<"orphan">>
  BY <1>1 DEF ListShape
<1>3. Tail(t.ops) # <<"bind">>
  <2>1. Tail(t.ops) = <<"bind">> => Head(t.ops) = "setup"
    BY <1>1 DEF ListShape
  <2> QED  BY <2>1
<1>4. Tail(t.ops) # <<"setup", "bind">> /\ Tail(t.ops) # <<"create", "setup", "bind">>
  <2>1. Tail(t.ops) = <<"setup", "bind">> => Head(t.ops) = "create"
    BY <1>1 DEF ListShape
  <2>2. Tail(t.ops) = <<"create", "setup", "bind">> => Head(t.ops) = "insert"
    BY <1>1 DEF ListShape
  <2> QED  BY <2>1, <2>2
<1>5. ~Provisions(Tail(t.ops))'
  BY <1>3, <1>4 DEF Provisions
<1> QED  BY <1>2, <1>3, <1>5 DEF TaskSafe

\* beginDestroy: the row is spent when the task goes on.
LEMMA RetireTeardown ==
    ASSUME TypeOK, PoolInv, TeardownInv, NEW t \in ctl.tasks,
           Head(t.ops) \in {"begin", "silent"}, Retire(t), UNCHANGED <<lease, now>>
    PROVE  TeardownInv'
<1>1. t.d \in Droplets /\ row[t.d] \in Row
  BY AfterHead
<1>2. CASE Skip(t) /\ UNCHANGED row
  BY <1>2, ContinueTeardown
<1>3. CASE row[t.d].state = "destroying" /\ Continue(t) /\ UNCHANGED row
  <2>1. ctl'.next = ctl.next
    BY <1>3 DEF Continue, Proceed, TypeOK, Controller
  <2>2. Spent(t.d) /\ RowCalm(t.d)
    BY <1>1, <1>3, RowUntouched DEF TeardownInv, RowSafe
  <2>3. TaskSafe(Tail(t.ops), t.d)'
    BY <2>1, <2>2, SpentTail DEF RowCalm
  <2>4. RowSafe(t.d)' /\ RowEnds(t.d)
    BY <1>1, <2>2, RowKept, CalmEnds DEF TeardownInv
  <2>5. \A d \in Droplets : d # t.d => row'[d] = row[d]
    BY <1>3
  <2> QED  BY <1>3, <2>3, <2>4, <2>5, TeardownTask DEF Continue, Proceed
<1>4. CASE /\ row[t.d].state \in LiveState /\ ~Busy(t.d) /\ Continue(t)
           /\ row' = [row EXCEPT ![t.d].state = "destroying"]
  <2>1. ctl'.next = ctl.next
    BY <1>4 DEF Continue, Proceed, TypeOK, Controller
  <2>2. /\ row'[t.d].state = "destroying" /\ row'[t.d].id = row[t.d].id
        /\ row'[t.d].drain = row[t.d].drain
        /\ \A d \in Droplets : d # t.d => row'[d] = row[d]
    BY <1>1, <1>4 DEF TypeOK, Row
  <2>3. Spent(t.d)'
    BY <1>4, <2>2 DEF Spent, Unleasable, Busy
  <2>4. TaskSafe(Tail(t.ops), t.d)'
    BY <2>1, <2>3, SpentTail
  <2>5. RowSafe(t.d)' /\ RowEnds(t.d)
    BY <1>4, <2>2, <2>3 DEF RowSafe, RowEnds, LiveState, Unleasable
  <2> QED  BY <1>4, <2>2, <2>4, <2>5, TeardownTask DEF Continue, Proceed
<1> QED  BY <1>2, <1>3, <1>4 DEF Retire

\* The statements that do not look at the row's state: that it is spent, or still
\* the row that the scale-up inserted, is what the task's premise says.
LEMMA WriteTeardown ==
    ASSUME PoolAssumption, TypeOK, PoolInv, TeardownInv, NEW t \in ctl.tasks, WriteRow(t)
    PROVE  TeardownInv'
<1>1. PICK op \in RowOp : Head(t.ops) = op /\ row' = [row EXCEPT ![t.d] = Written(op, row[t.d])]
  BY DEF WriteRow, Doing
<1>2. Continue(t) /\ UNCHANGED <<lease, now>>
  BY DEF WriteRow
<1>3. /\ t.d \in Droplets /\ row[t.d] \in Row /\ Premise(t.ops, row[t.d].state)
      /\ t.ops \in Pending(ctl.next) /\ ctl.next \in Stage
  BY AfterHead
<1>4. ListShape(t.ops) /\ TaskSafe(t.ops, t.d) /\ RowSafe(t.d)
  BY <1>3, Shapes DEF TeardownInv
<1>5. ctl'.next = ctl.next
  BY <1>2 DEF Continue, Proceed, TypeOK, Controller
<1>6. /\ row'[t.d] = Written(op, row[t.d])
      /\ \A d \in Droplets : d # t.d => row'[d] = row[d]
  BY <1>1, <1>3 DEF TypeOK
<1> DEFINE s == row[t.d].state
           Good == /\ TaskSafe(Tail(t.ops), t.d)' /\ RowSafe(t.d)'
                   /\ ctl.next = "promote" => RowEnds(t.d)
<1> SUFFICES Good
  BY <1>2, <1>6, TeardownTask DEF Continue, Proceed
<1>7. CASE op = "insert"
  <2>1. row'[t.d].state = "provisioning" /\ row'[t.d].id = FALSE
    BY <1>6, <1>7 DEF Written, InsertProvisioning, NoRow
  <2>2. t.ops = <<"insert", "create", "setup", "bind">> /\ ctl.next # "promote"
    <3>1. ctl.next \in {"rollout", "drain"}
      BY <1>1, <1>3, <1>7, PendingShape
    <3> QED  BY <1>1, <1>4, <1>7, <3>1 DEF ListShape
  <2>3. Tail(t.ops) = <<"create", "setup", "bind">>
    BY <2>2
  <2>4. TaskSafe(Tail(t.ops), t.d)'
    BY <2>1, <2>3 DEF TaskSafe, Ends, DestroyWorker, DrainedWorker, FailProvision
  <2> QED  BY <2>1, <2>2, <2>4 DEF RowSafe
<1>8. CASE op = "bind"
  <2>1. /\ row'[t.d].state = s /\ row'[t.d].id = TRUE /\ row'[t.d].drain = row[t.d].drain
    BY <1>3, <1>6, <1>8 DEF Written, Row
  <2>2. t.ops = <<"bind">>
    BY <1>1, <1>4, <1>8 DEF ListShape
  <2>3. TaskSafe(Tail(t.ops), t.d)'
    BY <2>2, NothingAsked
  <2>4. (Spent(t.d) => Spent(t.d)') /\ (Unleasable(t.d) => Unleasable(t.d)')
    BY <1>2, <2>1 DEF Spent, Unleasable, Busy, Overtime
  <2>5. CASE ctl.next = "promote"
    <3>1. s \in LiveState \/ Spent(t.d)
      BY <1>4, <2>2, <2>5 DEF TaskSafe
    <3>2. s # "absent"
      BY <3>1 DEF Spent, Unleasable, LiveState
    <3>3. RowSafe(t.d)'
      BY <1>4, <2>1, <2>4, <3>1, <3>2 DEF RowSafe, LiveState
    <3>4. RowEnds(t.d)
      BY <2>1, <2>4, <3>1 DEF RowEnds
    <3> QED  BY <2>3, <3>3, <3>4
  <2>6. CASE ctl.next # "promote"
    <3>1. s = "provisioning"
      BY <1>4, <2>2, <2>6 DEF TaskSafe, Provisions
    <3>2. RowSafe(t.d)'
      BY <2>1, <3>1 DEF RowSafe
    <3> QED  BY <2>3, <2>6, <3>2
  <2> QED  BY <2>5, <2>6
<1>9. CASE op = "active"
  <2>1. row'[t.d].state = s \/ row'[t.d].state = "active"
    BY <1>3, <1>6, <1>9 DEF Written, Activated, Row
  <2>2. row'[t.d].id = row[t.d].id /\ row'[t.d].drain = row[t.d].drain
    BY <1>3, <1>6, <1>9 DEF Written, Activated, Row
  <2>3. t.ops = <<"active">>
    BY <1>1, <1>4, <1>9 DEF ListShape
  <2>4. TaskSafe(Tail(t.ops), t.d)'
    BY <2>3, NothingAsked
  <2>5. ctl.next # "promote"
    BY <1>3, <2>3 DEF Pending
  <2>6. RowSafe(t.d)'
    BY <1>2, <1>4, <2>1, <2>2 DEF RowSafe, Spent, Unleasable, Busy, Overtime
  <2> QED  BY <2>4, <2>5, <2>6
<1>10. CASE op = "drain"
  <2>1. row'[t.d].state = "draining"
    BY <1>3, <1>6, <1>10 DEF Written, Row
  <2>2. t.ops = <<"drain">>
    BY <1>1, <1>4, <1>10 DEF ListShape
  <2>3. TaskSafe(Tail(t.ops), t.d)'
    BY <2>2, NothingAsked
  <2>4. ctl.next # "promote"
    BY <1>3, <2>2 DEF Pending
  <2>5. RowSafe(t.d)'
    BY <2>1 DEF RowSafe
  <2> QED  BY <2>3, <2>4, <2>5
<1>11. ASSUME op \in {"destroying", "destroyed", "failed"}, Spent(t.d)
       PROVE  Spent(t.d)' /\ RowSafe(t.d)' /\ row'[t.d].state = op /\ row'[t.d].id = row[t.d].id
  <2>1. row'[t.d].state = op /\ row'[t.d].id = row[t.d].id /\ row'[t.d].drain = row[t.d].drain
    <3>1. row'[t.d] = [row[t.d] EXCEPT !.state = op]
      BY <1>6, <1>11 DEF Written
    <3> QED  BY <1>3, <3>1 DEF Row
  <2>2. Spent(t.d)'
    BY <1>2, <1>11, <2>1 DEF Spent, Unleasable, Busy, Overtime
  <2> QED  BY <1>11, <2>1, <2>2 DEF RowSafe
<1>12. CASE op = "destroying"
  <2>1. Ends(t.ops)
    BY <1>1, <1>4, <1>12 DEF ListShape
  <2>2. Spent(t.d)' /\ RowSafe(t.d)'
    BY <1>4, <1>11, <1>12, <2>1 DEF TaskSafe
  <2>3. TaskSafe(Tail(t.ops), t.d)'
    BY <1>1, <1>5, <1>12, <2>2, SpentTail
  <2>4. ctl.next # "promote"
    <3>1. Destroys(t.ops)
      BY <1>1, <1>3, <1>12, PendingShape
    <3>2. ctl.next \in {"decide", "reconcile"}
      BY <1>3, <3>1, PendingShape
    <3> QED  BY <3>2
  <2> QED  BY <2>2, <2>3, <2>4
<1>13. CASE op = "destroyed"
  <2>1. Ends(t.ops) /\ t.ops = <<"destroyed">>
    BY <1>1, <1>4, <1>13 DEF ListShape
  <2>2. Spent(t.d)
    BY <1>4, <2>1 DEF TaskSafe
  <2>3. TaskSafe(Tail(t.ops), t.d)'
    BY <2>1, NothingAsked
  <2>4. Spent(t.d)' /\ RowSafe(t.d)' /\ row'[t.d].state = "destroyed"
    BY <1>11, <1>13, <2>2
  <2>5. RowEnds(t.d)
    BY <2>4 DEF RowEnds, Unleasable, LiveState
  <2> QED  BY <2>3, <2>4, <2>5
<1>14. CASE op = "failed"
  <2>1. t.ops = FailProvision
    BY <1>1, <1>4, <1>14 DEF ListShape
  <2>2. Tail(t.ops) = <<"revoke">>
    BY <2>1 DEF FailProvision
  <2>3. TaskSafe(Tail(t.ops), t.d)'
    <3>1. /\ ~Ends(<<"revoke">>) /\ <<"revoke">> # DrainedWorker /\ <<"revoke">> # FailProvision
          /\ <<"revoke">> # <<"orphan">> /\ <<"revoke">> # <<"bind">>
          /\ <<"revoke">> \notin {<<"create", "setup", "bind">>, <<"setup", "bind">>}
      BY DEF Ends, DestroyWorker, DrainedWorker, FailProvision
    <3>2. ~Ends(<<"revoke">>)' /\ ~Provisions(<<"revoke">>)'
      BY <3>1 DEF Ends, Provisions
    <3> QED  BY <2>2, <3>1, <3>2 DEF TaskSafe
  <2>4. CASE Spent(t.d)
    <3>1. Spent(t.d)' /\ RowSafe(t.d)' /\ row'[t.d].state = "failed"
      BY <1>11, <1>14, <2>4
    <3>2. RowEnds(t.d)
      BY <3>1 DEF RowEnds, Unleasable, LiveState
    <3> QED  BY <2>3, <3>1, <3>2
  <2>5. CASE ctl.next # "promote" /\ ~row[t.d].id
    <3>1. row'[t.d].state = "failed" /\ row'[t.d].id = row[t.d].id
      BY <1>3, <1>6, <1>14 DEF Written, Row
    <3>2. RowSafe(t.d)'
      BY <2>5, <3>1 DEF RowSafe
    <3> QED  BY <2>3, <2>5, <3>2
  <2> QED  BY <1>4, <2>1, <2>4, <2>5 DEF TaskSafe
<1> QED  BY <1>7, <1>8, <1>9, <1>10, <1>12, <1>13, <1>14 DEF RowOp

\* Every operation of a task.
LEMMA PerformTeardown ==
    ASSUME PoolAssumption, TypeOK, PoolInv, TeardownInv, Perform
    PROVE  TeardownInv'
<1>1. PICK t \in ctl.tasks :
        \/ BeginDestroyIfIdle(t) \/ BeginDestroyIfIdleAndSilent(t) \/ SpareLeased(t)
        \/ CheckDrained(t) \/ WriteRow(t) \/ MintNodeToken(t) \/ RevokeNodeToken(t)
        \/ DeleteDroplet(t) \/ CreateDroplet(t) \/ SetUpDroplet(t)
  BY DEF Perform
<1>2. t.d \in Droplets /\ row[t.d] \in Row
  BY AfterHead
<1>3. CASE BeginDestroyIfIdle(t)
  BY <1>3, RetireTeardown DEF BeginDestroyIfIdle, Doing
<1>4. CASE BeginDestroyIfIdleAndSilent(t)
  <2>1. CASE Retire(t)
    BY <1>4, <2>1, RetireTeardown DEF BeginDestroyIfIdleAndSilent, Doing
  <2>2. CASE Skip(t) /\ UNCHANGED row
    BY <1>4, <2>2, ContinueTeardown DEF BeginDestroyIfIdleAndSilent
  <2> QED  BY <1>4, <2>1, <2>2 DEF BeginDestroyIfIdleAndSilent
<1>5. CASE SpareLeased(t)
  <2>1. Head(t.ops) \in {"spare", "keep"} /\ UNCHANGED <<lease, now>>
    BY <1>5 DEF SpareLeased, Doing
  <2>2. CASE UNCHANGED row
    BY <1>5, <2>1, <2>2, ContinueTeardown DEF SpareLeased
  <2>3. CASE Skip(t) /\ row' = [row EXCEPT ![t.d] = Activated(row[t.d])]
    <3> DEFINE r == Activated(row[t.d])
    <3>1. /\ r.id = row[t.d].id /\ r.drain = row[t.d].drain
          /\ r.state = row[t.d].state \/ (row[t.d].state = "provisioning" /\ r.state = "active")
      BY <1>2 DEF Activated, Row
    <3>2. row'[t.d] = r /\ \A d \in Droplets : d # t.d => row'[d] = row[d]
      BY <1>2, <2>3 DEF TypeOK
    <3> HIDE DEF r
    <3>3. Spent(t.d) => Spent(t.d)'
      BY <2>1, <3>1, <3>2 DEF Spent, Unleasable, Busy, Overtime
    <3>4. RowEnds(t.d)
      BY <3>1, <3>2, <3>3 DEF RowEnds, Unleasable, LiveState
    <3>5. RowSafe(t.d)'
      <4>1. RowSafe(t.d)  BY <1>2 DEF TeardownInv
      <4> QED  BY <3>1, <3>2, <3>3, <4>1 DEF RowSafe
    <3> QED  BY <2>1, <2>3, <3>2, <3>4, <3>5, TeardownTask DEF Skip, Proceed
  <2> QED  BY <1>5, <2>2, <2>3 DEF SpareLeased
<1>6. CASE CheckDrained(t)
  BY <1>6, ContinueTeardown DEF CheckDrained, Doing
<1>7. CASE WriteRow(t)
  BY <1>7, WriteTeardown
<1>8. CASE MintNodeToken(t)
  BY <1>8, ContinueTeardown DEF MintNodeToken, Doing
<1>9. CASE RevokeNodeToken(t)
  BY <1>9, ContinueTeardown DEF RevokeNodeToken, Doing
<1>10. CASE DeleteDroplet(t)
  BY <1>10, ContinueTeardown DEF DeleteDroplet, Doing
<1>11. CASE CreateDroplet(t)
  BY <1>11, ContinueTeardown DEF CreateDroplet, Doing
<1>12. CASE SetUpDroplet(t)
  BY <1>12, ContinueTeardown DEF SetUpDroplet, Doing
<1> QED  BY <1>1, <1>3, <1>4, <1>5, <1>6, <1>7, <1>8, <1>9, <1>10, <1>11, <1>12

\* A step of someone else, which keeps the tick or ends it.
LEMMA OtherTeardown ==
    ASSUME PoolAssumption, TypeOK, TeardownInv, ctl' = ctl \/ ctl' = Idle,
           now' \in Nat, now' >= now,
           \A d \in Droplets : RowCalm(d) \/ RowDrained(d)
    PROVE  TeardownInv'
<1>1. \A d \in Droplets : RowSafe(d)'
  BY RowKept DEF TeardownInv
<1>2. CASE ctl' = Idle
  <2>1. ReadBefore' /\ ctl'.tasks = {}
    BY <1>2 DEF Idle, ReadBefore
  <2> QED  BY <1>1, <2>1 DEF TeardownInv
<1>3. CASE ctl' = ctl
  <2>1. ReadBefore'
    <3>1. ctl.now \in Nat /\ now \in Nat /\ ctl.now <= now
      BY DEF TypeOK, Controller, Time, PoolAssumption, TeardownInv, ReadBefore
    <3> QED  BY <1>3, <3>1 DEF ReadBefore
  <2>2. \A t \in ctl'.tasks : TaskSafe(t.ops, t.d)'
    <3> SUFFICES ASSUME NEW t \in ctl.tasks PROVE TaskSafe(t.ops, t.d)'
      BY <1>3
    <3>1. TaskSafe(t.ops, t.d) /\ t.d \in Droplets
      BY DEF TeardownInv, TypeOK, Controller, Task
    <3> QED  BY <1>3, <3>1, TaskKept
  <2> QED  BY <1>1, <2>1, <2>2 DEF TeardownInv
<1> QED  BY <1>2, <1>3

\* Recorders, the operator and the clock: no lease begins on a row that was retired,
\* and what has timed out stays so.
LEMMA OutsideTeardown ==
    ASSUME PoolAssumption, TypeOK, TeardownInv, Outside
    PROVE  TeardownInv'
<1> DEFINE Calm == \A d \in Droplets : RowCalm(d) \/ RowDrained(d)
<1>1. /\ now \in Nat /\ row \in [Droplets -> Row] /\ lease \in [Droplets -> 0..LeaseTerm]
      /\ LeaseTerm \in Nat
  BY DEF TypeOK, PoolAssumption
<1>2. ASSUME NEW d \in Droplets, Report(d) PROVE Calm
  <2>1. \A e \in Droplets : /\ row'[e].state = row[e].state /\ row'[e].id = row[e].id
                            /\ row'[e].drain = row[e].drain
    BY <1>1, <1>2 DEF Report, Row
  <2>2. UNCHANGED <<lease, now>>
    BY <1>2 DEF Report
  <2> QED  BY <2>1, <2>2 DEF RowCalm, Spent, Unleasable, Busy, Overtime
<1>3. ASSUME NEW d \in Droplets, LeaseJob(d) PROVE Calm
  <2>1. UNCHANGED <<row, now>> /\ lease' = [lease EXCEPT ![d] = LeaseTerm] /\ ~Unleasable(d)
    BY <1>3 DEF LeaseJob, Unleasable
  <2>2. \A e \in Droplets : e # d => lease'[e] = lease[e]
    BY <1>1, <2>1
  <2> QED  BY <2>1, <2>2 DEF RowCalm, Spent, Unleasable, Busy, Overtime
<1>4. ASSUME NEW d \in Droplets, RenewLease(d) \/ EndLease(d) PROVE Calm
  <2>1. UNCHANGED <<row, now>> /\ Busy(d)
    BY <1>4 DEF RenewLease, EndLease
  <2>2. \A e \in Droplets : e # d => lease'[e] = lease[e]
    BY <1>1, <1>4 DEF RenewLease, EndLease
  <2> QED  BY <2>1, <2>2 DEF RowCalm, Spent, Unleasable, Busy, Overtime
<1>5. ASSUME NEW d \in Droplets, OperatorDrain(d) PROVE Calm
  <2>1. row[d].state = "active" /\ row'[d].state = "draining" /\ row'[d].id = row[d].id
    BY <1>1, <1>5 DEF OperatorDrain, Row
  <2>2. UNCHANGED <<lease, now>> /\ \A e \in Droplets : e # d => row'[e] = row[e]
    BY <1>1, <1>5 DEF OperatorDrain
  <2>3. \A e \in Droplets : e # d => RowCalm(e)
    BY <2>2, RowUntouched
  <2> QED  BY <2>1, <2>3 DEF RowDrained
<1>6. ASSUME ClockTick PROVE Calm
  <2>1. now' = now + 1 /\ UNCHANGED row
    BY <1>6 DEF ClockTick
  <2>2. \A e \in Droplets : lease'[e] > 0 => lease[e] > 0
    BY <1>1, <1>6 DEF ClockTick, Busy
  <2>3. \A e \in Droplets : row[e].drain \in Int /\ DrainTimeout \in Int
    BY <1>1 DEF Row, Time, PoolAssumption
  <2>4. \A e \in Droplets : Overtime(e) => Overtime(e)'
    BY <1>1, <2>1, <2>3 DEF Overtime
  <2> QED  BY <2>1, <2>2, <2>4 DEF RowCalm, Spent, Unleasable, Busy
<1>7. Calm
  BY <1>2, <1>3, <1>4, <1>5, <1>6 DEF Outside
<1>8. ctl' = ctl /\ (now' = now \/ now' = now + 1)
  BY DEF Outside, Report, LeaseJob, RenewLease, EndLease, OperatorDrain, ClockTick
<1>9. now' \in Nat /\ now' >= now
  BY <1>1, <1>8
<1> QED  BY <1>7, <1>8, <1>9, OtherTeardown

\* Failing statements and calls, crashes and deployments.
LEMMA DisturbTeardown ==
    ASSUME PoolAssumption, TypeOK, PoolInv, TeardownInv, Disturb, ~ReadFails
    PROVE  TeardownInv'
<1>1. ASSUME NEW t \in ctl.tasks, NEW ops, TaskSafe(ops, t.d),
             Broken(t, ops), UNCHANGED <<row, lease, now>>
      PROVE  TeardownInv'
  BY <1>1, QuietTeardown DEF Broken, Proceed
<1>2. ASSUME NEW t \in ctl.tasks, StatementFails(t) PROVE TeardownInv'
  <2>1. Broken(t, AfterError(t)) /\ UNCHANGED <<row, lease, now>>
    BY <1>2 DEF StatementFails
  <2>2. CASE Head(t.ops) \in {"failed", "revoke"}
    <3>1. AfterError(t) = Tail(t.ops)
      BY <2>2 DEF AfterError
    <3>2. TaskSafe(Tail(t.ops), t.d)
      BY <2>2, TailSafe
    <3> QED  BY <1>1, <2>1, <3>1, <3>2
  <2>3. CASE Head(t.ops) = "insert"
    <3>1. AfterError(t) = <<"revoke">>
      BY <2>3 DEF AfterError
    <3>2. TaskSafe(<<"revoke">>, t.d)
      BY DEF TaskSafe, Ends, Provisions, DestroyWorker, DrainedWorker, FailProvision
    <3> QED  BY <1>1, <2>1, <3>1, <3>2
  <2>4. CASE Head(t.ops) \notin {"failed", "revoke", "insert"}
    <3>1. AfterError(t) = <<>>
      BY <2>4 DEF AfterError
    <3> QED  BY <1>1, <2>1, <3>1, NothingAsked
  <2> QED  BY <2>2, <2>3, <2>4
<1>3. ASSUME NEW t \in ctl.tasks, DeleteFails(t) PROVE TeardownInv'
  BY <1>3, ContinueTeardown DEF DeleteFails
<1>4. ASSUME NEW t \in ctl.tasks, CreateFails(t) PROVE TeardownInv'
  <2>1. Head(t.ops) \in {"create", "setup"} /\ Broken(t, FailProvision)
        /\ UNCHANGED <<row, lease, now>>
    BY <1>4 DEF CreateFails, Doing
  <2>2. ListShape(t.ops) /\ TaskSafe(t.ops, t.d)
    BY AfterHead, Shapes DEF TeardownInv
  <2>3. t.ops \in {<<"create", "setup", "bind">>, <<"setup", "bind">>}
    BY <2>1, <2>2 DEF ListShape
  <2>4. ~row[t.d].id
    BY <2>2, <2>3 DEF TaskSafe, Provisions
  <2>5. ctl.next # "promote"
    <3>1. ctl.next \in {"rollout", "drain"}
      BY <2>1, AfterHead, PendingShape
    <3> QED  BY <3>1
  <2>6. TaskSafe(FailProvision, t.d)
    BY <2>4, <2>5 DEF TaskSafe, FailProvision, Ends, Provisions, DestroyWorker, DrainedWorker
  <2> QED  BY <1>1, <2>1, <2>6
<1>5. ASSUME UNCHANGED <<row, lease, now>>, ctl' = ctl \/ ctl' = Idle PROVE TeardownInv'
  <2>1. \A d \in Droplets : RowCalm(d)
    BY <1>5, RowUntouched
  <2>2. now' \in Nat /\ now' >= now
    BY <1>5 DEF TypeOK
  <2> QED  BY <1>5, <2>1, <2>2, OtherTeardown
<1>6. ASSUME NEW d \in Droplets, Vanish(d) PROVE TeardownInv'
  BY <1>5, <1>6 DEF Vanish
<1>7. CASE Crash  BY <1>5, <1>7 DEF Crash
<1>8. CASE Deploy  BY <1>5, <1>8 DEF Deploy
<1> QED  BY <1>2, <1>3, <1>4, <1>6, <1>7, <1>8 DEF Disturb

\* The lists a read plans that look at the row again before they end it.
LEMMA Unasked ==
    ASSUME NEW ops \in {SilentWorker, ScaleUp, <<"active">>, <<"drain">>,
                        <<"begin", "revoke", "destroyed">>,
                        <<"keep", "begin", "delete", "failed", "revoke">>,
                        <<"spare", "begin", "delete", "failed", "revoke">>}
    PROVE  \A d : TaskSafe(ops, d)'
<1>1. /\ ops # FailProvision /\ ops # DrainedWorker /\ ops # <<"orphan">> /\ ops # <<"bind">>
      /\ ops \notin {<<"create", "setup", "bind">>, <<"setup", "bind">>} /\ ~Ends(ops)
  BY DEF Ends, FailProvision, DestroyWorker, DrainedWorker, SilentWorker, ScaleUp
<1>2. ~Ends(ops)' /\ ~Provisions(ops)'
  BY <1>1 DEF Ends, Provisions
<1> QED  BY <1>1, <1>2 DEF TaskSafe

\* A read: new tasks, which ask of their rows what the read saw.
LEMMA ReadTeardown ==
    ASSUME PoolAssumption, TypeOK, TeardownInv, now' = now, ctl'.now \in {ctl.now, now, 0},
           \A d \in Droplets : RowCalm(d) \/ RowDrained(d),
           \A t \in ctl'.tasks : TaskSafe(t.ops, t.d)'
    PROVE  TeardownInv'
<1>1. \A d \in Droplets : RowSafe(d)'
  BY RowKept DEF TeardownInv
<1>2. ReadBefore'
  BY DEF TypeOK, PoolAssumption, TeardownInv, ReadBefore
<1> QED  BY <1>1, <1>2 DEF TeardownInv

\* reconcile: it deletes what has no live row, and what an earlier tick, or the
\* same task, had left in destroying.
LEMMA ReconcileTeardown ==
    ASSUME PoolAssumption, TypeOK, TeardownInv, Reconcile
    PROVE  TeardownInv'
<1>1. PICK unlisted \in SUBSET Lagging :
        ctl' = [Idle EXCEPT !.next = "promote", !.now = now, !.fleet = Running \ unlisted,
                            !.tasks = ReconcilePlan(Running \ unlisted)]
  BY DEF Reconcile
<1>2. UNCHANGED <<row, lease, now>>
  BY DEF Reconcile
<1> DEFINE fleet == Running \ unlisted
           overdue == {d \in Droplets : Overdue(d)}
           seen == {d \in overdue : WorkerSeen(d, fleet, now)}
           resumed == {d \in InState("destroying") \cap fleet : row[d].id}
           P1 == Todo(1, AdoptByName(fleet), <<"bind">>)
           P2 == Todo(2, DestroyOrphan(fleet), <<"orphan">>)
           P3 == Todo(3, MissingFromDO(fleet), <<"begin", "revoke", "destroyed">>)
           P4 == Todo(4, resumed, <<"delete", "revoke", "destroyed">>)
           P5 == Todo(5, seen, <<"keep", "begin", "delete", "failed", "revoke">>)
           P6 == Todo(5, overdue \ seen, <<"spare", "begin", "delete", "failed", "revoke">>)
<1>3. ctl'.next = "promote" /\ ctl'.now = now /\ ctl'.tasks = UNION {P1, P2, P3, P4, P5, P6}
  BY <1>1 DEF Idle, ReconcilePlan
<1>4. fleet \subseteq Droplets
  BY DEF Running
<1>5. \A d \in Droplets : RowSafe(d) /\ RowCalm(d)
  BY <1>2, RowUntouched DEF TeardownInv
<1>6. \A t \in P1 : TaskSafe(t.ops, t.d)'
  <2> SUFFICES ASSUME NEW d \in AdoptByName(fleet) PROVE TaskSafe(<<"bind">>, d)'
    BY DEF Todo
  <2>1. row[d].state \in LiveState
    BY DEF AdoptByName, Live
  <2>2. ~Provisions(<<"bind">>)'
    BY <1>3 DEF Provisions
  <2> QED
    BY <1>2, <2>1, <2>2 DEF TaskSafe, Ends, DestroyWorker, DrainedWorker, FailProvision
<1>7. \A t \in P2 : TaskSafe(t.ops, t.d)'
  <2> SUFFICES ASSUME NEW d \in DestroyOrphan(fleet) PROVE TaskSafe(<<"orphan">>, d)'
    BY DEF Todo
  <2>1. d \in Droplets /\ row[d].state \notin LiveState
    BY <1>4 DEF DestroyOrphan, Live
  <2>2. row[d] \in Row
    BY <2>1 DEF TypeOK
  <2>3. row[d].id => Spent(d)
    BY <1>5, <2>1, <2>2 DEF RowSafe, Row, RowState, LiveState
  <2>4. row'[d].id => Spent(d)'
    BY <1>2, <1>5, <2>1, <2>3 DEF RowCalm
  <2>5. ~Provisions(<<"orphan">>)'
    BY DEF Provisions
  <2> QED
    BY <1>2, <2>1, <2>4, <2>5 DEF TaskSafe, Ends, DestroyWorker, DrainedWorker, FailProvision
<1>8. \A t \in P3 : TaskSafe(t.ops, t.d)'
  BY Unasked DEF Todo
<1>9. \A t \in P4 : TaskSafe(t.ops, t.d)'
  <2> SUFFICES ASSUME NEW d \in resumed PROVE TaskSafe(<<"delete", "revoke", "destroyed">>, d)'
    BY DEF Todo
  <2>1. d \in Droplets /\ row[d].state = "destroying"
    BY DEF InState
  <2>2. Spent(d)'
    BY <1>5, <2>1 DEF RowSafe, RowCalm
  <2>3. /\ <<"delete", "revoke", "destroyed">> # DrainedWorker
        /\ <<"delete", "revoke", "destroyed">> # <<"orphan">>
        /\ <<"delete", "revoke", "destroyed">> # <<"bind">>
        /\ <<"delete", "revoke", "destroyed">> # FailProvision
    BY DEF DrainedWorker, FailProvision
  <2>4. ~Provisions(<<"delete", "revoke", "destroyed">>)'
    BY DEF Provisions
  <2> QED  BY <2>2, <2>3, <2>4 DEF TaskSafe
<1>10. \A t \in P5 : TaskSafe(t.ops, t.d)'
  BY Unasked DEF Todo
<1>11. \A t \in P6 : TaskSafe(t.ops, t.d)'
  BY Unasked DEF Todo
<1> HIDE DEF P1, P2, P3, P4, P5, P6
<1>12. \A t \in ctl'.tasks : TaskSafe(t.ops, t.d)'
  BY <1>3, <1>6, <1>7, <1>8, <1>9, <1>10, <1>11
<1> QED  BY <1>2, <1>3, <1>5, <1>12, ReadTeardown

\* The other reads, and the drain of rolloutBuild.
LEMMA OtherReadsTeardown ==
    ASSUME PoolAssumption, TypeOK, TeardownInv, Read, ~Reconcile
    PROVE  TeardownInv'
<1>1. ASSUME UNCHANGED <<row, lease, now>> PROVE \A d \in Droplets : RowCalm(d)
  BY <1>1, RowUntouched
<1>2. ctl \in Controller
  BY DEF TypeOK
<1>3. CASE PromoteActive
  <2> DEFINE S == {d \in InState("provisioning") :
                     WorkerSeen(d, ctl.fleet, ctl.now) /\ row[d].build = build}
  <2>1. ctl'.now = ctl.now /\ ctl'.tasks = Todo(0, S, <<"active">>)
    BY <1>2, <1>3 DEF PromoteActive, Controller
  <2>2. \A t \in ctl'.tasks : TaskSafe(t.ops, t.d)'
    BY <2>1, Unasked DEF Todo
  <2>3. UNCHANGED <<row, lease, now>>
    BY <1>3 DEF PromoteActive
  <2> QED  BY <1>1, <2>1, <2>2, <2>3, ReadTeardown
<1>4. CASE ReapUnresponsive
  <2> DEFINE S == {d \in InState("active") :
                     StaleAfter > 0 /\ ctl.now - WorkerLastLiveAt(row[d]) >= StaleAfter}
  <2>1. ctl'.now = ctl.now /\ ctl'.tasks = Todo(0, S, SilentWorker)
    BY <1>2, <1>4 DEF ReapUnresponsive, Controller
  <2>2. \A t \in ctl'.tasks : TaskSafe(t.ops, t.d)'
    BY <2>1, Unasked DEF Todo
  <2>3. UNCHANGED <<row, lease, now>>
    BY <1>4 DEF ReapUnresponsive
  <2> QED  BY <1>1, <2>1, <2>2, <2>3, ReadTeardown
<1>5. CASE DecideScale
  <2>1. ctl'.now = ctl.now /\ \E names : ctl'.tasks = Todo(0, names, ScaleUp)
    BY <1>2, <1>5 DEF DecideScale, Controller
  <2>2. \A t \in ctl'.tasks : TaskSafe(t.ops, t.d)'
    BY <2>1, Unasked DEF Todo
  <2>3. row' = RefreshIdle /\ UNCHANGED <<lease, now>>
    BY <1>5 DEF DecideScale
  <2>4. \A d \in Droplets : /\ row'[d].state = row[d].state /\ row'[d].id = row[d].id
                            /\ row'[d].drain = row[d].drain
    BY <2>3 DEF RefreshIdle, TypeOK, Row
  <2>5. \A d \in Droplets : RowCalm(d)
    BY <2>3, <2>4 DEF RowCalm, Spent, Unleasable, Busy, Overtime
  <2> QED  BY <2>1, <2>2, <2>3, <2>5, ReadTeardown
<1>6. CASE RolloutNothing \/ RolloutSurge
  <2>1. /\ ctl'.now = ctl.now
        /\ ctl'.tasks = {} \/ \E names : ctl'.tasks = Todo(0, names, ScaleUp)
    BY <1>2, <1>6 DEF RolloutNothing, RolloutSurge, AfterRollout, Controller
  <2>2. \A t \in ctl'.tasks : TaskSafe(t.ops, t.d)'
    BY <2>1, Unasked DEF Todo
  <2>3. UNCHANGED <<row, lease, now>>
    BY <1>6 DEF RolloutNothing, RolloutSurge
  <2> QED  BY <1>1, <2>1, <2>2, <2>3, ReadTeardown
<1>7. CASE RolloutDrain
  <2>1. ctl'.now = ctl.now /\ ctl'.tasks = {} /\ UNCHANGED <<lease, now>>
    BY <1>2, <1>7 DEF RolloutDrain, AfterRollout, Controller
  <2>2. CASE UNCHANGED row
    BY <1>1, <2>1, <2>2, ReadTeardown
  <2>3. CASE \E d \in Stale : row' = [row EXCEPT ![d].state = "draining", ![d].drain = now]
    <3>1. PICK d \in Stale : row' = [row EXCEPT ![d].state = "draining", ![d].drain = now]
      BY <2>3
    <3>2. d \in Droplets /\ row[d].state = "active"
      BY DEF Stale, InState
    <3>3. /\ row'[d].state = "draining" /\ row'[d].id = row[d].id
          /\ \A e \in Droplets : e # d => row'[e] = row[e]
      BY <3>1, <3>2 DEF TypeOK, Row
    <3>4. \A e \in Droplets : RowCalm(e) \/ RowDrained(e)
      BY <2>1, <3>2, <3>3, RowUntouched DEF RowDrained
    <3> QED  BY <2>1, <3>4, ReadTeardown
  <2> QED  BY <1>7, <2>2, <2>3 DEF RolloutDrain
<1>8. CASE BeginDrains
  <2>1. ctl'.now = ctl.now /\ \E S : ctl'.tasks = Todo(0, S, <<"drain">>)
    BY <1>2, <1>8 DEF BeginDrains, Controller
  <2>2. \A t \in ctl'.tasks : TaskSafe(t.ops, t.d)'
    BY <2>1, Unasked DEF Todo
  <2>3. UNCHANGED <<row, lease, now>>
    BY <1>8 DEF BeginDrains
  <2> QED  BY <1>1, <2>1, <2>2, <2>3, ReadTeardown
<1>9. CASE ProgressDrains
  <2> DEFINE F == {d \in InState("draining") : Forced(d)}
  <2>1. /\ ctl'.tasks = Todo(0, F, DestroyWorker) \cup Todo(0, InState("draining") \ F, DrainedWorker)
        /\ ctl'.now = 0
    BY <1>9 DEF ProgressDrains, Idle
  <2>2. UNCHANGED <<row, lease, now>>
    BY <1>9 DEF ProgressDrains
  <2>3. ASSUME NEW d \in F PROVE TaskSafe(DestroyWorker, d)'
    <3>1. d \in Droplets /\ row[d].state = "draining" /\ Forced(d)
      BY DEF InState
    <3>2. Overtime(d)
      <4>1. ctl.now \in Int /\ now \in Int /\ row[d].drain \in Int /\ DrainTimeout \in Int
            /\ ctl.now <= now
        BY <3>1 DEF TypeOK, Controller, Row, Time, PoolAssumption, TeardownInv, ReadBefore
      <4> QED  BY <3>1, <4>1 DEF Forced, Overtime
    <3>3. Spent(d)'
      BY <1>1, <2>2, <3>1, <3>2 DEF RowCalm, Spent, Unleasable
    <3>4. ~Provisions(DestroyWorker)'
      BY DEF Provisions, DestroyWorker
    <3>5. /\ DestroyWorker # DrainedWorker /\ DestroyWorker # <<"orphan">>
          /\ DestroyWorker # <<"bind">> /\ DestroyWorker # FailProvision
      BY DEF DestroyWorker, DrainedWorker, FailProvision
    <3> QED  BY <3>3, <3>4, <3>5 DEF TaskSafe
  <2>4. ASSUME NEW d \in InState("draining") PROVE TaskSafe(DrainedWorker, d)'
    <3>1. Unleasable(d)'
      BY <2>2 DEF InState, Unleasable
    <3>2. ~Provisions(DrainedWorker)' /\ ~Ends(DrainedWorker)'
      BY DEF Provisions, Ends, DestroyWorker, DrainedWorker
    <3>3. /\ DrainedWorker # <<"orphan">> /\ DrainedWorker # <<"bind">>
          /\ DrainedWorker # FailProvision
      BY DEF DrainedWorker, FailProvision
    <3> QED  BY <3>1, <3>2, <3>3 DEF TaskSafe
  <2>5. \A t \in ctl'.tasks : TaskSafe(t.ops, t.d)'
    BY <2>1, <2>3, <2>4 DEF Todo
  <2> QED  BY <1>1, <2>1, <2>2, <2>5, ReadTeardown
<1> QED  BY <1>3, <1>4, <1>5, <1>6, <1>7, <1>8, <1>9 DEF Read

\* A read that fails plans nothing.
LEMMA ReadFailsTeardown ==
    ASSUME PoolAssumption, TypeOK, TeardownInv, ReadFails
    PROVE  TeardownInv'
<1>1. UNCHANGED <<row, lease, now>>
  BY DEF ReadFails
<1>2. ctl'.tasks = {} /\ ctl'.now \in {ctl.now, 0}
  <2>1. ctl \in Controller /\ ctl.tasks = {}
    BY DEF TypeOK, ReadFails
  <2>2. CASE ctl' = Idle
    BY <2>2 DEF Idle
  <2>3. CASE \/ ctl' = [ctl EXCEPT !.next = "reap", !.fleet = {}]
             \/ ctl' = [ctl EXCEPT !.next = "decide"]
    BY <2>1, <2>3 DEF Controller
  <2>4. CASE \E rolling \in {FALSE, Stale # {}} : ctl' = AfterRollout(rolling, {})
    BY <2>1, <2>4 DEF AfterRollout, Controller
  <2> QED  BY <2>2, <2>3, <2>4 DEF ReadFails
<1> QED  BY <1>1, <1>2, RowUntouched, ReadTeardown

\* Every step keeps it.
LEMMA NextTeardown ==
    ASSUME PoolAssumption, TypeOK, PoolInv, TeardownInv, [Next]_vars
    PROVE  TeardownInv'
<1>1. CASE Read
  BY <1>1, ReconcileTeardown, OtherReadsTeardown
<1>2. CASE Perform  BY <1>2, PerformTeardown
<1>3. CASE Disturb  BY <1>3, DisturbTeardown, ReadFailsTeardown
<1>4. CASE Outside  BY <1>4, OutsideTeardown
<1>5. CASE UNCHANGED vars
  <2>1. ctl' = ctl /\ UNCHANGED <<row, lease, now>>
    BY <1>5 DEF vars
  <2>2. \A d \in Droplets : RowCalm(d)
    BY <2>1, RowUntouched
  <2>3. now' \in Nat /\ now' >= now
    BY <2>1 DEF TypeOK
  <2> QED  BY <2>1, <2>2, <2>3, OtherTeardown
<1> QED  BY <1>1, <1>2, <1>3, <1>4, <1>5 DEF Next

\* What a step that deletes a droplet under a lease finds in its row.
DeletesSpared ==
    \A d \in Droplets :
      /\ instance[d].state = "running" /\ instance'[d].state = "deleted"
      /\ Busy(d) /\ row[d].id
      /\ ctl' # ctl
      => row[d].drain # 0 /\ now - row[d].drain >= DrainTimeout

\* The delete of a spent droplet, of an orphan, or of one that never got its id.
LEMMA DeleteSpared ==
    ASSUME TypeOK, PoolInv, TeardownInv, NEW t \in ctl.tasks,
           Head(t.ops) \in {"delete", "orphan", "setup"},
           \A d \in Droplets : d # t.d => instance'[d] = instance[d]
    PROVE  DeletesSpared
<1>1. ListShape(t.ops) /\ TaskSafe(t.ops, t.d)
  BY AfterHead, Shapes DEF TeardownInv
<1>2. row[t.d].id => Spent(t.d)
  <2>1. CASE Head(t.ops) = "delete"
    BY <1>1, <2>1 DEF ListShape, TaskSafe
  <2>2. CASE Head(t.ops) = "orphan"
    BY <1>1, <2>2 DEF ListShape, TaskSafe
  <2>3. CASE Head(t.ops) = "setup"
    <3>1. t.ops = <<"setup", "bind">>
      BY <1>1, <2>3 DEF ListShape
    <3> QED  BY <1>1, <3>1 DEF TaskSafe, Provisions
  <2> QED  BY <2>1, <2>2, <2>3
<1> SUFFICES ASSUME NEW d \in Droplets,
                    instance[d].state = "running", instance'[d].state = "deleted",
                    Busy(d), row[d].id
             PROVE  Overtime(d)
  BY DEF DeletesSpared, Overtime
<1>3. d = t.d
  OBVIOUS
<1> QED  BY <1>2, <1>3 DEF Spent

\* Nothing else deletes, or the tick is not its cause.
LEMMA NextSpares ==
    ASSUME PoolAssumption, TypeOK, PoolInv, TeardownInv, [Next]_vars
    PROVE  DeletesSpared \/ UNCHANGED vars
<1>1. ASSUME \A d \in Droplets : instance'[d].state = "deleted" => instance[d].state = "deleted"
      PROVE  DeletesSpared
  BY <1>1 DEF DeletesSpared
<1>2. ASSUME UNCHANGED instance \/ UNCHANGED ctl PROVE DeletesSpared
  BY <1>2 DEF DeletesSpared
<1>3. instance \in [Droplets -> Instance]
  BY DEF TypeOK
<1>4. CASE Read
  <2>1. CASE Reconcile
    <3>1. \A d \in Droplets : instance'[d].state = instance[d].state
      BY <1>3, <2>1 DEF Reconcile, Instance
    <3> QED  BY <1>1, <3>1
  <2>2. CASE ~Reconcile
    <3>1. UNCHANGED instance
      BY <1>4, <2>2 DEF Read, PromoteActive, ReapUnresponsive, DecideScale, RolloutNothing,
                        RolloutSurge, RolloutDrain, BeginDrains, ProgressDrains
    <3> QED  BY <1>2, <3>1
  <2> QED  BY <2>1, <2>2
<1>5. CASE Perform
  <2>1. PICK t \in ctl.tasks :
          \/ BeginDestroyIfIdle(t) \/ BeginDestroyIfIdleAndSilent(t) \/ SpareLeased(t)
          \/ CheckDrained(t) \/ WriteRow(t) \/ MintNodeToken(t) \/ RevokeNodeToken(t)
          \/ DeleteDroplet(t) \/ CreateDroplet(t) \/ SetUpDroplet(t)
    BY <1>5 DEF Perform
  <2>2. CASE DeleteDroplet(t)
    <3>1. Head(t.ops) \in {"delete", "orphan"}
      BY <2>2 DEF DeleteDroplet, Doing
    <3>2. \A d \in Droplets : d # t.d => instance'[d] = instance[d]
      BY <1>3, <2>2 DEF DeleteDroplet, Deleted
    <3> QED  BY <3>1, <3>2, DeleteSpared
  <2>3. CASE CreateDroplet(t)
    <3>1. \A d \in Droplets : instance'[d] = instance[d] \/ instance'[d].state = "running"
      BY <1>3, <2>3 DEF CreateDroplet, Created
    <3> QED  BY <1>1, <3>1
  <2>4. CASE ~DeleteDroplet(t) /\ ~CreateDroplet(t)
    <3>1. UNCHANGED instance
      BY <2>1, <2>4 DEF BeginDestroyIfIdle, BeginDestroyIfIdleAndSilent, SpareLeased,
                        CheckDrained, WriteRow, MintNodeToken, RevokeNodeToken, SetUpDroplet
    <3> QED  BY <1>2, <3>1
  <2> QED  BY <2>2, <2>3, <2>4
<1>6. CASE Disturb
  <2>1. ASSUME NEW t \in ctl.tasks, DeleteFails(t) PROVE DeletesSpared
    <3>1. Head(t.ops) \in {"delete", "orphan"}
      BY <2>1 DEF DeleteFails, Deleting, Doing
    <3>2. \A d \in Droplets : d # t.d => instance'[d] = instance[d]
      BY <1>3, <2>1 DEF DeleteFails, Deleted
    <3> QED  BY <3>1, <3>2, DeleteSpared
  <2>2. ASSUME NEW t \in ctl.tasks, CreateFails(t) PROVE DeletesSpared
    <3>1. CASE Doing(t, "create") /\ instance' \in {instance, Created(t.d)}
      <4>1. \A d \in Droplets : instance'[d] = instance[d] \/ instance'[d].state = "running"
        BY <1>3, <3>1 DEF Created
      <4> QED  BY <1>1, <4>1
    <3>2. CASE Doing(t, "setup") /\ instance' \in {instance, Deleted(t.d)}
      <4>1. \A d \in Droplets : d # t.d => instance'[d] = instance[d]
        BY <1>3, <3>2 DEF Deleted
      <4>2. Head(t.ops) = "setup"
        BY <3>2 DEF Doing
      <4> QED  BY <4>1, <4>2, DeleteSpared
    <3> QED  BY <2>2, <3>1, <3>2 DEF CreateFails
  <2>3. ASSUME \/ \E t \in ctl.tasks : StatementFails(t)
               \/ \E d \in Droplets : Vanish(d)
               \/ ReadFails \/ Crash \/ Deploy
        PROVE  DeletesSpared
    <3>1. UNCHANGED instance \/ UNCHANGED ctl
      BY <2>3 DEF StatementFails, Vanish, ReadFails, Crash, Deploy
    <3> QED  BY <1>2, <3>1
  <2> QED  BY <1>6, <2>1, <2>2, <2>3 DEF Disturb
<1>7. CASE Outside
  <2>1. UNCHANGED instance
    BY <1>7 DEF Outside, Report, LeaseJob, RenewLease, EndLease, OperatorDrain, ClockTick
  <2> QED  BY <1>2, <2>1
<1> QED  BY <1>4, <1>5, <1>6, <1>7 DEF Next

\* The inductive invariant of the teardown.
THEOREM TeardownInductive == Spec => []TeardownInv
<1>1. Init => TeardownInv
  <2> SUFFICES ASSUME Init PROVE TeardownInv
    OBVIOUS
  <2>1. ctl.tasks = {} /\ ctl.now = 0 /\ now = 1
    BY DEF Init, Idle
  <2>2. \A d \in Droplets : row[d].state = "absent" /\ row[d].id = FALSE
    BY DEF Init, NoRow
  <2> QED  BY <2>1, <2>2 DEF TeardownInv, ReadBefore, RowSafe
<1>2. TypeOK /\ PoolInv /\ TeardownInv /\ [Next]_vars => TeardownInv'
  BY PoolAssumption, NextTeardown
<1> QED  BY <1>1, <1>2, PoolInductive, PTL DEF Spec

\* The controller deletes a provisioned droplet under a live lease only when its
\* drain has timed out: whatever it has read, its row takes no new lease by then.
THEOREM TeardownSafety == Spec => TeardownSparesLeases
<1>1. TypeOK /\ PoolInv /\ TeardownInv /\ [Next]_vars => [DeletesSpared]_vars
  BY PoolAssumption, NextSpares
<1> QED  BY <1>1, PoolInductive, TeardownInductive, PTL DEF Spec, TeardownSparesLeases, DeletesSpared

-----------------------------------------------------------------------------
(* Tokens, when no statement fails.                                        *)

\* The row goes on without working, or goes on working.
RowTold(d) ==
    /\ row[d].state \notin Working => row'[d].state \notin Working
    /\ token'[d] = token[d]

\* What others leave of the premise on the token.
LEMMA TokenKept ==
    ASSUME NEW ops, NEW d \in Droplets, TokenSafe(ops, d), RowTold(d)
    PROVE  TokenSafe(ops, d)'
<1>1. Revokes(ops)' = Revokes(ops)
  BY DEF Revokes
<1> QED  BY <1>1 DEF TokenSafe, RowTold

\* Nobody begins to work without a token.
LEMMA BindingKept ==
    ASSUME LiveBindings, \A d \in Droplets : RowTold(d)
    PROVE  LiveBindings'
BY DEF LiveBindings, RowTold, Working

\* One step of the task t, which may write its row or its token; in reconcile a
\* second task may be on the row, and asks only that it does not work any more.
LEMMA TokenTask ==
    ASSUME TypeOK, PoolInv, TokenInv, NEW t \in ctl.tasks, NEW ops,
           \/ ctl' = [ctl EXCEPT !.tasks = (ctl.tasks \ {t}) \cup GoOn(t, ops)]
           \/ ctl' = [ctl EXCEPT !.tasks = GoOn(t, ops)],
           ops # <<>> => TokenSafe(ops, t.d)',
           row'[t.d].state \in Working => token'[t.d] = "live",
           ctl.next = "promote" =>
             (row[t.d].state \notin Working => row'[t.d].state \notin Working),
           \A d \in Droplets : d # t.d => row'[d] = row[d] /\ token'[d] = token[d]
    PROVE  TokenInv'
<1> DEFINE u == [t EXCEPT !.ops = ops]
<1>1. t \in Task /\ ctl \in Controller /\ t.d \in Droplets /\ ctl.tasks \subseteq Task
  BY DEF TypeOK, Controller, Task
<1>2. u.d = t.d /\ u.ops = ops
  BY <1>1 DEF Task
<1>3. \A v \in ctl'.tasks : \/ v \in ctl.tasks /\ v # t
                            \/ v = u /\ ops # <<>>
  <2>1. GoOn(t, ops) \subseteq {u} /\ (ops = <<>> => GoOn(t, ops) = {})
    BY DEF GoOn
  <2>2. ctl'.tasks = (ctl.tasks \ {t}) \cup GoOn(t, ops) \/ ctl'.tasks = GoOn(t, ops)
    BY <1>1 DEF Controller
  <2> HIDE DEF u
  <2> QED  BY <2>1, <2>2
<1> HIDE DEF u
<1>4. \A d \in Droplets : d # t.d => RowTold(d)
  BY DEF RowTold
<1>5. LiveBindings'
  BY DEF TokenInv, LiveBindings, Working
<1>6. \A v \in ctl'.tasks : TokenSafe(v.ops, v.d)'
  <2> SUFFICES ASSUME NEW v \in ctl'.tasks PROVE TokenSafe(v.ops, v.d)'
    OBVIOUS
  <2>1. CASE v = u /\ ops # <<>>
    BY <1>2, <2>1
  <2>2. CASE v \in ctl.tasks /\ v # t
    <3>1. TokenSafe(v.ops, v.d) /\ v.d \in Droplets
      BY <1>1, <2>2 DEF TokenInv, Task
    <3>2. CASE v.d # t.d
      BY <1>4, <3>1, <3>2, TokenKept
    <3>3. CASE v.d = t.d
      <4>1. ctl.next = "promote"
        BY <2>2, <3>3 DEF PoolInv, TasksApart
      <4>2. v.ops \in Pending("promote")
        BY <2>2, <4>1 DEF PoolInv, TasksShaped
      <4>3. ~Inserts(v.ops)
        BY <4>2, PromotePlain
      <4>4. v.ops # <<"insert", "create", "setup", "bind">>
        BY <4>3 DEF Inserts
      <4>5. Revokes(v.ops)' = Revokes(v.ops)
        BY DEF Revokes
      <4> QED  BY <3>1, <3>3, <4>1, <4>4, <4>5 DEF TokenSafe
    <3> QED  BY <3>2, <3>3
  <2> QED  BY <1>3, <2>1, <2>2
<1> QED  BY <1>5, <1>6 DEF TokenInv

\* The rest of the list, when neither row nor token changed.
LEMMA ContinueToken ==
    ASSUME TypeOK, PoolInv, TokenInv, NEW t \in ctl.tasks, UNCHANGED <<row, token>>,
           \/ Continue(t) /\ Head(t.ops) \notin {"begin", "silent", "destroying", "failed", "mint"}
           \/ Skip(t)
    PROVE  TokenInv'
<1>1. /\ t.d \in Droplets /\ ListShape(t.ops) /\ TokenSafe(t.ops, t.d)
  BY AfterHead, Shapes DEF TokenInv
<1>2. \A d \in Droplets : RowTold(d)
  BY DEF RowTold
<1>3. row'[t.d].state \in Working => token'[t.d] = "live"
  BY <1>1, <1>2, BindingKept DEF TokenInv, LiveBindings, Working
<1>4. CASE Skip(t)
  BY <1>3, <1>4, TokenTask DEF Skip, Proceed
<1>5. CASE Continue(t) /\ Head(t.ops) \notin {"begin", "silent", "destroying", "failed", "mint"}
  <2>1. TokenSafe(Tail(t.ops), t.d)
    BY <1>1, <1>5 DEF ListShape, TokenSafe
  <2>2. TokenSafe(Tail(t.ops), t.d)'
    BY <1>1, <1>2, <2>1, TokenKept
  <2> QED  BY <1>3, <1>5, <2>2, TokenTask DEF Continue, Proceed
<1> QED  BY <1>4, <1>5

\* The rest of the list of a task whose row has just stopped working.
LEMMA StoppedTail ==
    ASSUME TypeOK, PoolInv, NEW t \in ctl.tasks, row'[t.d].state \notin Working,
           Head(t.ops) # "mint"
    PROVE  TokenSafe(Tail(t.ops), t.d)'
<1>1. ListShape(t.ops)
  BY AfterHead, Shapes
<1> QED  BY <1>1 DEF ListShape, TokenSafe

\* beginDestroy: a task that goes on has its row in destroying.
LEMMA RetireToken ==
    ASSUME TypeOK, PoolInv, TokenInv, NEW t \in ctl.tasks,
           Head(t.ops) \in {"begin", "silent"}, Retire(t), UNCHANGED token
    PROVE  TokenInv'
<1>1. t.d \in Droplets /\ row[t.d] \in Row
  BY AfterHead
<1>2. CASE Skip(t) /\ UNCHANGED row
  BY <1>2, ContinueToken
<1>3. CASE /\ Continue(t)
           /\ \/ row[t.d].state = "destroying" /\ UNCHANGED row
              \/ row' = [row EXCEPT ![t.d].state = "destroying"]
  <2>1. /\ row'[t.d].state = "destroying"
        /\ \A d \in Droplets : d # t.d => row'[d] = row[d]
    BY <1>1, <1>3 DEF TypeOK, Row
  <2>2. row'[t.d].state \notin Working
    BY <2>1 DEF Working
  <2>3. TokenSafe(Tail(t.ops), t.d)'
    BY <2>2, StoppedTail
  <2> QED  BY <1>3, <2>1, <2>2, <2>3, TokenTask DEF Continue, Proceed
<1> QED  BY <1>2, <1>3 DEF Retire

\* The statements that do not look at the row's state.
LEMMA WriteToken ==
    ASSUME TypeOK, PoolInv, TokenInv, NEW t \in ctl.tasks, WriteRow(t)
    PROVE  TokenInv'
<1>1. PICK op \in RowOp : Head(t.ops) = op /\ row' = [row EXCEPT ![t.d] = Written(op, row[t.d])]
  BY DEF WriteRow, Doing
<1>2. Continue(t) /\ UNCHANGED token
  BY DEF WriteRow
<1>3. /\ t.d \in Droplets /\ row[t.d] \in Row /\ Premise(t.ops, row[t.d].state)
      /\ t.ops \in Pending(ctl.next) /\ ctl.next \in Stage
  BY AfterHead
<1>4. ListShape(t.ops) /\ TokenSafe(t.ops, t.d)
  BY <1>3, Shapes DEF TokenInv
<1>5. row[t.d].state \in Working => token[t.d] = "live"
  BY <1>3 DEF TokenInv, LiveBindings, Working
<1>6. /\ row'[t.d] = Written(op, row[t.d])
      /\ \A d \in Droplets : d # t.d => row'[d] = row[d]
  BY <1>1, <1>3 DEF TypeOK
<1> DEFINE s == row[t.d].state
           Good == /\ TokenSafe(Tail(t.ops), t.d)'
                   /\ row'[t.d].state \in Working => token'[t.d] = "live"
                   /\ ctl.next = "promote" => (s \notin Working => row'[t.d].state \notin Working)
<1> SUFFICES Good
  BY <1>2, <1>6, TokenTask DEF Continue, Proceed
<1>7. CASE op = "insert"
  <2>1. t.ops = <<"insert", "create", "setup", "bind">> /\ ctl.next \in {"rollout", "drain"}
    BY <1>1, <1>3, <1>4, <1>7, PendingShape DEF ListShape
  <2>2. token'[t.d] = "live"
    BY <1>2, <1>4, <2>1 DEF TokenSafe
  <2>3. TokenSafe(<<"create", "setup", "bind">>, t.d)'
    BY DEF TokenSafe, Revokes
  <2> QED  BY <2>1, <2>2, <2>3
<1>8. CASE op \in {"bind", "active"}
  <2>1. t.ops \in {<<"bind">>, <<"active">>}
    BY <1>1, <1>4, <1>8 DEF ListShape
  <2>2. TokenSafe(Tail(t.ops), t.d)'
    <3>1. Tail(<<"bind">>) = <<>> /\ Tail(<<"active">>) = <<>>  OBVIOUS
    <3>2. Tail(t.ops) = <<>>  BY <2>1, <3>1
    <3> QED  BY <3>2, NothingAsked
  <2>3. s \notin Working => row'[t.d].state = s
    BY <1>3, <1>6, <1>8 DEF Written, Activated, Row, Working
  <2> QED  BY <1>2, <1>5, <2>2, <2>3
<1>9. CASE op = "drain"
  <2>1. t.ops = <<"drain">>
    BY <1>1, <1>4, <1>9 DEF ListShape
  <2>2. TokenSafe(Tail(t.ops), t.d)'
    BY <2>1, NothingAsked
  <2>3. s \in Working
    BY <1>3, <2>1 DEF Premise, Drainable, Working
  <2> QED  BY <1>2, <1>5, <2>2, <2>3
<1>10. CASE op \in {"destroying", "destroyed", "failed"}
  <2>1. row'[t.d].state = op
    BY <1>3, <1>6, <1>10 DEF Written, Row
  <2>2. row'[t.d].state \notin Working
    BY <1>10, <2>1 DEF Working
  <2>3. TokenSafe(Tail(t.ops), t.d)'
    BY <1>1, <1>10, <2>2, StoppedTail
  <2> QED  BY <2>2, <2>3
<1> QED  BY <1>7, <1>8, <1>9, <1>10 DEF RowOp

\* Every operation of a task.
LEMMA PerformToken ==
    ASSUME TypeOK, PoolInv, TokenInv, Perform
    PROVE  TokenInv'
<1>1. PICK t \in ctl.tasks :
        \/ BeginDestroyIfIdle(t) \/ BeginDestroyIfIdleAndSilent(t) \/ SpareLeased(t)
        \/ CheckDrained(t) \/ WriteRow(t) \/ MintNodeToken(t) \/ RevokeNodeToken(t)
        \/ DeleteDroplet(t) \/ CreateDroplet(t) \/ SetUpDroplet(t)
  BY DEF Perform
<1>2. t.d \in Droplets /\ row[t.d] \in Row /\ ListShape(t.ops) /\ TokenSafe(t.ops, t.d)
  BY AfterHead, Shapes DEF TokenInv
<1>3. row[t.d].state \in Working => token[t.d] = "live"
  BY <1>2 DEF TokenInv, LiveBindings, Working
<1>4. CASE BeginDestroyIfIdle(t)
  BY <1>4, RetireToken DEF BeginDestroyIfIdle, Doing
<1>5. CASE BeginDestroyIfIdleAndSilent(t)
  <2>1. CASE Retire(t)
    BY <1>5, <2>1, RetireToken DEF BeginDestroyIfIdleAndSilent, Doing
  <2>2. CASE Skip(t) /\ UNCHANGED row
    BY <1>5, <2>2, ContinueToken DEF BeginDestroyIfIdleAndSilent
  <2> QED  BY <1>5, <2>1, <2>2 DEF BeginDestroyIfIdleAndSilent
<1>6. CASE SpareLeased(t)
  <2>1. Head(t.ops) \in {"spare", "keep"} /\ UNCHANGED token
    BY <1>6 DEF SpareLeased, Doing
  <2>2. CASE UNCHANGED row
    BY <1>6, <2>1, <2>2, ContinueToken DEF SpareLeased
  <2>3. CASE Skip(t) /\ row' = [row EXCEPT ![t.d] = Activated(row[t.d])]
    <3>1. row'[t.d] = Activated(row[t.d]) /\ \A d \in Droplets : d # t.d => row'[d] = row[d]
      BY <1>2, <2>3 DEF TypeOK
    <3>2. row[t.d].state \notin Working => row'[t.d].state \notin Working
      BY <3>1 DEF Activated, Working
    <3>3. row'[t.d].state \in Working => token'[t.d] = "live"
      BY <1>3, <2>1, <3>2
    <3> QED  BY <2>1, <2>3, <3>1, <3>2, <3>3, TokenTask DEF Skip, Proceed
  <2> QED  BY <1>6, <2>2, <2>3 DEF SpareLeased
<1>7. CASE CheckDrained(t)
  BY <1>7, ContinueToken DEF CheckDrained, Doing
<1>8. CASE WriteRow(t)
  BY <1>8, WriteToken
<1>9. CASE MintNodeToken(t)
  <2>1. t.ops = ScaleUp /\ Continue(t) /\ UNCHANGED row
    BY <1>2, <1>9 DEF MintNodeToken, Doing, ListShape
  <2>2. token'[t.d] = "live" /\ \A d \in Droplets : d # t.d => token'[d] = token[d]
    BY <1>2, <1>9 DEF MintNodeToken, TypeOK
  <2>3. Tail(t.ops) = <<"insert", "create", "setup", "bind">>
    BY <2>1 DEF ScaleUp
  <2>4. TokenSafe(Tail(t.ops), t.d)'
    BY <2>2, <2>3 DEF TokenSafe, Revokes
  <2> QED  BY <2>1, <2>2, <2>4, TokenTask DEF Continue, Proceed
<1>10. CASE RevokeNodeToken(t)
  <2>1. Head(t.ops) = "revoke" /\ Continue(t) /\ UNCHANGED row
    BY <1>10 DEF RevokeNodeToken, Doing
  <2>2. \A d \in Droplets : d # t.d => token'[d] = token[d]
    BY <1>10 DEF RevokeNodeToken, TypeOK
  <2>3. row'[t.d].state \notin Working
    BY <1>2, <2>1 DEF ListShape, TokenSafe
  <2>4. TokenSafe(Tail(t.ops), t.d)'
    BY <2>1, <2>3, StoppedTail
  <2> QED  BY <2>1, <2>2, <2>3, <2>4, TokenTask DEF Continue, Proceed
<1>11. CASE DeleteDroplet(t)
  BY <1>11, ContinueToken DEF DeleteDroplet, Doing
<1>12. CASE CreateDroplet(t)
  BY <1>12, ContinueToken DEF CreateDroplet, Doing
<1>13. CASE SetUpDroplet(t)
  BY <1>13, ContinueToken DEF SetUpDroplet, Doing
<1> QED  BY <1>1, <1>4, <1>5, <1>6, <1>7, <1>8, <1>9, <1>10, <1>11, <1>12, <1>13

\* A step of someone else, or a read whose plan takes no token from a working row.
LEMMA OtherToken ==
    ASSUME TypeOK, TokenInv, \A d \in Droplets : RowTold(d),
           \A t \in ctl'.tasks : t \in ctl.tasks \/ TokenSafe(t.ops, t.d)'
    PROVE  TokenInv'
<1>1. LiveBindings'
  BY BindingKept DEF TokenInv
<1>2. \A t \in ctl'.tasks : TokenSafe(t.ops, t.d)'
  <2> SUFFICES ASSUME NEW t \in ctl'.tasks, t \in ctl.tasks PROVE TokenSafe(t.ops, t.d)'
    OBVIOUS
  <2>1. t.d \in Droplets /\ TokenSafe(t.ops, t.d)
    BY DEF TypeOK, Controller, Task, TokenInv
  <2> QED  BY <2>1, TokenKept
<1> QED  BY <1>1, <1>2 DEF TokenInv

\* Recorders, the operator, the clock, and the faults that are not the database's.
LEMMA ElsewhereToken ==
    ASSUME TypeOK, PoolInv, TokenInv, "database" \notin Faults, Outside \/ Disturb
    PROVE  TokenInv'
<1>1. row \in [Droplets -> Row]
  BY DEF TypeOK
<1>2. CASE Outside
  <2>1. ctl' = ctl /\ UNCHANGED token
    BY <1>2 DEF Outside, Report, LeaseJob, RenewLease, EndLease, OperatorDrain, ClockTick
  <2>2. ASSUME NEW d \in Droplets, Report(d) \/ OperatorDrain(d)
        PROVE  \A e \in Droplets : RowTold(e)
    <3>1. \A e \in Droplets : row'[e].state = row[e].state \/ row[e].state = "active"
      BY <1>1, <2>2 DEF Report, OperatorDrain, Row
    <3> QED  BY <2>1, <3>1 DEF RowTold, Working
  <2>3. ASSUME UNCHANGED row PROVE \A e \in Droplets : RowTold(e)
    BY <2>1, <2>3 DEF RowTold
  <2>4. \A e \in Droplets : RowTold(e)
    BY <1>2, <2>2, <2>3 DEF Outside, LeaseJob, RenewLease, EndLease, ClockTick
  <2> QED  BY <2>1, <2>4, OtherToken
<1>3. ASSUME NEW t \in ctl.tasks, DeleteFails(t) PROVE TokenInv'
  BY <1>3, ContinueToken DEF DeleteFails
<1>4. ASSUME NEW t \in ctl.tasks, CreateFails(t) PROVE TokenInv'
  <2>1. Broken(t, FailProvision) /\ UNCHANGED <<row, token>>
    BY <1>4 DEF CreateFails
  <2>2. TokenSafe(FailProvision, t.d)'
    BY DEF TokenSafe, FailProvision, Revokes
  <2>3. row'[t.d].state \in Working => token'[t.d] = "live"
    BY <2>1, AfterHead DEF TokenInv, LiveBindings, Working
  <2> QED  BY <2>1, <2>2, <2>3, TokenTask DEF Broken, Proceed
<1>5. CASE (\E d \in Droplets : Vanish(d)) \/ Crash \/ Deploy
  <2>1. UNCHANGED <<row, token>> /\ (ctl' = ctl \/ ctl' = Idle)
    BY <1>5 DEF Vanish, Crash, Deploy
  <2>2. \A t \in ctl'.tasks : t \in ctl.tasks
    BY <2>1 DEF Idle
  <2> QED  BY <2>1, <2>2, OtherToken DEF RowTold
<1>6. ~ReadFails /\ \A t \in ctl.tasks : ~StatementFails(t)
  BY DEF ReadFails, StatementFails, Fault
<1> QED  BY <1>2, <1>3, <1>4, <1>5, <1>6 DEF Disturb

\* The reads: only reconcile plans a revocation without a write before it, and for
\* rows in destroying.
LEMMA ReadToken ==
    ASSUME TypeOK, TokenInv, Read
    PROVE  TokenInv'
<1>1. row \in [Droplets -> Row] /\ ctl \in Controller /\ UNCHANGED token
  BY DEF TypeOK, Read, Reconcile, PromoteActive, ReapUnresponsive, DecideScale, RolloutNothing,
         RolloutSurge, RolloutDrain, BeginDrains, ProgressDrains
<1>2. \A d \in Droplets : RowTold(d)
  <2>1. CASE DecideScale
    <3>1. row' = RefreshIdle  BY <2>1 DEF DecideScale
    <3>2. \A d \in Droplets : row'[d].state = row[d].state
      BY <1>1, <3>1 DEF RefreshIdle, Row
    <3> QED  BY <1>1, <3>2 DEF RowTold
  <2>2. CASE \E d \in Stale : row' = [row EXCEPT ![d].state = "draining", ![d].drain = now]
    <3>1. PICK d \in Stale : row' = [row EXCEPT ![d].state = "draining", ![d].drain = now]
      BY <2>2
    <3>2. d \in Droplets /\ row[d].state = "active"
      BY DEF Stale, InState
    <3>3. \A e \in Droplets : e # d => row'[e] = row[e]
      BY <1>1, <3>1
    <3> QED  BY <1>1, <3>2, <3>3 DEF RowTold, Working
  <2>3. CASE UNCHANGED row
    BY <1>1, <2>3 DEF RowTold
  <2> QED
    BY <2>1, <2>2, <2>3 DEF Read, Reconcile, PromoteActive, ReapUnresponsive, RolloutNothing,
         RolloutSurge, RolloutDrain, BeginDrains, ProgressDrains
<1> DEFINE Plain == {SilentWorker, DestroyWorker, DrainedWorker, ScaleUp, <<"active">>, <<"drain">>,
                     <<"bind">>, <<"orphan">>, <<"begin", "revoke", "destroyed">>,
                     <<"keep", "begin", "delete", "failed", "revoke">>,
                     <<"spare", "begin", "delete", "failed", "revoke">>}
<1>3. \A ops \in Plain : \A d : TokenSafe(ops, d)'
  BY DEF TokenSafe, Revokes, SilentWorker, DestroyWorker, DrainedWorker, ScaleUp
<1>4. CASE Reconcile
  <2>1. PICK unlisted \in SUBSET Lagging : ctl'.tasks = ReconcilePlan(Running \ unlisted)
    BY <1>4 DEF Reconcile, Idle
  <2>2. \A t \in ctl'.tasks :
          t.ops \in Plain \/ (t.ops = <<"delete", "revoke", "destroyed">> /\ row[t.d].state = "destroying")
    BY <2>1 DEF ReconcilePlan, Todo, InState
  <2>3. UNCHANGED row
    BY <1>4 DEF Reconcile
  <2>4. ASSUME NEW t \in ctl'.tasks PROVE TokenSafe(t.ops, t.d)'
    <3>1. CASE t.ops \in Plain
      <4> HIDE DEF Plain
      <4> QED  BY <1>3, <3>1
    <3>2. CASE t.ops = <<"delete", "revoke", "destroyed">> /\ row[t.d].state = "destroying"
      <4>1. row'[t.d].state \notin Working
        BY <2>3, <3>2 DEF Working
      <4>2. t.ops # <<"insert", "create", "setup", "bind">>
        BY <3>2
      <4> QED  BY <4>1, <4>2 DEF TokenSafe
    <3> HIDE DEF Plain
    <3> QED  BY <2>2, <3>1, <3>2
  <2> QED  BY <1>2, <2>4, OtherToken
<1>5. CASE ~Reconcile
  <2>1. \A t \in ctl'.tasks : t.ops \in Plain
    <3>1. CASE PromoteActive
      BY <1>1, <3>1 DEF PromoteActive, Todo, Controller
    <3>2. CASE ReapUnresponsive
      BY <1>1, <3>2 DEF ReapUnresponsive, Todo, Controller
    <3>3. CASE DecideScale
      <4>1. \E names : ctl'.tasks = Todo(0, names, ScaleUp)
        BY <1>1, <3>3 DEF DecideScale, Controller
      <4> QED  BY <4>1 DEF Todo
    <3>4. CASE RolloutNothing \/ RolloutSurge \/ RolloutDrain
      <4>1. ctl'.tasks = {} \/ \E names : ctl'.tasks = Todo(0, names, ScaleUp)
        BY <1>1, <3>4 DEF RolloutNothing, RolloutSurge, RolloutDrain, AfterRollout, Controller
      <4> QED  BY <4>1 DEF Todo
    <3>5. CASE BeginDrains
      <4>1. \E S : ctl'.tasks = Todo(0, S, <<"drain">>)
        BY <1>1, <3>5 DEF BeginDrains, Controller
      <4> QED  BY <4>1 DEF Todo
    <3>6. CASE ProgressDrains
      <4>1. \E F, G : ctl'.tasks = Todo(0, F, DestroyWorker) \cup Todo(0, G, DrainedWorker)
        BY <3>6 DEF ProgressDrains, Idle
      <4> QED  BY <4>1 DEF Todo
    <3> QED  BY <1>5, <3>1, <3>2, <3>3, <3>4, <3>5, <3>6 DEF Read
  <2>2. \A t \in ctl'.tasks : TokenSafe(t.ops, t.d)'
    BY <1>3, <2>1
  <2> QED  BY <1>2, <2>2, OtherToken
<1> QED  BY <1>4, <1>5

\* The recorder of a row that may still work has its token, as long as no statement
\* fails: crashes and the provider's failures take it from nobody.  A failed
\* statement may: FailProvision revokes the token also when MarkFailed failed.
THEOREM BindingSafety ==
    ASSUME "database" \notin Faults
    PROVE  Spec => []LiveBindings
<1>1. Init => TokenInv
  <2> SUFFICES ASSUME Init PROVE TokenInv
    OBVIOUS
  <2>1. ctl.tasks = {} /\ \A d \in Droplets : row[d].state = "absent"
    BY DEF Init, Idle, NoRow
  <2> QED  BY <2>1 DEF TokenInv, LiveBindings
<1>2. TypeOK /\ PoolInv /\ TokenInv /\ [Next]_vars => TokenInv'
  <2> SUFFICES ASSUME TypeOK, PoolInv, TokenInv, [Next]_vars PROVE TokenInv'
    OBVIOUS
  <2>1. CASE UNCHANGED vars
    <3>1. UNCHANGED <<row, token>> /\ ctl' = ctl
      BY <2>1 DEF vars
    <3> QED  BY <3>1, OtherToken DEF RowTold
  <2> QED  BY <2>1, ReadToken, PerformToken, ElsewhereToken DEF Next
<1>3. TokenInv => LiveBindings
  BY DEF TokenInv
<1> QED  BY <1>1, <1>2, <1>3, PoolInductive, PTL DEF Spec
=============================================================================
