------------------------- MODULE WaitingTasks_proofs -------------------------
(***************************************************************************)
(* Theorems of WaitingTasks for every set of hosts, playbooks, batches and *)
(* workers and every bound on requests and faults.                         *)
(***************************************************************************)
EXTENDS WaitingTasks, TLAPS

ExecStatus == {"none", "pending", "queued", "running"} \cup Settled

-----------------------------------------------------------------------------
(* Lemmas about the row of a group *)

\* The summary of a group is one of the statuses of a run.
LEMMA GroupStatusType ==
    ASSUME NEW states
    PROVE  GroupStatus(states) \in RunStatus
  BY DEF GroupStatus, RunStatus, Settled

\* Changing hosts of a row gives a row.
LEMMA SetStatesType ==
    ASSUME NEW r \in Row, NEW hosts \in SUBSET Host, NEW changes \in [hosts -> HostState]
    PROVE  SetStates(r, changes) \in Row
  <1> DEFINE new == [h \in Host |-> IF h \in DOMAIN changes THEN changes[h] ELSE r.states[h]]
  <1>1. new \in [Host -> HostState]
    BY DEF Row
  <1>2. GroupStatus(new) \in RunStatus
    BY GroupStatusType
  <1>3. [states |-> new, status |-> GroupStatus(new), finished |-> ~AnyOpen(new)] \in Row
    BY <1>1, <1>2 DEF Row
  <1> QED
    BY <1>3 DEF SetStates

\* What a host's state is after a change.
LEMMA SetStatesAt ==
    ASSUME NEW r \in Row, NEW hosts \in SUBSET Host, NEW changes \in [hosts -> HostState],
           NEW h \in Host
    PROVE  SetStates(r, changes).states[h] = IF h \in hosts THEN changes[h] ELSE r.states[h]
  BY DEF SetStates, Row

\* Moving hosts to one state: its type and its effect.
LEMMA MoveType ==
    ASSUME NEW r \in Row, NEW hosts \in SUBSET Host, NEW to \in HostState
    PROVE  /\ Move(r, hosts, to) \in Row
           /\ \A h \in Host : Move(r, hosts, to).states[h]
                                = IF h \in hosts THEN to ELSE r.states[h]
  <1> DEFINE changes == [h \in hosts |-> to]
  <1>1. changes \in [hosts -> HostState]
    OBVIOUS
  <1>2. SetStates(r, changes) \in Row
    BY <1>1, SetStatesType
  <1>3. \A h \in Host : SetStates(r, changes).states[h]
                          = IF h \in hosts THEN changes[h] ELSE r.states[h]
    BY <1>1, SetStatesAt
  <1> QED
    BY <1>2, <1>3 DEF Move

\* A row that was just created.
LEMMA NewRowType ==
    ASSUME NEW states \in [Host -> HostState]
    PROVE  NewRow(states) \in Row
  <1>1. GroupStatus(states) \in RunStatus
    BY GroupStatusType
  <1> QED
    BY <1>1 DEF NewRow, Row

LEMMA NoRowType == NoRow \in Row
  BY DEF NoRow, Row, HostState, RunStatus

-----------------------------------------------------------------------------
(* Type correctness *)

USE DEF ExecStatus

\* The row of a group after hosts were moved.
LEMMA RowMove ==
    ASSUME TypeOK, NEW g \in Group, NEW hosts \in SUBSET Host,
           NEW to \in {"ready", "pending", "queued", "running", "cancelled"}
    PROVE  Move(row[g], hosts, to) \in Row
  <1>1. row[g] \in Row
    BY DEF TypeOK
  <1>2. to \in HostState
    BY DEF HostState, OpenStates, Settled
  <1> QED
    BY <1>1, <1>2, MoveType

\* What the state of a host is after hosts of its group were moved.
LEMMA RowMoveAt ==
    ASSUME TypeOK, NEW g \in Group, NEW hosts \in SUBSET Host,
           NEW to \in {"ready", "pending", "queued", "running", "cancelled"}, NEW h \in Host
    PROVE  Move(row[g], hosts, to).states[h] = IF h \in hosts THEN to ELSE row[g].states[h]
  <1>1. row[g] \in Row
    BY DEF TypeOK
  <1>2. to \in HostState
    BY DEF HostState, OpenStates, Settled
  <1> QED
    BY <1>1, <1>2, MoveType

LEMMA HostsInType ==
    ASSUME NEW r, NEW S
    PROVE  HostsIn(r, S) \in SUBSET Host
  BY DEF HostsIn

LEMMA GroupOfType ==
    ASSUME TypeOK, NEW e \in Execution, owner[e[1]] # 0
    PROVE  GroupOf(e) \in Group
  BY DEF TypeOK, GroupOf, Group, Execution, Sequence, Step

\* The executions of a new batch are well typed.
LEMMA AddBatchType ==
    ASSUME TypeOK, NEW b \in Batch, NEW s \in Sequence,
           NEW take \in [Step -> SUBSET Host], NEW first \in Step,
           AddBatch(b, s, take, first)
    PROVE  /\ owner' \in [Batch -> 0 .. MaxSequences]
           /\ targets' \in [Execution -> SUBSET Host]
           /\ status' \in [Execution -> ExecStatus]
           /\ sent' \in [Execution -> Nat]
  <1>1. owner' \in [Batch -> 0 .. MaxSequences]
    BY BoundsAssumption DEF AddBatch, TypeOK, Sequence
  <1>2. targets' \in [Execution -> SUBSET Host]
    BY DEF AddBatch, TypeOK, Execution
  <1>3. status' \in [Execution -> ExecStatus]
    BY DEF AddBatch, TypeOK
  <1>4. sent' \in [Execution -> Nat]
    BY DEF AddBatch, TypeOK
  <1> QED
    BY <1>1, <1>2, <1>3, <1>4

\* The batch a transaction takes is a free one.
LEMMA FreeBatchChosen ==
    ASSUME FreeBatches # {}
    PROVE  (CHOOSE b \in FreeBatches : TRUE) \in {b \in Batch : owner[b] = 0}
  BY DEF FreeBatches

\* A follower that is looked for where there is one is an execution.
LEMMA FollowerType ==
    ASSUME NEW e, HasFollower(e)
    PROVE  Follower(e) \in Execution /\ IsFollower(Follower(e), e)
  BY DEF HasFollower, Follower

LEMMA SpendType ==
    ASSUME TypeOK, NEW kind \in {"cancel", "child", "fault", "again"}, Spend(kind)
    PROVE  left' \in [{"cancel", "child", "fault", "again"} -> Nat]
  BY DEF TypeOK, Spend

LEMMA GotoType ==
    ASSUME TypeOK, NEW w \in Worker, NEW e \in Execution, NEW at \in Execution,
           NEW pc \in {"taken", "body", "ended", "follow", "claim", "grant"},
           Goto(w, pc, e, at)
    PROVE  worker' \in [Worker -> Activity]
  BY DEF TypeOK, Goto, Activity

LEMMA RestType ==
    ASSUME TypeOK, NEW w \in Worker, Rest(w)
    PROVE  worker' \in [Worker -> Activity]
  BY DEF TypeOK, Rest, Activity

\* A worker that is not idle is busy with an execution.
LEMMA BusyType ==
    ASSUME TypeOK, NEW w \in Worker, worker[w].pc # "idle"
    PROVE  worker[w].exec \in Execution /\ worker[w].at \in Execution
  BY DEF TypeOK, Idle, Activity

LEMMA InitTypeOK == Init => TypeOK
  BY BoundsAssumption, NoRowType DEF Init, TypeOK, Settled, Activity

LEMMA CreateTypeOK ==
    ASSUME TypeOK, NEW plan \in Plan, NEW hosts \in SUBSET Host, NEW online \in SUBSET Host,
           NEW defer \in BOOLEAN, NEW seen \in [Step -> 0 .. made],
           Create(plan, hosts, online, defer, seen)
    PROVE  TypeOK'
  <1> DEFINE s == made + 1
             first == [h \in Host |-> IF h \in online THEN "queued"
                                      ELSE IF h \in hosts THEN "waiting" ELSE "absent"]
             later == [h \in Host |-> IF first[h] = "queued" THEN "pending" ELSE first[h]]
             take == [k \in Step |-> IF k \in DOMAIN plan THEN online ELSE {}]
             fresh == CHOOSE b \in FreeBatches : TRUE
  <1>1. s \in Sequence /\ made' \in 0 .. MaxSequences
    BY BoundsAssumption DEF Create, TypeOK, Sequence
  <1>2. plan \in [DOMAIN plan -> Playbook] /\ DOMAIN plan \subseteq Step /\ 1 \in Step
    BY BoundsAssumption DEF Plan, Step
  <1>3. playbook' \in [Group -> Playbook \cup {NoPlaybook}]
    BY <1>2 DEF Create, TypeOK
  <1>4. first \in [Host -> HostState] /\ later \in [Host -> HostState]
    BY DEF HostState, OpenStates
  <1>5. row' \in [Group -> Row]
    <2>1. NewRow(first) \in Row /\ NewRow(later) \in Row
      BY <1>4, NewRowType
    <2>2. \A g \in Group :
             Move(row[g], HostsIn(row[g], {"waiting"}) \cap hosts, "cancelled") \in Row
      <3> TAKE g \in Group
      <3> DEFINE lost == HostsIn(row[g], {"waiting"}) \cap hosts
      <3>1. lost \in SUBSET Host
        BY HostsInType
      <3> HIDE DEF first, later, take, fresh, lost
      <3>2. Move(row[g], lost, "cancelled") \in Row
        BY <3>1, RowMove
      <3> QED
        BY <3>2 DEF lost
    <2>3. \A g \in Group : row'[g] \in {NewRow(first), NewRow(later), row[g],
             Move(row[g], HostsIn(row[g], {"waiting"}) \cap hosts, "cancelled")}
      BY DEF Create
    <2>4. \A g \in Group : row[g] \in Row
      BY DEF TypeOK
    <2>5. \A g \in Group : row'[g] \in Row
      BY <2>1, <2>2, <2>3, <2>4
    <2>6. row' = [g \in Group |-> row'[g]]
      BY DEF Create
    <2> HIDE DEF first, later, take, fresh
    <2> QED
      BY <2>5, <2>6
  <1>6. /\ owner' \in [Batch -> 0 .. MaxSequences]
        /\ targets' \in [Execution -> SUBSET Host]
        /\ status' \in [Execution -> ExecStatus]
        /\ sent' \in [Execution -> Nat]
    <2>1. CASE online = {}
      BY <2>1 DEF Create, execVars, TypeOK
    <2>2. CASE online # {}
      <3>1. FreeBatches # {} /\ AddBatch(fresh, s, take, 1)
        BY <2>2 DEF Create
      <3>2. fresh \in Batch
        BY <3>1, FreeBatchChosen
      <3>3. take \in [Step -> SUBSET Host]
        OBVIOUS
      <3> QED
        BY <3>1, <3>2, <3>3, <1>1, <1>2, AddBatchType
    <2> QED
      BY <2>1, <2>2
  <1>7. began' \in [Sequence -> 0 .. MaxSequences]
    <2>1. seen[1] \in 0 .. MaxSequences
      BY <1>2, BoundsAssumption DEF TypeOK
    <2> QED
      BY <2>1 DEF Create, TypeOK
  <1> QED
    BY <1>1, <1>3, <1>5, <1>6, <1>7 DEF TypeOK, Create

LEMMA ReleaseTypeOK ==
    ASSUME TypeOK, NEW h \in Host, Release(h)
    PROVE  TypeOK'
  <1>1. \A g \in Group : Move(row[g], {h}, "ready") \in Row
    <2>1. {h} \in SUBSET Host
      OBVIOUS
    <2> QED
      BY <2>1, RowMove
  <1>2. row' \in [Group -> Row]
    BY <1>1 DEF Release, TypeOK
  <1>3. flushes' \in [Group -> Nat]
    BY DEF Release, TypeOK
  <1> QED
    BY <1>2, <1>3 DEF Release, TypeOK, runVars, execVars

LEMMA FlushTypeOK ==
    ASSUME TypeOK, NEW g \in Group, Flush(g)
    PROVE  TypeOK'
  <1> DEFINE ready == HostsIn(row[g], {"ready"})
             take == [k \in Step |->
                        IF k = g[2] THEN ready
                        ELSE IF k > g[2] THEN ready \cap HostsIn(row[<<g[1], k>>], {"waiting"})
                        ELSE {}]
             fresh == CHOOSE b \in FreeBatches : TRUE
  <1>1. flushes' \in [Group -> Nat]
    BY DEF Flush, TypeOK
  <1>2. CASE ready = {}
    BY <1>1, <1>2 DEF Flush, TypeOK, runVars, execVars
  <1>3. CASE ready # {}
    <2>1. FreeBatches # {} /\ AddBatch(fresh, g[1], take, g[2])
      BY <1>3 DEF Flush
    <2>2. fresh \in Batch /\ g[1] \in Sequence /\ g[2] \in Step
      BY <2>1, FreeBatchChosen DEF Group
    <2>3. take \in [Step -> SUBSET Host]
      BY DEF HostsIn
    <2>4. /\ owner' \in [Batch -> 0 .. MaxSequences]
          /\ targets' \in [Execution -> SUBSET Host]
          /\ status' \in [Execution -> ExecStatus]
          /\ sent' \in [Execution -> Nat]
      BY <2>1, <2>2, <2>3, AddBatchType
    <2>5. \A f \in Group : /\ Move(row[f], take[f[2]], "queued") \in Row
                           /\ Move(row[f], take[f[2]], "pending") \in Row
      <3> TAKE f \in Group
      <3> DEFINE taken == take[f[2]]
      <3>1. taken \in SUBSET Host
        BY <2>3 DEF Group
      <3> HIDE DEF take, taken
      <3>2. Move(row[f], taken, "queued") \in Row /\ Move(row[f], taken, "pending") \in Row
        BY <3>1, RowMove
      <3> QED
        BY <3>2 DEF taken
    <2>6. row' = [f \in Group |->
                    IF f[1] = g[1]
                    THEN Move(row[f], take[f[2]], IF f = g THEN "queued" ELSE "pending")
                    ELSE row[f]]
      BY <1>3 DEF Flush
    <2>7. row' \in [Group -> Row]
      BY <2>5, <2>6 DEF TypeOK
    <2> QED
      BY <1>1, <2>4, <2>7 DEF Flush, TypeOK, runVars
  <1> QED
    BY <1>2, <1>3

LEMMA ExpireTypeOK ==
    ASSUME TypeOK, NEW c \in Sequence, Expire(c)
    PROVE  TypeOK'
  <1>1. \A g \in Group : Move(row[g], HostsIn(row[g], {"waiting"}), "cancelled") \in Row
    BY RowMove, HostsInType
  <1>2. row' \in [Group -> Row]
    BY <1>1 DEF Expire, TypeOK
  <1> QED
    BY <1>2 DEF Expire, TypeOK, runVars, execVars

\* Start and the steps of a worker after it move hosts of one group.
LEMMA StartTypeOK ==
    ASSUME TypeOK, NEW w \in Worker, NEW e \in Execution, Start(w, e) \/ StartFails(w, e)
    PROVE  TypeOK'
  <1>1. sent' \in [Execution -> Nat] /\ Goto(w, "taken", e, e)
    BY DEF Start, StartFails, Deliver, TypeOK
  <1>2. worker' \in [Worker -> Activity]
    BY <1>1, GotoType
  <1>3. CASE Start(w, e)
    <2> DEFINE g == GroupOf(e)
               hosts == targets[e] \cap HostsIn(row[g], {"queued", "pending"})
    <2>1. row' = [row EXCEPT ![g] = Move(row[g], hosts, "running")]
      BY <1>3 DEF Start
    <2>2. hosts \in SUBSET Host
      BY HostsInType
    <2> HIDE DEF g, hosts
    <2>3. g \in Group => Move(row[g], hosts, "running") \in Row
      BY <2>2, RowMove
    <2>4. row' \in [Group -> Row]
      BY <2>1, <2>3 DEF TypeOK
    <2> QED
      BY <1>1, <1>2, <1>3, <2>4 DEF Start, TypeOK, runVars
  <1>4. CASE StartFails(w, e)
    <2>1. left' \in [{"cancel", "child", "fault", "again"} -> Nat]
      BY <1>4, SpendType DEF StartFails
    <2> QED
      BY <1>1, <1>2, <1>4, <2>1 DEF StartFails, TypeOK, runVars, rowVars
  <1> QED
    BY <1>3, <1>4

LEMMA RunTypeOK ==
    ASSUME TypeOK, NEW w \in Worker,
           Run(w) \/ \E outcome \in {"success", "failed"} : End(w, outcome)
    PROVE  TypeOK'
  <1>1. worker[w].exec \in Execution
    BY BusyType DEF Run, End, Doing
  <1>2. worker' \in [Worker -> Activity]
    BY <1>1, GotoType DEF Run, End
  <1>3. status' \in [Execution -> ExecStatus]
    BY DEF Run, End, TypeOK, Settled
  <1> QED
    BY <1>2, <1>3 DEF Run, End, TypeOK, runVars, rowVars

\* What an executor reports for a host is a result.
LEMMA ResultType ==
    ASSUME NEW e, NEW own, NEW h
    PROVE  Result(e, own, h) \in Settled
  BY DEF Result, Settled

LEMMA RecordTypeOK ==
    ASSUME TypeOK, NEW w \in Worker, NEW own \in [Host -> Reported], Record(w, own)
    PROVE  TypeOK'
  <1> DEFINE e == worker[w].exec
             g == GroupOf(e)
             mine == targets[e] \cap HostsIn(row[g], {"queued", "running", "pending"})
             results == [h \in mine |-> Result(e, own, h)]
  <1>1. e \in Execution
    BY BusyType DEF Record, Doing
  <1>2. mine \in SUBSET Host
    BY HostsInType
  <1>3. results \in [mine -> HostState]
    BY ResultType DEF HostState
  <1>4. row' = [row EXCEPT ![g] = SetStates(row[g], results)]
    BY DEF Record
  <1>5. Goto(w, "follow", e, e)
    BY DEF Record
  <1> HIDE DEF e, g, mine, results
  <1>6. g \in Group => SetStates(row[g], results) \in Row
    BY <1>2, <1>3, SetStatesType DEF TypeOK
  <1>7. row' \in [Group -> Row]
    BY <1>4, <1>6 DEF TypeOK
  <1>8. worker' \in [Worker -> Activity]
    BY <1>1, <1>5, GotoType
  <1> QED
    BY <1>7, <1>8 DEF Record, TypeOK, runVars, execVars

LEMMA FollowTypeOK ==
    ASSUME TypeOK, NEW w \in Worker, Follow(w)
    PROVE  TypeOK'
  <1> DEFINE e == worker[w].exec
             f == Follower(worker[w].at)
  <1>1. e \in Execution /\ (HasFollower(worker[w].at) => f \in Execution)
    BY BusyType, FollowerType DEF Follow, Doing
  <1>2. \/ Rest(w)
        \/ HasFollower(worker[w].at) /\ Goto(w, "follow", e, f)
        \/ HasFollower(worker[w].at) /\ Goto(w, "claim", e, f)
    BY DEF Follow
  <1> HIDE DEF e, f
  <1>3. worker' \in [Worker -> Activity]
    BY <1>1, <1>2, GotoType, RestType
  <1> QED
    BY <1>3 DEF Follow, TypeOK, runVars, rowVars, execVars

LEMMA ClaimTypeOK ==
    ASSUME TypeOK, NEW w \in Worker, Claim(w)
    PROVE  TypeOK'
  <1> DEFINE f == worker[w].at
  <1>1. worker[w].exec \in Execution /\ f \in Execution
    BY BusyType DEF Claim, Doing
  <1>2. status' \in [Execution -> ExecStatus]
    BY DEF Claim, TypeOK
  <1>3. Goto(w, "grant", worker[w].exec, f) \/ Rest(w)
    BY DEF Claim
  <1>4. worker' \in [Worker -> Activity]
    BY <1>1, <1>3, GotoType, RestType
  <1> QED
    BY <1>2, <1>4 DEF Claim, TypeOK, runVars, rowVars

LEMMA GrantTypeOK ==
    ASSUME TypeOK, NEW w \in Worker, Grant(w)
    PROVE  TypeOK'
  <1> DEFINE f == worker[w].at
             g == GroupOf(f)
             hosts == targets[f] \cap HostsIn(row[g], {"pending"})
  <1>1. row' = [row EXCEPT ![g] = Move(row[g], hosts, "queued")]
    BY DEF Grant
  <1>2. hosts \in SUBSET Host
    BY HostsInType
  <1>3. sent' \in [Execution -> Nat]
    <2>1. f \in Execution /\ sent' = [sent EXCEPT ![f] = @ + 1]
      BY BusyType DEF Grant, Doing
    <2> HIDE DEF f
    <2> QED
      BY <2>1 DEF TypeOK
  <1>4. worker' \in [Worker -> Activity]
    BY RestType DEF Grant
  <1> HIDE DEF f, g, hosts
  <1>5. g \in Group => Move(row[g], hosts, "queued") \in Row
    BY <1>2, RowMove
  <1>6. row' \in [Group -> Row]
    BY <1>1, <1>5 DEF TypeOK
  <1> QED
    BY <1>3, <1>4, <1>6 DEF Grant, TypeOK, runVars

LEMMA CancelReadTypeOK ==
    ASSUME TypeOK, NEW g \in Group, CancelRead(g)
    PROVE  TypeOK'
  <1>1. left' \in [{"cancel", "child", "fault", "again"} -> Nat]
    BY SpendType DEF CancelRead
  <1> QED
    BY <1>1 DEF CancelRead, TypeOK, runVars, rowVars, execVars

\* The row a stale session writes is a mixture of two well-typed rows.
LEMMA CancelCommitTypeOK ==
    ASSUME TypeOK, CancelCommit
    PROVE  TypeOK'
  <1> DEFINE g == request.group
             seen == request.seen
             hosts == HostsIn(seen, {"waiting", "ready", "pending"})
             new == Move(seen, hosts, "cancelled")
             written == [states   |-> new.states,
                         status   |-> Written(new.status, seen.status, row[g].status),
                         finished |-> Written(new.finished, seen.finished, row[g].finished)]
  <1>1. g \in Group /\ seen \in Row
    <2>1. request # NoRequest
      BY DEF CancelCommit, NoRequest
    <2>2. request \in [open : {TRUE}, group : Group, seen : Row]
      BY <2>1 DEF TypeOK
    <2> QED
      BY <2>2
  <1>2. row[g] \in Row
    BY <1>1 DEF TypeOK
  <1>3. new \in Row
    <2>1. hosts \in SUBSET Host /\ "cancelled" \in HostState
      BY HostsInType DEF HostState, Settled
    <2> HIDE DEF seen, hosts
    <2> QED
      BY <1>1, <2>1, MoveType
  <1>4. row' = IF hosts = {} THEN row ELSE [row EXCEPT ![g] = written]
    BY DEF CancelCommit
  <1>5. written \in Row
    <2> HIDE DEF g, seen, new
    <2> QED
      BY <1>1, <1>2, <1>3 DEF Row, Written
  <1>6. row' \in [Group -> Row]
    <2> HIDE DEF g, hosts, written
    <2> QED
      BY <1>4, <1>5 DEF TypeOK
  <1>7. status' \in [Execution -> ExecStatus]
    BY DEF CancelCommit, TypeOK, Settled
  <1> QED
    BY <1>6, <1>7 DEF CancelCommit, TypeOK, runVars

LEMMA CancelExecutionTypeOK ==
    ASSUME TypeOK, NEW e \in Execution, CancelExecution(e)
    PROVE  TypeOK'
  <1>1. left' \in [{"cancel", "child", "fault", "again"} -> Nat]
    BY SpendType DEF CancelExecution
  <1>2. status' \in [Execution -> ExecStatus]
    BY DEF CancelExecution, TypeOK, Settled
  <1> QED
    BY <1>1, <1>2 DEF CancelExecution, TypeOK, runVars, rowVars

LEMMA FaultTypeOK ==
    ASSUME TypeOK, Fault
    PROVE  TypeOK'
  <1>1. CASE \E w \in Worker, e \in Execution : StartFails(w, e)
    BY <1>1, StartTypeOK
  <1>2. ASSUME NEW w \in Worker, BodyFails(w) \/ RecordFails(w) \/ Crash(w)
        PROVE  TypeOK'
    <2>1. worker' \in [Worker -> Activity]
      <3>1. ~Doing(w, "idle")
        BY <1>2 DEF BodyFails, RecordFails, Crash, Doing
      <3>2. worker[w].exec \in Execution
        BY <3>1, BusyType DEF Doing
      <3> QED
        BY <1>2, <3>2, GotoType, RestType DEF BodyFails, RecordFails, Crash
    <2>2. left' \in [{"cancel", "child", "fault", "again"} -> Nat]
      BY <1>2, SpendType DEF BodyFails, RecordFails, Crash
    <2> QED
      BY <1>2, <2>1, <2>2 DEF BodyFails, RecordFails, Crash, TypeOK, runVars, rowVars, execVars
  <1>3. CASE \E g \in Group : LoseFlush(g)
    <2>1. left' \in [{"cancel", "child", "fault", "again"} -> Nat]
      BY <1>3, SpendType DEF LoseFlush
    <2>2. flushes' \in [Group -> Nat]
      BY <1>3 DEF LoseFlush, TypeOK
    <2> QED
      BY <1>3, <2>1, <2>2 DEF LoseFlush, TypeOK, runVars, execVars
  <1>4. CASE \E e \in Execution : LoseExecution(e) \/ Redeliver(e)
    <2>1. left' \in [{"cancel", "child", "fault", "again"} -> Nat]
      BY <1>4, SpendType DEF LoseExecution, Redeliver
    <2>2. sent' \in [Execution -> Nat]
      BY <1>4 DEF LoseExecution, Redeliver, TypeOK
    <2> QED
      BY <1>4, <2>1, <2>2 DEF LoseExecution, Redeliver, TypeOK, runVars, rowVars
  <1> QED
    BY <1>1, <1>2, <1>3, <1>4 DEF Fault

LEMMA NextTypeOK == TypeOK /\ [Next]_vars => TypeOK'
  <1> SUFFICES ASSUME TypeOK, [Next]_vars
               PROVE  TypeOK'
    OBVIOUS
  <1>1. CASE Request
    BY <1>1, CreateTypeOK, CancelReadTypeOK, CancelCommitTypeOK, CancelExecutionTypeOK
       DEF Request
  <1>2. CASE \E h \in Host : Release(h)
    BY <1>2, ReleaseTypeOK
  <1>3. CASE \E g \in Group : Flush(g)
    BY <1>3, FlushTypeOK
  <1>4. CASE \E c \in Sequence : Expire(c)
    BY <1>4, ExpireTypeOK
  <1>5. CASE \E w \in Worker : Work(w)
    BY <1>5, StartTypeOK, RunTypeOK, RecordTypeOK, FollowTypeOK, ClaimTypeOK, GrantTypeOK
       DEF Work
  <1>6. CASE Fault
    BY <1>6, FaultTypeOK
  <1>7. CASE UNCHANGED vars
    BY <1>7 DEF vars, TypeOK
  <1> QED
    BY <1>1, <1>2, <1>3, <1>4, <1>5, <1>6, <1>7 DEF Next

\* Every variable of a run keeps its type, whatever is lost or repeated.
THEOREM TypeCorrect == Spec => []TypeOK
  BY InitTypeOK, NextTypeOK, PTL DEF Spec

-----------------------------------------------------------------------------
(* One execution for a host of a group.  An execution is made only for     *)
(* hosts that are held (Flush) or in a group that is new (Create), so the  *)
(* invariant needs that a host an execution was made for is never held     *)
(* again, and that needs in turn that no transaction, not even the one of  *)
(* a cancel that writes back an old row, moves a host back.                *)

Unheld(state) == state \notin {"absent", "waiting", "ready"}

\* What a step may do to the state of a host in a group.
Still(old, new) ==
    \/ new = old
    \/ old # "absent" /\ Unheld(new)
    \/ old = "waiting" /\ new = "ready"

NoReturn ==
    \A g \in Group : made' = made \/ g[1] # made' =>
        \A h \in Host : Still(row[g].states[h], row'[g].states[h])

\* Sequences, groups and batches that are not used yet.
Fresh ==
    /\ \A g \in Group : g[1] > made =>
          playbook[g] = NoPlaybook /\ \A h \in Host : row[g].states[h] = "absent"
    /\ \A b \in Batch : owner[b] <= made
    /\ \A e \in Execution : owner[e[1]] = 0 => targets[e] = {}
    /\ \A s \in Sequence : began[s] <= made

\* The row a cancel request has read addresses the hosts the row addresses now.
SeenAbsent ==
    request.open =>
        /\ playbook[request.group] # NoPlaybook
        /\ \A h \in Host : request.seen.states[h] = "absent"
                              <=> row[request.group].states[h] = "absent"

ExecutionInv == TypeOK /\ Fresh /\ SeenAbsent /\ TakenIsNotHeld /\ OneExecutionPerHost

\* Moving hosts that a group addresses out of it never puts a host back.
LEMMA MoveStill ==
    ASSUME TypeOK, NEW g \in Group, NEW S, "absent" \notin S,
           NEW hosts \in SUBSET HostsIn(row[g], S),
           NEW to \in {"pending", "queued", "running", "cancelled"}
    PROVE  \A h \in Host : Still(row[g].states[h], Move(row[g], hosts, to).states[h])
  <1>1. hosts \in SUBSET Host /\ \A h \in hosts : row[g].states[h] # "absent"
    BY DEF HostsIn
  <1>2. \A h \in Host : Move(row[g], hosts, to).states[h]
                          = IF h \in hosts THEN to ELSE row[g].states[h]
    <2>1. to \in {"ready", "pending", "queued", "running", "cancelled"}
      OBVIOUS
    <2> QED
      BY <1>1, <2>1, RowMoveAt
  <1>3. Unheld(to)
    BY DEF Unheld
  <1> QED
    BY <1>1, <1>2, <1>3 DEF Still

\* The same for a step that changes the row of one group.
LEMMA OneRowStill ==
    ASSUME TypeOK, NEW g, NEW S, "absent" \notin S,
           NEW hosts \in SUBSET HostsIn(row[g], S),
           NEW to \in {"pending", "queued", "running", "cancelled"},
           row' = [row EXCEPT ![g] = Move(row[g], hosts, to)]
    PROVE  NoReturn
  <1>1. \A f \in Group : row'[f] = IF f = g THEN Move(row[g], hosts, to) ELSE row[f]
    BY DEF TypeOK
  <1>2. g \in Group =>
           \A h \in Host : Still(row[g].states[h], Move(row[g], hosts, to).states[h])
    BY MoveStill
  <1> QED
    BY <1>1, <1>2 DEF NoReturn, Still

LEMMA CreateStill ==
    ASSUME TypeOK, NEW plan \in Plan, NEW hosts \in SUBSET Host, NEW online \in SUBSET Host,
           NEW defer \in BOOLEAN, NEW seen \in [Step -> 0 .. made],
           Create(plan, hosts, online, defer, seen)
    PROVE  NoReturn
  <1> SUFFICES ASSUME NEW g \in Group, g[1] # made'
               PROVE  \A h \in Host : Still(row[g].states[h], row'[g].states[h])
    <2>1. made' # made
      BY BoundsAssumption DEF Create, TypeOK
    <2> QED
      BY <2>1 DEF NoReturn
  <1> DEFINE lost == HostsIn(row[g], {"waiting"}) \cap hosts
  <1>1. row'[g] \in {row[g], Move(row[g], lost, "cancelled")}
    BY DEF Create
  <1>2. lost \in SUBSET HostsIn(row[g], {"waiting"})
    OBVIOUS
  <1> HIDE DEF lost
  <1>3. \A h \in Host : Still(row[g].states[h], Move(row[g], lost, "cancelled").states[h])
    BY <1>2, MoveStill
  <1> QED
    BY <1>1, <1>3 DEF Still

LEMMA ReleaseStill ==
    ASSUME TypeOK, NEW h \in Host, Release(h)
    PROVE  NoReturn
  <1> SUFFICES ASSUME NEW g \in Group, NEW k \in Host
               PROVE  Still(row[g].states[k], row'[g].states[k])
    BY DEF NoReturn
  <1>1. \/ row'[g] = row[g]
        \/ row'[g] = Move(row[g], {h}, "ready") /\ row[g].states[h] = "waiting"
    BY DEF Release
  <1>2. Move(row[g], {h}, "ready").states[k] = IF k = h THEN "ready" ELSE row[g].states[k]
    <2> DEFINE one == {h}
    <2>1. one \in SUBSET Host
      OBVIOUS
    <2> HIDE DEF one
    <2>2. Move(row[g], one, "ready").states[k]
             = IF k \in one THEN "ready" ELSE row[g].states[k]
      BY <2>1, RowMoveAt
    <2> QED
      BY <2>2 DEF one
  <1> QED
    BY <1>1, <1>2 DEF Still

LEMMA FlushStill ==
    ASSUME TypeOK, NEW g \in Group, Flush(g)
    PROVE  NoReturn
  <1> SUFFICES ASSUME NEW f \in Group
               PROVE  \A h \in Host : Still(row[f].states[h], row'[f].states[h])
    BY DEF NoReturn
  <1> DEFINE ready == HostsIn(row[g], {"ready"})
             take == [k \in Step |->
                        IF k = g[2] THEN ready
                        ELSE IF k > g[2] THEN ready \cap HostsIn(row[<<g[1], k>>], {"waiting"})
                        ELSE {}]
             hosts == take[f[2]]
  <1>1. \/ row'[f] = row[f]
        \/ f[1] = g[1] /\ \E to \in {"queued", "pending"} : row'[f] = Move(row[f], hosts, to)
    BY DEF Flush
  <1>2. CASE row'[f] = row[f]
    BY <1>2 DEF Still
  <1>3. CASE f[1] = g[1] /\ \E to \in {"queued", "pending"} : row'[f] = Move(row[f], hosts, to)
    <2>1. f = <<f[1], f[2]>> /\ g = <<g[1], g[2]>> /\ f[2] \in Step
      BY DEF Group
    <2>2. hosts \in SUBSET HostsIn(row[f], {"waiting", "ready"})
      <3>1. CASE f[2] = g[2]
        BY <1>3, <2>1, <3>1 DEF HostsIn
      <3>2. CASE f[2] # g[2]
        BY <1>3, <2>1, <3>2 DEF HostsIn
      <3> QED
        BY <3>1, <3>2
    <2> HIDE DEF hosts, take, ready
    <2>3. \A to \in {"queued", "pending"} :
             \A h \in Host : Still(row[f].states[h], Move(row[f], hosts, to).states[h])
      BY <2>2, MoveStill
    <2> QED
      BY <1>3, <2>3
  <1> QED
    BY <1>1, <1>2, <1>3

LEMMA ExpireStill ==
    ASSUME TypeOK, NEW c \in Sequence, Expire(c)
    PROVE  NoReturn
  <1> SUFFICES ASSUME NEW g \in Group
               PROVE  \A h \in Host : Still(row[g].states[h], row'[g].states[h])
    BY DEF NoReturn
  <1>1. row'[g] \in {row[g], Move(row[g], HostsIn(row[g], {"waiting"}), "cancelled")}
    BY DEF Expire
  <1>2. \A h \in Host :
           Still(row[g].states[h],
                 Move(row[g], HostsIn(row[g], {"waiting"}), "cancelled").states[h])
    BY MoveStill
  <1> QED
    BY <1>1, <1>2 DEF Still

LEMMA StartStill ==
    ASSUME TypeOK, NEW w \in Worker, NEW e \in Execution, Start(w, e)
    PROVE  NoReturn
  <1> DEFINE g == GroupOf(e)
             hosts == targets[e] \cap HostsIn(row[g], {"queued", "pending"})
  <1>1. row' = [row EXCEPT ![g] = Move(row[g], hosts, "running")]
    BY DEF Start
  <1>2. hosts \in SUBSET HostsIn(row[g], {"queued", "pending"})
    OBVIOUS
  <1> HIDE DEF g, hosts
  <1> QED
    BY <1>1, <1>2, OneRowStill

LEMMA RecordStill ==
    ASSUME TypeOK, NEW w \in Worker, NEW own \in [Host -> Reported], Record(w, own)
    PROVE  NoReturn
  <1> DEFINE e == worker[w].exec
             g == GroupOf(e)
             mine == targets[e] \cap HostsIn(row[g], {"queued", "running", "pending"})
             results == [h \in mine |-> Result(e, own, h)]
  <1>1. row' = [row EXCEPT ![g] = SetStates(row[g], results)]
    BY DEF Record
  <1>2. /\ mine \in SUBSET Host
        /\ \A h \in mine : row[g].states[h] # "absent"
    BY DEF HostsIn
  <1>3. /\ results \in [mine -> HostState]
        /\ \A h \in mine : Unheld(results[h])
    BY ResultType DEF HostState, Unheld, Settled
  <1> HIDE DEF g, mine, results
  <1>4. g \in Group =>
           \A h \in Host : SetStates(row[g], results).states[h]
                              = IF h \in mine THEN results[h] ELSE row[g].states[h]
    <2> SUFFICES ASSUME g \in Group, NEW h \in Host
                 PROVE  SetStates(row[g], results).states[h]
                           = IF h \in mine THEN results[h] ELSE row[g].states[h]
      OBVIOUS
    <2>1. row[g] \in Row
      BY DEF TypeOK
    <2> QED
      BY <1>2, <1>3, <2>1, SetStatesAt
  <1>5. \A f \in Group : row'[f] = IF f = g THEN SetStates(row[g], results) ELSE row[f]
    BY <1>1 DEF TypeOK
  <1> QED
    BY <1>2, <1>3, <1>4, <1>5 DEF NoReturn, Still

LEMMA GrantStill ==
    ASSUME TypeOK, NEW w \in Worker, Grant(w)
    PROVE  NoReturn
  <1> DEFINE f == worker[w].at
             g == GroupOf(f)
             hosts == targets[f] \cap HostsIn(row[g], {"pending"})
  <1>1. row' = [row EXCEPT ![g] = Move(row[g], hosts, "queued")]
    BY DEF Grant
  <1>2. hosts \in SUBSET HostsIn(row[g], {"pending"})
    OBVIOUS
  <1> HIDE DEF g, hosts
  <1> QED
    BY <1>1, <1>2, OneRowStill

\* A cancel writes the states its session read: a host it takes back was in the
\* group, and one it leaves had been taken or had settled when it was read.
LEMMA CancelCommitStill ==
    ASSUME TypeOK, SeenAbsent, CancelCommit
    PROVE  NoReturn
  <1> SUFFICES ASSUME NEW f \in Group, NEW h \in Host
               PROVE  Still(row[f].states[h], row'[f].states[h])
    BY DEF NoReturn
  <1> DEFINE g == request.group
             seen == request.seen
             hosts == HostsIn(seen, {"waiting", "ready", "pending"})
             new == Move(seen, hosts, "cancelled")
  <1>1. seen \in Row
    <2>1. request # NoRequest
      BY DEF CancelCommit, NoRequest
    <2>2. request \in [open : {TRUE}, group : Group, seen : Row]
      BY <2>1 DEF TypeOK
    <2> QED
      BY <2>2
  <1>2. new.states[h] = IF h \in hosts THEN "cancelled" ELSE seen.states[h]
    <2>1. hosts \in SUBSET Host /\ "cancelled" \in HostState
      BY HostsInType DEF HostState, Settled
    <2> HIDE DEF seen, hosts
    <2> QED
      BY <1>1, <2>1, MoveType
  <1>3. row'[f] = row[f] \/ (f = g /\ row'[f].states = new.states)
    BY DEF CancelCommit, TypeOK
  <1>4. seen.states[h] = "absent" <=> row[g].states[h] = "absent"
    BY DEF SeenAbsent, CancelCommit
  <1>5. h \in hosts <=> seen.states[h] \in {"waiting", "ready", "pending"}
    BY DEF HostsIn
  <1> HIDE DEF g, seen, hosts, new
  <1> QED
    BY <1>2, <1>3, <1>4, <1>5 DEF Still, Unheld

LEMMA NextStill ==
    ASSUME TypeOK, SeenAbsent, [Next]_vars
    PROVE  NoReturn
  <1>1. (row' = row) => NoReturn
    BY DEF NoReturn, Still
  <1>2. CASE Request
    BY <1>1, <1>2, CreateStill, CancelCommitStill
       DEF Request, CancelRead, CancelExecution, rowVars
  <1>3. CASE \E h \in Host : Release(h)
    BY <1>3, ReleaseStill
  <1>4. CASE \E g \in Group : Flush(g)
    BY <1>4, FlushStill
  <1>5. CASE \E c \in Sequence : Expire(c)
    BY <1>5, ExpireStill
  <1>6. CASE \E w \in Worker : Work(w)
    BY <1>1, <1>6, StartStill, RecordStill, GrantStill
       DEF Work, Run, End, Follow, Claim, rowVars
  <1>7. CASE Fault
    BY <1>1, <1>7 DEF Fault, StartFails, BodyFails, RecordFails, Crash, LoseFlush, LoseExecution,
                      Redeliver, rowVars
  <1>8. CASE UNCHANGED vars
    BY <1>1, <1>8 DEF vars
  <1> QED
    BY <1>2, <1>3, <1>4, <1>5, <1>6, <1>7, <1>8 DEF Next

\* A step that neither creates a run nor adds executions.
Quiet == UNCHANGED <<made, began, playbook, owner, targets>>

LEMMA QuietInv ==
    ASSUME ExecutionInv, NoReturn, Quiet
    PROVE  Fresh' /\ TakenIsNotHeld' /\ OneExecutionPerHost'
  <1>1. Fresh'
    <2>1. \A g \in Group, h \in Host :
             row[g].states[h] = "absent" => row'[g].states[h] = "absent"
      BY DEF NoReturn, Quiet, Still
    <2> QED
      BY <2>1 DEF ExecutionInv, Fresh, Quiet
  <1>2. TakenIsNotHeld'
    <2> SUFFICES ASSUME NEW e \in Execution, NEW h \in targets[e], Used(e)
                 PROVE  Unheld(row'[GroupOf(e)].states[h])
      BY DEF TakenIsNotHeld, Used, GroupOf, Quiet, Unheld
    <2>1. h \in Host /\ GroupOf(e) \in Group
      BY GroupOfType DEF ExecutionInv, TypeOK, Used
    <2>2. row[GroupOf(e)].states[h] \notin {"absent", "waiting", "ready"}
      BY DEF ExecutionInv, TakenIsNotHeld
    <2> QED
      BY <2>1, <2>2 DEF NoReturn, Quiet, Still, Unheld
  <1>3. OneExecutionPerHost'
    BY DEF ExecutionInv, OneExecutionPerHost, Used, GroupOf, Quiet
  <1> QED
    BY <1>1, <1>2, <1>3

\* A new batch keeps the invariant when its hosts were held, or not addressed
\* yet, before the step and are taken after it.
LEMMA BatchInv ==
    ASSUME ExecutionInv, NoReturn,
           NEW b \in FreeBatches, NEW s \in Sequence,
           NEW take \in [Step -> SUBSET Host], NEW first \in Step,
           AddBatch(b, s, take, first),
           made' = made \/ \A e \in Execution : owner[e[1]] # made',
           made <= made', s <= made', made' \in Nat,
           \A k \in Step : \A h \in take[k] : ~Unheld(row[<<s, k>>].states[h]),
           \A k \in Step : \A h \in take[k] : Unheld(row'[<<s, k>>].states[h])
    PROVE  /\ TakenIsNotHeld' /\ OneExecutionPerHost'
           /\ \A c \in Batch : owner'[c] <= made'
           /\ \A e \in Execution : owner'[e[1]] = 0 => targets'[e] = {}
  <1>1. b \in Batch /\ owner[b] = 0
    BY DEF FreeBatches
  <1>2. /\ owner' = [owner EXCEPT ![b] = s]
        /\ targets' = [e \in Execution |-> IF e[1] = b THEN take[e[2]] ELSE targets[e]]
    BY DEF AddBatch
  <1>3. \A c \in Batch : owner'[c] = IF c = b THEN s ELSE owner[c]
    BY <1>1, <1>2 DEF ExecutionInv, TypeOK
  <1>4. \A e \in Execution : /\ e[1] \in Batch /\ e[2] \in Step /\ e = <<e[1], e[2]>>
                             /\ targets'[e] = IF e[1] = b THEN take[e[2]] ELSE targets[e]
    BY <1>2 DEF Execution
  <1>5. \A e \in Execution : GroupOf(e)' = IF e[1] = b THEN <<s, e[2]>> ELSE GroupOf(e)
    BY <1>3, <1>4 DEF GroupOf
  <1>6. \A c \in Batch : owner'[c] <= made'
    BY <1>3 DEF ExecutionInv, TypeOK, Fresh
  <1>7. \A e \in Execution : owner'[e[1]] = 0 => targets'[e] = {}
    BY <1>3, <1>4, BoundsAssumption DEF ExecutionInv, Fresh, Sequence
  <1>8. TakenIsNotHeld'
    <2> SUFFICES ASSUME NEW e \in Execution, NEW h \in targets'[e], Used(e)'
                 PROVE  Unheld(row'[GroupOf(e)'].states[h])
      BY DEF TakenIsNotHeld, Unheld
    <2>1. CASE e[1] = b
      BY <2>1, <1>4, <1>5
    <2>2. CASE e[1] # b
      <3>1. Used(e) /\ h \in targets[e] /\ GroupOf(e)' = GroupOf(e)
        BY <2>2, <1>3, <1>4, <1>5 DEF Used
      <3>2. h \in Host /\ GroupOf(e) \in Group
        BY <3>1, GroupOfType DEF ExecutionInv, TypeOK, Used
      <3>3. Unheld(row[GroupOf(e)].states[h])
        BY <3>1 DEF ExecutionInv, TakenIsNotHeld, Unheld
      <3>4. made' = made \/ GroupOf(e)[1] # made'
        BY DEF GroupOf
      <3>5. Still(row[GroupOf(e)].states[h], row'[GroupOf(e)].states[h])
        BY <3>2, <3>4 DEF NoReturn
      <3> QED
        BY <3>1, <3>3, <3>5 DEF Still, Unheld
    <2> QED
      BY <2>1, <2>2
  <1>9. OneExecutionPerHost'
    <2> SUFFICES ASSUME NEW e \in Execution, NEW f \in Execution, Used(e)', Used(f)',
                        GroupOf(e)' = GroupOf(f)', e # f, NEW h \in targets'[e] \cap targets'[f]
                 PROVE  FALSE
      BY DEF OneExecutionPerHost
    <2>1. ASSUME NEW d \in Execution, NEW o \in Execution, Used(o)',
                 GroupOf(d)' = GroupOf(o)', h \in targets'[d], h \in targets'[o],
                 d[1] = b, o[1] # b
          PROVE  FALSE
      <3>1. Used(o) /\ h \in targets[o] /\ GroupOf(o) = <<s, d[2]>>
        BY <2>1, <1>3, <1>4, <1>5 DEF Used
      <3>2. Unheld(row[GroupOf(o)].states[h])
        BY <3>1 DEF ExecutionInv, TakenIsNotHeld, Unheld
      <3>3. h \in take[d[2]] /\ d[2] \in Step
        BY <2>1, <1>4
      <3> QED
        BY <3>1, <3>2, <3>3
    <2>2. CASE e[1] = b /\ f[1] = b
      <3>1. e[2] = f[2]
        BY <2>2, <1>5
      <3> QED
        BY <2>2, <3>1, <1>4
    <2>3. CASE e[1] # b /\ f[1] # b
      <3>1. Used(e) /\ Used(f) /\ GroupOf(e) = GroupOf(f) /\ h \in targets[e] \cap targets[f]
        BY <2>3, <1>3, <1>4, <1>5 DEF Used
      <3> QED
        BY <3>1 DEF ExecutionInv, OneExecutionPerHost
    <2> QED
      BY <2>1, <2>2, <2>3
  <1> QED
    BY <1>6, <1>7, <1>8, <1>9

LEMMA CreateInv ==
    ASSUME ExecutionInv, NoReturn, NEW plan \in Plan, NEW hosts \in SUBSET Host,
           NEW online \in SUBSET Host, NEW defer \in BOOLEAN, NEW seen \in [Step -> 0 .. made],
           Create(plan, hosts, online, defer, seen)
    PROVE  Fresh' /\ TakenIsNotHeld' /\ OneExecutionPerHost'
  <1> DEFINE s == made + 1
             take == [k \in Step |-> IF k \in DOMAIN plan THEN online ELSE {}]
             b == CHOOSE c \in FreeBatches : TRUE
  <1>1. /\ s \in Sequence /\ made' = s /\ made \in Nat /\ made < s
        /\ \A c \in Batch : owner[c] \in Nat /\ owner[c] < s
    BY BoundsAssumption DEF Create, ExecutionInv, TypeOK, Sequence, Fresh
  <1>2. DOMAIN plan \subseteq Step /\ 1 \in Step
    BY BoundsAssumption DEF Plan, Step
  <1>3. \A g \in Group : g[1] > made' =>
           playbook'[g] = NoPlaybook /\ \A h \in Host : row'[g].states[h] = "absent"
    <2> SUFFICES ASSUME NEW g \in Group, g[1] > made'
                 PROVE  playbook'[g] = NoPlaybook
                        /\ \A h \in Host : row'[g].states[h] = "absent"
      OBVIOUS
    <2>1. g[1] \in Int /\ g[1] > made /\ g[1] # made'
      BY <1>1 DEF Group, Sequence
    <2>2. playbook[g] = NoPlaybook /\ \A h \in Host : row[g].states[h] = "absent"
      BY <2>1 DEF ExecutionInv, Fresh
    <2>3. playbook'[g] = playbook[g]
      BY <2>1, <1>1 DEF Create
    <2> QED
      BY <2>1, <2>2, <2>3 DEF NoReturn, Still
  <1>6. \A x \in Sequence : began'[x] <= made'
    <2> TAKE x \in Sequence
    <2>1. seen[1] \in 0 .. made
      BY <1>2
    <2>2. began[x] \in Int /\ began[x] <= made
      BY <1>1, BoundsAssumption DEF ExecutionInv, TypeOK, Fresh
    <2>3. began'[x] = IF x = s THEN seen[1] ELSE began[x]
      BY DEF Create, ExecutionInv, TypeOK
    <2> QED
      BY <1>1, <2>1, <2>2, <2>3
  <1>4. CASE online = {}
    <2>1. UNCHANGED <<owner, targets>>
      BY <1>4 DEF Create, execVars
    <2>2. TakenIsNotHeld'
      <3> SUFFICES ASSUME NEW e \in Execution, NEW h \in targets[e], Used(e)
                   PROVE  Unheld(row'[GroupOf(e)].states[h])
        BY <2>1 DEF TakenIsNotHeld, Used, GroupOf, Unheld
      <3>1. h \in Host /\ GroupOf(e) \in Group /\ GroupOf(e)[1] # made'
        <4>1. h \in Host /\ GroupOf(e) \in Group
          BY GroupOfType DEF ExecutionInv, TypeOK, Used
        <4>2. GroupOf(e)[1] = owner[e[1]] /\ e[1] \in Batch
          BY DEF GroupOf, Execution
        <4> QED
          BY <1>1, <4>1, <4>2
      <3>2. Unheld(row[GroupOf(e)].states[h])
        BY DEF ExecutionInv, TakenIsNotHeld, Unheld
      <3> QED
        BY <3>1, <3>2 DEF NoReturn, Still, Unheld
    <2>3. OneExecutionPerHost'
      BY <2>1 DEF ExecutionInv, OneExecutionPerHost, Used, GroupOf
    <2>4. /\ \A c \in Batch : owner'[c] <= made'
          /\ \A e \in Execution : owner'[e[1]] = 0 => targets'[e] = {}
      BY <1>1, <2>1 DEF ExecutionInv, Fresh
    <2>5. Fresh'
      BY <1>3, <1>6, <2>4 DEF Fresh
    <2> QED
      BY <2>2, <2>3, <2>5
  <1>5. CASE online # {}
    <2>1. b \in FreeBatches /\ AddBatch(b, s, take, 1)
      BY <1>5 DEF Create
    <2>2. take \in [Step -> SUBSET Host]
      OBVIOUS
    <2>3. \A e \in Execution : owner[e[1]] # made'
      BY <1>1 DEF Execution
    <2>4. \A k \in Step : \A h \in take[k] : ~Unheld(row[<<s, k>>].states[h])
      <3>1. \A k \in Step : <<s, k>> \in Group /\ <<s, k>>[1] > made
        BY <1>1 DEF Group
      <3>2. \A k \in Step : \A h \in take[k] : h \in Host
        BY <2>2
      <3> HIDE DEF s, take, b
      <3> QED
        BY <3>1, <3>2 DEF ExecutionInv, Fresh, Unheld
    <2>5. \A k \in Step : \A h \in take[k] : Unheld(row'[<<s, k>>].states[h])
      <3> SUFFICES ASSUME NEW k \in Step, NEW h \in take[k]
                   PROVE  Unheld(row'[<<s, k>>].states[h])
        OBVIOUS
      <3>1. k \in DOMAIN plan /\ h \in online /\ h \in Host /\ <<s, k>> \in Group
        BY <1>1 DEF Group
      <3>2. row'[<<s, k>>].states[h] \in {"queued", "pending"}
        BY <3>1 DEF Create, NewRow
      <3> QED
        BY <3>2 DEF Unheld
    <2>6. made <= made' /\ s <= made' /\ made' \in Nat /\ s \in Sequence
      BY <1>1
    <2> HIDE DEF s, take, b
    <2>7. /\ TakenIsNotHeld' /\ OneExecutionPerHost'
          /\ \A c \in Batch : owner'[c] <= made'
          /\ \A e \in Execution : owner'[e[1]] = 0 => targets'[e] = {}
      BY <1>2, <2>1, <2>2, <2>3, <2>4, <2>5, <2>6, BatchInv
    <2> QED
      BY <1>3, <1>6, <2>7 DEF Fresh
  <1> QED
    BY <1>4, <1>5

LEMMA FlushInv ==
    ASSUME ExecutionInv, NoReturn, NEW g \in Group, Flush(g)
    PROVE  Fresh' /\ TakenIsNotHeld' /\ OneExecutionPerHost'
  <1> DEFINE ready == HostsIn(row[g], {"ready"})
             take == [k \in Step |->
                        IF k = g[2] THEN ready
                        ELSE IF k > g[2] THEN ready \cap HostsIn(row[<<g[1], k>>], {"waiting"})
                        ELSE {}]
             b == CHOOSE c \in FreeBatches : TRUE
  <1>1. UNCHANGED <<made, began, playbook>>
    BY DEF Flush, runVars
  <1>2. CASE ready = {}
    BY <1>1, <1>2, QuietInv DEF Flush, execVars, Quiet
  <1>3. CASE ready # {}
    <2>1. b \in FreeBatches /\ AddBatch(b, g[1], take, g[2])
      BY <1>3 DEF Flush
    <2>2. g[1] \in Sequence /\ g[2] \in Step /\ g = <<g[1], g[2]>>
      BY DEF Group
    <2>3. take \in [Step -> SUBSET Host]
      BY DEF HostsIn
    <2>4. \A k \in Step : \A h \in take[k] : /\ h \in Host
                                            /\ row[<<g[1], k>>].states[h] \in {"waiting", "ready"}
      BY <2>2 DEF HostsIn
    <2>5. \A k \in Step : \A h \in take[k] : Unheld(row'[<<g[1], k>>].states[h])
      <3> SUFFICES ASSUME NEW k \in Step, NEW h \in take[k]
                   PROVE  Unheld(row'[<<g[1], k>>].states[h])
        OBVIOUS
      <3> DEFINE f == <<g[1], k>>
                 hosts == take[k]
      <3>1. f \in Group /\ f[1] = g[1] /\ f[2] = k
        BY <2>2 DEF Group
      <3>2. \E to \in {"queued", "pending"} : row'[f] = Move(row[f], hosts, to)
        BY <1>3, <3>1 DEF Flush
      <3>3. hosts \in SUBSET Host /\ h \in hosts /\ h \in Host
        BY <2>3
      <3> HIDE DEF f, hosts, take
      <3>4. row'[f].states[h] \in {"queued", "pending"}
        <4>1. TypeOK
          BY DEF ExecutionInv
        <4>2. /\ Move(row[f], hosts, "queued").states[h] = "queued"
              /\ Move(row[f], hosts, "pending").states[h] = "pending"
          BY <3>1, <3>3, <4>1, RowMoveAt
        <4> QED
          BY <3>2, <4>2
      <3> QED
        BY <3>4 DEF Unheld, f
    <2>6. made \in Nat /\ g[1] <= made
      <3>1. PICK h \in ready : TRUE
        BY <1>3
      <3>2. h \in Host /\ row[g].states[h] # "absent"
        BY DEF HostsIn
      <3>3. made \in Nat /\ g[1] \in Nat
        BY <2>2, BoundsAssumption DEF ExecutionInv, TypeOK, Sequence
      <3> QED
        BY <3>2, <3>3 DEF ExecutionInv, Fresh
    <2> HIDE DEF ready, take, b
    <2>7. /\ TakenIsNotHeld' /\ OneExecutionPerHost'
          /\ \A c \in Batch : owner'[c] <= made'
          /\ \A e \in Execution : owner'[e[1]] = 0 => targets'[e] = {}
      <3>1. \A k \in Step : \A h \in take[k] : ~Unheld(row[<<g[1], k>>].states[h])
        BY <2>4 DEF Unheld
      <3> QED
        BY <1>1, <2>1, <2>2, <2>3, <2>5, <2>6, <3>1, BatchInv
    <2>8. \A f \in Group, h \in Host :
             row[f].states[h] = "absent" => row'[f].states[h] = "absent"
      BY <1>1 DEF NoReturn, Still
    <2> QED
      BY <1>1, <2>7, <2>8 DEF ExecutionInv, Fresh
  <1> QED
    BY <1>2, <1>3

LEMMA SeenAbsentStep ==
    ASSUME ExecutionInv, NoReturn, [Next]_vars
    PROVE  SeenAbsent'
  <1>1. CASE request' = NoRequest
    BY <1>1 DEF SeenAbsent, NoRequest
  <1>2. CASE \E g \in Group : CancelRead(g)
    BY <1>2 DEF CancelRead, SeenAbsent, runVars, rowVars
  <1>3. CASE request' = request
    <2> SUFFICES ASSUME request.open
                 PROVE  /\ playbook'[request.group] # NoPlaybook
                        /\ \A h \in Host : request.seen.states[h] = "absent"
                                              <=> row'[request.group].states[h] = "absent"
      BY <1>3 DEF SeenAbsent
    <2> DEFINE g == request.group
    <2>1. g \in Group
      <3>1. request # NoRequest
        BY DEF NoRequest
      <3>2. request \in [open : {TRUE}, group : Group, seen : Row]
        BY <3>1 DEF ExecutionInv, TypeOK
      <3> QED
        BY <3>2
    <2>2. /\ playbook[g] # NoPlaybook
          /\ \A h \in Host : request.seen.states[h] = "absent" <=> row[g].states[h] = "absent"
      BY DEF ExecutionInv, SeenAbsent
    <2>3. ~(g[1] > made) /\ g[1] \in Int /\ made \in Int
      BY <2>1, <2>2, BoundsAssumption DEF ExecutionInv, TypeOK, Fresh, Group, Sequence
    <2>4. \/ made' = made /\ playbook' = playbook
          \/ \E plan \in Plan, hosts, online \in SUBSET Host, defer \in BOOLEAN,
             seen \in [Step -> 0 .. made] :
                Create(plan, hosts, online, defer, seen)
      BY DEF Next, Request, CancelRead, CancelCommit, CancelExecution, Release, Flush, Expire,
             Work, Start, Run, End, Record, Follow, Claim, Grant, Fault, StartFails,
             BodyFails, RecordFails, Crash, LoseFlush, LoseExecution, Redeliver, vars, runVars
    <2>5. /\ made' = made \/ g[1] # made'
          /\ playbook'[g] = playbook[g]
      <3>1. CASE made' = made /\ playbook' = playbook
        BY <3>1
      <3>2. ASSUME NEW plan \in Plan, NEW hosts \in SUBSET Host, NEW online \in SUBSET Host,
                   NEW defer \in BOOLEAN, NEW seen \in [Step -> 0 .. made],
                   Create(plan, hosts, online, defer, seen)
            PROVE  g[1] # made' /\ playbook'[g] = playbook[g]
        <4>1. made' = made + 1
          BY <3>2 DEF Create
        <4>2. g[1] # made + 1
          BY <2>3
        <4>3. playbook'[g] = IF g[1] = made + 1 /\ g[2] \in DOMAIN plan
                             THEN plan[g[2]] ELSE playbook[g]
          BY <3>2, <2>1 DEF Create
        <4> QED
          BY <4>1, <4>2, <4>3
      <3> QED
        BY <2>4, <3>1, <3>2
    <2>6. \A h \in Host : Still(row[g].states[h], row'[g].states[h])
      BY <2>1, <2>5 DEF NoReturn
    <2> HIDE DEF g
    <2>7. \A h \in Host : row[g].states[h] = "absent" <=> row'[g].states[h] = "absent"
      BY <2>6 DEF Still, Unheld
    <2> QED
      BY <2>2, <2>5, <2>7 DEF g
  <1>4. ASSUME NEW plan \in Plan, NEW hosts \in SUBSET Host, NEW online \in SUBSET Host,
               NEW defer \in BOOLEAN, NEW seen \in [Step -> 0 .. made],
               Create(plan, hosts, online, defer, seen)
        PROVE  request' = request
    BY <1>4 DEF Create
  <1> QED
    BY <1>1, <1>2, <1>3, <1>4
       DEF Next, Request, CancelCommit, CancelExecution, Release, Flush, Expire,
           Work, Start, Run, End, Record, Follow, Claim, Grant, Fault, StartFails,
           BodyFails, RecordFails, Crash, LoseFlush, LoseExecution, Redeliver, vars

LEMMA NextExecutionInv == ExecutionInv /\ [Next]_vars => ExecutionInv'
  <1> SUFFICES ASSUME ExecutionInv, [Next]_vars
               PROVE  ExecutionInv'
    OBVIOUS
  <1>1. TypeOK' /\ NoReturn
    BY NextTypeOK, NextStill DEF ExecutionInv
  <1>2. SeenAbsent'
    BY <1>1, SeenAbsentStep
  <1>3. Fresh' /\ TakenIsNotHeld' /\ OneExecutionPerHost'
    <2>1. CASE \E plan \in Plan, hosts, online \in SUBSET Host, defer \in BOOLEAN,
             seen \in [Step -> 0 .. made] :
                  Create(plan, hosts, online, defer, seen)
      BY <1>1, <2>1, CreateInv
    <2>2. CASE \E g \in Group : Flush(g)
      BY <1>1, <2>2, FlushInv
    <2>3. CASE Quiet
      BY <1>1, <2>3, QuietInv
    <2> QED
      BY <2>1, <2>2, <2>3
         DEF Quiet, Next, Request, CancelRead, CancelCommit, CancelExecution, Release, Expire,
             Work, Start, Run, End, Record, Follow, Claim, Grant, Fault, StartFails,
             BodyFails, RecordFails, Crash, LoseFlush, LoseExecution, Redeliver, Deliver,
             vars, runVars,
             execVars
  <1> QED
    BY <1>1, <1>2, <1>3 DEF ExecutionInv

LEMMA InitExecutionInv == Init => ExecutionInv
  <1> SUFFICES ASSUME Init
               PROVE  ExecutionInv
    OBVIOUS
  <1>1. TypeOK
    BY InitTypeOK
  <1>2. Fresh
    BY DEF Init, Fresh, NoRow, Execution
  <1>3. SeenAbsent
    BY DEF Init, SeenAbsent, NoRequest
  <1>4. TakenIsNotHeld /\ OneExecutionPerHost
    BY DEF Init, TakenIsNotHeld, OneExecutionPerHost
  <1> QED
    BY <1>1, <1>2, <1>3, <1>4 DEF ExecutionInv

\* However heartbeats, flushes, cancels and faults interleave, no group ever
\* has two executions for one host.
THEOREM NoDoubleExecution == Spec => []OneExecutionPerHost
  <1>1. ExecutionInv => OneExecutionPerHost
    BY DEF ExecutionInv
  <1> QED
    BY <1>1, InitExecutionInv, NextExecutionInv, PTL DEF Spec

\* A host an execution was made for is never held back in its group again.
THEOREM NeverHeldAgain == Spec => []TakenIsNotHeld
  <1>1. ExecutionInv => TakenIsNotHeld
    BY DEF ExecutionInv
  <1> QED
    BY <1>1, InitExecutionInv, NextExecutionInv, PTL DEF Spec

-----------------------------------------------------------------------------
(***************************************************************************)
(* The rows of task_runs: what each transaction does to one host of one    *)
(* group, what a row says of its hosts and that a host leaves its run with *)
(* one batch of executions.  A theorem that needs that nobody cancels, or  *)
(* that nothing is lost, assumes it.                                       *)
(***************************************************************************)

Held == {"waiting", "ready"}
Taken == {"pending", "queued", "running"}

-----------------------------------------------------------------------------
(* What each transaction does to the state of one host in one group.       *)

\* The hosts a flush of group g takes for step k.
FlushTake(g) ==
    [k \in Step |->
       IF k = g[2] THEN HostsIn(row[g], {"ready"})
       ELSE IF k > g[2] THEN HostsIn(row[g], {"ready"}) \cap HostsIn(row[<<g[1], k>>], {"waiting"})
       ELSE {}]

\* The groups a release of host h looks at, and the ones it changes.
Holding(h) == {g \in Group : ~row[g].finished /\ row[g].states[h] \in Held}
Freed(h) == {g \in Holding(h) : /\ row[g].states[h] = "waiting"
                               /\ \A e \in Holding(h) : e[1] = g[1] => e[2] >= g[2]}

\* The state of host h in group g once a run is created.
CreatedState(plan, hosts, online, defer, seen, g, h) ==
    IF g[1] = made + 1 /\ g[2] \in DOMAIN plan
    THEN IF h \in online THEN IF g[2] = 1 THEN "queued" ELSE "pending"
         ELSE IF h \in hosts THEN "waiting" ELSE "absent"
    ELSE IF defer /\ Supersedes(plan, seen, g) /\ row[g].states[h] = "waiting" /\ h \in hosts
    THEN "cancelled" ELSE row[g].states[h]

LEMMA CreateRows ==
    ASSUME TypeOK, NEW plan \in Plan, NEW hosts \in SUBSET Host, NEW online \in SUBSET Host,
           NEW defer \in BOOLEAN, NEW seen \in [Step -> 0 .. made],
           Create(plan, hosts, online, defer, seen), NEW g \in Group, NEW h \in Host
    PROVE  row'[g].states[h] = CreatedState(plan, hosts, online, defer, seen, g, h)
  <1> DEFINE first == [k \in Host |-> IF k \in online THEN "queued"
                                      ELSE IF k \in hosts THEN "waiting" ELSE "absent"]
             later == [k \in Host |-> IF first[k] = "queued" THEN "pending" ELSE first[k]]
             lost == HostsIn(row[g], {"waiting"}) \cap hosts
  <1>1. /\ made' = made + 1
        /\ row'[g] = IF g[1] = made + 1 /\ g[2] \in DOMAIN plan
                     THEN NewRow(IF g[2] = 1 THEN first ELSE later)
                     ELSE IF defer /\ Supersedes(plan, seen, g)
                     THEN Move(row[g], lost, "cancelled")
                     ELSE row[g]
    BY DEF Create
  <1>2. /\ NewRow(first).states[h] = first[h] /\ NewRow(later).states[h] = later[h]
        /\ first[h] = IF h \in online THEN "queued" ELSE IF h \in hosts THEN "waiting" ELSE "absent"
        /\ later[h] = IF h \in online THEN "pending" ELSE IF h \in hosts THEN "waiting" ELSE "absent"
    BY DEF NewRow
  <1>3. /\ lost \in SUBSET Host
        /\ h \in lost <=> row[g].states[h] = "waiting" /\ h \in hosts
    BY DEF HostsIn
  <1> HIDE DEF first, later, lost
  <1>4. Move(row[g], lost, "cancelled").states[h]
           = IF h \in lost THEN "cancelled" ELSE row[g].states[h]
    BY <1>3, RowMoveAt
  <1> QED
    BY <1>1, <1>2, <1>3, <1>4 DEF CreatedState

LEMMA ReleaseRows ==
    ASSUME TypeOK, NEW h \in Host, Release(h), NEW g \in Group, NEW k \in Host
    PROVE  row'[g].states[k] = IF k = h /\ g \in Freed(h) THEN "ready" ELSE row[g].states[k]
  <1> DEFINE one == {h}
  <1>1. row'[g] = IF g \in Freed(h) THEN Move(row[g], one, "ready") ELSE row[g]
    BY DEF Release, Freed, Holding, Held
  <1>2. one \in SUBSET Host /\ (k \in one <=> k = h)
    OBVIOUS
  <1> HIDE DEF one
  <1>3. Move(row[g], one, "ready").states[k] = IF k \in one THEN "ready" ELSE row[g].states[k]
    BY <1>2, RowMoveAt
  <1> QED
    BY <1>1, <1>2, <1>3

LEMMA FlushRows ==
    ASSUME TypeOK, NEW g \in Group, Flush(g), NEW f \in Group, NEW h \in Host
    PROVE  row'[f].states[h] =
             IF f[1] = g[1] /\ h \in FlushTake(g)[f[2]]
             THEN IF f = g THEN "queued" ELSE "pending"
             ELSE row[f].states[h]
  <1> DEFINE ready == HostsIn(row[g], {"ready"})
             hosts == FlushTake(g)[f[2]]
  <1>1. f[2] \in Step /\ g[2] \in Step
    BY DEF Group
  <1>2. hosts \in SUBSET Host /\ (ready = {} => hosts = {})
    BY <1>1 DEF FlushTake, HostsIn
  <1>3. CASE ready = {}
    BY <1>2, <1>3 DEF Flush
  <1>4. CASE ready # {}
    <2>1. row'[f] = IF f[1] = g[1]
                    THEN Move(row[f], hosts, IF f = g THEN "queued" ELSE "pending")
                    ELSE row[f]
      BY <1>4 DEF Flush, FlushTake
    <2> HIDE DEF hosts
    <2>2. /\ Move(row[f], hosts, "queued").states[h]
                = IF h \in hosts THEN "queued" ELSE row[f].states[h]
          /\ Move(row[f], hosts, "pending").states[h]
                = IF h \in hosts THEN "pending" ELSE row[f].states[h]
      BY <1>2, RowMoveAt
    <2> QED
      BY <2>1, <2>2 DEF hosts
  <1> QED
    BY <1>3, <1>4

LEMMA ExpireRows ==
    ASSUME TypeOK, NEW c \in Sequence, Expire(c), NEW g \in Group, NEW h \in Host
    PROVE  \/ row'[g].states[h] = row[g].states[h]
           \/ row[g].states[h] = "waiting" /\ row'[g].states[h] = "cancelled"
  <1> DEFINE lost == HostsIn(row[g], {"waiting"})
  <1>1. row'[g] \in {row[g], Move(row[g], lost, "cancelled")}
    BY DEF Expire
  <1>2. lost \in SUBSET Host /\ (h \in lost <=> row[g].states[h] = "waiting")
    BY DEF HostsIn
  <1> HIDE DEF lost
  <1>3. Move(row[g], lost, "cancelled").states[h]
           = IF h \in lost THEN "cancelled" ELSE row[g].states[h]
    BY <1>2, RowMoveAt
  <1> QED
    BY <1>1, <1>2, <1>3

LEMMA StartRows ==
    ASSUME TypeOK, NEW w \in Worker, NEW e \in Execution, Start(w, e), NEW f \in Group, NEW h \in Host
    PROVE  row'[f].states[h] =
             IF f = GroupOf(e) /\ h \in targets[e] /\ row[f].states[h] \in {"queued", "pending"}
             THEN "running" ELSE row[f].states[h]
  <1> DEFINE g == GroupOf(e)
             hosts == targets[e] \cap HostsIn(row[g], {"queued", "pending"})
  <1>1. row' = [row EXCEPT ![g] = Move(row[g], hosts, "running")]
    BY DEF Start
  <1>2. /\ hosts \in SUBSET Host
        /\ h \in hosts <=> h \in targets[e] /\ row[g].states[h] \in {"queued", "pending"}
    BY DEF HostsIn
  <1> HIDE DEF g, hosts
  <1>3. row'[f].states[h] = IF f = g /\ h \in hosts THEN "running" ELSE row[f].states[h]
    <2>1. row'[f] = IF f = g THEN Move(row[f], hosts, "running") ELSE row[f]
      BY <1>1 DEF TypeOK
    <2>2. Move(row[f], hosts, "running").states[h] = IF h \in hosts THEN "running" ELSE row[f].states[h]
      BY <1>2, RowMoveAt
    <2> QED
      BY <2>1, <2>2
  <1> QED
    BY <1>2, <1>3 DEF g

LEMMA GrantRows ==
    ASSUME TypeOK, NEW w \in Worker, Grant(w), NEW f \in Group, NEW h \in Host
    PROVE  row'[f].states[h] =
             IF /\ f = GroupOf(worker[w].at) /\ h \in targets[worker[w].at]
                /\ row[f].states[h] = "pending"
             THEN "queued" ELSE row[f].states[h]
  <1> DEFINE e == worker[w].at
             g == GroupOf(e)
             hosts == targets[e] \cap HostsIn(row[g], {"pending"})
  <1>1. row' = [row EXCEPT ![g] = Move(row[g], hosts, "queued")]
    BY DEF Grant
  <1>2. /\ hosts \in SUBSET Host
        /\ h \in hosts <=> h \in targets[e] /\ row[g].states[h] = "pending"
    BY DEF HostsIn
  <1> HIDE DEF g, hosts
  <1>3. row'[f].states[h] = IF f = g /\ h \in hosts THEN "queued" ELSE row[f].states[h]
    <2>1. row'[f] = IF f = g THEN Move(row[f], hosts, "queued") ELSE row[f]
      BY <1>1 DEF TypeOK
    <2>2. Move(row[f], hosts, "queued").states[h] = IF h \in hosts THEN "queued" ELSE row[f].states[h]
      BY <1>2, RowMoveAt
    <2> QED
      BY <2>1, <2>2
  <1> QED
    BY <1>2, <1>3 DEF g

LEMMA RecordRows ==
    ASSUME TypeOK, NEW w \in Worker, NEW own \in [Host -> Reported], Record(w, own),
           NEW f \in Group, NEW h \in Host
    PROVE  row'[f].states[h] =
             IF /\ f = GroupOf(worker[w].exec) /\ h \in targets[worker[w].exec]
                /\ row[f].states[h] \in Taken
             THEN Result(worker[w].exec, own, h) ELSE row[f].states[h]
  <1> DEFINE e == worker[w].exec
             g == GroupOf(e)
             mine == targets[e] \cap HostsIn(row[g], {"queued", "running", "pending"})
             results == [k \in mine |-> Result(e, own, k)]
  <1>1. row' = [row EXCEPT ![g] = SetStates(row[g], results)]
    BY DEF Record
  <1>2. /\ mine \in SUBSET Host
        /\ h \in mine <=> h \in targets[e] /\ row[g].states[h] \in Taken
        /\ h \in mine => results[h] = Result(e, own, h)
    BY DEF HostsIn, Taken
  <1>3. results \in [mine -> HostState]
    BY ResultType DEF HostState
  <1> HIDE DEF g, mine, results
  <1>4. row'[f] = IF f = g THEN SetStates(row[f], results) ELSE row[f]
    BY <1>1 DEF TypeOK
  <1>5. row[f] \in Row
    BY DEF TypeOK
  <1>6. SetStates(row[f], results).states[h] = IF h \in mine THEN results[h] ELSE row[f].states[h]
    BY <1>2, <1>3, <1>5, SetStatesAt
  <1> QED
    BY <1>2, <1>4, <1>6 DEF g

\* Whatever the session of a cancel has read, it leaves no host held.
LEMMA CancelCommitRows ==
    ASSUME TypeOK, CancelCommit, NEW f \in Group
    PROVE  row'[f] = row[f] \/ \A h \in Host : row'[f].states[h] \notin Held
  <1> DEFINE g == request.group
             seen == request.seen
             hosts == HostsIn(seen, {"waiting", "ready", "pending"})
             new == Move(seen, hosts, "cancelled")
  <1>1. seen \in Row
    <2>1. request # NoRequest
      BY DEF CancelCommit, NoRequest
    <2>2. request \in [open : {TRUE}, group : Group, seen : Row]
      BY <2>1 DEF TypeOK
    <2> QED
      BY <2>2
  <1>2. \A h \in Host : new.states[h] = IF h \in hosts THEN "cancelled" ELSE seen.states[h]
    <2>1. hosts \in SUBSET Host /\ "cancelled" \in HostState
      BY HostsInType DEF HostState, Settled
    <2> HIDE DEF seen, hosts
    <2> QED
      BY <1>1, <2>1, MoveType
  <1>3. row'[f] = row[f] \/ row'[f].states = new.states
    BY DEF CancelCommit, TypeOK
  <1>4. \A h \in Host : h \in hosts <=> seen.states[h] \in {"waiting", "ready", "pending"}
    BY DEF HostsIn
  <1> HIDE DEF g, seen, hosts, new
  <1> QED
    BY <1>2, <1>3, <1>4 DEF Held


-----------------------------------------------------------------------------
(* What a row says of its hosts.  Every transaction that changes a row sums *)
(* it up again, but the one of a cancel, which may write an old summary.   *)

Summed(r) == /\ r.status = GroupStatus(r.states)
             /\ r.finished = ~AnyOpen(r.states)

LEMMA SetStatesSummed ==
    ASSUME NEW r, NEW changes
    PROVE  SetStates(r, changes) = r \/ Summed(SetStates(r, changes))
  BY DEF SetStates, Summed

LEMMA MoveSummed ==
    ASSUME NEW r, NEW hosts, NEW to
    PROVE  Move(r, hosts, to) = r \/ Summed(Move(r, hosts, to))
  BY SetStatesSummed DEF Move

\* The rows a new run begins with are summed up: it has an open host.
LEMMA CreateSummed ==
    ASSUME TypeOK, NEW plan \in Plan, NEW hosts \in SUBSET Host, NEW online \in SUBSET Host,
           NEW defer \in BOOLEAN, NEW seen \in [Step -> 0 .. made],
           Create(plan, hosts, online, defer, seen), NEW g \in Group
    PROVE  \/ row'[g] = row[g] /\ playbook'[g] = playbook[g]
           \/ Summed(row'[g])
  <1> DEFINE first == [k \in Host |-> IF k \in online THEN "queued"
                                      ELSE IF k \in hosts THEN "waiting" ELSE "absent"]
             later == [k \in Host |-> IF first[k] = "queued" THEN "pending" ELSE first[k]]
             lost == HostsIn(row[g], {"waiting"}) \cap hosts
  <1>1. PICK h \in hosts : h \in Host
    BY DEF Create
  <1>2. AnyOpen(first) /\ AnyOpen(later)
    BY <1>1 DEF AnyOpen, OpenStates
  <1>3. Summed(NewRow(first)) /\ Summed(NewRow(later))
    <2> HIDE DEF first, later
    <2> QED
      BY <1>2 DEF Summed, NewRow
  <1>4. Move(row[g], lost, "cancelled") = row[g] \/ Summed(Move(row[g], lost, "cancelled"))
    BY MoveSummed
  <1>5. \/ row'[g] \in {NewRow(first), NewRow(later)}
        \/ row'[g] \in {row[g], Move(row[g], lost, "cancelled")} /\ playbook'[g] = playbook[g]
    BY DEF Create
  <1> QED
    BY <1>3, <1>4, <1>5

\* Every step leaves the row of a group alone, sums it up, or is a cancel that
\* leaves no host of the group held.
LEMMA NextSummed ==
    ASSUME TypeOK, [Next]_vars, NEW g \in Group
    PROVE  \/ row'[g] = row[g] /\ playbook'[g] = playbook[g]
           \/ Summed(row'[g])
           \/ CancelCommit /\ \A h \in Host : row'[g].states[h] \notin Held
  <1>1. ASSUME NEW plan \in Plan, NEW hosts \in SUBSET Host, NEW online \in SUBSET Host,
               NEW defer \in BOOLEAN, NEW seen \in [Step -> 0 .. made],
               Create(plan, hosts, online, defer, seen)
        PROVE  \/ row'[g] = row[g] /\ playbook'[g] = playbook[g]
               \/ Summed(row'[g])
    BY <1>1, CreateSummed
  <1>2. CASE UNCHANGED <<row, playbook>>
    BY <1>2
  <1>3. ASSUME playbook' = playbook, NEW f,
               \/ \E hosts, to : row' = [row EXCEPT ![f] = Move(row[f], hosts, to)]
               \/ \E changes : row' = [row EXCEPT ![f] = SetStates(row[f], changes)]
        PROVE  (row'[g] = row[g] /\ playbook'[g] = playbook[g]) \/ Summed(row'[g])
    <2>1. \/ row'[g] = row[g]
          \/ \E hosts, to : row'[g] = Move(row[g], hosts, to)
          \/ \E changes : row'[g] = SetStates(row[g], changes)
      BY <1>3 DEF TypeOK
    <2> QED
      BY <1>3, <2>1, MoveSummed, SetStatesSummed
  <1>4. ASSUME NEW h \in Host, Release(h)
        PROVE  (row'[g] = row[g] /\ playbook'[g] = playbook[g]) \/ Summed(row'[g])
    <2>1. row'[g] \in {row[g], Move(row[g], {h}, "ready")} /\ playbook' = playbook
      BY <1>4 DEF Release, runVars
    <2> QED
      BY <2>1, MoveSummed
  <1>5. ASSUME NEW f \in Group, Flush(f)
        PROVE  (row'[g] = row[g] /\ playbook'[g] = playbook[g]) \/ Summed(row'[g])
    <2>1. /\ \/ row'[g] = row[g]
             \/ row'[g] = Move(row[g], FlushTake(f)[g[2]], IF g = f THEN "queued" ELSE "pending")
          /\ playbook' = playbook
      BY <1>5 DEF Flush, FlushTake, runVars
    <2> QED
      BY <2>1, MoveSummed
  <1>6. ASSUME NEW c \in Sequence, Expire(c)
        PROVE  (row'[g] = row[g] /\ playbook'[g] = playbook[g]) \/ Summed(row'[g])
    <2>1. /\ row'[g] \in {row[g], Move(row[g], HostsIn(row[g], {"waiting"}), "cancelled")}
          /\ playbook' = playbook
      BY <1>6 DEF Expire, runVars
    <2> QED
      BY <2>1, MoveSummed
  <1>7. ASSUME CancelCommit
        PROVE  row'[g] = row[g] \/ \A h \in Host : row'[g].states[h] \notin Held
    BY <1>7, CancelCommitRows
  <1>8. ASSUME NEW w \in Worker, \E e \in Execution : Start(w, e)
        PROVE  (row'[g] = row[g] /\ playbook'[g] = playbook[g]) \/ Summed(row'[g])
    BY <1>3, <1>8 DEF Start, runVars
  <1>9. ASSUME NEW w \in Worker, \E own \in [Host -> Reported] : Record(w, own)
        PROVE  (row'[g] = row[g] /\ playbook'[g] = playbook[g]) \/ Summed(row'[g])
    BY <1>3, <1>9 DEF Record, runVars
  <1>10. ASSUME NEW w \in Worker, Grant(w)
         PROVE  (row'[g] = row[g] /\ playbook'[g] = playbook[g]) \/ Summed(row'[g])
    BY <1>3, <1>10 DEF Grant, runVars
  <1>11. CASE Request
    <2>1. CancelCommit => playbook' = playbook
      BY DEF CancelCommit, runVars
    <2> QED
      BY <1>1, <1>2, <1>7, <1>11, <2>1
         DEF Request, CancelRead, CancelExecution, runVars, rowVars
  <1>12. CASE \E w \in Worker : Work(w)
    BY <1>2, <1>8, <1>9, <1>10, <1>12 DEF Work, Run, End, Follow, Claim, runVars, rowVars
  <1>13. CASE Fault
    BY <1>2, <1>13 DEF Fault, StartFails, BodyFails, RecordFails, Crash, LoseFlush, LoseExecution,
                       Redeliver, runVars, rowVars
  <1>14. CASE UNCHANGED vars
    BY <1>2, <1>14 DEF vars
  <1> QED
    BY <1>4, <1>5, <1>6, <1>11, <1>12, <1>13, <1>14 DEF Next
-----------------------------------------------------------------------------
(* A host that waits is found, and superseded in the runs its creation saw. *)

\* The steps other than a call of create_task_sequence.
LEMMA CreateOrQuiet ==
    ASSUME [Next]_vars
    PROVE  \/ \E plan \in Plan, hosts, online \in SUBSET Host, defer \in BOOLEAN,
             seen \in [Step -> 0 .. made] :
                 Create(plan, hosts, online, defer, seen)
           \/ UNCHANGED runVars
  BY DEF Next, Request, CancelRead, CancelCommit, CancelExecution, Release, Flush, Expire,
         Work, Start, Run, End, Record, Follow, Claim, Grant, Fault, StartFails,
         BodyFails, RecordFails, Crash, LoseFlush, LoseExecution, Redeliver, vars, runVars

\* The steps that write rows of groups.
LEMMA RowCases ==
    ASSUME [Next]_vars
    PROVE  \/ \E plan \in Plan, hosts, online \in SUBSET Host, defer \in BOOLEAN,
                 seen \in [Step -> 0 .. made] : Create(plan, hosts, online, defer, seen)
           \/ \E h \in Host : Release(h)
           \/ \E g \in Group : Flush(g)
           \/ \E c \in Sequence : Expire(c)
           \/ \E w \in Worker, e \in Execution : Start(w, e)
           \/ \E w \in Worker, own \in [Host -> Reported] : Record(w, own)
           \/ \E w \in Worker : Grant(w)
           \/ CancelCommit
           \/ UNCHANGED row
  <1>1. ASSUME NEW w \in Worker, Work(w)
        PROVE  \/ \E e \in Execution : Start(w, e)
               \/ \E own \in [Host -> Reported] : Record(w, own)
               \/ Grant(w)
               \/ UNCHANGED row
    BY <1>1 DEF Work, Run, End, Follow, Claim, rowVars
  <1>2. CASE Fault
    BY <1>2 DEF Fault, StartFails, BodyFails, RecordFails, Crash, LoseFlush, LoseExecution,
                Redeliver, rowVars
  <1>3. ASSUME NEW g \in Group, CancelRead(g)
        PROVE  UNCHANGED row
    BY <1>3 DEF CancelRead, rowVars
  <1>4. ASSUME NEW e \in Execution, CancelExecution(e)
        PROVE  UNCHANGED row
    BY <1>4 DEF CancelExecution, rowVars
  <1>5. CASE UNCHANGED vars
    BY <1>5 DEF vars
  <1> QED
    BY <1>1, <1>2, <1>3, <1>4, <1>5 DEF Next, Request

LEMMA NextHeldIsFound ==
    ASSUME TypeOK, HeldIsFound, [Next]_vars
    PROVE  HeldIsFound'
  <1> SUFFICES ASSUME NEW g \in Group, NEW h \in Host, row'[g].states[h] \in Held
               PROVE  ~row'[g].finished
    BY DEF HeldIsFound, HostsIn, Held
  <1>1. CASE row'[g] = row[g]
    BY <1>1 DEF HeldIsFound, HostsIn, Held
  <1>2. CASE Summed(row'[g])
    BY <1>2 DEF Summed, AnyOpen, OpenStates, Held
  <1> QED
    BY <1>1, <1>2, NextSummed

\* A run that is created takes the waiting hosts it addresses out of the older
\* runs of its playbooks that were made when it began: HeldIsFound makes
\* _open_groups find them.
LEMMA CreateTakesOver ==
    ASSUME ExecutionInv, HeldIsFound, NEW plan \in Plan, NEW hosts \in SUBSET Host,
           NEW online \in SUBSET Host, NEW defer \in BOOLEAN, NEW seen \in [Step -> 0 .. made],
           Create(plan, hosts, online, defer, seen),
           NEW g \in Group, NEW f \in Group, NEW h \in Host,
           playbook'[g] = playbook'[f], playbook'[g] # NoPlaybook, g[1] = made',
           f[1] <= seen[1],
           row'[g].states[h] = "waiting", row'[f].states[h] = "waiting"
    PROVE  FALSE
  <1>0. TypeOK
    BY DEF ExecutionInv
  <1>1. /\ made' = made + 1 /\ made \in Nat /\ online \subseteq hosts
        /\ defer \/ online = hosts
    BY <1>0, BoundsAssumption DEF Create, TypeOK
  <1>2. ASSUME NEW x \in Group, row'[x].states[h] = "waiting"
        PROVE  /\ x[1] = made' => /\ x[2] \in DOMAIN plan /\ playbook'[x] = plan[x[2]]
                                  /\ h \in hosts /\ h \notin online
               /\ x[1] # made' => /\ row[x].states[h] = "waiting"
                                  /\ ~(defer /\ Supersedes(plan, seen, x) /\ h \in hosts)
                                  /\ playbook'[x] = playbook[x]
    <2>1. row'[x].states[h] = CreatedState(plan, hosts, online, defer, seen, x, h)
      BY <1>0, CreateRows
    <2>2. playbook'[x] = IF x[1] = made' /\ x[2] \in DOMAIN plan THEN plan[x[2]] ELSE playbook[x]
      BY <1>1 DEF Create
    <2>3. x[1] = made' => row[x].states[h] = "absent"
      <3>1. x[1] = made' => x[1] > made
        BY <1>1
      <3> QED
        BY <3>1 DEF ExecutionInv, Fresh
    <2> QED
      BY <1>1, <1>2, <2>1, <2>2, <2>3 DEF CreatedState
  <1>3. g[2] \in DOMAIN plan /\ playbook'[g] = plan[g[2]] /\ h \in hosts /\ defer
    BY <1>1, <1>2
  <1>4. f[1] # made' /\ f[1] <= seen[g[2]]
    <2>1. /\ 1 \in Step /\ g[2] \in Step /\ 1 <= g[2] /\ f[1] \in Int
          /\ seen[1] \in 0 .. made /\ seen[g[2]] \in 0 .. made
      BY BoundsAssumption DEF Group, Step, Sequence
    <2>2. seen[1] <= seen[g[2]]
      BY <2>1 DEF Create
    <2> QED
      BY <1>1, <2>1, <2>2
  <1>5. row[f].states[h] = "waiting" /\ ~Supersedes(plan, seen, f) /\ playbook[f] = plan[g[2]]
    BY <1>2, <1>3, <1>4
  <1>6. ~row[f].finished
    BY <1>5 DEF HeldIsFound, HostsIn
  <1> QED
    BY <1>3, <1>4, <1>5, <1>6 DEF Supersedes

LEMMA NextSeenIsSuperseded ==
    ASSUME ExecutionInv, HeldOnceAndFound, [Next]_vars
    PROVE  SeenIsSuperseded'
  <1> SUFFICES ASSUME NEW g \in Group, NEW f \in Group, NEW h \in Host,
                      playbook'[g] = playbook'[f], playbook'[g] # NoPlaybook,
                      f[1] <= began'[g[1]],
                      row'[g].states[h] = "waiting", row'[f].states[h] = "waiting"
               PROVE  FALSE
    BY DEF SeenIsSuperseded, HostsIn
  <1>0. g[1] \in Sequence /\ f[1] \in Sequence
    BY DEF Group
  <1>1. NoReturn
    BY NextStill DEF ExecutionInv
  <1>2. ASSUME NEW x \in Group, made' = made \/ x[1] # made', row'[x].states[h] = "waiting"
        PROVE  row[x].states[h] = "waiting"
    BY <1>1, <1>2 DEF NoReturn, Still, Unheld
  <1>3. CASE UNCHANGED runVars
    <2>1. row[g].states[h] = "waiting" /\ row[f].states[h] = "waiting"
      BY <1>2, <1>3 DEF runVars
    <2> QED
      BY <1>3, <2>1 DEF runVars, HeldOnceAndFound, SeenIsSuperseded, HostsIn
  <1>4. ASSUME NEW plan \in Plan, NEW hosts \in SUBSET Host, NEW online \in SUBSET Host,
               NEW defer \in BOOLEAN, NEW seen \in [Step -> 0 .. made],
               Create(plan, hosts, online, defer, seen)
        PROVE  FALSE
    <2>1. /\ made' = made + 1 /\ made \in Nat /\ f[1] \in Int /\ made' \in Sequence
          /\ began \in [Sequence -> 0 .. MaxSequences] /\ began[g[1]] \in Int
      <3>1. made' = made + 1 /\ made < MaxSequences
        BY <1>4 DEF Create
      <3>2. made \in 0 .. MaxSequences /\ began \in [Sequence -> 0 .. MaxSequences]
        BY DEF ExecutionInv, TypeOK
      <3> QED
        BY <1>0, <3>1, <3>2, BoundsAssumption DEF Sequence
    <2>2. began'[g[1]] = IF g[1] = made' THEN seen[1] ELSE began[g[1]]
      BY <1>0, <1>4, <2>1 DEF Create
    <2>3. CASE g[1] = made'
      BY <1>4, <2>2, <2>3, CreateTakesOver DEF HeldOnceAndFound
    <2>4. CASE g[1] # made'
      <3>1. f[1] <= began[g[1]] /\ began[g[1]] <= made
        BY <1>0, <2>2, <2>4 DEF ExecutionInv, Fresh
      <3>2. f[1] # made'
        BY <2>1, <3>1
      <3>3. playbook'[g] = playbook[g] /\ playbook'[f] = playbook[f]
        BY <1>4, <2>4, <3>2 DEF Create
      <3>4. row[g].states[h] = "waiting" /\ row[f].states[h] = "waiting"
        BY <1>2, <2>4, <3>2
      <3> QED
        BY <3>1, <3>3, <3>4 DEF HeldOnceAndFound, SeenIsSuperseded, HostsIn
    <2> QED
      BY <2>3, <2>4
  <1> QED
    BY <1>3, <1>4, CreateOrQuiet

\* A host that still waits is found by release, supersede and expire, and it
\* waits in one of two runs of a playbook at most when the creation of the
\* later one began after the other was committed, whatever cancels, faults and
\* repeated messages come between.
THEOREM HeldHostsAreKept == Spec => []HeldOnceAndFound
  <1> DEFINE HeldInv == ExecutionInv /\ HeldOnceAndFound
  <1>1. Init => HeldInv
    <2>1. Init => HeldOnceAndFound
      BY DEF Init, NoRow, HostsIn, HeldOnceAndFound, HeldIsFound, SeenIsSuperseded
    <2> QED
      BY <2>1, InitExecutionInv
  <1>2. HeldInv /\ [Next]_vars => HeldInv'
    <2> SUFFICES ASSUME HeldInv, [Next]_vars
                 PROVE  HeldInv'
      OBVIOUS
    <2>1. ExecutionInv' /\ TypeOK
      BY NextExecutionInv DEF ExecutionInv
    <2>2. HeldIsFound'
      BY <2>1, NextHeldIsFound DEF HeldOnceAndFound
    <2>3. SeenIsSuperseded'
      BY NextSeenIsSuperseded
    <2> QED
      BY <2>1, <2>2, <2>3 DEF HeldOnceAndFound
  <1> QED
    BY <1>1, <1>2, PTL DEF Spec
-----------------------------------------------------------------------------
(* As long as nobody cancels, a row is the summary of its hosts and a      *)
(* result is final.  Both assume MaxCancels = 0: the transaction of a      *)
(* cancel writes columns its session has read before it took the lock, and *)
(* TLC finds both properties violated as soon as one cancel is allowed.    *)

\* No request to cancel a group is open or to come.
NoCancel == left["cancel"] = 0 /\ ~request.open

LEMMA InitNoCancel ==
    ASSUME MaxCancels = 0, Init
    PROVE  NoCancel
  BY DEF Init, NoCancel, NoRequest

LEMMA NextNoCancel ==
    ASSUME TypeOK, NoCancel, [Next]_vars
    PROVE  NoCancel' /\ ~CancelCommit
  <1>1. ~CancelCommit /\ \A g \in Group : ~CancelRead(g)
    BY DEF NoCancel, CancelCommit, CancelRead, Spend
  <1>0. ASSUME NEW plan \in Plan, NEW hosts \in SUBSET Host, NEW online \in SUBSET Host,
               NEW defer \in BOOLEAN, NEW seen \in [Step -> 0 .. made],
               Create(plan, hosts, online, defer, seen)
        PROVE  UNCHANGED <<request, left>>
    BY <1>0 DEF Create
  <1>2. request' = request
    BY <1>0, <1>1
       DEF Next, Request, CancelExecution, Release, Flush, Expire, Work, Start, Run,
           End, Record, Follow, Claim, Grant, Fault, StartFails, BodyFails, RecordFails,
           Crash, LoseFlush,
           LoseExecution, Redeliver, vars
  <1>3. left'["cancel"] = left["cancel"]
    <2>1. ASSUME NEW kind \in {"child", "fault", "again"}, Spend(kind)
          PROVE  left'["cancel"] = left["cancel"]
      BY <2>1 DEF Spend, TypeOK
    <2> QED
      BY <1>0, <1>1, <2>1
         DEF Next, Request, CancelExecution, Release, Flush, Expire, Work, Start, Run,
             End, Record, Follow, Claim, Grant, Fault, StartFails, BodyFails, RecordFails, Crash,
             LoseFlush, LoseExecution, Redeliver, vars
  <1> QED
    BY <1>1, <1>2, <1>3 DEF NoCancel

LEMMA NextSummaryAgrees ==
    ASSUME TypeOK, SummaryAgrees, [Next]_vars, ~CancelCommit
    PROVE  SummaryAgrees'
  <1> SUFFICES ASSUME NEW g \in Group, playbook'[g] # NoPlaybook
               PROVE  Summed(row'[g])
    BY DEF SummaryAgrees, Summed
  <1>1. CASE row'[g] = row[g] /\ playbook'[g] = playbook[g]
    BY <1>1 DEF SummaryAgrees, Summed
  <1> QED
    BY <1>1, NextSummed

\* The stored status and finished_at of a group are the summary of its hosts,
\* as long as nobody cancels a group.
THEOREM SummaryHolds ==
    ASSUME MaxCancels = 0
    PROVE  Spec => []SummaryAgrees
  <1> DEFINE SummaryInv == TypeOK /\ NoCancel /\ SummaryAgrees
  <1>1. Init => SummaryInv
    <2>1. Init => SummaryAgrees
      BY DEF Init, SummaryAgrees
    <2> QED
      BY <2>1, InitTypeOK, InitNoCancel
  <1>2. SummaryInv /\ [Next]_vars => SummaryInv'
    BY NextTypeOK, NextNoCancel, NextSummaryAgrees
  <1> QED
    BY <1>1, <1>2, PTL DEF Spec

\* What a step that is not a cancel may do to a host in a group.
Steps == {<<"absent", "waiting">>, <<"absent", "queued">>, <<"absent", "pending">>,
          <<"waiting", "ready">>, <<"waiting", "pending">>, <<"waiting", "cancelled">>,
          <<"ready", "queued">>, <<"ready", "pending">>,
          <<"pending", "queued">>, <<"pending", "running">>, <<"queued", "running">>}
         \cup (Taken \X Settled)

Advance(old, new) == new = old \/ <<old, new>> \in Steps

LEMMA CreateAdvance ==
    ASSUME ExecutionInv, NEW plan \in Plan, NEW hosts \in SUBSET Host,
           NEW online \in SUBSET Host, NEW defer \in BOOLEAN, NEW seen \in [Step -> 0 .. made],
           Create(plan, hosts, online, defer, seen), NEW g \in Group, NEW h \in Host
    PROVE  Advance(row[g].states[h], row'[g].states[h])
  <1>0. TypeOK
    BY DEF ExecutionInv
  <1>1. g[1] = made' => row[g].states[h] = "absent"
    <2>1. made' = made + 1 /\ made \in Nat
      BY <1>0, BoundsAssumption DEF Create, TypeOK
    <2>2. g[1] = made' => g[1] > made
      BY <2>1
    <2> QED
      BY <2>2 DEF ExecutionInv, Fresh
  <1>2. row'[g].states[h] = CreatedState(plan, hosts, online, defer, seen, g, h)
    BY <1>0, CreateRows
  <1>3. made' = made + 1
    BY DEF Create
  <1> QED
    BY <1>1, <1>2, <1>3 DEF Advance, Steps, CreatedState

LEMMA NextAdvance ==
    ASSUME ExecutionInv, [Next]_vars, ~CancelCommit, NEW g \in Group, NEW h \in Host
    PROVE  Advance(row[g].states[h], row'[g].states[h])
  <1>2. ASSUME NEW plan \in Plan, NEW hosts \in SUBSET Host, NEW online \in SUBSET Host,
               NEW defer \in BOOLEAN, NEW seen \in [Step -> 0 .. made],
               Create(plan, hosts, online, defer, seen)
        PROVE  Advance(row[g].states[h], row'[g].states[h])
    BY <1>2, CreateAdvance
  <1> USE DEF Advance, Steps
  <1>0. TypeOK
    BY DEF ExecutionInv
  <1>1. CASE UNCHANGED row
    BY <1>1
  <1>3. ASSUME NEW k \in Host, Release(k)
        PROVE  Advance(row[g].states[h], row'[g].states[h])
    BY <1>0, <1>3, ReleaseRows DEF Freed
  <1>4. ASSUME NEW f \in Group, Flush(f)
        PROVE  Advance(row[g].states[h], row'[g].states[h])
    <2>1. row'[g].states[h] =
             IF g[1] = f[1] /\ h \in FlushTake(f)[g[2]]
             THEN IF g = f THEN "queued" ELSE "pending"
             ELSE row[g].states[h]
      BY <1>0, <1>4, FlushRows
    <2>2. /\ g[2] \in Step /\ g = <<g[1], g[2]>>
          /\ f[2] \in Step /\ f = <<f[1], f[2]>>
      BY DEF Group
    <2>3. g[1] = f[1] /\ h \in FlushTake(f)[g[2]]
             => \/ g = f /\ row[g].states[h] = "ready"
                \/ g # f /\ row[g].states[h] = "waiting"
      BY <2>2 DEF FlushTake, HostsIn
    <2> QED
      BY <2>1, <2>3
  <1>5. ASSUME NEW c \in Sequence, Expire(c)
        PROVE  Advance(row[g].states[h], row'[g].states[h])
    BY <1>0, <1>5, ExpireRows
  <1>6. ASSUME NEW w \in Worker, NEW e \in Execution, Start(w, e)
        PROVE  Advance(row[g].states[h], row'[g].states[h])
    BY <1>0, <1>6, StartRows
  <1>7. ASSUME NEW w \in Worker, NEW own \in [Host -> Reported], Record(w, own)
        PROVE  Advance(row[g].states[h], row'[g].states[h])
    BY <1>0, <1>7, RecordRows, ResultType
  <1>8. ASSUME NEW w \in Worker, Grant(w)
        PROVE  Advance(row[g].states[h], row'[g].states[h])
    BY <1>0, <1>8, GrantRows
  <1> HIDE DEF Advance, Steps
  <1> QED
    BY <1>1, <1>2, <1>3, <1>4, <1>5, <1>6, <1>7, <1>8, RowCases

\* No transaction reopens the result of a host, as long as nobody cancels a
\* group: not even a message that comes twice, or after the worker died.
THEOREM ResultsAreFinal ==
    ASSUME MaxCancels = 0
    PROVE  Spec => SettledStays
  <1> DEFINE Inv == ExecutionInv /\ NoCancel
             Keeps == \A g \in Group : \A h \in HostsIn(row[g], Settled) :
                         row'[g].states[h] = row[g].states[h]
  <1>1. Init => Inv
    BY InitExecutionInv, InitNoCancel
  <1>2. Inv /\ [Next]_vars => Inv'
    BY NextExecutionInv, NextNoCancel DEF ExecutionInv
  <1>3. Inv /\ [Next]_vars => Keeps
    <2> SUFFICES ASSUME Inv, [Next]_vars, NEW g \in Group, NEW h \in Host,
                        row[g].states[h] \in Settled
                 PROVE  row'[g].states[h] = row[g].states[h]
      BY DEF HostsIn
    <2>1. Advance(row[g].states[h], row'[g].states[h])
      BY NextNoCancel, NextAdvance DEF ExecutionInv
    <2> QED
      BY <2>1 DEF Advance, Steps, Settled, Taken
  <1> QED
    BY <1>1, <1>2, <1>3, PTL DEF Spec, SettledStays
-----------------------------------------------------------------------------
(* A ready host has a flush on its way, as long as nothing is lost.  The    *)
(* theorem assumes MaxFaults = 0: a flush message that is lost, or a flush  *)
(* whose transaction fails, leaves its hosts ready for good.               *)

\* A host becomes ready in a release that finds it waiting, and nowhere else.
LEMMA ReadyComes ==
    ASSUME TypeOK, [Next]_vars, NEW g \in Group, NEW h \in Host,
           row'[g].states[h] = "ready", row[g].states[h] # "ready"
    PROVE  Release(h) /\ g \in Freed(h)
  <1>1. ~ UNCHANGED row
    OBVIOUS
  <1>2. ASSUME NEW plan \in Plan, NEW hosts \in SUBSET Host, NEW online \in SUBSET Host,
               NEW defer \in BOOLEAN, NEW seen \in [Step -> 0 .. made],
               Create(plan, hosts, online, defer, seen)
        PROVE  FALSE
    <2>1. row'[g].states[h] = CreatedState(plan, hosts, online, defer, seen, g, h)
      BY <1>2, CreateRows
    <2> QED
      BY <2>1 DEF CreatedState
  <1>3. ASSUME NEW k \in Host, Release(k)
        PROVE  Release(h) /\ g \in Freed(h)
    BY <1>3, ReleaseRows
  <1>4. ASSUME NEW f \in Group, Flush(f)
        PROVE  FALSE
    BY <1>4, FlushRows
  <1>5. ASSUME NEW c \in Sequence, Expire(c)
        PROVE  FALSE
    BY <1>5, ExpireRows
  <1>6. ASSUME NEW w \in Worker, NEW e \in Execution, Start(w, e)
        PROVE  FALSE
    BY <1>6, StartRows
  <1>7. ASSUME NEW w \in Worker, NEW own \in [Host -> Reported], Record(w, own)
        PROVE  FALSE
    BY <1>7, RecordRows, ResultType DEF Settled
  <1>8. ASSUME NEW w \in Worker, Grant(w)
        PROVE  FALSE
    BY <1>8, GrantRows
  <1>9. ~CancelCommit
    BY CancelCommitRows DEF Held
  <1> QED
    BY <1>1, <1>2, <1>3, <1>4, <1>5, <1>6, <1>7, <1>8, <1>9
       DEF Next, Request, CancelRead, CancelExecution, Work, Run, End, Follow, Claim, Fault,
           StartFails, BodyFails, RecordFails, Crash, LoseFlush, LoseExecution, Redeliver,
           vars, rowVars

\* Nothing is lost, and no process dies, from here on.
NoFault == left["fault"] = 0

LEMMA NextNoFault ==
    ASSUME TypeOK, NoFault, [Next]_vars
    PROVE  NoFault' /\ ~Spend("fault")
  <1>1. ~Spend("fault")
    BY DEF NoFault, Spend
  <1>2. ASSUME NEW kind \in {"cancel", "child", "again"}, Spend(kind)
        PROVE  left'["fault"] = left["fault"]
    BY <1>2 DEF Spend, TypeOK
  <1>3. ASSUME NEW plan \in Plan, NEW hosts \in SUBSET Host, NEW online \in SUBSET Host,
               NEW defer \in BOOLEAN, NEW seen \in [Step -> 0 .. made],
               Create(plan, hosts, online, defer, seen)
        PROVE  left' = left
    BY <1>3 DEF Create
  <1> QED
    BY <1>1, <1>2, <1>3
       DEF NoFault, Next, Request, CancelRead, CancelCommit, CancelExecution, Release,
           Flush, Expire, Work, Start, Run, End, Record, Follow, Claim, Grant, Fault,
           StartFails, BodyFails, RecordFails, Crash, LoseFlush, LoseExecution, Redeliver, vars

LEMMA NextReadyIsScheduled ==
    ASSUME TypeOK, ReadyIsScheduled, [Next]_vars, ~Spend("fault")
    PROVE  ReadyIsScheduled'
  <1> SUFFICES ASSUME NEW g \in Group, NEW h \in Host, row'[g].states[h] = "ready"
               PROVE  flushes'[g] > 0
    BY DEF ReadyIsScheduled, HostsIn
  <1>0. flushes[g] \in Nat
    BY DEF TypeOK
  <1>1. CASE row[g].states[h] # "ready"
    <2>1. Release(h) /\ g \in Freed(h)
      BY <1>1, ReadyComes
    <2>2. flushes'[g] = IF HostsIn(row[g], {"ready"}) = {} THEN flushes[g] + 1 ELSE flushes[g]
      BY <2>1 DEF Release, Freed, Holding, Held
    <2>3. HostsIn(row[g], {"ready"}) # {} => flushes[g] > 0
      BY DEF ReadyIsScheduled
    <2> QED
      BY <1>0, <2>2, <2>3
  <1>2. CASE row[g].states[h] = "ready"
    <2>1. flushes[g] > 0
      BY <1>2 DEF ReadyIsScheduled, HostsIn
    <2>2. CASE Flush(g)
      <3>1. h \in FlushTake(g)[g[2]]
        BY <1>2 DEF FlushTake, HostsIn, Group
      <3>2. row'[g].states[h] = "queued"
        BY <2>2, <3>1, FlushRows
      <3> QED
        BY <3>2
    <2>3. ASSUME NEW f \in Group, Flush(f), f # g
          PROVE  flushes'[g] > 0
      BY <2>1, <2>3 DEF Flush, TypeOK
    <2>4. ASSUME NEW k \in Host, Release(k)
          PROVE  flushes'[g] > 0
      BY <1>0, <2>1, <2>4 DEF Release
    <2>5. CASE UNCHANGED flushes
      BY <2>1, <2>5
    <2>6. \A f \in Group : ~LoseFlush(f)
      BY DEF LoseFlush
    <2>7. ASSUME NEW plan \in Plan, NEW hosts \in SUBSET Host, NEW online \in SUBSET Host,
                 NEW defer \in BOOLEAN, NEW seen \in [Step -> 0 .. made],
                 Create(plan, hosts, online, defer, seen)
          PROVE  UNCHANGED flushes
      BY <2>7 DEF Create
    <2> QED
      BY <2>2, <2>3, <2>4, <2>5, <2>6, <2>7
         DEF Next, Request, CancelRead, CancelCommit, CancelExecution, Expire, Work,
             Start, Run, End, Record, Follow, Claim, Grant, Fault, StartFails, BodyFails,
             RecordFails,
             Crash, LoseExecution, Redeliver, vars, rowVars
  <1> QED
    BY <1>1, <1>2

\* "The first host that appears schedules the launch, the others just join":
\* a flush is on its way for every ready host, as long as nothing is lost.
THEOREM ReadyHostsAreScheduled ==
    ASSUME MaxFaults = 0
    PROVE  Spec => []ReadyIsScheduled
  <1> DEFINE Inv == TypeOK /\ NoFault /\ ReadyIsScheduled
  <1>1. Init => Inv
    <2>1. Init => NoFault /\ ReadyIsScheduled
      BY DEF Init, NoFault, ReadyIsScheduled, HostsIn, NoRow
    <2> QED
      BY <2>1, InitTypeOK
  <1>2. Inv /\ [Next]_vars => Inv'
    BY NextTypeOK, NextNoFault, NextReadyIsScheduled
  <1> QED
    BY <1>1, <1>2, PTL DEF Spec
-----------------------------------------------------------------------------
(* Batches.  A flush takes a host out of its whole run at once, so all the *)
(* executions of a host in one run belong to one batch.                    *)

\* A host is let go by the first group of its run that holds it.
ReadyFirst ==
    \A s \in Sequence : \A j, k \in Step : \A h \in Host :
        j < k /\ row[<<s, k>>].states[h] = "ready" => row[<<s, j>>].states[h] \notin Held

\* A host with an execution is not held in any group of the run.
TakenForGood ==
    \A e \in Execution : \A h \in targets[e] : \A k \in Step :
        Used(e) => row[<<owner[e[1]], k>>].states[h] \notin Held

SameBatch ==
    \A e, f \in Execution :
        Used(e) /\ Used(f) /\ owner[e[1]] = owner[f[1]] /\ targets[e] \cap targets[f] # {}
            => e[1] = f[1]

BatchesInv == ExecutionInv /\ HeldOnceAndFound /\ ReadyFirst /\ TakenForGood /\ SameBatch

\* A step that creates executions makes one batch.  It belongs to a new run or
\* takes hosts that are ready in some group of its run.
NewBatch(b, s, take, first) ==
    /\ b \in FreeBatches /\ s \in Sequence /\ first \in Step
    /\ take \in [Step -> SUBSET Host]
    /\ take[first] # {}
    /\ \A k \in Step : k < first => take[k] = {}
    /\ AddBatch(b, s, take, first)

LEMMA CreateBatch ==
    ASSUME TypeOK, NEW plan \in Plan, NEW hosts \in SUBSET Host, NEW online \in SUBSET Host,
           NEW defer \in BOOLEAN, NEW seen \in [Step -> 0 .. made],
           Create(plan, hosts, online, defer, seen), online # {}
    PROVE  NewBatch(CHOOSE b \in FreeBatches : TRUE, made + 1,
                    [k \in Step |-> IF k \in DOMAIN plan THEN online ELSE {}], 1)
  <1>1. made + 1 \in Sequence
    BY BoundsAssumption DEF Create, TypeOK, Sequence
  <1>2. 1 \in DOMAIN plan /\ 1 \in Step
    BY BoundsAssumption DEF Plan, Step
  <1>3. \A k \in Step : ~(k < 1)
    BY BoundsAssumption DEF Step
  <1> QED
    BY <1>1, <1>2, <1>3 DEF NewBatch, Create

LEMMA FlushBatch ==
    ASSUME TypeOK, NEW g \in Group, Flush(g), HostsIn(row[g], {"ready"}) # {}
    PROVE  NewBatch(CHOOSE b \in FreeBatches : TRUE, g[1], FlushTake(g), g[2])
  <1>1. g[1] \in Sequence /\ g[2] \in Step
    BY DEF Group
  <1>2. FlushTake(g) \in [Step -> SUBSET Host]
    BY DEF FlushTake, HostsIn
  <1>3. FlushTake(g)[g[2]] # {} /\ \A k \in Step : k < g[2] => FlushTake(g)[k] = {}
    BY <1>1, BoundsAssumption DEF FlushTake, Step
  <1>4. FreeBatches # {} /\ AddBatch(CHOOSE b \in FreeBatches : TRUE, g[1], FlushTake(g), g[2])
    BY DEF Flush, FlushTake
  <1> QED
    BY <1>1, <1>2, <1>3, <1>4 DEF NewBatch

\* The executions after a batch is added.
LEMMA NewBatchAt ==
    ASSUME TypeOK, NEW b, NEW s, NEW take, NEW first, NewBatch(b, s, take, first),
           NEW e \in Execution
    PROVE  /\ e[1] \in Batch /\ e[2] \in Step
           /\ e[1] = b => /\ owner[e[1]] = 0 /\ owner'[e[1]] = s /\ targets'[e] = take[e[2]]
                          /\ Used(e)' <=> take[e[2]] # {}
           /\ e[1] # b => /\ owner'[e[1]] = owner[e[1]] /\ targets'[e] = targets[e]
                          /\ Used(e)' <=> Used(e)
  <1>1. /\ e[1] \in Batch /\ e[2] \in Step
        /\ b \in Batch /\ owner[b] = 0 /\ s # 0
    BY BoundsAssumption DEF NewBatch, FreeBatches, Execution, Sequence
  <1>2. /\ owner'[e[1]] = IF e[1] = b THEN s ELSE owner[e[1]]
        /\ targets'[e] = IF e[1] = b THEN take[e[2]] ELSE targets[e]
    BY <1>1 DEF NewBatch, AddBatch, TypeOK
  <1> QED
    BY <1>1, <1>2 DEF Used

\* The steps that add no batch leave the executions' hosts alone.
SameExecutions == UNCHANGED <<owner, targets>>

LEMMA BatchCases ==
    ASSUME TypeOK, [Next]_vars
    PROVE  \/ \E plan \in Plan, hosts, online \in SUBSET Host, defer \in BOOLEAN,
             seen \in [Step -> 0 .. made] :
                 Create(plan, hosts, online, defer, seen) /\ online # {}
           \/ \E g \in Group : Flush(g) /\ HostsIn(row[g], {"ready"}) # {}
           \/ SameExecutions
  <1>1. ASSUME NEW plan \in Plan, NEW hosts \in SUBSET Host, NEW online \in SUBSET Host,
               NEW defer \in BOOLEAN, NEW seen \in [Step -> 0 .. made],
               Create(plan, hosts, online, defer, seen)
        PROVE  online # {} \/ SameExecutions
    BY <1>1 DEF Create, execVars, SameExecutions
  <1>2. ASSUME NEW g \in Group, Flush(g)
        PROVE  HostsIn(row[g], {"ready"}) # {} \/ SameExecutions
    BY <1>2 DEF Flush, execVars, SameExecutions
  <1>3. CASE \E w \in Worker : Work(w)
    BY <1>3 DEF SameExecutions, Work, Start, Run, End, Record, Follow, Claim, Grant, execVars
  <1>4. CASE Fault \/ UNCHANGED vars
    BY <1>4 DEF SameExecutions, Fault, StartFails, BodyFails, RecordFails, Crash, LoseFlush,
                LoseExecution, Redeliver, vars, execVars
  <1>5. CASE \/ \E g \in Group : CancelRead(g)
             \/ CancelCommit
             \/ \E e \in Execution : CancelExecution(e)
             \/ \E h \in Host : Release(h)
             \/ \E c \in Sequence : Expire(c)
    BY <1>5 DEF SameExecutions, CancelRead, CancelCommit, CancelExecution, Release, Expire,
                execVars
  <1> QED
    BY <1>1, <1>2, <1>3, <1>4, <1>5 DEF Next, Request

\* A host that is not held in a group of an existing run is never held there.
LEMMA StaysUnheld ==
    ASSUME NoReturn, NEW g \in Group, NEW h \in Host, made' = made \/ g[1] # made',
           row[g].states[h] \notin Held
    PROVE  row'[g].states[h] \notin Held
  BY DEF NoReturn, Still, Unheld, Held

\* A run that is being created has no host in any group yet.
LEMMA NewRunIsEmpty ==
    ASSUME ExecutionInv, [Next]_vars, made' # made
    PROVE  /\ made' = made + 1 /\ made \in Nat
           /\ \A g \in Group, h \in Host : g[1] = made' => row[g].states[h] = "absent"
           /\ \A b \in Batch : owner[b] # made'
  <1>1. made' = made + 1 /\ made \in Nat
    <2>1. made' = made + 1
      <3>1. PICK plan \in Plan, hosts \in SUBSET Host, online \in SUBSET Host,
                 defer \in BOOLEAN, seen \in [Step -> 0 .. made] :
                    Create(plan, hosts, online, defer, seen)
        BY CreateOrQuiet DEF runVars
      <3> QED
        BY <3>1 DEF Create
    <2> QED
      BY <2>1, BoundsAssumption DEF ExecutionInv, TypeOK
  <1>2. \A g \in Group : g[1] = made' => g[1] > made
    BY <1>1
  <1>3. \A b \in Batch : owner[b] <= made /\ owner[b] \in Nat
    BY BoundsAssumption DEF ExecutionInv, TypeOK, Fresh
  <1> QED
    BY <1>1, <1>2, <1>3 DEF ExecutionInv, Fresh

LEMMA NextReadyFirst ==
    ASSUME ExecutionInv, HeldIsFound, ReadyFirst, [Next]_vars
    PROVE  ReadyFirst'
  <1> SUFFICES ASSUME NEW s \in Sequence, NEW j \in Step, NEW k \in Step, NEW h \in Host,
                      j < k, row'[<<s, k>>].states[h] = "ready"
               PROVE  row'[<<s, j>>].states[h] \notin Held
    BY DEF ReadyFirst
  <1> DEFINE g == <<s, k>>
             f == <<s, j>>
  <1>1. g \in Group /\ f \in Group /\ g[1] = s /\ g[2] = k /\ f[1] = s /\ f[2] = j
    BY DEF Group
  <1>2. NoReturn /\ TypeOK
    BY NextStill DEF ExecutionInv
  <1> HIDE DEF g, f
  <1>3. CASE row[g].states[h] # "ready"
    <2>1. Release(h) /\ g \in Freed(h)
      BY <1>1, <1>2, <1>3, ReadyComes DEF g
    <2>2. f \notin Holding(h)
      <3>1. g[2] = k /\ f[2] = j /\ ~(j >= k)
        BY <1>1 DEF Step
      <3> QED
        BY <1>1, <2>1, <3>1 DEF Freed
    <2>3. row[f].states[h] \notin Held
      BY <1>1, <2>2 DEF HeldIsFound, Holding, HostsIn, Held
    <2>4. made' = made
      BY <2>1 DEF Release, runVars
    <2> QED
      BY <1>1, <1>2, <2>3, <2>4, StaysUnheld DEF f
  <1>4. CASE row[g].states[h] = "ready"
    <2>1. row[f].states[h] \notin Held
      BY <1>4 DEF ReadyFirst, f, g
    <2>2. made' = made \/ f[1] # made'
      BY <1>1, <1>4, NewRunIsEmpty
    <2> QED
      BY <1>1, <1>2, <2>1, <2>2, StaysUnheld DEF f
  <1> QED
    BY <1>3, <1>4
\* A step keeps a host unheld in the whole of a run that exists.
LEMMA StaysUnheldInRun ==
    ASSUME ExecutionInv, [Next]_vars, NEW s \in Sequence, NEW h \in Host,
           \E k \in Step : row[<<s, k>>].states[h] # "absent",
           NEW k \in Step, row[<<s, k>>].states[h] \notin Held
    PROVE  row'[<<s, k>>].states[h] \notin Held
  <1> DEFINE g == <<s, k>>
  <1>1. g \in Group /\ g[1] = s
    BY DEF Group
  <1>2. made' = made \/ s # made'
    <2>1. \A j \in Step : <<s, j>> \in Group /\ <<s, j>>[1] = s
      BY DEF Group
    <2> QED
      BY <2>1, NewRunIsEmpty
  <1>3. NoReturn
    BY NextStill DEF ExecutionInv
  <1> HIDE DEF g
  <1> QED
    BY <1>1, <1>2, <1>3, StaysUnheld DEF g

\* The hosts of a new batch are not held in any group of its run.
LEMMA NewBatchTaken ==
    ASSUME ExecutionInv, HeldIsFound, ReadyFirst, [Next]_vars,
           NEW b, NEW s \in Sequence, NEW take, NEW first,
           \/ \E plan \in Plan, hosts, online \in SUBSET Host, defer \in BOOLEAN,
             seen \in [Step -> 0 .. made] :
                 /\ Create(plan, hosts, online, defer, seen)
                 /\ s = made + 1
                 /\ take = [k \in Step |-> IF k \in DOMAIN plan THEN online ELSE {}]
           \/ \E g \in Group :
                 /\ Flush(g)
                 /\ s = g[1]
                 /\ take = FlushTake(g),
           NEW j \in Step, NEW h \in take[j], NEW k \in Step
    PROVE  row'[<<s, k>>].states[h] \notin Held
  <1>0. TypeOK
    BY DEF ExecutionInv
  <1>1. <<s, k>> \in Group /\ <<s, k>>[1] = s /\ <<s, k>>[2] = k
    BY DEF Group
  <1>2. ASSUME NEW plan \in Plan, NEW hosts \in SUBSET Host, NEW online \in SUBSET Host,
               NEW defer \in BOOLEAN, NEW seen \in [Step -> 0 .. made],
               Create(plan, hosts, online, defer, seen), s = made + 1,
               take = [i \in Step |-> IF i \in DOMAIN plan THEN online ELSE {}]
        PROVE  row'[<<s, k>>].states[h] \notin Held
    <2>1. h \in online /\ h \in Host
      BY <1>2
    <2>2. row'[<<s, k>>].states[h] = CreatedState(plan, hosts, online, defer, seen, <<s, k>>, h)
      BY <1>0, <1>1, <1>2, <2>1, CreateRows
    <2>3. row[<<s, k>>].states[h] = "absent"
      <3>1. s > made
        BY <1>0, <1>2, BoundsAssumption DEF TypeOK
      <3> QED
        BY <1>1, <2>1, <3>1 DEF ExecutionInv, Fresh
    <2> QED
      BY <1>1, <1>2, <2>1, <2>2, <2>3 DEF CreatedState, Held
  <1>3. ASSUME NEW g \in Group, Flush(g), s = g[1], take = FlushTake(g)
        PROVE  row'[<<s, k>>].states[h] \notin Held
    <2>1. /\ g = <<s, g[2]>> /\ g[2] \in Step /\ <<s, k>> = <<g[1], k>>
          /\ h \in Host /\ row[g].states[h] = "ready"
      BY <1>3 DEF Group, FlushTake, HostsIn
    <2>2. CASE h \in FlushTake(g)[k]
      <3>1. row'[<<s, k>>].states[h] = IF <<s, k>> = g THEN "queued" ELSE "pending"
        BY <1>0, <1>1, <1>3, <2>1, <2>2, FlushRows
      <3> QED
        BY <3>1 DEF Held
    <2>3. CASE h \notin FlushTake(g)[k]
      <3>1. row'[<<s, k>>].states[h] = row[<<s, k>>].states[h]
        BY <1>0, <1>1, <1>3, <2>1, <2>3, FlushRows
      <3>2. k # g[2] /\ g[2] \in Int /\ k \in Int
        BY <2>1, <2>3 DEF FlushTake, HostsIn, Step
      <3>3. CASE k < g[2]
        BY <2>1, <3>1, <3>3 DEF ReadyFirst
      <3>4. CASE k > g[2]
        <4>1. row[<<s, k>>].states[h] # "waiting"
          BY <2>1, <2>3, <3>2, <3>4 DEF FlushTake, HostsIn
        <4>2. row[<<s, k>>].states[h] # "ready"
          <5>1. row[<<s, g[2]>>].states[h] \in Held
            BY <2>1 DEF Held
          <5>2. g[2] < k
            BY <3>2, <3>4
          <5> QED
            BY <2>1, <5>1, <5>2 DEF ReadyFirst
        <4> QED
          BY <3>1, <4>1, <4>2 DEF Held
      <3> QED
        BY <3>2, <3>3, <3>4
    <2> QED
      BY <2>2, <2>3
  <1> QED
    BY <1>2, <1>3

LEMMA NextTakenForGood ==
    ASSUME BatchesInv, [Next]_vars
    PROVE  TakenForGood' /\ SameBatch'
  <1> USE DEF BatchesInv, HeldOnceAndFound
  <1>0. TypeOK
    BY DEF ExecutionInv
  <1>1. ASSUME NEW e \in Execution, NEW h \in targets[e], Used(e), NEW k \in Step
        PROVE  row'[<<owner[e[1]], k>>].states[h] \notin Held
    <2>1. owner[e[1]] \in Sequence /\ e[2] \in Step /\ GroupOf(e) = <<owner[e[1]], e[2]>> /\ h \in Host
      BY <1>0, <1>1, BoundsAssumption DEF TypeOK, Used, Execution, Sequence, GroupOf
    <2>2. row[<<owner[e[1]], e[2]>>].states[h] # "absent"
      BY <1>1, <2>1 DEF ExecutionInv, TakenIsNotHeld
    <2>3. row[<<owner[e[1]], k>>].states[h] \notin Held
      BY <1>1 DEF TakenForGood
    <2> QED
      BY <2>1, <2>2, <2>3, StaysUnheldInRun
  <1>2. CASE SameExecutions
    <2>1. \A e \in Execution : Used(e)' <=> Used(e)
      BY <1>2 DEF SameExecutions, Used
    <2>2. TakenForGood'
      BY <1>1, <1>2, <2>1 DEF SameExecutions, TakenForGood
    <2>3. SameBatch'
      BY <1>2, <2>1 DEF SameExecutions, SameBatch
    <2> QED
      BY <2>2, <2>3
  <1>3. ASSUME NEW b, NEW s \in Sequence, NEW take, NEW first, NewBatch(b, s, take, first),
               \A j \in Step : \A h \in take[j] : \A k \in Step :
                  row'[<<s, k>>].states[h] \notin Held,
               \A j \in Step : \A h \in take[j] : \A e \in Execution :
                  Used(e) /\ owner[e[1]] = s => h \notin targets[e]
        PROVE  TakenForGood' /\ SameBatch'
    <2>1. TakenForGood'
      <3> SUFFICES ASSUME NEW e \in Execution, NEW h \in targets'[e], NEW k \in Step, Used(e)'
                   PROVE  row'[<<owner'[e[1]], k>>].states[h] \notin Held
        BY DEF TakenForGood
      <3>1. CASE e[1] = b
        BY <1>0, <1>3, <3>1, NewBatchAt
      <3>2. CASE e[1] # b
        <4>1. owner'[e[1]] = owner[e[1]] /\ h \in targets[e] /\ Used(e)
          BY <1>0, <1>3, <3>2, NewBatchAt
        <4> QED
          BY <1>1, <4>1
      <3> QED
        BY <3>1, <3>2
    <2>2. ASSUME NEW e \in Execution, NEW f \in Execution, Used(e)', Used(f)',
                 owner'[e[1]] = owner'[f[1]], NEW h \in targets'[e] \cap targets'[f],
                 e[1] = b
          PROVE  f[1] = b
      <3> SUFFICES ASSUME f[1] # b
                   PROVE  FALSE
        OBVIOUS
      <3>1. e[2] \in Step /\ h \in take[e[2]] /\ owner'[e[1]] = s
        BY <1>0, <1>3, <2>2, NewBatchAt
      <3>2. Used(f) /\ owner[f[1]] = s /\ h \in targets[f]
        BY <1>0, <1>3, <2>2, <3>1, NewBatchAt
      <3> QED
        BY <1>3, <3>1, <3>2
    <2>3. SameBatch'
      <3> SUFFICES ASSUME NEW e \in Execution, NEW f \in Execution, Used(e)', Used(f)',
                          owner'[e[1]] = owner'[f[1]], NEW h \in targets'[e] \cap targets'[f]
                   PROVE  e[1] = f[1]
        BY DEF SameBatch
      <3>1. CASE e[1] = b \/ f[1] = b
        BY <2>2, <3>1
      <3>2. CASE e[1] # b /\ f[1] # b
        <4>1. /\ Used(e) /\ owner'[e[1]] = owner[e[1]] /\ h \in targets[e]
              /\ Used(f) /\ owner'[f[1]] = owner[f[1]] /\ h \in targets[f]
          BY <1>0, <1>3, <3>2, NewBatchAt
        <4> QED
          BY <4>1 DEF SameBatch
      <3> QED
        BY <3>1, <3>2
    <2> QED
      BY <2>1, <2>3
  <1>4. ASSUME NEW plan \in Plan, NEW hosts \in SUBSET Host, NEW online \in SUBSET Host,
               NEW defer \in BOOLEAN, NEW seen \in [Step -> 0 .. made],
               Create(plan, hosts, online, defer, seen), online # {}
        PROVE  TakenForGood' /\ SameBatch'
    <2> DEFINE take == [k \in Step |-> IF k \in DOMAIN plan THEN online ELSE {}]
               s == made + 1
               b == CHOOSE c \in FreeBatches : TRUE
    <2>1. NewBatch(b, s, take, 1) /\ s \in Sequence
      <3>1. NewBatch(b, s, take, 1)
        BY <1>0, <1>4, CreateBatch
      <3> QED
        BY <3>1 DEF NewBatch
    <2>2. \A j \in Step : \A h \in take[j] : \A k \in Step :
             row'[<<s, k>>].states[h] \notin Held
      BY <1>4, <2>1, NewBatchTaken
    <2>3. \A e \in Execution : Used(e) => owner[e[1]] # s
      <3>1. made' = s /\ made' # made
        BY <1>0, <1>4, BoundsAssumption DEF Create, TypeOK
      <3>2. \A c \in Batch : owner[c] # s
        BY <3>1, NewRunIsEmpty
      <3> QED
        BY <3>2 DEF Execution
    <2> HIDE DEF take, s, b
    <2> QED
      BY <1>3, <2>1, <2>2, <2>3
  <1>5. ASSUME NEW g \in Group, Flush(g), HostsIn(row[g], {"ready"}) # {}
        PROVE  TakenForGood' /\ SameBatch'
    <2> DEFINE take == FlushTake(g)
               s == g[1]
               b == CHOOSE c \in FreeBatches : TRUE
    <2>1. NewBatch(b, s, take, g[2]) /\ s \in Sequence
      <3>1. NewBatch(b, s, take, g[2])
        BY <1>0, <1>5, FlushBatch
      <3> QED
        BY <3>1 DEF NewBatch
    <2>2. \A j \in Step : \A h \in take[j] : \A k \in Step :
             row'[<<s, k>>].states[h] \notin Held
      BY <1>5, <2>1, NewBatchTaken
    <2>3. \A j \in Step : \A h \in take[j] : \A e \in Execution :
             Used(e) /\ owner[e[1]] = s => h \notin targets[e]
      <3>1. \A j \in Step : \A h \in take[j] : row[g].states[h] = "ready"
        BY DEF FlushTake, HostsIn
      <3>2. g = <<s, g[2]>> /\ g[2] \in Step
        BY DEF Group
      <3> HIDE DEF take, s, b
      <3> QED
        BY <3>1, <3>2 DEF TakenForGood, Held
    <2> HIDE DEF take, s, b
    <2> QED
      BY <1>3, <2>1, <2>2, <2>3
  <1> QED
    BY <1>0, <1>2, <1>4, <1>5, BatchCases

LEMMA InitBatchesInv == Init => BatchesInv
  <1>1. Init => ReadyFirst /\ HeldOnceAndFound
    BY DEF Init, ReadyFirst, HeldOnceAndFound, HeldIsFound, SeenIsSuperseded, NoRow,
           HostsIn, Group
  <1>2. Init => TakenForGood /\ SameBatch
    BY DEF Init, TakenForGood, SameBatch, Used
  <1> QED
    BY <1>1, <1>2, InitExecutionInv DEF BatchesInv

LEMMA NextBatchesInv == BatchesInv /\ [Next]_vars => BatchesInv'
  <1> SUFFICES ASSUME BatchesInv, [Next]_vars
               PROVE  BatchesInv'
    OBVIOUS
  <1> USE DEF BatchesInv
  <1>1. ExecutionInv' /\ TypeOK
    BY NextExecutionInv DEF ExecutionInv
  <1>2. HeldOnceAndFound'
    BY <1>1, NextHeldIsFound, NextSeenIsSuperseded DEF HeldOnceAndFound
  <1>3. ReadyFirst'
    BY NextReadyFirst DEF HeldOnceAndFound
  <1> QED
    BY <1>1, <1>2, <1>3, NextTakenForGood

=============================================================================
