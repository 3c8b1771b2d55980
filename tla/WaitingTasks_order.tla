------------------------- MODULE WaitingTasks_order -------------------------
(***************************************************************************)
(* Theorems of WaitingTasks about the executions and the workers: an       *)
(* execution is claimed once, a host goes through the playbooks of its run *)
(* in order and by one worker at a time, an open host has an execution     *)
(* that has still to report, and the runs implement HostAssignments.       *)
(* Where a theorem needs that no message is repeated or lost, or that      *)
(* nobody cancels, its assumption says so.                                 *)
(***************************************************************************)
EXTENDS WaitingTasks_proofs

-----------------------------------------------------------------------------
(* Work.  Whatever is sent, taken or followed was queued once, and whoever *)
(* has claimed an execution is alone in having claimed it.                 *)

Begun(e) == status[e] \notin {"none", "pending"}

\* What a busy worker knows of the execution it carries out, exec, and of the
\* one it has come to in the chain, at.
WorkerInv(w) ==
    ~Doing(w, "idle") =>
       /\ Used(worker[w].exec) /\ Begun(worker[w].exec)
       /\ Used(worker[w].at) /\ worker[w].at[1] = worker[w].exec[1]
       /\ ~Doing(w, "claim") => Begun(worker[w].at)
       /\ worker[w].pc \in {"taken", "body", "ended"} => worker[w].at = worker[w].exec

WorkInv ==
    /\ \A e \in Execution : status[e] = "none" <=> ~Used(e)
    /\ \A e \in Execution : sent[e] > 0 => Begun(e)
    /\ \A w \in Worker : WorkerInv(w)
    /\ ClaimedOnce

\* A step that changes at most the status of executions that exist.
LEMMA WorkFrame ==
    ASSUME TypeOK, WorkInv, SameExecutions,
           \A e \in Execution : \/ status'[e] = status[e]
                                \/ Used(e) /\ status'[e] \notin {"none", "pending"},
           \A e \in Execution : sent'[e] > 0 => sent[e] > 0 \/ Begun(e),
           \A w \in Worker : worker'[w] = worker[w] \/ WorkerInv(w)',
           ClaimedOnce'
    PROVE  WorkInv'
  <1>1. \A e \in Execution : Used(e)' <=> Used(e)
    BY DEF SameExecutions, Used
  <1>2. \A e \in Execution : status'[e] = "none" <=> ~Used(e)'
    BY <1>1 DEF WorkInv
  <1>3. \A e \in Execution : Begun(e) => Begun(e)'
    BY DEF Begun
  <1>4. \A e \in Execution : sent'[e] > 0 => Begun(e)'
    BY <1>3 DEF WorkInv
  <1>5. \A w \in Worker : WorkerInv(w)'
    <2> SUFFICES ASSUME NEW w \in Worker, worker'[w] = worker[w]
                 PROVE  WorkerInv(w)'
      OBVIOUS
    <2>1. CASE Doing(w, "idle")
      BY <2>1 DEF WorkerInv, Doing
    <2>2. CASE ~Doing(w, "idle")
      <3>1. worker[w].exec \in Execution /\ worker[w].at \in Execution
        BY <2>2, BusyType DEF Doing
      <3>2. WorkerInv(w)
        BY DEF WorkInv
      <3> QED
        BY <2>2, <3>1, <3>2, <1>1, <1>3 DEF WorkerInv, Doing
    <2> QED
      BY <2>1, <2>2
  <1> QED
    BY <1>2, <1>4, <1>5 DEF WorkInv

\* A step in which no worker claims anything.
LEMMA NoNewClaim ==
    ASSUME ClaimedOnce, \A w \in Worker : worker'[w] = worker[w] \/ ~Doing(w, "grant")'
    PROVE  ClaimedOnce'
  BY DEF ClaimedOnce, Doing

\* A worker after it has gone to its next step, and after it has come to rest.
LEMMA GotoAt ==
    ASSUME TypeOK, NEW w \in Worker, NEW pc, NEW e, NEW at, Goto(w, pc, e, at)
    PROVE  /\ worker'[w] = [pc |-> pc, exec |-> e, at |-> at]
           /\ \A v \in Worker : v # w => worker'[v] = worker[v]
  BY DEF Goto, TypeOK

LEMMA RestAt ==
    ASSUME TypeOK, NEW w \in Worker, Rest(w)
    PROVE  /\ Doing(w, "idle")' /\ WorkerInv(w)'
           /\ \A v \in Worker : v # w => worker'[v] = worker[v]
  BY DEF Rest, TypeOK, Doing, WorkerInv, Idle

\* A message is taken: its execution has begun.
LEMMA DeliverWorkInv ==
    ASSUME TypeOK, WorkInv, NEW w \in Worker, NEW e \in Execution, Deliver(w, e),
           UNCHANGED <<owner, targets, status>>
    PROVE  WorkInv'
  <1>1. SameExecutions
    BY DEF SameExecutions
  <1>2. Begun(e) /\ Used(e) /\ Used(e)' /\ Begun(e)'
    BY DEF Deliver, WorkInv, Begun, Used
  <1>3. /\ worker'[w] = [pc |-> "taken", exec |-> e, at |-> e]
        /\ \A v \in Worker : v # w => worker'[v] = worker[v]
    BY GotoAt DEF Deliver
  <1>4. WorkerInv(w)'
    BY <1>2, <1>3 DEF WorkerInv, Doing
  <1>5. ClaimedOnce'
    BY <1>3, NoNewClaim DEF WorkInv, Doing
  <1>6. \A f \in Execution : sent'[f] > 0 => sent[f] > 0 \/ Begun(f)
    BY <1>2 DEF Deliver, TypeOK
  <1>7. \A v \in Worker : worker'[v] = worker[v] \/ WorkerInv(v)'
    BY <1>3, <1>4
  <1> QED
    BY <1>1, <1>5, <1>6, <1>7, WorkFrame

\* The steps of an executor, its result and the step to its follower.
LEMMA RunWorkInv ==
    ASSUME TypeOK, WorkInv, NEW w \in Worker,
           Run(w) \/ BodyFails(w) \/ \E outcome \in {"success", "failed"} : End(w, outcome)
    PROVE  WorkInv'
  <1>0. ~Doing(w, "idle")
    BY DEF Run, End, BodyFails, Doing
  <1> PICK e \in Execution : e = worker[w].exec
    BY <1>0, BusyType DEF Doing
  <1>1. Used(e) /\ Begun(e)
    BY <1>0 DEF WorkInv, WorkerInv
  <1>2. SameExecutions /\ sent' = sent
    BY DEF SameExecutions, Run, End, BodyFails, execVars
  <1>3. \/ Goto(w, "body", e, e) /\ status' = [status EXCEPT ![e] = "running"]
        \/ /\ Goto(w, "ended", e, e)
           /\ \/ status' = status
              \/ \E outcome \in {"success", "failed"} : status' = [status EXCEPT ![e] = outcome]
    BY DEF Run, End, BodyFails, execVars
  <1>4. \A f \in Execution : \/ status'[f] = status[f]
                             \/ f = e /\ status'[f] \notin {"none", "pending"}
    BY <1>3 DEF TypeOK
  <1>5. PICK pc \in {"body", "ended"} :
           /\ worker'[w] = [pc |-> pc, exec |-> e, at |-> e]
           /\ \A v \in Worker : v # w => worker'[v] = worker[v]
    BY <1>3, GotoAt
  <1>6. Used(e)' /\ Begun(e)'
    BY <1>1, <1>2, <1>4 DEF SameExecutions, Used, Begun
  <1>7. WorkerInv(w)'
    BY <1>5, <1>6 DEF WorkerInv, Doing
  <1>8. ClaimedOnce'
    BY <1>5, NoNewClaim DEF WorkInv, Doing
  <1>9. \A v \in Worker : worker'[v] = worker[v] \/ WorkerInv(v)'
    BY <1>5, <1>7
  <1>10. \A f \in Execution : \/ status'[f] = status[f]
                              \/ Used(f) /\ status'[f] \notin {"none", "pending"}
    BY <1>1, <1>4
  <1> QED
    BY <1>2, <1>8, <1>9, <1>10, WorkFrame
LEMMA RecordWorkInv ==
    ASSUME TypeOK, WorkInv, NEW w \in Worker,
           \E own \in [Host -> Reported] : Record(w, own)
    PROVE  WorkInv'
  <1>0. ~Doing(w, "idle")
    BY DEF Record, Doing
  <1> PICK e \in Execution : e = worker[w].exec
    BY <1>0, BusyType DEF Doing
  <1>1. Used(e) /\ Begun(e)
    BY <1>0 DEF WorkInv, WorkerInv
  <1>2. SameExecutions /\ sent' = sent /\ status' = status /\ Goto(w, "follow", e, e)
    BY DEF SameExecutions, Record, execVars
  <1>3. /\ worker'[w] = [pc |-> "follow", exec |-> e, at |-> e]
        /\ \A v \in Worker : v # w => worker'[v] = worker[v]
    BY <1>2, GotoAt
  <1>4. WorkerInv(w)'
    BY <1>1, <1>2, <1>3 DEF WorkerInv, Doing, SameExecutions, Used, Begun
  <1>5. ClaimedOnce'
    BY <1>3, NoNewClaim DEF WorkInv, Doing
  <1>6. \A v \in Worker : worker'[v] = worker[v] \/ WorkerInv(v)'
    BY <1>3, <1>4
  <1> QED
    BY <1>2, <1>5, <1>6, WorkFrame

\* A worker that comes to rest, whatever messages are lost with it.
LEMMA RestWorkInv ==
    ASSUME TypeOK, WorkInv, NEW w \in Worker, Rest(w), SameExecutions,
           UNCHANGED <<status, sent>>
    PROVE  WorkInv'
  <1>1. /\ Doing(w, "idle")' /\ WorkerInv(w)'
        /\ \A v \in Worker : v # w => worker'[v] = worker[v]
    BY RestAt
  <1>2. ClaimedOnce'
    BY <1>1, NoNewClaim DEF WorkInv, Doing
  <1>3. \A v \in Worker : worker'[v] = worker[v] \/ WorkerInv(v)'
    BY <1>1
  <1> QED
    BY <1>2, <1>3, WorkFrame

\* The follower of an execution that is used is used itself.
LEMMA FollowerUsed ==
    ASSUME TypeOK, NEW e \in Execution, Used(e), HasFollower(e)
    PROVE  /\ Follower(e) \in Execution /\ Used(Follower(e)) /\ Follower(e)[1] = e[1]
           /\ IsFollower(Follower(e), e)
  <1>1. Follower(e) \in Execution /\ IsFollower(Follower(e), e)
    BY FollowerType
  <1> QED
    BY <1>1 DEF IsFollower, Used

LEMMA FollowWorkInv ==
    ASSUME TypeOK, WorkInv, NEW w \in Worker, Follow(w)
    PROVE  WorkInv'
  <1>0. ~Doing(w, "idle") /\ SameExecutions /\ UNCHANGED <<status, sent>>
    BY DEF Follow, Doing, SameExecutions, execVars
  <1> PICK e \in Execution : e = worker[w].exec
    BY <1>0, BusyType DEF Doing
  <1> PICK at \in Execution : at = worker[w].at
    BY <1>0, BusyType DEF Doing
  <1>1. Used(e) /\ Begun(e) /\ Used(at) /\ at[1] = e[1]
    BY <1>0 DEF WorkInv, WorkerInv
  <1>2. CASE ~HasFollower(at)
    <2>1. Rest(w)
      BY <1>2 DEF Follow
    <2> QED
      BY <1>0, <2>1, RestWorkInv
  <1>3. CASE HasFollower(at)
    <2> PICK f \in Execution : f = Follower(at)
      BY <1>1, <1>3, FollowerUsed
    <2>1. Used(f) /\ f[1] = e[1]
      BY <1>1, <1>3, FollowerUsed
    <2>2. \/ status[f] = "cancelled" /\ Goto(w, "follow", e, f)
          \/ Goto(w, "claim", e, f)
      BY <1>3 DEF Follow
    <2>3. PICK pc \in {"follow", "claim"} :
             /\ pc = "follow" => status[f] = "cancelled"
             /\ worker'[w] = [pc |-> pc, exec |-> e, at |-> f]
             /\ \A v \in Worker : v # w => worker'[v] = worker[v]
      BY <2>2, GotoAt
    <2>4. WorkerInv(w)'
      BY <1>0, <1>1, <2>1, <2>3 DEF WorkerInv, Doing, SameExecutions, Used, Begun
    <2>5. ClaimedOnce'
      BY <2>3, NoNewClaim DEF WorkInv, Doing
    <2>6. \A v \in Worker : worker'[v] = worker[v] \/ WorkerInv(v)'
      BY <2>3, <2>4
    <2> QED
      BY <1>0, <2>5, <2>6, WorkFrame
  <1> QED
    BY <1>2, <1>3

\* The conditional UPDATE: a worker that claims an execution finds it pending,
\* so it has not begun and no other worker has claimed it.
LEMMA ClaimWorkInv ==
    ASSUME TypeOK, WorkInv, NEW w \in Worker, Claim(w)
    PROVE  WorkInv'
  <1>0. ~Doing(w, "idle") /\ Doing(w, "claim") /\ SameExecutions /\ sent' = sent
    BY DEF Claim, Doing, SameExecutions
  <1> PICK e \in Execution : e = worker[w].exec
    BY <1>0, BusyType DEF Doing
  <1> PICK f \in Execution : f = worker[w].at
    BY <1>0, BusyType DEF Doing
  <1>1. Used(e) /\ Begun(e) /\ Used(f) /\ f[1] = e[1]
    BY <1>0 DEF WorkInv, WorkerInv
  <1>2. CASE status[f] # "pending"
    BY <1>0, <1>2, RestWorkInv DEF Claim
  <1>3. CASE status[f] = "pending"
    <2>1. status' = [status EXCEPT ![f] = "queued"] /\ Goto(w, "grant", e, f)
      BY <1>3 DEF Claim
    <2>2. /\ worker'[w] = [pc |-> "grant", exec |-> e, at |-> f]
          /\ \A v \in Worker : v # w => worker'[v] = worker[v]
      BY <2>1, GotoAt
    <2>3. \A x \in Execution : \/ status'[x] = status[x]
                               \/ Used(x) /\ status'[x] \notin {"none", "pending"}
      BY <1>1, <2>1 DEF TypeOK
    <2>4. Begun(f)' /\ Begun(e)' /\ Used(e)' /\ Used(f)'
      BY <1>0, <1>1, <2>1 DEF Begun, SameExecutions, Used, TypeOK
    <2>5. WorkerInv(w)'
      BY <1>1, <2>2, <2>4 DEF WorkerInv, Doing
    <2>6. ASSUME NEW v \in Worker, v # w, Doing(v, "grant")'
          PROVE  worker'[v].at # f
      <3>1. Doing(v, "grant") /\ worker'[v].at = worker[v].at
        BY <2>2, <2>6 DEF Doing
      <3>2. Begun(worker[v].at)
        BY <3>1 DEF WorkInv, WorkerInv, Doing
      <3> QED
        BY <1>3, <3>1, <3>2 DEF Begun
    <2>7. ClaimedOnce'
      <3> SUFFICES ASSUME NEW u \in Worker, NEW v \in Worker, u # v,
                          Doing(u, "grant")', Doing(v, "grant")'
                   PROVE  worker'[u].at # worker'[v].at
        BY DEF ClaimedOnce
      <3>1. CASE u = w \/ v = w
        BY <2>2, <2>6, <3>1
      <3>2. CASE u # w /\ v # w
        BY <2>2, <3>2 DEF WorkInv, ClaimedOnce, Doing
      <3> QED
        BY <3>1, <3>2
    <2>8. \A v \in Worker : worker'[v] = worker[v] \/ WorkerInv(v)'
      BY <2>2, <2>5
    <2> QED
      BY <1>0, <2>3, <2>7, <2>8, WorkFrame
  <1> QED
    BY <1>2, <1>3

LEMMA GrantWorkInv ==
    ASSUME TypeOK, WorkInv, NEW w \in Worker, Grant(w)
    PROVE  WorkInv'
  <1>0. ~Doing(w, "idle") /\ Doing(w, "grant") /\ SameExecutions /\ status' = status /\ Rest(w)
    BY DEF Grant, Doing, SameExecutions
  <1> PICK f \in Execution : f = worker[w].at
    BY <1>0, BusyType DEF Doing
  <1>1. Begun(f)
    BY <1>0 DEF WorkInv, WorkerInv, Doing
  <1>2. /\ Doing(w, "idle")' /\ WorkerInv(w)'
        /\ \A v \in Worker : v # w => worker'[v] = worker[v]
    BY <1>0, RestAt
  <1>3. ClaimedOnce'
    BY <1>2, NoNewClaim DEF WorkInv, Doing
  <1>4. \A v \in Worker : worker'[v] = worker[v] \/ WorkerInv(v)'
    BY <1>2
  <1>5. \A x \in Execution : sent'[x] > 0 => sent[x] > 0 \/ Begun(x)
    <2>1. sent' = [sent EXCEPT ![f] = @ + 1]
      BY DEF Grant
    <2> QED
      BY <1>1, <2>1 DEF TypeOK
  <1> QED
    BY <1>0, <1>3, <1>4, <1>5, WorkFrame

\* The steps that leave the workers alone.
LEMMA IdleWorkInv ==
    ASSUME TypeOK, WorkInv, SameExecutions, worker' = worker,
           \A e \in Execution : \/ status'[e] = status[e]
                                \/ status[e] = "pending" /\ status'[e] = "cancelled",
           \A e \in Execution : sent'[e] > 0 => sent[e] > 0
    PROVE  WorkInv'
  <1>1. ClaimedOnce'
    BY DEF WorkInv, ClaimedOnce, Doing
  <1>2. \A e \in Execution : \/ status'[e] = status[e]
                             \/ Used(e) /\ status'[e] \notin {"none", "pending"}
    BY DEF WorkInv
  <1> QED
    BY <1>1, <1>2, WorkFrame

LEMMA NewBatchWorkInv ==
    ASSUME ExecutionInv, WorkInv, worker' = worker,
           NEW b, NEW s, NEW take, NEW first, NewBatch(b, s, take, first)
    PROVE  WorkInv'
  <1>0. TypeOK
    BY DEF ExecutionInv
  <1>1. \A e \in Execution :
           /\ e[1] = b => /\ ~Used(e) /\ (Used(e)' <=> take[e[2]] # {})
           /\ e[1] # b => (Used(e)' <=> Used(e))
    BY <1>0, NewBatchAt DEF Used
  <1>2. \A e \in Execution :
           status'[e] = IF e[1] = b /\ take[e[2]] # {}
                        THEN IF e[2] = first THEN "queued" ELSE "pending"
                        ELSE status[e]
    BY DEF NewBatch, AddBatch
  <1>3. \A e \in Execution : status'[e] = "none" <=> ~Used(e)'
    BY <1>1, <1>2 DEF WorkInv
  <1>4. \A e \in Execution : Used(e) /\ Begun(e) => Used(e)' /\ Begun(e)'
    BY <1>1, <1>2 DEF Begun
  <1>5. ASSUME NEW e \in Execution, sent'[e] > 0
        PROVE  Begun(e)'
    <2>1. CASE e = <<b, first>>
      BY <1>2, <2>1 DEF NewBatch, Begun
    <2>2. CASE e # <<b, first>>
      <3>1. sent[e] > 0
        BY <1>0, <1>5, <2>2 DEF NewBatch, AddBatch, TypeOK
      <3>2. Used(e) /\ Begun(e)
        BY <3>1 DEF WorkInv, Begun
      <3> QED
        BY <1>4, <3>2
    <2> QED
      BY <2>1, <2>2
  <1>6. \A w \in Worker : WorkerInv(w)'
    <2> SUFFICES ASSUME NEW w \in Worker, ~Doing(w, "idle")
                 PROVE  WorkerInv(w)'
      BY DEF WorkerInv, Doing
    <2>1. worker[w].exec \in Execution /\ worker[w].at \in Execution
      BY <1>0, BusyType DEF Doing
    <2>2. WorkerInv(w)
      BY DEF WorkInv
    <2>3. Used(worker[w].exec)' /\ Begun(worker[w].exec)' /\ Used(worker[w].at)'
      BY <1>1, <1>4, <2>1, <2>2 DEF WorkerInv
    <2>4. Begun(worker[w].at) => Begun(worker[w].at)'
      BY <1>4, <2>1, <2>2 DEF WorkerInv
    <2> QED
      BY <2>2, <2>3, <2>4 DEF WorkerInv, Doing
  <1>7. ClaimedOnce'
    BY DEF WorkInv, ClaimedOnce, Doing
  <1> QED
    BY <1>3, <1>5, <1>6, <1>7 DEF WorkInv
\* Cancels, lost and repeated messages, and the steps outside the worker.
LEMMA OutsideWorkInv ==
    ASSUME TypeOK, WorkInv, SameExecutions,
           \/ CancelCommit
           \/ \E e \in Execution : CancelExecution(e) \/ LoseExecution(e) \/ Redeliver(e)
           \/ UNCHANGED <<status, sent, worker>>
    PROVE  WorkInv'
  <1>1. worker' = worker
    BY DEF CancelCommit, CancelExecution, LoseExecution, Redeliver
  <1>2. \A e \in Execution : \/ status'[e] = status[e]
                             \/ status[e] = "pending" /\ status'[e] = "cancelled"
    BY DEF CancelCommit, CancelExecution, LoseExecution, Redeliver, TypeOK
  <1>3. \A e \in Execution : sent'[e] > 0 => sent[e] > 0
    BY DEF CancelCommit, CancelExecution, LoseExecution, Redeliver, TypeOK
  <1> QED
    BY <1>1, <1>2, <1>3, IdleWorkInv

LEMMA NextWorkInv ==
    ASSUME ExecutionInv, WorkInv, [Next]_vars
    PROVE  WorkInv'
  <1>0. TypeOK
    BY DEF ExecutionInv
  <1>1. CASE \E w \in Worker : Work(w)
    <2> PICK w \in Worker : Work(w)
      BY <1>1
    <2>1. CASE \E e \in Execution : Start(w, e)
      BY <1>0, <2>1, DeliverWorkInv DEF Start
    <2>2. CASE Run(w) \/ \E outcome \in {"success", "failed"} : End(w, outcome)
      BY <1>0, <2>2, RunWorkInv
    <2>3. CASE \E own \in [Host -> Reported] : Record(w, own)
      BY <1>0, <2>3, RecordWorkInv
    <2>4. CASE Follow(w)
      BY <1>0, <2>4, FollowWorkInv
    <2>5. CASE Claim(w)
      BY <1>0, <2>5, ClaimWorkInv
    <2>6. CASE Grant(w)
      BY <1>0, <2>6, GrantWorkInv
    <2> QED
      BY <2>1, <2>2, <2>3, <2>4, <2>5, <2>6 DEF Work
  <1>2. CASE Fault
    <2>1. ASSUME NEW w \in Worker, NEW e \in Execution, StartFails(w, e)
          PROVE  WorkInv'
      BY <1>0, <2>1, DeliverWorkInv DEF StartFails
    <2>2. ASSUME NEW w \in Worker, RecordFails(w) \/ Crash(w)
          PROVE  WorkInv'
      BY <1>0, <2>2, RestWorkInv DEF RecordFails, Crash, SameExecutions, execVars
    <2>5. ASSUME NEW w \in Worker, BodyFails(w)
          PROVE  WorkInv'
      BY <1>0, <2>5, RunWorkInv
    <2>3. CASE \E g \in Group : LoseFlush(g)
      BY <1>0, <2>3, OutsideWorkInv DEF LoseFlush, SameExecutions, execVars
    <2>4. CASE \E e \in Execution : LoseExecution(e) \/ Redeliver(e)
      BY <1>0, <2>4, OutsideWorkInv DEF LoseExecution, Redeliver, SameExecutions
    <2> QED
      BY <1>2, <2>1, <2>2, <2>3, <2>4, <2>5 DEF Fault
  <1>3. CASE Request
    <2>1. ASSUME NEW plan \in Plan, NEW hosts \in SUBSET Host, NEW online \in SUBSET Host,
                 NEW defer \in BOOLEAN, NEW seen \in [Step -> 0 .. made],
                 Create(plan, hosts, online, defer, seen)
          PROVE  WorkInv'
      <3>1. worker' = worker
        BY <2>1 DEF Create
      <3>2. CASE online = {}
        BY <1>0, <2>1, <3>1, <3>2, OutsideWorkInv DEF Create, SameExecutions, execVars
      <3>3. CASE online # {}
        BY <1>0, <2>1, <3>1, <3>3, CreateBatch, NewBatchWorkInv
      <3> QED
        BY <3>2, <3>3
    <2>2. CASE \E g \in Group : CancelRead(g)
      BY <1>0, <2>2, OutsideWorkInv DEF CancelRead, SameExecutions, execVars
    <2>3. CASE CancelCommit
      BY <1>0, <2>3, OutsideWorkInv DEF CancelCommit, SameExecutions
    <2>4. CASE \E e \in Execution : CancelExecution(e)
      BY <1>0, <2>4, OutsideWorkInv DEF CancelExecution, SameExecutions
    <2> QED
      BY <1>3, <2>1, <2>2, <2>3, <2>4 DEF Request
  <1>4. ASSUME NEW g \in Group, Flush(g)
        PROVE  WorkInv'
    <2>1. worker' = worker
      BY <1>4 DEF Flush
    <2>2. CASE HostsIn(row[g], {"ready"}) = {}
      BY <1>0, <1>4, <2>1, <2>2, OutsideWorkInv DEF Flush, SameExecutions, execVars
    <2>3. CASE HostsIn(row[g], {"ready"}) # {}
      BY <1>0, <1>4, <2>1, <2>3, FlushBatch, NewBatchWorkInv
    <2> QED
      BY <2>2, <2>3
  <1>5. CASE (\E h \in Host : Release(h)) \/ (\E c \in Sequence : Expire(c))
    BY <1>0, <1>5, OutsideWorkInv DEF Release, Expire, SameExecutions, execVars
  <1>6. CASE UNCHANGED vars
    BY <1>0, <1>6, OutsideWorkInv DEF vars, SameExecutions
  <1> QED
    BY <1>1, <1>2, <1>3, <1>4, <1>5, <1>6 DEF Next

LEMMA InitWorkInv == Init => WorkInv
  BY DEF Init, WorkInv, WorkerInv, ClaimedOnce, Used, Doing, Idle, Execution

\* However often an execution runs, by repeated messages or after crashes, two
\* workers never hold the claim of one follower.
THEOREM FollowerIsClaimedOnce == Spec => []ClaimedOnce
  <1> DEFINE Inv == ExecutionInv /\ WorkInv
  <1>1. Init => Inv
    BY InitExecutionInv, InitWorkInv
  <1>2. Inv /\ [Next]_vars => Inv'
    BY NextExecutionInv, NextWorkInv
  <1>3. Inv => ClaimedOnce
    BY DEF WorkInv
  <1> QED
    BY <1>1, <1>2, <1>3, PTL DEF Spec
-----------------------------------------------------------------------------
(* The order of a chain.  The theorems below assume MaxRedeliveries = 0: an *)
(* execution that is delivered again after its followers were sent runs     *)
(* beside them.  Otherwise an execution that is under way is one token: its *)
(* message, or the one worker that has taken or claimed it.                 *)

Earlier(e, f) == e[1] = f[1] /\ e[2] < f[2] /\ Used(e)

\* The executions before e in its batch are over.
EarlierOver(e) == \A x \in Execution : Earlier(x, e) => Over(x)

\* What a worker knows of the status of the execution it is busy with.
StatusKnown(w) ==
    /\ Doing(w, "taken") => status[worker[w].exec] = "queued"
    /\ Doing(w, "body") => status[worker[w].exec] = "running"
    /\ Doing(w, "ended") => /\ Over(worker[w].exec)
                            /\ status[worker[w].exec] # "cancelled"
    /\ Doing(w, "grant") => status[worker[w].at] = "queued"
    /\ Doing(w, "follow") => Over(worker[w].at)
    /\ worker[w].pc \in {"follow", "claim"} => EarlierOver(worker[w].at)

OneToken ==
    /\ \A e \in Execution : sent[e] # 0 =>
          sent[e] = 1 /\ status[e] = "queued" /\ \A w \in Worker : ~Carries(w, e)
    /\ \A v, w \in Worker : \A e \in Execution : Carries(v, e) /\ Carries(w, e) => v = w

BatchOrder ==
    \A e \in Execution : status[e] \notin {"none", "pending", "cancelled"} => EarlierOver(e)

OrderInv == OneToken /\ BatchOrder /\ \A w \in Worker : StatusKnown(w)

\* Nothing that is over starts again, so what was passed over stays over.
LEMMA EarlierStaysOver ==
    ASSUME SameExecutions, \A e \in Execution : Over(e) => Over(e)',
           NEW e \in Execution, EarlierOver(e)
    PROVE  EarlierOver(e)'
  BY DEF EarlierOver, Earlier, SameExecutions, Used

\* What another worker knows stays true when x is none of its executions.
LEMMA StatusStaysKnown ==
    ASSUME TypeOK, SameExecutions, NEW x \in Execution,
           \A e \in Execution : e # x => status'[e] = status[e],
           ~Over(x), \A e \in Execution : Over(e) => Over(e)',
           NEW v \in Worker, worker'[v] = worker[v], StatusKnown(v), ~Carries(v, x)
    PROVE  StatusKnown(v)'
  <1>1. CASE Doing(v, "idle")
    BY <1>1 DEF StatusKnown, Doing
  <1>2. CASE ~Doing(v, "idle")
    <2>1. worker[v].exec \in Execution /\ worker[v].at \in Execution
      BY <1>2, BusyType DEF Doing
    <2>2. \A e \in Execution : Over(e) => Over(e)' /\ status'[e] = status[e]
      OBVIOUS
    <2>3. worker[v].pc \in {"follow", "claim"} => EarlierOver(worker[v].at)'
      <3> SUFFICES ASSUME worker[v].pc \in {"follow", "claim"}
                   PROVE  EarlierOver(worker[v].at)'
        OBVIOUS
      <3> PICK at \in Execution : at = worker[v].at
        BY <2>1
      <3>1. EarlierOver(at)
        BY DEF StatusKnown
      <3>2. EarlierOver(at)'
        BY <2>2, <3>1, EarlierStaysOver
      <3> QED
        BY <3>2
    <2>4. /\ Doing(v, "taken") => status'[worker[v].exec] = "queued"
          /\ Doing(v, "body") => status'[worker[v].exec] = "running"
          /\ Doing(v, "grant") => status'[worker[v].at] = "queued"
      BY <2>1 DEF StatusKnown, Carries, Doing
    <2>5. /\ Doing(v, "ended") => /\ Over(worker[v].exec)'
                                  /\ status'[worker[v].exec] # "cancelled"
          /\ Doing(v, "follow") => Over(worker[v].at)'
      <3> PICK e \in Execution, at \in Execution : e = worker[v].exec /\ at = worker[v].at
        BY <2>1
      <3>1. /\ Doing(v, "ended") => Over(e)' /\ status'[e] # "cancelled"
            /\ Doing(v, "follow") => Over(at)'
        BY <2>2 DEF StatusKnown
      <3> QED
        BY <3>1
    <2> QED
      BY <2>3, <2>4, <2>5 DEF StatusKnown, Doing
  <1> QED
    BY <1>1, <1>2

\* A step of worker w with execution x, which no other worker carries.
LEMMA OrderStep ==
    ASSUME TypeOK, OrderInv, SameExecutions, NEW w \in Worker, NEW x \in Execution,
           \A v \in Worker : v # w => worker'[v] = worker[v] /\ ~Carries(v, x),
           \A e \in Execution : e # x => /\ status'[e] = status[e] /\ sent'[e] = sent[e]
                                         /\ ~Carries(w, e)',
           ~Over(x),
           sent'[x] # 0 => sent'[x] = 1 /\ status'[x] = "queued" /\ ~Carries(w, x)',
           status'[x] \notin {"none", "pending", "cancelled"} => EarlierOver(x),
           StatusKnown(w)'
    PROVE  OrderInv'
  <1>2. \A v \in Worker : v # w => \A e \in Execution : Carries(v, e)' <=> Carries(v, e)
    BY DEF Carries
  <1>0. \A e \in Execution : Over(e) => Over(e)'
    BY <1>2 DEF Over, UnderWay
  <1>1. \A v \in Worker : StatusKnown(v)'
    BY <1>0, StatusStaysKnown DEF OrderInv
  <1>3. OneToken'
    <2>1. ASSUME NEW e \in Execution, sent'[e] # 0
          PROVE  sent'[e] = 1 /\ status'[e] = "queued" /\ \A v \in Worker : ~Carries(v, e)'
      BY <1>2, <2>1 DEF OrderInv, OneToken
    <2>2. ASSUME NEW u \in Worker, NEW v \in Worker, NEW e \in Execution,
                 Carries(u, e)', Carries(v, e)'
          PROVE  u = v
      BY <1>2, <2>2 DEF OrderInv, OneToken
    <2> QED
      BY <2>1, <2>2 DEF OneToken
  <1>4. BatchOrder'
    <2> SUFFICES ASSUME NEW e \in Execution, status'[e] \notin {"none", "pending", "cancelled"}
                 PROVE  EarlierOver(e)'
      BY DEF BatchOrder
    <2>1. EarlierOver(e)
      BY DEF OrderInv, BatchOrder
    <2> QED
      BY <1>0, <2>1, EarlierStaysOver
  <1> QED
    BY <1>1, <1>3, <1>4 DEF OrderInv

\* A step of a worker that lays down what it carried.
LEMMA OrderLayDown ==
    ASSUME TypeOK, OrderInv, SameExecutions, status' = status, sent' = sent,
           NEW w \in Worker, \A v \in Worker : v # w => worker'[v] = worker[v],
           \A e \in Execution : ~Carries(w, e)',
           StatusKnown(w)'
    PROVE  OrderInv'
  <1>3. \A v \in Worker : v # w => \A e \in Execution : Carries(v, e)' <=> Carries(v, e)
    BY DEF Carries
  <1>0. \A e \in Execution : Over(e) => Over(e)'
    BY <1>3 DEF Over, UnderWay
  <1>1. \A e \in Execution : EarlierOver(e) => EarlierOver(e)'
    BY <1>0, EarlierStaysOver
  <1>2. ASSUME NEW v \in Worker, v # w
        PROVE  StatusKnown(v)'
    <2>1. CASE Doing(v, "idle")
      BY <1>2, <2>1 DEF StatusKnown, Doing
    <2>2. CASE ~Doing(v, "idle")
      <3>1. /\ worker[v].at \in Execution /\ worker[v].exec \in Execution
            /\ worker'[v] = worker[v] /\ StatusKnown(v)
        BY <1>2, <2>2, BusyType DEF Doing, OrderInv
      <3> PICK at \in Execution, e \in Execution : at = worker[v].at /\ e = worker[v].exec
        BY <3>1
      <3>2. /\ EarlierOver(at) => EarlierOver(at)'
            /\ Over(at) => Over(at)'
            /\ Over(e) => Over(e)'
        BY <1>0, <1>1
      <3> QED
        BY <3>1, <3>2 DEF StatusKnown, Doing
    <2> QED
      BY <2>1, <2>2
  <1>4. OneToken'
    BY <1>3 DEF OrderInv, OneToken
  <1>5. BatchOrder'
    BY <1>1 DEF OrderInv, BatchOrder
  <1> QED
    BY <1>2, <1>4, <1>5 DEF OrderInv

\* A cancel, and a message that is lost.
LEMMA OrderOutside ==
    ASSUME TypeOK, OrderInv, SameExecutions, worker' = worker,
           \A e \in Execution : \/ status'[e] = status[e]
                                \/ status[e] = "pending" /\ status'[e] = "cancelled",
           \A e \in Execution : sent'[e] \in {sent[e], 0}
    PROVE  OrderInv'
  <1>1. \A e \in Execution : status[e] # "pending" => status'[e] = status[e]
    OBVIOUS
  <1>4. \A v \in Worker : \A e \in Execution : Carries(v, e)' <=> Carries(v, e)
    BY DEF Carries
  <1>0. \A e \in Execution : Over(e) => Over(e)'
    BY <1>1, <1>4 DEF Over, UnderWay
  <1>2. \A e \in Execution : EarlierOver(e) => EarlierOver(e)'
    BY <1>0, EarlierStaysOver
  <1>3. ASSUME NEW v \in Worker
        PROVE  StatusKnown(v)'
    <2>1. CASE Doing(v, "idle")
      BY <2>1 DEF StatusKnown, Doing
    <2>2. CASE ~Doing(v, "idle")
      <3>1. /\ worker[v].at \in Execution /\ worker[v].exec \in Execution
            /\ worker'[v] = worker[v] /\ StatusKnown(v)
        BY <2>2, BusyType DEF Doing, OrderInv
      <3> PICK at \in Execution, e \in Execution : at = worker[v].at /\ e = worker[v].exec
        BY <3>1
      <3>2. /\ EarlierOver(at) => EarlierOver(at)'
            /\ Over(at) => Over(at)'
            /\ Over(e) => Over(e)'
            /\ Over(e) => status'[e] = status[e]
        BY <1>0, <1>1, <1>2 DEF Over
      <3> QED
        BY <1>1, <3>1, <3>2 DEF StatusKnown, Doing
    <2> QED
      BY <2>1, <2>2
  <1>5. OneToken'
    BY <1>1, <1>4 DEF OrderInv, OneToken
  <1>6. BatchOrder'
    <2> SUFFICES ASSUME NEW e \in Execution, status'[e] \notin {"none", "pending", "cancelled"}
                 PROVE  EarlierOver(e)'
      BY DEF BatchOrder
    <2>1. status[e] = status'[e]
      OBVIOUS
    <2> QED
      BY <1>2, <2>1 DEF OrderInv, BatchOrder
  <1> QED
    BY <1>3, <1>5, <1>6 DEF OrderInv
\* Who carries an execution, and who else does not.
LEMMA CarriedAlone ==
    ASSUME OrderInv, NEW w \in Worker, NEW x \in Execution, Carries(w, x)
    PROVE  sent[x] = 0 /\ \A v \in Worker : v # w => ~Carries(v, x)
  BY DEF OrderInv, OneToken

\* Nobody carries an execution that is neither queued nor running.
LEMMA CarriedStatus ==
    ASSUME OrderInv, NEW x \in Execution, status[x] \notin {"queued", "running"}
    PROVE  sent[x] = 0 /\ \A v \in Worker : ~Carries(v, x)
  BY DEF OrderInv, OneToken, StatusKnown, Carries, Doing

LEMMA DeliverOrder ==
    ASSUME TypeOK, OrderInv, NEW w \in Worker, NEW x \in Execution, Deliver(w, x),
           UNCHANGED <<owner, targets, status>>
    PROVE  OrderInv'
  <1>1. sent[x] = 1 /\ status[x] = "queued" /\ \A v \in Worker : ~Carries(v, x)
    <2>1. sent[x] # 0
      BY DEF Deliver
    <2> QED
      BY <2>1 DEF OrderInv, OneToken
  <1>2. /\ worker'[w] = [pc |-> "taken", exec |-> x, at |-> x]
        /\ \A v \in Worker : v # w => worker'[v] = worker[v]
    BY GotoAt DEF Deliver
  <1>3. sent'[x] = 0 /\ \A e \in Execution : e # x => sent'[e] = sent[e]
    BY <1>1 DEF Deliver, TypeOK
  <1>4. StatusKnown(w)'
    BY <1>1, <1>2 DEF StatusKnown, Doing
  <1>5. \A e \in Execution : e # x => ~Carries(w, e)'
    BY <1>2 DEF Carries
  <1>6. EarlierOver(x)
    BY <1>1 DEF OrderInv, BatchOrder
  <1>7. SameExecutions
    BY DEF SameExecutions
  <1>8. ~Over(x)
    BY <1>1 DEF Over, UnderWay
  <1> QED
    BY <1>1, <1>2, <1>3, <1>4, <1>5, <1>6, <1>7, <1>8, OrderStep

LEMMA RunOrder ==
    ASSUME TypeOK, OrderInv, NEW w \in Worker, Run(w)
    PROVE  OrderInv'
  <1>0. Doing(w, "taken") /\ ~Doing(w, "idle") /\ SameExecutions /\ sent' = sent
    BY DEF Run, Doing, SameExecutions
  <1> PICK x \in Execution : x = worker[w].exec
    BY <1>0, BusyType DEF Doing
  <1>1. Carries(w, x) /\ status[x] = "queued"
    BY <1>0 DEF Carries, OrderInv, StatusKnown, Doing
  <1>2. sent[x] = 0 /\ \A v \in Worker : v # w => ~Carries(v, x)
    BY <1>1, CarriedAlone
  <1>3. status'[x] = "running" /\ \A e \in Execution : e # x => status'[e] = status[e]
    BY DEF Run, TypeOK
  <1>4. Goto(w, "body", x, x)
    BY DEF Run
  <1>5. /\ worker'[w] = [pc |-> "body", exec |-> x, at |-> x]
        /\ \A v \in Worker : v # w => worker'[v] = worker[v]
    BY <1>4, GotoAt
  <1>6. StatusKnown(w)'
    BY <1>3, <1>5 DEF StatusKnown, Doing
  <1>7. \A e \in Execution : e # x => ~Carries(w, e)'
    BY <1>5 DEF Carries
  <1>8. EarlierOver(x) /\ ~Over(x)
    BY <1>1 DEF OrderInv, BatchOrder, Over, UnderWay
  <1> QED
    BY <1>0, <1>2, <1>3, <1>5, <1>6, <1>7, <1>8, OrderStep

\* The end of an executor, with a result or without: nobody carries x any more.
LEMMA EndOrder ==
    ASSUME TypeOK, OrderInv, NEW w \in Worker,
           BodyFails(w) \/ \E outcome \in {"success", "failed"} : End(w, outcome)
    PROVE  OrderInv'
  <1>0. /\ worker[w].pc \in {"taken", "body"} /\ ~Doing(w, "idle") /\ SameExecutions
        /\ sent' = sent
    BY DEF End, BodyFails, Doing, SameExecutions, execVars
  <1> PICK x \in Execution : x = worker[w].exec
    BY <1>0, BusyType DEF Doing
  <1>1. Carries(w, x) /\ status[x] \in {"queued", "running"}
    BY <1>0 DEF Carries, OrderInv, StatusKnown, Doing
  <1>2. sent[x] = 0 /\ \A v \in Worker : v # w => ~Carries(v, x)
    BY <1>1, CarriedAlone
  <1>3. /\ status'[x] \notin {"none", "pending", "cancelled"}
        /\ \A e \in Execution : e # x => status'[e] = status[e]
    BY <1>1 DEF End, BodyFails, TypeOK, execVars
  <1>4. Goto(w, "ended", x, x)
    BY DEF End, BodyFails
  <1>5. /\ worker'[w] = [pc |-> "ended", exec |-> x, at |-> x]
        /\ \A v \in Worker : v # w => worker'[v] = worker[v]
    BY <1>4, GotoAt
  <1>7. \A e \in Execution : ~Carries(w, e)'
    BY <1>5 DEF Carries
  <1>9. Over(x)'
    BY <1>0, <1>2, <1>3, <1>5, <1>7 DEF Over, UnderWay, Carries
  <1>6. StatusKnown(w)'
    BY <1>3, <1>5, <1>9 DEF StatusKnown, Doing
  <1>8. EarlierOver(x) /\ ~Over(x)
    BY <1>1 DEF OrderInv, BatchOrder, Over, UnderWay
  <1> QED
    BY <1>0, <1>2, <1>3, <1>5, <1>6, <1>7, <1>8, OrderStep

LEMMA RecordOrder ==
    ASSUME TypeOK, OrderInv, NEW w \in Worker, NEW own \in [Host -> Reported], Record(w, own)
    PROVE  OrderInv'
  <1>0. Doing(w, "ended") /\ ~Doing(w, "idle") /\ SameExecutions /\ UNCHANGED <<status, sent>>
    BY DEF Record, Doing, SameExecutions, execVars
  <1> PICK x \in Execution : x = worker[w].exec
    BY <1>0, BusyType DEF Doing
  <1>1. Over(x) /\ EarlierOver(x)
    BY <1>0 DEF OrderInv, StatusKnown, BatchOrder, Doing, Over
  <1>2. Goto(w, "follow", x, x)
    BY DEF Record
  <1>3. /\ worker'[w] = [pc |-> "follow", exec |-> x, at |-> x]
        /\ \A v \in Worker : v # w => worker'[v] = worker[v]
    BY <1>2, GotoAt
  <1>6. \A e \in Execution : ~Carries(w, e)'
    BY <1>3 DEF Carries
  <1>7. \A e \in Execution : Over(e) => Over(e)'
    BY <1>0, <1>3, <1>6 DEF Over, UnderWay, Carries
  <1>4. EarlierOver(x)'
    BY <1>0, <1>1, <1>7, EarlierStaysOver
  <1>5. StatusKnown(w)'
    BY <1>1, <1>3, <1>4, <1>7 DEF StatusKnown, Doing
  <1> QED
    BY <1>0, <1>3, <1>5, <1>6, OrderLayDown

LEMMA RestOrder ==
    ASSUME TypeOK, OrderInv, SameExecutions, UNCHANGED <<status, sent>>,
           NEW w \in Worker, Rest(w)
    PROVE  OrderInv'
  <1>1. Doing(w, "idle")' /\ \A v \in Worker : v # w => worker'[v] = worker[v]
    BY DEF Rest, TypeOK, Doing, Idle
  <1>2. StatusKnown(w)' /\ \A e \in Execution : ~Carries(w, e)'
    BY <1>1 DEF StatusKnown, Carries, Doing
  <1> QED
    BY <1>1, <1>2, OrderLayDown

\* The executions before the follower of e are e, those before e, and none
\* between the two.
LEMMA BeforeFollower ==
    ASSUME NEW e \in Execution, NEW f \in Execution, IsFollower(f, e), EarlierOver(e),
           Over(e)
    PROVE  EarlierOver(f)
  <1> SUFFICES ASSUME NEW x \in Execution, Earlier(x, f)
               PROVE  Over(x)
    BY DEF EarlierOver
  <1>1. /\ x = <<x[1], x[2]>> /\ e = <<e[1], e[2]>> /\ f[1] = e[1] /\ x[1] = f[1]
        /\ x[2] \in Int /\ e[2] \in Int /\ f[2] \in Int /\ x[2] < f[2] /\ targets[x] # {}
        /\ x[2] \in Step
    BY DEF Earlier, IsFollower, Execution, Step, Used
  <1>2. CASE x[2] < e[2]
    BY <1>1, <1>2 DEF EarlierOver, Earlier
  <1>3. CASE x[2] = e[2]
    <2>1. x = e
      BY <1>1, <1>3
    <2> QED
      BY <2>1
  <1>4. CASE x[2] > e[2]
    <2>1. targets[<<e[1], x[2]>>] = {}
      BY <1>1, <1>4 DEF IsFollower
    <2> QED
      BY <1>1, <2>1
  <1> QED
    BY <1>1, <1>2, <1>3, <1>4

LEMMA FollowOrder ==
    ASSUME TypeOK, WorkInv, OrderInv, NEW w \in Worker, Follow(w)
    PROVE  OrderInv'
  <1>0. /\ Doing(w, "follow") /\ ~Doing(w, "idle") /\ SameExecutions
        /\ UNCHANGED <<status, sent>>
    BY DEF Follow, Doing, SameExecutions, execVars
  <1> PICK e \in Execution : e = worker[w].exec
    BY <1>0, BusyType DEF Doing
  <1> PICK at \in Execution : at = worker[w].at
    BY <1>0, BusyType DEF Doing
  <1>1. EarlierOver(at) /\ Over(at) /\ Used(at)
    BY <1>0 DEF OrderInv, StatusKnown, Doing, WorkInv, WorkerInv
  <1>2. CASE ~HasFollower(at)
    BY <1>0, <1>2, RestOrder DEF Follow
  <1>3. CASE HasFollower(at)
    <2> PICK f \in Execution : f = Follower(at)
      BY <1>3, FollowerType
    <2>1. EarlierOver(f)
      BY <1>1, <1>3, FollowerType, BeforeFollower
    <2>2. \/ status[f] = "cancelled" /\ Goto(w, "follow", e, f)
          \/ Goto(w, "claim", e, f)
      BY <1>3 DEF Follow
    <2>3. PICK pc \in {"follow", "claim"} :
             /\ pc = "follow" => status[f] = "cancelled"
             /\ worker'[w] = [pc |-> pc, exec |-> e, at |-> f]
             /\ \A v \in Worker : v # w => worker'[v] = worker[v]
      BY <2>2, GotoAt
    <2>6. \A x \in Execution : ~Carries(w, x)'
      BY <2>3 DEF Carries
    <2>7. \A x \in Execution : Over(x) => Over(x)'
      BY <1>0, <2>3, <2>6 DEF Over, UnderWay, Carries
    <2>4. EarlierOver(f)'
      BY <1>0, <2>1, <2>7, EarlierStaysOver
    <2>8. status[f] = "cancelled" => Over(f)
      BY CarriedStatus DEF Over, UnderWay
    <2>5. StatusKnown(w)'
      BY <2>3, <2>4, <2>7, <2>8 DEF StatusKnown, Doing
    <2> QED
      BY <1>0, <2>3, <2>5, <2>6, OrderLayDown
  <1> QED
    BY <1>2, <1>3

LEMMA ClaimOrder ==
    ASSUME TypeOK, OrderInv, NEW w \in Worker, Claim(w)
    PROVE  OrderInv'
  <1>0. Doing(w, "claim") /\ ~Doing(w, "idle") /\ SameExecutions /\ sent' = sent
    BY DEF Claim, Doing, SameExecutions
  <1> PICK e \in Execution : e = worker[w].exec
    BY <1>0, BusyType DEF Doing
  <1> PICK x \in Execution : x = worker[w].at
    BY <1>0, BusyType DEF Doing
  <1>1. EarlierOver(x)
    BY <1>0 DEF OrderInv, StatusKnown, Doing
  <1>2. CASE status[x] # "pending"
    BY <1>0, <1>2, RestOrder DEF Claim
  <1>3. CASE status[x] = "pending"
    <2>1. status' = [status EXCEPT ![x] = "queued"] /\ Goto(w, "grant", e, x)
      BY <1>3 DEF Claim
    <2>2. /\ worker'[w] = [pc |-> "grant", exec |-> e, at |-> x]
          /\ \A v \in Worker : v # w => worker'[v] = worker[v]
      BY <2>1, GotoAt
    <2>3. sent[x] = 0 /\ \A v \in Worker : ~Carries(v, x)
      BY <1>3, CarriedStatus
    <2>4. status'[x] = "queued" /\ \A f \in Execution : f # x => status'[f] = status[f]
      BY <2>1 DEF TypeOK
    <2>5. StatusKnown(w)'
      BY <2>2, <2>4 DEF StatusKnown, Doing
    <2>6. \A f \in Execution : f # x => ~Carries(w, f)'
      BY <2>2 DEF Carries
    <2>7. ~Over(x)
      BY <1>3 DEF Over
    <2> QED
      BY <1>0, <1>1, <2>2, <2>3, <2>4, <2>5, <2>6, <2>7, OrderStep
  <1> QED
    BY <1>2, <1>3

LEMMA GrantOrder ==
    ASSUME TypeOK, OrderInv, NEW w \in Worker, Grant(w)
    PROVE  OrderInv'
  <1>0. Doing(w, "grant") /\ ~Doing(w, "idle") /\ SameExecutions /\ status' = status /\ Rest(w)
    BY DEF Grant, Doing, SameExecutions
  <1> PICK x \in Execution : x = worker[w].at
    BY <1>0, BusyType DEF Doing
  <1>1. Carries(w, x) /\ status[x] = "queued"
    BY <1>0 DEF Carries, OrderInv, StatusKnown, Doing
  <1>2. sent[x] = 0 /\ \A v \in Worker : v # w => ~Carries(v, x)
    BY <1>1, CarriedAlone
  <1>3. Doing(w, "idle")' /\ \A v \in Worker : v # w => worker'[v] = worker[v]
    BY <1>0 DEF Rest, TypeOK, Doing, Idle
  <1>4. StatusKnown(w)' /\ \A e \in Execution : ~Carries(w, e)'
    BY <1>3 DEF StatusKnown, Carries, Doing
  <1>5. sent' = [sent EXCEPT ![x] = @ + 1]
    BY DEF Grant
  <1>6. sent'[x] = 1 /\ \A e \in Execution : e # x => sent'[e] = sent[e]
    BY <1>2, <1>5 DEF TypeOK
  <1>7. EarlierOver(x) /\ ~Over(x)
    BY <1>1 DEF OrderInv, BatchOrder, Over, UnderWay
  <1> QED
    BY <1>0, <1>1, <1>2, <1>3, <1>4, <1>6, <1>7, OrderStep
\* A new batch: its first execution is sent, and nothing is over before it.
LEMMA NewBatchOrder ==
    ASSUME ExecutionInv, WorkInv, OrderInv, worker' = worker,
           NEW b, NEW s, NEW take, NEW first, NewBatch(b, s, take, first)
    PROVE  OrderInv'
  <1>0. TypeOK
    BY DEF ExecutionInv
  <1>1. \A e \in Execution :
           /\ e[2] \in Step
           /\ e[1] = b => /\ ~Used(e) /\ (Used(e)' <=> take[e[2]] # {})
           /\ e[1] # b => (Used(e)' <=> Used(e))
    BY <1>0, NewBatchAt DEF Used
  <1>2. \A e \in Execution :
           status'[e] = IF e[1] = b /\ take[e[2]] # {}
                        THEN IF e[2] = first THEN "queued" ELSE "pending"
                        ELSE status[e]
    BY DEF NewBatch, AddBatch
  <1>3. \A e \in Execution : e[1] = b => status[e] = "none"
    BY <1>1 DEF WorkInv
  <1>9. ASSUME NEW e \in Execution, e[1] # b, Over(e)
        PROVE  Over(e)'
    <2>1. status'[e] = status[e]
      BY <1>2, <1>9
    <2>2. sent'[e] = sent[e]
      BY <1>0, <1>9 DEF NewBatch, AddBatch, TypeOK
    <2> QED
      BY <1>9, <2>1, <2>2 DEF Over, UnderWay, Carries
  <1>4. ASSUME NEW e \in Execution, e[1] # b, EarlierOver(e)
        PROVE  EarlierOver(e)'
    <2> SUFFICES ASSUME NEW x \in Execution, Earlier(x, e)'
                 PROVE  Over(x)'
      BY DEF EarlierOver
    <2>1. x[1] # b /\ Earlier(x, e)
      BY <1>1, <1>4 DEF Earlier
    <2> QED
      BY <1>4, <1>9, <2>1 DEF EarlierOver
  <1>5. BatchOrder'
    <2> SUFFICES ASSUME NEW e \in Execution, status'[e] \notin {"none", "pending", "cancelled"}
                 PROVE  EarlierOver(e)'
      BY DEF BatchOrder
    <2>1. CASE e[1] # b
      BY <1>2, <1>4, <2>1 DEF OrderInv, BatchOrder
    <2>2. CASE e[1] = b
      <3>1. e[2] = first
        BY <1>2, <1>3, <2>2
      <3>2. \A x \in Execution : ~Earlier(x, e)'
        BY <1>1, <2>2, <3>1 DEF Earlier, NewBatch
      <3> QED
        BY <3>2 DEF EarlierOver
    <2> QED
      BY <2>1, <2>2
  <1>6. ASSUME NEW w \in Worker, ~Doing(w, "idle")
        PROVE  /\ worker[w].exec \in Execution /\ worker[w].at \in Execution
               /\ worker[w].exec[1] # b /\ worker[w].at[1] # b
    <2>1. worker[w].exec \in Execution /\ worker[w].at \in Execution
      BY <1>0, <1>6, BusyType DEF Doing
    <2>2. Used(worker[w].exec) /\ Used(worker[w].at)
      BY <1>6 DEF WorkInv, WorkerInv
    <2> QED
      BY <1>1, <2>1, <2>2
  <1>7. ASSUME NEW w \in Worker
        PROVE  StatusKnown(w)'
    <2>1. CASE Doing(w, "idle")
      BY <2>1 DEF StatusKnown, Doing
    <2>2. CASE ~Doing(w, "idle")
      <3> PICK at \in Execution, e \in Execution : at = worker[w].at /\ e = worker[w].exec
        BY <1>6, <2>2
      <3>1. /\ EarlierOver(at) => EarlierOver(at)'
            /\ Over(at) => Over(at)'
            /\ Over(e) => Over(e)'
        BY <1>4, <1>6, <1>9, <2>2
      <3>2. status'[worker[w].exec] = status[worker[w].exec] /\ status'[at] = status[at]
        BY <1>2, <1>6, <2>2
      <3>3. StatusKnown(w) /\ worker'[w].at = at /\ worker'[w].exec = e
        BY DEF OrderInv
      <3>4. status'[e] = status[e] /\ status'[at] = status[at]
        BY <1>2, <1>6, <2>2
      <3> QED
        BY <3>1, <3>3, <3>4 DEF StatusKnown, Doing
    <2> QED
      BY <2>1, <2>2
  <1>8. OneToken'
    <2>1. \A w \in Worker, e \in Execution : /\ Carries(w, e)' <=> Carries(w, e)
                                             /\ Carries(w, e) => e[1] # b
      BY <1>6 DEF Carries, Doing
    <2>2. ASSUME NEW e \in Execution, sent'[e] # 0
          PROVE  sent'[e] = 1 /\ status'[e] = "queued" /\ \A w \in Worker : ~Carries(w, e)'
      <3>1. CASE e = <<b, first>>
        <4>1. sent'[e] = 1 /\ e[1] = b /\ e[2] = first
          BY <1>0, <3>1 DEF NewBatch, AddBatch, TypeOK
        <4> QED
          BY <1>2, <2>1, <4>1 DEF NewBatch
      <3>2. CASE e # <<b, first>>
        <4>1. sent'[e] = sent[e] /\ sent[e] \in Nat
          BY <1>0, <3>2 DEF NewBatch, AddBatch, TypeOK
        <4>2. sent[e] = 1 /\ status[e] = "queued" /\ \A w \in Worker : ~Carries(w, e)
          BY <2>2, <4>1 DEF OrderInv, OneToken
        <4>3. e[1] # b
          BY <1>3, <4>2
        <4> QED
          BY <1>2, <2>1, <4>1, <4>2, <4>3
      <3> QED
        BY <3>1, <3>2
    <2>3. ASSUME NEW u \in Worker, NEW v \in Worker, NEW e \in Execution,
                 Carries(u, e)', Carries(v, e)'
          PROVE  u = v
      BY <2>1, <2>3 DEF OrderInv, OneToken
    <2> QED
      BY <2>2, <2>3 DEF OneToken
  <1> QED
    BY <1>5, <1>7, <1>8 DEF OrderInv

\* No message is delivered again from here on.
NoRedelivery == left["again"] = 0

LEMMA NextNoRedelivery ==
    ASSUME TypeOK, NoRedelivery, [Next]_vars
    PROVE  NoRedelivery' /\ \A e \in Execution : ~Redeliver(e)
  <1>1. \A e \in Execution : ~Redeliver(e)
    BY DEF NoRedelivery, Redeliver, Spend
  <1>2. ASSUME NEW kind \in {"cancel", "child", "fault"}, Spend(kind)
        PROVE  left'["again"] = left["again"]
    BY <1>2 DEF Spend, TypeOK
  <1>3. ASSUME NEW plan \in Plan, NEW hosts \in SUBSET Host, NEW online \in SUBSET Host,
               NEW defer \in BOOLEAN, NEW seen \in [Step -> 0 .. made],
               Create(plan, hosts, online, defer, seen)
        PROVE  left' = left
    BY <1>3 DEF Create
  <1> QED
    BY <1>1, <1>2, <1>3
       DEF NoRedelivery, Next, Request, CancelRead, CancelCommit, CancelExecution,
           Release, Flush, Expire, Work, Start, Run, End, Record, Follow, Claim, Grant, Fault,
           StartFails, BodyFails, RecordFails, Crash, LoseFlush, LoseExecution, vars

\* Cancels, a lost message, and the steps that leave the executions alone.
LEMMA OutsideOrder ==
    ASSUME TypeOK, OrderInv, SameExecutions,
           \/ CancelCommit
           \/ \E e \in Execution : CancelExecution(e) \/ LoseExecution(e)
           \/ UNCHANGED <<status, sent, worker>>
    PROVE  OrderInv'
  <1>1. worker' = worker
    BY DEF CancelCommit, CancelExecution, LoseExecution
  <1>2. \A e \in Execution : \/ status'[e] = status[e]
                             \/ status[e] = "pending" /\ status'[e] = "cancelled"
    BY DEF CancelCommit, CancelExecution, LoseExecution, TypeOK
  <1>3. \A e \in Execution : sent'[e] \in {sent[e], 0}
    <2>1. ASSUME NEW x \in Execution, LoseExecution(x)
          PROVE  \A e \in Execution : sent'[e] \in {sent[e], 0}
      <3>1. sent[x] = 1
        BY <2>1 DEF LoseExecution, OrderInv, OneToken
      <3> QED
        BY <2>1, <3>1 DEF LoseExecution, TypeOK
    <2> QED
      BY <2>1 DEF CancelCommit, CancelExecution
  <1> QED
    BY <1>1, <1>2, <1>3, OrderOutside

LEMMA NextOrderInv ==
    ASSUME ExecutionInv, WorkInv, OrderInv, [Next]_vars, \A e \in Execution : ~Redeliver(e)
    PROVE  OrderInv'
  <1>0. TypeOK
    BY DEF ExecutionInv
  <1>1. CASE \E w \in Worker : Work(w)
    <2> PICK w \in Worker : Work(w)
      BY <1>1
    <2>1. CASE \E e \in Execution : Start(w, e)
      BY <1>0, <2>1, DeliverOrder DEF Start
    <2>2. CASE Run(w)
      BY <1>0, <2>2, RunOrder
    <2>3. CASE \E outcome \in {"success", "failed"} : End(w, outcome)
      BY <1>0, <2>3, EndOrder
    <2>4. CASE \E own \in [Host -> Reported] : Record(w, own)
      BY <1>0, <2>4, RecordOrder
    <2>5. CASE Follow(w)
      BY <1>0, <2>5, FollowOrder
    <2>6. CASE Claim(w)
      BY <1>0, <2>6, ClaimOrder
    <2>7. CASE Grant(w)
      BY <1>0, <2>7, GrantOrder
    <2> QED
      BY <2>1, <2>2, <2>3, <2>4, <2>5, <2>6, <2>7 DEF Work
  <1>2. CASE Fault
    <2>1. ASSUME NEW w \in Worker, NEW e \in Execution, StartFails(w, e)
          PROVE  OrderInv'
      BY <1>0, <2>1, DeliverOrder DEF StartFails
    <2>2. ASSUME NEW w \in Worker, RecordFails(w) \/ Crash(w)
          PROVE  OrderInv'
      BY <1>0, <2>2, RestOrder DEF RecordFails, Crash, SameExecutions, execVars
    <2>5. ASSUME NEW w \in Worker, BodyFails(w)
          PROVE  OrderInv'
      BY <1>0, <2>5, EndOrder
    <2>3. CASE \E g \in Group : LoseFlush(g)
      BY <1>0, <2>3, OutsideOrder DEF LoseFlush, SameExecutions, execVars
    <2>4. CASE \E e \in Execution : LoseExecution(e)
      BY <1>0, <2>4, OutsideOrder DEF LoseExecution, SameExecutions
    <2> QED
      BY <1>2, <2>1, <2>2, <2>3, <2>4, <2>5 DEF Fault
  <1>3. CASE Request
    <2>1. ASSUME NEW plan \in Plan, NEW hosts \in SUBSET Host, NEW online \in SUBSET Host,
                 NEW defer \in BOOLEAN, NEW seen \in [Step -> 0 .. made],
                 Create(plan, hosts, online, defer, seen)
          PROVE  OrderInv'
      <3>1. worker' = worker
        BY <2>1 DEF Create
      <3>2. CASE online = {}
        BY <1>0, <2>1, <3>1, <3>2, OutsideOrder DEF Create, SameExecutions, execVars
      <3>3. CASE online # {}
        BY <1>0, <2>1, <3>1, <3>3, CreateBatch, NewBatchOrder
      <3> QED
        BY <3>2, <3>3
    <2>2. CASE \E g \in Group : CancelRead(g)
      BY <1>0, <2>2, OutsideOrder DEF CancelRead, SameExecutions, execVars
    <2>3. CASE CancelCommit
      BY <1>0, <2>3, OutsideOrder DEF CancelCommit, SameExecutions
    <2>4. CASE \E e \in Execution : CancelExecution(e)
      BY <1>0, <2>4, OutsideOrder DEF CancelExecution, SameExecutions
    <2> QED
      BY <1>3, <2>1, <2>2, <2>3, <2>4 DEF Request
  <1>4. ASSUME NEW g \in Group, Flush(g)
        PROVE  OrderInv'
    <2>1. worker' = worker
      BY <1>4 DEF Flush
    <2>2. CASE HostsIn(row[g], {"ready"}) = {}
      BY <1>0, <1>4, <2>1, <2>2, OutsideOrder DEF Flush, SameExecutions, execVars
    <2>3. CASE HostsIn(row[g], {"ready"}) # {}
      BY <1>0, <1>4, <2>1, <2>3, FlushBatch, NewBatchOrder
    <2> QED
      BY <2>2, <2>3
  <1>5. CASE (\E h \in Host : Release(h)) \/ (\E c \in Sequence : Expire(c))
    BY <1>0, <1>5, OutsideOrder DEF Release, Expire, SameExecutions, execVars
  <1>6. CASE UNCHANGED vars
    BY <1>0, <1>6, OutsideOrder DEF vars, SameExecutions
  <1> QED
    BY <1>1, <1>2, <1>3, <1>4, <1>5, <1>6 DEF Next

\* What the two theorems of the order rest on.
ChainInv == BatchesInv /\ WorkInv /\ NoRedelivery /\ OrderInv

LEMMA InitChainInv ==
    ASSUME MaxRedeliveries = 0, Init
    PROVE  ChainInv
  <1>1. OneToken /\ BatchOrder /\ \A w \in Worker : StatusKnown(w)
    BY DEF Init, OneToken, BatchOrder, StatusKnown, Carries, Doing, Idle
  <1>2. NoRedelivery
    BY DEF Init, NoRedelivery
  <1> QED
    BY <1>1, <1>2, InitBatchesInv, InitWorkInv DEF ChainInv, OrderInv

LEMMA NextChainInv == ChainInv /\ [Next]_vars => ChainInv'
  <1> SUFFICES ASSUME ChainInv, [Next]_vars
               PROVE  ChainInv'
    OBVIOUS
  <1>1. /\ BatchesInv /\ WorkInv /\ NoRedelivery /\ OrderInv
        /\ ExecutionInv /\ TypeOK
    BY DEF ChainInv, BatchesInv, ExecutionInv
  <1>2. BatchesInv' /\ WorkInv'
    BY <1>1, NextBatchesInv, NextWorkInv
  <1>3. NoRedelivery' /\ \A e \in Execution : ~Redeliver(e)
    BY <1>1, NextNoRedelivery
  <1>4. OrderInv'
    BY <1>1, <1>3, NextOrderInv
  <1> QED
    BY <1>2, <1>3, <1>4 DEF ChainInv

\* A batch of hosts goes through the playbooks of its run in order, through
\* crashes, lost messages and cancels, as long as no message comes twice.
THEOREM ChainsKeepOrder ==
    ASSUME MaxRedeliveries = 0
    PROVE  Spec => []ChainOrder
  <1>1. ChainInv => ChainOrder
    <2> SUFFICES ASSUME ChainInv, NEW e \in Execution, NEW f \in Execution,
                        Used(e), Used(f), owner[e[1]] = owner[f[1]], e[2] < f[2],
                        targets[e] \cap targets[f] # {},
                        status[f] \notin {"pending", "cancelled"}
                 PROVE  Over(e)
      BY DEF ChainOrder
    <2>1. Earlier(e, f)
      BY DEF ChainInv, BatchesInv, SameBatch, Earlier
    <2>2. status[f] # "none"
      BY DEF ChainInv, WorkInv
    <2> QED
      BY <2>1, <2>2 DEF ChainInv, OrderInv, BatchOrder, EarlierOver
  <1>2. Init => ChainInv
    BY InitChainInv
  <1> QED
    BY <1>1, <1>2, NextChainInv, PTL DEF Spec

\* Two workers are never busy with one host for the same run, as long as no
\* message comes twice.
THEOREM HostsAreWorkedOnce ==
    ASSUME MaxRedeliveries = 0
    PROVE  Spec => []OneAtATime
  <1>1. ChainInv => OneAtATime
    <2> SUFFICES ASSUME ChainInv, NEW v \in Worker, NEW w \in Worker, v # w,
                        Doing(v, "body"), Doing(w, "body"),
                        owner[worker[v].exec[1]] = owner[worker[w].exec[1]],
                        targets[worker[v].exec] \cap targets[worker[w].exec] # {}
                 PROVE  FALSE
      BY DEF OneAtATime
    <2> USE DEF ChainInv
    <2>0. TypeOK
      BY DEF BatchesInv, ExecutionInv
    <2> PICK e \in Execution : e = worker[v].exec
      BY <2>0, BusyType DEF Doing
    <2> PICK f \in Execution : f = worker[w].exec
      BY <2>0, BusyType DEF Doing
    <2>1. Used(e) /\ Used(f)
      BY DEF WorkInv, WorkerInv, Doing
    <2>2. Carries(v, e) /\ Carries(w, f) /\ status[e] = "running" /\ status[f] = "running"
      BY DEF OrderInv, StatusKnown, Carries, Doing
    <2>3. e # f
      BY <2>2 DEF OrderInv, OneToken
    <2>4. e[1] = f[1]
      BY <2>1 DEF BatchesInv, SameBatch
    <2>5. e[2] < f[2] \/ f[2] < e[2]
      <3>1. e = <<e[1], e[2]>> /\ f = <<f[1], f[2]>> /\ e[2] \in Int /\ f[2] \in Int
        BY DEF Execution, Step
      <3> QED
        BY <2>3, <2>4, <3>1
    <2>6. EarlierOver(e) /\ EarlierOver(f)
      BY <2>2 DEF OrderInv, BatchOrder
    <2> QED
      BY <2>1, <2>2, <2>4, <2>5, <2>6 DEF EarlierOver, Earlier, Over, UnderWay
  <1>2. Init => ChainInv
    BY InitChainInv
  <1> QED
    BY <1>1, <1>2, NextChainInv, PTL DEF Spec
-----------------------------------------------------------------------------
(* An open host has an execution that has still to report on it.  This     *)
(* needs that nothing is lost and that nobody cancels: the executor of a   *)
(* cancelled execution never runs, and a worker that dies reports nothing. *)

\* An execution that exists keeps its run and its hosts.
LEMMA OwnerStays ==
    ASSUME TypeOK, [Next]_vars, NEW e \in Execution, owner[e[1]] # 0
    PROVE  targets'[e] = targets[e] /\ owner'[e[1]] = owner[e[1]]
  <1>1. ASSUME NEW b, NEW s, NEW take, NEW first, NewBatch(b, s, take, first)
        PROVE  targets'[e] = targets[e] /\ owner'[e[1]] = owner[e[1]]
    BY <1>1, NewBatchAt
  <1>2. CASE SameExecutions
    BY <1>2 DEF SameExecutions
  <1>3. ASSUME NEW plan \in Plan, NEW hosts \in SUBSET Host, NEW online \in SUBSET Host,
               NEW defer \in BOOLEAN, NEW seen \in [Step -> 0 .. made],
               Create(plan, hosts, online, defer, seen), online # {}
        PROVE  targets'[e] = targets[e] /\ owner'[e[1]] = owner[e[1]]
    BY <1>1, <1>3, CreateBatch
  <1>4. ASSUME NEW g \in Group, Flush(g), HostsIn(row[g], {"ready"}) # {}
        PROVE  targets'[e] = targets[e] /\ owner'[e[1]] = owner[e[1]]
    BY <1>1, <1>4, FlushBatch
  <1> QED
    BY <1>2, <1>3, <1>4, BatchCases

LEMMA UsedStays ==
    ASSUME TypeOK, [Next]_vars, NEW e \in Execution, Used(e)
    PROVE  /\ Used(e)' /\ targets'[e] = targets[e] /\ owner'[e[1]] = owner[e[1]]
           /\ GroupOf(e)' = GroupOf(e)
  BY OwnerStays DEF Used, GroupOf

\* A batch has an execution, not begun or just sent, for each host it takes.
LEMMA NewBatchCovers ==
    ASSUME TypeOK, NEW b, NEW s, NEW take, NEW first, NewBatch(b, s, take, first),
           NEW k \in Step, NEW h \in take[k]
    PROVE  \E e \in Execution :
              /\ Used(e)' /\ GroupOf(e)' = <<s, k>> /\ h \in targets'[e]
              /\ status'[e] \in {"pending", "queued"}
  <1> DEFINE e == <<b, k>>
  <1>1. e \in Execution /\ e[1] = b /\ e[2] = k
    BY DEF NewBatch, FreeBatches, Execution
  <1>2. owner'[e[1]] = s /\ targets'[e] = take[e[2]] /\ Used(e)'
    BY <1>1, NewBatchAt
  <1>3. status'[e] \in {"pending", "queued"}
    BY <1>1 DEF NewBatch, AddBatch
  <1> QED
    BY <1>1, <1>2, <1>3 DEF GroupOf

\* A host becomes taken by a batch, in a Create or a Flush.
LEMMA TakenComes ==
    ASSUME ExecutionInv, [Next]_vars, ~CancelCommit, NEW g \in Group, NEW h \in Host,
           row'[g].states[h] \in Taken, row[g].states[h] \notin Taken
    PROVE  \E e \in Execution :
              /\ Used(e)' /\ GroupOf(e)' = g /\ h \in targets'[e]
              /\ status'[e] \in {"pending", "queued"}
  <1>0. TypeOK /\ g = <<g[1], g[2]>> /\ g[2] \in Step
    BY DEF ExecutionInv, Group
  <1>1. ~ UNCHANGED row
    OBVIOUS
  <1>2. ASSUME NEW plan \in Plan, NEW hosts \in SUBSET Host, NEW online \in SUBSET Host,
               NEW defer \in BOOLEAN, NEW seen \in [Step -> 0 .. made],
               Create(plan, hosts, online, defer, seen)
        PROVE  \E e \in Execution : /\ Used(e)' /\ GroupOf(e)' = g /\ h \in targets'[e]
                                    /\ status'[e] \in {"pending", "queued"}
    <2> DEFINE take == [k \in Step |-> IF k \in DOMAIN plan THEN online ELSE {}]
               b == CHOOSE c \in FreeBatches : TRUE
               s == made + 1
    <2>1. row'[g].states[h] = CreatedState(plan, hosts, online, defer, seen, g, h)
      BY <1>0, <1>2, CreateRows
    <2>2. g[1] = s /\ g[2] \in DOMAIN plan /\ h \in online
      BY <2>1 DEF CreatedState, Taken
    <2>3. NewBatch(b, s, take, 1)
      BY <1>0, <1>2, <2>2, CreateBatch
    <2>4. h \in take[g[2]]
      BY <1>0, <2>2
    <2> HIDE DEF take, b, s
    <2> QED
      BY <1>0, <2>2, <2>3, <2>4, NewBatchCovers
  <1>3. ASSUME NEW f \in Group, Flush(f)
        PROVE  \E e \in Execution : /\ Used(e)' /\ GroupOf(e)' = g /\ h \in targets'[e]
                                    /\ status'[e] \in {"pending", "queued"}
    <2> DEFINE take == FlushTake(f)
               b == CHOOSE c \in FreeBatches : TRUE
               s == f[1]
    <2>1. g[1] = s /\ h \in take[g[2]]
      BY <1>0, <1>3, FlushRows
    <2>2. HostsIn(row[f], {"ready"}) # {}
      BY <1>0, <2>1 DEF FlushTake
    <2>3. NewBatch(b, s, take, f[2])
      BY <1>0, <1>3, <2>2, FlushBatch
    <2> HIDE DEF take, b, s
    <2> QED
      BY <1>0, <2>1, <2>3, NewBatchCovers
  <1>4. ASSUME NEW k \in Host, Release(k)
        PROVE  FALSE
    BY <1>0, <1>4, ReleaseRows DEF Taken
  <1>5. ASSUME NEW c \in Sequence, Expire(c)
        PROVE  FALSE
    BY <1>0, <1>5, ExpireRows DEF Taken
  <1>6. ASSUME NEW w \in Worker, NEW e \in Execution, Start(w, e)
        PROVE  FALSE
    BY <1>0, <1>6, StartRows DEF Taken
  <1>7. ASSUME NEW w \in Worker, NEW own \in [Host -> Reported], Record(w, own)
        PROVE  FALSE
    BY <1>0, <1>7, RecordRows, ResultType DEF Taken, Settled
  <1>8. ASSUME NEW w \in Worker, Grant(w)
        PROVE  FALSE
    BY <1>0, <1>8, GrantRows DEF Taken
  <1> QED
    BY <1>1, <1>2, <1>3, <1>4, <1>5, <1>6, <1>7, <1>8
       DEF Next, Request, CancelRead, CancelExecution, Work, Run, End, Follow, Claim, Fault,
           StartFails, BodyFails, RecordFails, Crash, LoseFlush, LoseExecution, Redeliver,
           vars, rowVars

\* Nobody cancels a single execution from here on.
NoChildCancel == left["child"] = 0

LEMMA NextNoChildCancel ==
    ASSUME TypeOK, NoChildCancel, [Next]_vars
    PROVE  NoChildCancel' /\ \A e \in Execution : ~CancelExecution(e)
  <1>1. \A e \in Execution : ~CancelExecution(e)
    BY DEF NoChildCancel, CancelExecution, Spend
  <1>2. ASSUME NEW kind \in {"cancel", "again", "fault"}, Spend(kind)
        PROVE  left'["child"] = left["child"]
    BY <1>2 DEF Spend, TypeOK
  <1>3. ASSUME NEW plan \in Plan, NEW hosts \in SUBSET Host, NEW online \in SUBSET Host,
               NEW defer \in BOOLEAN, NEW seen \in [Step -> 0 .. made],
               Create(plan, hosts, online, defer, seen)
        PROVE  left' = left
    BY <1>3 DEF Create
  <1> QED
    BY <1>1, <1>2, <1>3
       DEF NoChildCancel, Next, Request, CancelRead, CancelCommit, Release, Flush,
           Expire, Work, Start, Run, End, Record, Follow, Claim, Grant, Fault, StartFails,
           BodyFails, RecordFails, Crash, LoseFlush, LoseExecution, Redeliver, vars

\* An execution that has still to report on its hosts.
Reports(e) == \/ status[e] \in {"pending", "queued", "running"}
              \/ \E w \in Worker : Doing(w, "ended") /\ worker[w].exec = e
\* A worker whose executor has ended goes on by recording the results.
LEMMA EndedStays ==
    ASSUME TypeOK, [Next]_vars, ~Spend("fault"), NEW w \in Worker, Doing(w, "ended"),
           \A own \in [Host -> Reported] : ~Record(w, own)
    PROVE  worker'[w] = worker[w]
  <1>1. ASSUME NEW v \in Worker, v # w, NEW pc, NEW e, NEW at,
               Goto(v, pc, e, at) \/ Rest(v)
        PROVE  worker'[w] = worker[w]
    BY <1>1 DEF Goto, Rest, TypeOK
  <1>2. ASSUME NEW v \in Worker, Work(v)
        PROVE  worker'[w] = worker[w]
    <2>1. v # w
      BY <1>2 DEF Work, Start, Deliver, Run, End, Follow, Claim, Grant, Doing
    <2>2. \E pc, e, at : Goto(v, pc, e, at) \/ Rest(v)
      BY <1>2 DEF Work, Start, Deliver, Run, End, Record, Follow, Claim, Grant
    <2> QED
      BY <1>1, <2>1, <2>2
  <1>3. CASE worker' = worker
    BY <1>3
  <1>4. ASSUME NEW plan \in Plan, NEW hosts \in SUBSET Host, NEW online \in SUBSET Host,
               NEW defer \in BOOLEAN, NEW seen \in [Step -> 0 .. made],
               Create(plan, hosts, online, defer, seen)
        PROVE  worker' = worker
    BY <1>4 DEF Create
  <1> QED
    BY <1>2, <1>3, <1>4
       DEF Next, Request, CancelRead, CancelCommit, CancelExecution, Release, Flush,
           Expire, Fault, StartFails, BodyFails, RecordFails, Crash, LoseFlush,
           LoseExecution, Redeliver,
           vars

\* The status of an execution changes as it is made and as a worker goes on.
LEMMA StatusGoesOn ==
    ASSUME TypeOK, [Next]_vars, ~CancelCommit,
           \A x \in Execution : ~CancelExecution(x),
           NEW e \in Execution
    PROVE  \/ status'[e] = status[e]
           \/ status'[e] \in {"pending", "queued", "running"}
           \/ /\ status'[e] \in {"success", "failed"}
              /\ \E w \in Worker : Doing(w, "ended")' /\ worker'[w].exec = e
  <1>1. CASE status' = status
    BY <1>1
  <1>2. ASSUME NEW b, NEW s, NEW take, NEW first, NewBatch(b, s, take, first)
        PROVE  status'[e] \in {status[e], "pending", "queued"}
    BY <1>2 DEF NewBatch, AddBatch
  <1>3. ASSUME NEW plan \in Plan, NEW hosts \in SUBSET Host, NEW online \in SUBSET Host,
               NEW defer \in BOOLEAN, NEW seen \in [Step -> 0 .. made],
               Create(plan, hosts, online, defer, seen)
        PROVE  status'[e] \in {status[e], "pending", "queued"}
    <2>1. CASE online = {}
      BY <1>3, <2>1 DEF Create, execVars
    <2>2. CASE online # {}
      BY <1>2, <1>3, <2>2, CreateBatch
    <2> QED
      BY <2>1, <2>2
  <1>4. ASSUME NEW g \in Group, Flush(g)
        PROVE  status'[e] \in {status[e], "pending", "queued"}
    <2>1. CASE HostsIn(row[g], {"ready"}) = {}
      BY <1>4, <2>1 DEF Flush, execVars
    <2>2. CASE HostsIn(row[g], {"ready"}) # {}
      BY <1>2, <1>4, <2>2, FlushBatch
    <2> QED
      BY <2>1, <2>2
  <1>5. ASSUME NEW w \in Worker, NEW outcome \in {"success", "failed"}, End(w, outcome)
        PROVE  \/ status'[e] = status[e]
               \/ /\ status'[e] \in {"success", "failed"}
                  /\ \E v \in Worker : Doing(v, "ended")' /\ worker'[v].exec = e
    <2>1. CASE worker[w].exec # e
      BY <1>5, <2>1 DEF End, TypeOK
    <2>2. CASE worker[w].exec = e
      <3>1. status'[e] = outcome /\ Goto(w, "ended", e, e)
        BY <1>5, <2>2 DEF End, TypeOK
      <3>2. worker'[w] = [pc |-> "ended", exec |-> e, at |-> e]
        BY <3>1, GotoAt
      <3> QED
        BY <3>1, <3>2 DEF Doing
    <2> QED
      BY <2>1, <2>2
  <1>6. ASSUME NEW w \in Worker, Run(w) \/ Claim(w)
        PROVE  status'[e] = status[e] \/ status'[e] \in {"queued", "running"}
    BY <1>6 DEF Run, Claim, TypeOK
  <1> QED
    BY <1>1, <1>3, <1>4, <1>5, <1>6
       DEF Next, Request, CancelRead, Release, Expire, Work, Start, Record, Follow, Grant,
           Fault, StartFails, BodyFails, RecordFails, Crash, LoseFlush, LoseExecution,
           Redeliver, vars,
           execVars

\* As long as nothing is lost and nobody cancels, an execution that has to
\* report goes on having to, until its results are recorded.
LEMMA ReportsStay ==
    ASSUME ExecutionInv, WorkInv, [Next]_vars, ~CancelCommit, ~Spend("fault"),
           \A x \in Execution : ~CancelExecution(x),
           NEW e \in Execution, Used(e), Reports(e),
           \A w \in Worker, own \in [Host -> Reported] : Record(w, own) => worker[w].exec # e
    PROVE  Reports(e)'
  <1>0. TypeOK
    BY DEF ExecutionInv
  <1>1. CASE status[e] \in {"pending", "queued", "running"}
    BY <1>0, <1>1, StatusGoesOn DEF Reports
  <1>2. ASSUME NEW w \in Worker, Doing(w, "ended"), worker[w].exec = e
        PROVE  Reports(e)'
    <2>1. worker'[w] = worker[w]
      BY <1>0, <1>2, EndedStays
    <2> QED
      BY <1>2, <2>1 DEF Reports, Doing
  <1> QED
    BY <1>1, <1>2 DEF Reports

LEMMA NextOpenIsCovered ==
    ASSUME ExecutionInv, WorkInv, OpenIsCovered, [Next]_vars, ~CancelCommit, ~Spend("fault"),
           \A x \in Execution : ~CancelExecution(x)
    PROVE  OpenIsCovered'
  <1>0. TypeOK
    BY DEF ExecutionInv
  <1> SUFFICES ASSUME NEW g \in Group, NEW h \in Host, row'[g].states[h] \in Taken
               PROVE  \E e \in Execution : /\ Used(e)' /\ GroupOf(e)' = g /\ h \in targets'[e]
                                           /\ Reports(e)'
    BY DEF OpenIsCovered, HostsIn, Taken, Reports
  <1>1. CASE row[g].states[h] \notin Taken
    BY <1>1, TakenComes DEF Reports
  <1>2. CASE row[g].states[h] \in Taken
    <2>1. PICK e \in Execution : Used(e) /\ GroupOf(e) = g /\ h \in targets[e] /\ Reports(e)
      BY <1>2 DEF OpenIsCovered, HostsIn, Taken, Reports
    <2>2. ASSUME NEW w \in Worker, NEW own \in [Host -> Reported], Record(w, own),
                 worker[w].exec = e
          PROVE  FALSE
      <3>1. row'[g].states[h] = Result(e, own, h)
        BY <1>0, <1>2, <2>1, <2>2, RecordRows
      <3> QED
        BY <3>1, ResultType DEF Settled, Taken
    <2>3. Reports(e)'
      BY <2>1, <2>2, ReportsStay
    <2> QED
      BY <1>0, <2>1, <2>3, UsedStays
  <1> QED
    BY <1>1, <1>2

\* A host shown as pending, queued or running has an execution that has still
\* to report on it, as long as nothing is lost and nobody cancels.
THEOREM OpenHostsAreCovered ==
    ASSUME MaxCancels = 0, MaxChildCancels = 0, MaxFaults = 0
    PROVE  Spec => []OpenIsCovered
  <1> DEFINE Inv == /\ ExecutionInv /\ WorkInv
                    /\ NoCancel /\ NoChildCancel /\ NoFault
                    /\ OpenIsCovered
  <1>1. Init => Inv
    <2>1. Init => NoChildCancel /\ NoFault /\ OpenIsCovered
      BY DEF Init, NoChildCancel, NoFault, OpenIsCovered, HostsIn, NoRow
    <2> QED
      BY <2>1, InitExecutionInv, InitWorkInv, InitNoCancel
  <1>2. Inv /\ [Next]_vars => Inv'
    <2> SUFFICES ASSUME Inv, [Next]_vars
                 PROVE  Inv'
      OBVIOUS
    <2>0. TypeOK
      BY DEF ExecutionInv
    <2>1. ExecutionInv' /\ WorkInv'
      BY NextExecutionInv, NextWorkInv
    <2>2. NoCancel' /\ ~CancelCommit
      BY <2>0, NextNoCancel
    <2>3. NoChildCancel' /\ \A x \in Execution : ~CancelExecution(x)
      BY <2>0, NextNoChildCancel
    <2>4. NoFault' /\ ~Spend("fault")
      BY <2>0, NextNoFault
    <2>5. OpenIsCovered'
      BY <2>2, <2>3, <2>4, NextOpenIsCovered
    <2> QED
      BY <2>1, <2>2, <2>3, <2>4, <2>5
  <1> QED
    BY <1>1, <1>2, PTL DEF Spec
-----------------------------------------------------------------------------
(* The runs implement HostAssignments.  What the refinement needs beyond    *)
(* the batches is that the results of a host come in the order of the       *)
(* playbooks.  Crashes, lost and repeated messages do not disturb it: an    *)
(* execution begins only when the results of the ones before it are         *)
(* recorded, and what is recorded stays.  The status of an execution says   *)
(* less here than its group's row, since a repeated message sets it back    *)
(* to running.                                                              *)

OwnSettled(e) == \A h \in targets[e] : row[GroupOf(e)].states[h] \in Settled

\* The results of the executions before e in its batch are recorded.
SettledBefore(e) == \A x \in Execution : Earlier(x, e) => OwnSettled(x)

PastSettled ==
    /\ \A e \in Execution : Begun(e) => SettledBefore(e)
    /\ \A w \in Worker : /\ Doing(w, "follow") => OwnSettled(worker[w].at)
                         /\ Doing(w, "claim") => SettledBefore(worker[w].at)

\* A host shown as taken has an execution in its group.
TakenIsCovered ==
    \A g \in Group : \A h \in HostsIn(row[g], Taken) :
        \E e \in Execution : Used(e) /\ GroupOf(e) = g /\ h \in targets[e]

NoneCancelled == \A e \in Execution : status[e] # "cancelled"

LEMMA SettledRowStays ==
    ASSUME ExecutionInv, [Next]_vars, ~CancelCommit, NEW g \in Group, NEW h \in Host,
           row[g].states[h] \in Settled
    PROVE  row'[g].states[h] \in Settled
  <1>1. Advance(row[g].states[h], row'[g].states[h])
    BY NextAdvance
  <1> QED
    BY <1>1 DEF Advance, Steps, Settled, Taken

LEMMA OwnSettledStays ==
    ASSUME ExecutionInv, [Next]_vars, ~CancelCommit, NEW e \in Execution, Used(e),
           OwnSettled(e)
    PROVE  OwnSettled(e)'
  <1>0. TypeOK
    BY DEF ExecutionInv
  <1>1. targets'[e] = targets[e] /\ GroupOf(e)' = GroupOf(e)
    BY <1>0, UsedStays
  <1>2. GroupOf(e) \in Group /\ targets[e] \subseteq Host
    BY <1>0, BoundsAssumption DEF GroupOf, Used, TypeOK, Execution, Group, Sequence
  <1> QED
    BY <1>1, <1>2, SettledRowStays DEF OwnSettled

LEMMA SettledBeforeStays ==
    ASSUME ExecutionInv, [Next]_vars, ~CancelCommit, NEW e \in Execution, Used(e),
           SettledBefore(e)
    PROVE  SettledBefore(e)'
  <1>0. TypeOK
    BY DEF ExecutionInv
  <1> SUFFICES ASSUME NEW x \in Execution, Earlier(x, e)'
               PROVE  OwnSettled(x)'
    BY DEF SettledBefore
  <1>1. Earlier(x, e)
    BY <1>0, OwnerStays DEF Earlier, Used
  <1>2. Used(x) /\ OwnSettled(x)
    BY <1>1 DEF SettledBefore, Earlier
  <1> QED
    BY <1>2, OwnSettledStays

\* An execution begins when a worker claims it or as the first of its batch.
LEMMA BegunComes ==
    ASSUME ExecutionInv, WorkInv, [Next]_vars, ~CancelCommit,
           \A x \in Execution : ~CancelExecution(x),
           NEW e \in Execution, ~Begun(e), Begun(e)'
    PROVE  \/ \E w \in Worker : Doing(w, "claim") /\ worker[w].at = e
           \/ \A x \in Execution : ~Earlier(x, e)'
  <1>0. TypeOK
    BY DEF ExecutionInv
  <1>1. status'[e] # status[e]
    BY DEF Begun
  <1>2. ASSUME NEW b, NEW s, NEW take, NEW first, NewBatch(b, s, take, first)
        PROVE  \A x \in Execution : ~Earlier(x, e)'
    <2>1. e[1] = b /\ e[2] = first
      BY <1>1, <1>2 DEF NewBatch, AddBatch, Begun
    <2>2. ASSUME NEW x \in Execution, Earlier(x, e)'
          PROVE  FALSE
      <3>1. x[1] = b /\ x[2] < first /\ x[2] \in Step /\ Used(x)'
        BY <2>1, <2>2 DEF Earlier, Execution
      <3>2. take[x[2]] # {}
        BY <1>0, <1>2, <3>1, NewBatchAt
      <3> QED
        BY <1>2, <3>1, <3>2 DEF NewBatch
    <2> QED
      BY <2>2
  <1>3. ASSUME NEW plan \in Plan, NEW hosts \in SUBSET Host, NEW online \in SUBSET Host,
               NEW defer \in BOOLEAN, NEW seen \in [Step -> 0 .. made],
               Create(plan, hosts, online, defer, seen)
        PROVE  \A x \in Execution : ~Earlier(x, e)'
    <2>1. online # {}
      BY <1>1, <1>3 DEF Create, execVars
    <2> QED
      BY <1>0, <1>2, <1>3, <2>1, CreateBatch
  <1>4. ASSUME NEW g \in Group, Flush(g)
        PROVE  \A x \in Execution : ~Earlier(x, e)'
    <2>1. HostsIn(row[g], {"ready"}) # {}
      BY <1>1, <1>4 DEF Flush, execVars
    <2> QED
      BY <1>0, <1>2, <1>4, <2>1, FlushBatch
  <1>5. ASSUME NEW w \in Worker, Run(w) \/ \E outcome \in {"success", "failed"} : End(w, outcome)
        PROVE  FALSE
    <2>1. e = worker[w].exec /\ ~Doing(w, "idle")
      BY <1>0, <1>1, <1>5 DEF Run, End, Doing, TypeOK
    <2> QED
      BY <2>1 DEF WorkInv, WorkerInv
  <1>6. ASSUME NEW w \in Worker, Claim(w)
        PROVE  Doing(w, "claim") /\ worker[w].at = e
    BY <1>0, <1>1, <1>6 DEF Claim, TypeOK
  <1> QED
    BY <1>1, <1>3, <1>4, <1>5, <1>6
       DEF Next, Request, CancelRead, Release, Expire, Work, Start, Record, Follow, Grant,
           Fault, StartFails, BodyFails, RecordFails, Crash, LoseFlush, LoseExecution,
           Redeliver, vars,
           execVars

\* A worker comes to follow or claim by recording results or by following.
LEMMA WorkerGoes ==
    ASSUME TypeOK, [Next]_vars, NEW w \in Worker, worker'[w].pc \in {"follow", "claim"}
    PROVE  \/ worker'[w] = worker[w]
           \/ \E own \in [Host -> Reported] : Record(w, own)
           \/ Follow(w)
  <1>1. ASSUME NEW v \in Worker, v # w, NEW pc, NEW e, NEW at,
               Goto(v, pc, e, at) \/ Rest(v)
        PROVE  worker'[w] = worker[w]
    BY <1>1 DEF Goto, Rest, TypeOK
  <1>2. ASSUME Rest(w) \/ \E pc, e, at : Goto(w, pc, e, at) /\ pc \notin {"follow", "claim"}
        PROVE  FALSE
    BY <1>2 DEF Goto, Rest, Idle, TypeOK
  <1>3. ASSUME NEW v \in Worker, \/ Work(v) \/ BodyFails(v) \/ RecordFails(v) \/ Crash(v)
                                 \/ \E e \in Execution : StartFails(v, e)
        PROVE  \/ worker'[w] = worker[w]
               \/ \E own \in [Host -> Reported] : Record(w, own)
               \/ Follow(w)
    <2>1. CASE v # w
      <3>1. \E pc, e, at : Goto(v, pc, e, at) \/ Rest(v)
        BY <1>3 DEF Work, Start, StartFails, Deliver, Run, End, Record, Follow, Claim, Grant,
                    BodyFails, RecordFails, Crash
      <3> QED
        BY <1>1, <2>1, <3>1
    <2>2. CASE v = w
      <3>1. \/ Rest(w) \/ \E pc, e, at : Goto(w, pc, e, at) /\ pc \notin {"follow", "claim"}
            \/ \E own \in [Host -> Reported] : Record(w, own)
            \/ Follow(w)
        <4>1. ASSUME NEW e \in Execution, Start(w, e) \/ StartFails(w, e)
              PROVE  Goto(w, "taken", e, e)
          BY <4>1 DEF Start, StartFails, Deliver
        <4>2. ASSUME Run(w)
              PROVE  \E e : Goto(w, "body", e, e)
          BY <4>2 DEF Run
        <4>3. ASSUME NEW outcome, End(w, outcome) \/ BodyFails(w)
              PROVE  \E e : Goto(w, "ended", e, e)
          BY <4>3 DEF End, BodyFails
        <4>4. ASSUME Claim(w)
              PROVE  Rest(w) \/ \E e, at : Goto(w, "grant", e, at)
          BY <4>4 DEF Claim
        <4>5. ASSUME Grant(w) \/ RecordFails(w) \/ Crash(w)
              PROVE  Rest(w)
          BY <4>5 DEF Grant, RecordFails, Crash
        <4> QED
          BY <1>3, <2>2, <4>1, <4>2, <4>3, <4>4, <4>5 DEF Work
      <3> QED
        BY <1>2, <3>1
    <2> QED
      BY <2>1, <2>2
  <1>4. CASE worker' = worker
    BY <1>4
  <1>5. ASSUME NEW plan \in Plan, NEW hosts \in SUBSET Host, NEW online \in SUBSET Host,
               NEW defer \in BOOLEAN, NEW seen \in [Step -> 0 .. made],
               Create(plan, hosts, online, defer, seen)
        PROVE  worker' = worker
    BY <1>5 DEF Create
  <1> QED
    BY <1>3, <1>4, <1>5
       DEF Next, Request, CancelRead, CancelCommit, CancelExecution, Release, Flush,
           Expire, Fault, LoseFlush, LoseExecution, Redeliver, vars

\* What was recorded lets the follower of an execution begin.
LEMMA SettledBeforeFollower ==
    ASSUME NEW e \in Execution, NEW f \in Execution, IsFollower(f, e), SettledBefore(e),
           OwnSettled(e)
    PROVE  SettledBefore(f)
  <1> SUFFICES ASSUME NEW x \in Execution, Earlier(x, f)
               PROVE  OwnSettled(x)
    BY DEF SettledBefore
  <1>1. /\ x = <<x[1], x[2]>> /\ e = <<e[1], e[2]>> /\ f[1] = e[1] /\ x[1] = f[1]
        /\ x[2] \in Int /\ e[2] \in Int /\ f[2] \in Int /\ x[2] < f[2] /\ targets[x] # {}
        /\ x[2] \in Step
    BY DEF Earlier, IsFollower, Execution, Step, Used
  <1>2. CASE x[2] < e[2]
    BY <1>1, <1>2 DEF SettledBefore, Earlier
  <1>3. CASE x[2] = e[2]
    <2>1. x = e
      BY <1>1, <1>3
    <2> QED
      BY <2>1
  <1>4. CASE x[2] > e[2]
    <2>1. targets[<<e[1], x[2]>>] = {}
      BY <1>1, <1>4 DEF IsFollower
    <2> QED
      BY <1>1, <2>1
  <1> QED
    BY <1>1, <1>2, <1>3, <1>4

\* Recording the results of an execution settles all of its hosts.
LEMMA RecordSettles ==
    ASSUME ExecutionInv, WorkInv, NEW w \in Worker, NEW own \in [Host -> Reported],
           Record(w, own)
    PROVE  \E e \in Execution : worker'[w].at = e /\ OwnSettled(e)'
  <1>0. TypeOK /\ TakenIsNotHeld
    BY DEF ExecutionInv
  <1>1. Doing(w, "ended") /\ ~Doing(w, "idle") /\ SameExecutions
    BY DEF Record, Doing, SameExecutions, execVars
  <1> PICK e \in Execution : e = worker[w].exec
    BY <1>0, <1>1, BusyType DEF Doing
  <1>2. Used(e)
    BY <1>1 DEF WorkInv, WorkerInv
  <1>3. GroupOf(e) \in Group /\ targets[e] \subseteq Host
    BY <1>0, <1>2, BoundsAssumption DEF GroupOf, Used, TypeOK, Execution, Group, Sequence
  <1>4. worker'[w].at = e
    <2>1. Goto(w, "follow", e, e)
      BY DEF Record
    <2>2. worker'[w] = [pc |-> "follow", exec |-> e, at |-> e]
      BY <1>0, <2>1, GotoAt
    <2> QED
      BY <2>2
  <1>5. ASSUME NEW h \in targets[e]
        PROVE  row'[GroupOf(e)].states[h] \in Settled
    <2>1. row[GroupOf(e)].states[h] \in Taken \cup Settled
      <3>1. row[GroupOf(e)].states[h] \in HostState
        BY <1>0, <1>3 DEF TypeOK, Row
      <3>2. row[GroupOf(e)].states[h] \notin {"absent", "waiting", "ready"}
        BY <1>0, <1>2 DEF TakenIsNotHeld
      <3> QED
        BY <3>1, <3>2 DEF HostState, OpenStates, Taken
    <2>2. row'[GroupOf(e)].states[h] = IF row[GroupOf(e)].states[h] \in Taken
                                       THEN Result(e, own, h) ELSE row[GroupOf(e)].states[h]
      BY <1>0, <1>3, RecordRows
    <2> QED
      BY <2>1, <2>2, ResultType
  <1>6. OwnSettled(e)'
    BY <1>1, <1>5 DEF OwnSettled, GroupOf, SameExecutions
  <1> QED
    BY <1>4, <1>6

LEMMA NextNoneCancelled ==
    ASSUME TypeOK, NoneCancelled, [Next]_vars, ~CancelCommit,
           \A x \in Execution : ~CancelExecution(x)
    PROVE  NoneCancelled'
  BY StatusGoesOn DEF NoneCancelled

LEMMA NextTakenIsCovered ==
    ASSUME ExecutionInv, TakenIsCovered, [Next]_vars, ~CancelCommit
    PROVE  TakenIsCovered'
  <1>0. TypeOK
    BY DEF ExecutionInv
  <1> SUFFICES ASSUME NEW g \in Group, NEW h \in Host, row'[g].states[h] \in Taken
               PROVE  \E e \in Execution : Used(e)' /\ GroupOf(e)' = g /\ h \in targets'[e]
    BY DEF TakenIsCovered, HostsIn
  <1>1. CASE row[g].states[h] \notin Taken
    BY <1>1, TakenComes
  <1>2. CASE row[g].states[h] \in Taken
    BY <1>0, <1>2, UsedStays DEF TakenIsCovered, HostsIn
  <1> QED
    BY <1>1, <1>2

LEMMA NextPastSettled ==
    ASSUME ExecutionInv, WorkInv, NoneCancelled, PastSettled, [Next]_vars, ~CancelCommit,
           \A x \in Execution : ~CancelExecution(x)
    PROVE  PastSettled'
  <1>0. TypeOK
    BY DEF ExecutionInv
  <1>1. ASSUME NEW e \in Execution, Begun(e)'
        PROVE  SettledBefore(e)'
    <2>1. CASE Begun(e)
      <3>1. Used(e)
        BY <2>1 DEF WorkInv, Begun
      <3> QED
        BY <2>1, <3>1, SettledBeforeStays DEF PastSettled
    <2>2. ASSUME NEW w \in Worker, Doing(w, "claim"), worker[w].at = e
          PROVE  SettledBefore(e)'
      <3>1. Used(e) /\ SettledBefore(e)
        BY <2>2 DEF WorkInv, WorkerInv, Doing, PastSettled
      <3> QED
        BY <3>1, SettledBeforeStays
    <2>3. CASE \A x \in Execution : ~Earlier(x, e)'
      BY <2>3 DEF SettledBefore
    <2> QED
      BY <1>1, <2>1, <2>2, <2>3, BegunComes
  <1>2. ASSUME NEW w \in Worker, worker'[w].pc \in {"follow", "claim"}
        PROVE  \E at \in Execution : /\ worker'[w].at = at
                                     /\ Doing(w, "follow")' => OwnSettled(at)'
                                     /\ Doing(w, "claim")' => SettledBefore(at)'
    <2>1. CASE worker'[w] = worker[w]
      <3>1. ~Doing(w, "idle")
        BY <1>2, <2>1 DEF Doing
      <3> PICK at \in Execution : at = worker[w].at
        BY <1>0, <3>1, BusyType DEF Doing
      <3>2. Used(at) /\ worker'[w].at = at
        BY <2>1, <3>1 DEF WorkInv, WorkerInv
      <3>3. Doing(w, "follow") => OwnSettled(at)'
        BY <3>2, OwnSettledStays DEF PastSettled
      <3>4. Doing(w, "claim") => SettledBefore(at)'
        BY <3>2, SettledBeforeStays DEF PastSettled
      <3> QED
        BY <2>1, <3>2, <3>3, <3>4 DEF Doing
    <2>2. ASSUME NEW own \in [Host -> Reported], Record(w, own)
          PROVE  \E at \in Execution : /\ worker'[w].at = at /\ OwnSettled(at)'
                                       /\ ~Doing(w, "claim")'
      <3>1. Goto(w, "follow", worker[w].exec, worker[w].exec)
        BY <2>2 DEF Record
      <3>2. worker'[w] = [pc |-> "follow", exec |-> worker[w].exec, at |-> worker[w].exec]
        BY <1>0, <3>1, GotoAt
      <3>3. ~Doing(w, "claim")'
        BY <3>2 DEF Doing
      <3> QED
        BY <2>2, <3>3, RecordSettles
    <2>3. CASE Follow(w)
      <3>0. Doing(w, "follow") /\ ~Doing(w, "idle")
        BY <2>3 DEF Follow, Doing
      <3> PICK e \in Execution : e = worker[w].exec
        BY <1>0, <3>0, BusyType DEF Doing
      <3> PICK at \in Execution : at = worker[w].at
        BY <1>0, <3>0, BusyType DEF Doing
      <3>1. Used(at) /\ Begun(at) /\ OwnSettled(at) /\ SettledBefore(at)
        BY <3>0 DEF WorkInv, WorkerInv, Doing, PastSettled
      <3>2. HasFollower(at)
        BY <1>0, <1>2, <2>3, RestAt DEF Follow, Doing
      <3> PICK f \in Execution : f = Follower(at)
        BY <3>2, FollowerType
      <3>3. Used(f) /\ IsFollower(f, at)
        BY <1>0, <3>1, <3>2, FollowerUsed
      <3>4. Goto(w, "claim", e, f)
        BY <2>3, <3>2 DEF Follow, NoneCancelled
      <3>5. worker'[w] = [pc |-> "claim", exec |-> e, at |-> f]
        BY <1>0, <3>4, GotoAt
      <3>6. SettledBefore(f)'
        BY <3>1, <3>3, SettledBeforeFollower, SettledBeforeStays
      <3> QED
        BY <3>5, <3>6 DEF Doing
    <2> QED
      BY <1>0, <1>2, <2>1, <2>2, <2>3, WorkerGoes
  <1> QED
    BY <1>1, <1>2 DEF PastSettled, Doing

PromiseInv == /\ BatchesInv /\ WorkInv /\ NoCancel /\ NoChildCancel
              /\ NoneCancelled /\ TakenIsCovered /\ PastSettled

LEMMA InitPromiseInv ==
    ASSUME MaxCancels = 0, MaxChildCancels = 0, Init
    PROVE  PromiseInv
  <1>1. NoChildCancel /\ NoneCancelled
    BY DEF Init, NoChildCancel, NoneCancelled
  <1>2. TakenIsCovered
    BY DEF Init, TakenIsCovered, HostsIn, NoRow, Taken
  <1>3. PastSettled
    BY DEF Init, PastSettled, Begun, Doing, Idle
  <1> QED
    BY <1>1, <1>2, <1>3, InitBatchesInv, InitWorkInv, InitNoCancel DEF PromiseInv

LEMMA NextPromiseInv == PromiseInv /\ [Next]_vars => PromiseInv'
  <1> SUFFICES ASSUME PromiseInv, [Next]_vars
               PROVE  PromiseInv'
    OBVIOUS
  <1>1. /\ BatchesInv /\ WorkInv /\ NoCancel /\ NoChildCancel
        /\ NoneCancelled /\ TakenIsCovered /\ PastSettled
        /\ ExecutionInv /\ TypeOK
    BY DEF PromiseInv, BatchesInv, ExecutionInv
  <1>2. BatchesInv' /\ WorkInv'
    BY <1>1, NextBatchesInv, NextWorkInv
  <1>3. NoCancel' /\ NoChildCancel' /\ ~CancelCommit /\ \A x \in Execution : ~CancelExecution(x)
    BY <1>1, NextNoCancel, NextNoChildCancel
  <1>4. NoneCancelled' /\ TakenIsCovered' /\ PastSettled'
    BY <1>1, <1>3, NextNoneCancelled, NextTakenIsCovered, NextPastSettled
  <1> QED
    BY <1>2, <1>3, <1>4 DEF PromiseInv

-----------------------------------------------------------------------------
(* The mapping: what HostAssignments sees of the rows, and the step of it   *)
(* that each transaction takes.                                             *)

Seen == [g \in Group |-> [h \in Host |-> Phase(row[g].states[h])]]

LEMMA PhaseIs ==
    ASSUME NEW state \in HostState
    PROVE  /\ Phase(state) = "absent" <=> state = "absent"
           /\ Phase(state) = "held" <=> state \in Held
           /\ Phase(state) = "taken" <=> state \in Taken
           /\ Phase(state) = "settled" <=> state \in Settled
  BY DEF Phase, HostState, OpenStates, Held, Taken, Settled

\* Where a row only moves on within a phase, nothing is seen.
LEMMA NothingSeen ==
    ASSUME \A g \in Group, h \in Host : Phase(row'[g].states[h]) = Phase(row[g].states[h])
    PROVE  Seen' = Seen
  BY DEF Seen

LEMMA CreateAssigns ==
    ASSUME ExecutionInv, [Next]_vars, NEW plan \in Plan, NEW hosts \in SUBSET Host,
           NEW online \in SUBSET Host, NEW defer \in BOOLEAN, NEW seen \in [Step -> 0 .. made],
           Create(plan, hosts, online, defer, seen)
    PROVE  Promise!Next
  <1>0. TypeOK
    BY DEF ExecutionInv
  <1> DEFINE s == made + 1
             held == hosts \ online
             dropped == {p \in Group \X Host :
                           /\ ~(p[1][1] = s /\ p[1][2] \in DOMAIN plan)
                           /\ defer /\ Supersedes(plan, seen, p[1])
                           /\ row[p[1]].states[p[2]] = "waiting" /\ p[2] \in hosts}
  <1>1. PICK n \in Step : DOMAIN plan = 1 .. n
    BY DEF Plan
  <1>2. s \in Sequence /\ n \in Step
    BY <1>0, BoundsAssumption DEF Create, TypeOK, Sequence
  <1>3. \A g \in Group : g[2] \in DOMAIN plan <=> g[2] <= n
    BY <1>1, BoundsAssumption DEF Group, Step
  <1>4. \A g \in Group, h \in Host : g[1] = s => row[g].states[h] = "absent"
    <2>1. made' = s /\ made' # made
      BY <1>0 DEF Create, TypeOK
    <2> QED
      BY <2>1, NewRunIsEmpty
  <1>5. \A g \in Group, h \in Host : row[g].states[h] \in HostState
    BY <1>0 DEF TypeOK, Row
  <1>6. dropped \in SUBSET Promise!Held
    <2>1. ASSUME NEW p \in dropped
          PROVE  p \in Group \X Host /\ Phase(row[p[1]].states[p[2]]) = "held"
      BY <1>5, PhaseIs DEF Held
    <2> QED
      BY <2>1 DEF Promise!Held, Promise!Group, Promise!Sequence, Promise!Step, Group,
                  Sequence, Step
  <1>7. Promise!Assign(s, n, held, online, dropped)
    <2>1. \A k \in Step : Promise!Hosts(<<s, k>>, "absent") = Host
      <3> SUFFICES ASSUME NEW k \in Step, NEW h \in Host
                   PROVE  Phase(row[<<s, k>>].states[h]) = "absent"
        BY <1>2 DEF Promise!Hosts, Promise!Group, Promise!Sequence, Promise!Step, Group,
                    Sequence, Step
      <3>1. <<s, k>> \in Group
        BY <1>2 DEF Group
      <3> QED
        BY <1>4, <1>5, <3>1, PhaseIs
    <2>2. ASSUME NEW g \in Group, NEW h \in Host
          PROVE  Phase(row'[g].states[h])
                   = IF g[1] = s /\ g[2] <= n /\ h \in held THEN "held"
                     ELSE IF g[1] = s /\ g[2] <= n /\ h \in online THEN "taken"
                     ELSE IF <<g, h>> \in dropped THEN "settled"
                     ELSE Seen[g][h]
      <3>1. row'[g].states[h] = CreatedState(plan, hosts, online, defer, seen, g, h)
        BY <1>0, CreateRows
      <3>2. Seen[g][h] = Phase(row[g].states[h])
        BY DEF Seen
      <3>3. online \subseteq hosts
        BY DEF Create
      <3>4. CASE g[1] = s /\ g[2] <= n
        <4>1. row'[g].states[h] = IF h \in online THEN IF g[2] = 1 THEN "queued" ELSE "pending"
                                  ELSE IF h \in hosts THEN "waiting" ELSE "absent"
          BY <1>3, <3>1, <3>4 DEF CreatedState
        <4>2. <<g, h>> \notin dropped /\ row[g].states[h] = "absent"
          BY <1>3, <1>4, <3>4
        <4> QED
          BY <3>2, <3>3, <3>4, <4>1, <4>2, <1>5, PhaseIs DEF HostState, OpenStates, Held, Taken
      <3>5. CASE ~(g[1] = s /\ g[2] <= n)
        <4>1. row'[g].states[h] = IF <<g, h>> \in dropped THEN "cancelled"
                                  ELSE row[g].states[h]
          BY <1>3, <3>1, <3>5 DEF CreatedState
        <4>2. Phase("cancelled") = "settled"
          BY PhaseIs DEF HostState, Settled
        <4> QED
          BY <3>2, <3>5, <4>1, <4>2
      <3> QED
        BY <3>4, <3>5
    <2>3. Seen' = [g \in Group |-> [h \in Host |->
                     IF g[1] = s /\ g[2] <= n /\ h \in held THEN "held"
                     ELSE IF g[1] = s /\ g[2] <= n /\ h \in online THEN "taken"
                     ELSE IF <<g, h>> \in dropped THEN "settled"
                     ELSE Seen[g][h]]]
      <3> HIDE DEF s, held, dropped
      <3>1. ASSUME NEW g \in Group
            PROVE  [h \in Host |-> Phase(row'[g].states[h])]
                     = [h \in Host |->
                          IF g[1] = s /\ g[2] <= n /\ h \in held THEN "held"
                          ELSE IF g[1] = s /\ g[2] <= n /\ h \in online THEN "taken"
                          ELSE IF <<g, h>> \in dropped THEN "settled"
                          ELSE Seen[g][h]]
        BY <2>2
      <3> QED
        BY <3>1 DEF Seen
    <2> HIDE DEF s, held, dropped
    <2> QED
      BY <2>1, <2>3 DEF Promise!Assign, Promise!Group, Promise!Sequence, Promise!Step, Group,
                        Sequence, Step, Seen, held
  <1> HIDE DEF s, held, dropped
  <1>8. held \in SUBSET Host
    BY DEF held
  <1> QED
    BY <1>2, <1>6, <1>7, <1>8 DEF Promise!Next, Promise!Sequence, Promise!Step, Sequence, Step

LEMMA FlushTakes ==
    ASSUME ExecutionInv, ReadyFirst, NEW g \in Group, Flush(g)
    PROVE  Promise!Next \/ Seen' = Seen
  <1>0. TypeOK
    BY DEF ExecutionInv
  <1> DEFINE s == g[1]
             k == g[2]
             ready == HostsIn(row[g], {"ready"})
  <1>1. g = <<s, k>> /\ s \in Sequence /\ k \in Step
    BY DEF Group
  <1>2. \A f \in Group, h \in Host : row[f].states[h] \in HostState
    BY <1>0 DEF TypeOK, Row
  <1>3. \A j \in Step, h \in ready : /\ <<s, j>> \in Group
                                     /\ j < k => row[<<s, j>>].states[h] \notin Held
                                     /\ j > k => row[<<s, j>>].states[h] # "ready"
    BY <1>1, BoundsAssumption DEF ReadyFirst, HostsIn, Held, Group, Step
  <1>4. ready \subseteq Promise!Hosts(<<s, k>>, "held")
    <2> SUFFICES ASSUME NEW h \in ready
                 PROVE  h \in Host /\ Phase(row[g].states[h]) = "held"
      BY <1>1 DEF Promise!Hosts, Promise!Group, Promise!Sequence, Promise!Step, Group,
                  Sequence, Step
    <2> QED
      BY <1>2, PhaseIs DEF HostsIn, Held
  <1>5. \A j \in Step : j < k => ready \cap Promise!Hosts(<<s, j>>, "held") = {}
    <2> SUFFICES ASSUME NEW j \in Step, j < k, NEW h \in ready
                 PROVE  Phase(row[<<s, j>>].states[h]) # "held"
      BY <1>3 DEF Promise!Hosts, Promise!Group, Promise!Sequence, Promise!Step, Group,
                  Sequence, Step
    <2> QED
      BY <1>2, <1>3, PhaseIs DEF HostsIn
  <1>6. ASSUME NEW f \in Group, NEW h \in Host
        PROVE  Phase(row'[f].states[h])
                 = IF f[1] = s /\ f[2] >= k /\ h \in ready /\ Seen[f][h] = "held"
                   THEN "taken" ELSE Seen[f][h]
    <2>1. row'[f].states[h] = IF f[1] = s /\ h \in FlushTake(g)[f[2]]
                              THEN IF f = g THEN "queued" ELSE "pending"
                              ELSE row[f].states[h]
      BY <1>0, FlushRows
    <2>2. Seen[f][h] = Phase(row[f].states[h])
      BY DEF Seen
    <2>3. (f[1] = s /\ f[2] >= k /\ h \in ready /\ Seen[f][h] = "held")
            <=> (f[1] = s /\ h \in FlushTake(g)[f[2]])
      <3>1. f = <<f[1], f[2]>> /\ f[2] \in Step /\ f[2] \in Int /\ k \in Int
        BY <1>1 DEF Group, Step
      <3>2. CASE f[1] = s /\ f[2] > k
        <4>1. h \in FlushTake(g)[f[2]] <=> h \in ready /\ row[f].states[h] = "waiting"
          BY <1>1, <3>1, <3>2 DEF FlushTake, HostsIn
        <4>2. Seen[f][h] = "held" <=> row[f].states[h] \in Held
          BY <1>2, <2>2, PhaseIs
        <4>3. h \in ready => row[f].states[h] # "ready"
          BY <1>3, <3>1, <3>2
        <4> QED
          BY <3>1, <3>2, <4>1, <4>2, <4>3 DEF Held
      <3>3. CASE f[1] = s /\ f[2] = k
        <4>1. f = g /\ FlushTake(g)[f[2]] = ready
          BY <1>1, <3>1, <3>3 DEF FlushTake
        <4>2. h \in ready => Seen[f][h] = "held"
          BY <1>2, <2>2, <4>1, PhaseIs DEF HostsIn, Held
        <4> QED
          BY <3>1, <3>3, <4>1, <4>2
      <3>4. CASE f[1] = s /\ f[2] < k
        <4>1. FlushTake(g)[f[2]] = {}
          BY <3>1, <3>4 DEF FlushTake
        <4> QED
          BY <3>1, <3>4, <4>1
      <3> QED
        BY <3>1, <3>2, <3>3, <3>4
    <2>4. Phase("queued") = "taken" /\ Phase("pending") = "taken"
      BY PhaseIs DEF HostState, OpenStates, Taken
    <2> HIDE DEF s, k, ready
    <2> QED
      BY <2>1, <2>2, <2>3, <2>4
  <1>7. Seen' = [f \in Group |-> [h \in Host |->
                   IF f[1] = s /\ f[2] >= k /\ h \in ready /\ Seen[f][h] = "held"
                   THEN "taken" ELSE Seen[f][h]]]
    <2> HIDE DEF s, k, ready
    <2>1. ASSUME NEW f \in Group
          PROVE  [h \in Host |-> Phase(row'[f].states[h])]
                   = [h \in Host |->
                        IF f[1] = s /\ f[2] >= k /\ h \in ready /\ Seen[f][h] = "held"
                        THEN "taken" ELSE Seen[f][h]]
      BY <1>6
    <2> QED
      BY <2>1 DEF Seen
  <1>8. ready \in SUBSET Host
    BY DEF HostsIn
  <1> HIDE DEF s, k, ready
  <1>9. Promise!Take(s, k, ready)
    BY <1>4, <1>5, <1>7 DEF Promise!Take, Promise!Group, Promise!Sequence, Promise!Step, Group,
                            Sequence, Step, Seen
  <1> QED
    BY <1>1, <1>8, <1>9 DEF Promise!Next, Promise!Sequence, Promise!Step, Sequence, Step

LEMMA ExpireWithdraws ==
    ASSUME TypeOK, NEW c \in Sequence, Expire(c)
    PROVE  Promise!Next
  <1> DEFINE dropped == {p \in Group \X Host : /\ row[p[1]].states[p[2]] = "waiting"
                                               /\ row'[p[1]].states[p[2]] = "cancelled"}
  <1>1. \A g \in Group, h \in Host : row[g].states[h] \in HostState
    BY DEF TypeOK, Row
  <1>2. dropped \in SUBSET Promise!Held
    <2>1. ASSUME NEW p \in dropped
          PROVE  p \in Group \X Host /\ Phase(row[p[1]].states[p[2]]) = "held"
      BY <1>1, PhaseIs DEF Held
    <2> QED
      BY <2>1 DEF Promise!Held, Promise!Group, Promise!Sequence, Promise!Step, Group,
                  Sequence, Step
  <1>3. ASSUME NEW g \in Group, NEW h \in Host
        PROVE  Phase(row'[g].states[h]) = IF <<g, h>> \in dropped THEN "settled" ELSE Seen[g][h]
    <2>1. Seen[g][h] = Phase(row[g].states[h]) /\ Phase("cancelled") = "settled"
      BY PhaseIs DEF Seen, HostState, Settled
    <2>2. \/ row'[g].states[h] = row[g].states[h] /\ <<g, h>> \notin dropped
          \/ row'[g].states[h] = "cancelled" /\ <<g, h>> \in dropped
      BY ExpireRows
    <2> QED
      BY <2>1, <2>2
  <1>4. Seen' = [g \in Group |-> [h \in Host |->
                   IF <<g, h>> \in dropped THEN "settled" ELSE Seen[g][h]]]
    <2> HIDE DEF dropped
    <2>1. ASSUME NEW g \in Group
          PROVE  [h \in Host |-> Phase(row'[g].states[h])]
                   = [h \in Host |-> IF <<g, h>> \in dropped THEN "settled" ELSE Seen[g][h]]
      BY <1>3
    <2> QED
      BY <2>1 DEF Seen
  <1> HIDE DEF dropped
  <1>5. Promise!Withdraw(dropped)
    BY <1>4 DEF Promise!Withdraw, Promise!Group, Promise!Sequence, Promise!Step, Group,
                Sequence, Step, Seen
  <1> QED
    BY <1>2, <1>5 DEF Promise!Next

LEMMA RecordSettlesInOrder ==
    ASSUME PromiseInv, NEW w \in Worker, NEW own \in [Host -> Reported], Record(w, own)
    PROVE  Promise!Next
  <1>0. /\ TypeOK /\ ExecutionInv /\ SameBatch /\ WorkInv /\ TakenIsCovered /\ PastSettled
        /\ Doing(w, "ended") /\ ~Doing(w, "idle")
    BY DEF PromiseInv, BatchesInv, ExecutionInv, Record, Doing
  <1> PICK e \in Execution : e = worker[w].exec
    BY <1>0, BusyType DEF Doing
  <1>1. Used(e) /\ SettledBefore(e)
    BY <1>0 DEF WorkInv, WorkerInv, PastSettled
  <1> DEFINE s == owner[e[1]]
             k == e[2]
             mine == targets[e] \cap HostsIn(row[<<s, k>>], Taken)
  <1>2. s \in Sequence /\ k \in Step /\ GroupOf(e) = <<s, k>> /\ mine \in SUBSET Host
    BY <1>0, <1>1, BoundsAssumption DEF Used, TypeOK, Execution, Sequence, GroupOf, HostsIn
  <1>3. \A f \in Group, h \in Host : row[f].states[h] \in HostState
    BY <1>0 DEF TypeOK, Row
  <1>4. \A j \in Step : <<s, j>> \in Group
    BY <1>2 DEF Group
  <1>5. mine \subseteq Promise!Hosts(<<s, k>>, "taken")
    <2> SUFFICES ASSUME NEW h \in mine
                 PROVE  h \in Host /\ Phase(row[<<s, k>>].states[h]) = "taken"
      BY <1>2 DEF Promise!Hosts, Promise!Group, Promise!Sequence, Promise!Step, Group,
                  Sequence, Step
    <2> QED
      BY <1>2, <1>3, <1>4, PhaseIs DEF HostsIn
  <1>6. \A j \in Step : j < k => mine \cap Promise!Hosts(<<s, j>>, "taken") = {}
    <2> SUFFICES ASSUME NEW j \in Step, j < k, NEW h \in mine,
                        Phase(row[<<s, j>>].states[h]) = "taken"
                 PROVE  FALSE
      BY <1>2, <1>4 DEF Promise!Hosts, Promise!Group, Promise!Sequence, Promise!Step, Group,
                        Sequence, Step
    <2>1. row[<<s, j>>].states[h] \in Taken
      BY <1>2, <1>3, <1>4, PhaseIs
    <2>2. PICK x \in Execution : Used(x) /\ GroupOf(x) = <<s, j>> /\ h \in targets[x]
      BY <1>0, <1>2, <1>4, <2>1 DEF TakenIsCovered, HostsIn
    <2>3. x[1] = e[1]
      BY <1>0, <1>1, <1>2, <2>2 DEF SameBatch, GroupOf
    <2>4. Earlier(x, e)
      BY <2>2, <2>3 DEF Earlier, GroupOf
    <2>5. row[<<s, j>>].states[h] \in Settled
      BY <1>1, <2>2, <2>4 DEF SettledBefore, OwnSettled
    <2> QED
      BY <2>1, <2>5 DEF Taken, Settled
  <1>7. ASSUME NEW f \in Group, NEW h \in Host
        PROVE  Phase(row'[f].states[h])
                 = IF f = <<s, k>> /\ h \in mine THEN "settled" ELSE Seen[f][h]
    <2>1. row'[f].states[h] = IF f = <<s, k>> /\ h \in mine
                              THEN Result(e, own, h) ELSE row[f].states[h]
      <3>1. row'[f].states[h] = IF /\ f = GroupOf(e) /\ h \in targets[e]
                                   /\ row[f].states[h] \in Taken
                                THEN Result(e, own, h) ELSE row[f].states[h]
        BY <1>0, RecordRows
      <3> QED
        BY <1>2, <3>1 DEF HostsIn
    <2>2. Phase(Result(e, own, h)) = "settled"
      <3>1. Result(e, own, h) \in Settled
        BY ResultType
      <3>2. Result(e, own, h) \in HostState
        BY <3>1 DEF HostState
      <3> QED
        BY <3>1, <3>2, PhaseIs
    <2>3. Seen[f][h] = Phase(row[f].states[h])
      BY DEF Seen
    <2> HIDE DEF mine
    <2> QED
      BY <2>1, <2>2, <2>3
  <1>8. Seen' = [Seen EXCEPT ![<<s, k>>] =
                   [h \in Host |-> IF h \in mine THEN "settled" ELSE Seen[<<s, k>>][h]]]
    <2> DEFINE P == [Seen EXCEPT ![<<s, k>>] =
                       [h \in Host |-> IF h \in mine THEN "settled" ELSE Seen[<<s, k>>][h]]]
    <2>1. P = [f \in Group |-> [h \in Host |->
                 IF f = <<s, k>> /\ h \in mine THEN "settled" ELSE Seen[f][h]]]
      <3>1. Seen = [f \in Group |-> [h \in Host |-> Seen[f][h]]]
        BY DEF Seen
      <3> HIDE DEF mine
      <3> QED
        BY <3>1
    <2>2. Seen' = [f \in Group |-> [h \in Host |->
                     IF f = <<s, k>> /\ h \in mine THEN "settled" ELSE Seen[f][h]]]
      <3> HIDE DEF s, k, mine
      <3>1. ASSUME NEW f \in Group
            PROVE  [h \in Host |-> Phase(row'[f].states[h])]
                     = [h \in Host |->
                          IF f = <<s, k>> /\ h \in mine THEN "settled" ELSE Seen[f][h]]
        BY <1>7
      <3> QED
        BY <3>1 DEF Seen
    <2> QED
      BY <2>1, <2>2
  <1> HIDE DEF s, k, mine
  <1>9. Promise!Settle(s, k, mine)
    BY <1>5, <1>6, <1>8 DEF Promise!Settle, Promise!Group, Promise!Sequence, Promise!Step,
                            Group, Sequence, Step, Seen
  <1> QED
    BY <1>2, <1>9 DEF Promise!Next, Promise!Sequence, Promise!Step, Sequence, Step

\* Every step of the runs is a step of HostAssignments or is not seen in it.
LEMMA StepKeepsPromise ==
    ASSUME PromiseInv, [Next]_vars
    PROVE  Promise!Next \/ Seen' = Seen
  <1>0. /\ ExecutionInv /\ ReadyFirst /\ TypeOK /\ NoCancel
    BY DEF PromiseInv, BatchesInv, ExecutionInv
  <1>1. ~CancelCommit
    BY <1>0, NextNoCancel
  <1>2. \A f \in Group, h \in Host : row[f].states[h] \in HostState
    BY <1>0 DEF TypeOK, Row
  <1>3. \A state \in Held : state \in HostState /\ Phase(state) = "held"
    BY PhaseIs DEF Held, HostState, OpenStates
  <1>4. \A state \in Taken : state \in HostState /\ Phase(state) = "taken"
    BY PhaseIs DEF Taken, HostState, OpenStates
  <1>5. ASSUME NEW plan \in Plan, NEW hosts \in SUBSET Host, NEW online \in SUBSET Host,
               NEW defer \in BOOLEAN, NEW seen \in [Step -> 0 .. made],
               Create(plan, hosts, online, defer, seen)
        PROVE  Promise!Next
    BY <1>0, <1>5, CreateAssigns
  <1>6. ASSUME NEW h \in Host, Release(h)
        PROVE  Seen' = Seen
    <2> SUFFICES ASSUME NEW g \in Group, NEW k \in Host
                 PROVE  Phase(row'[g].states[k]) = Phase(row[g].states[k])
      BY NothingSeen
    <2>1. row'[g].states[k] = IF k = h /\ g \in Freed(h) THEN "ready" ELSE row[g].states[k]
      BY <1>0, <1>6, ReleaseRows
    <2> QED
      BY <1>3, <2>1 DEF Freed, Held
  <1>7. ASSUME NEW g \in Group, Flush(g)
        PROVE  Promise!Next \/ Seen' = Seen
    BY <1>0, <1>7, FlushTakes
  <1>8. ASSUME NEW c \in Sequence, Expire(c)
        PROVE  Promise!Next
    BY <1>0, <1>8, ExpireWithdraws
  <1>9. ASSUME NEW w \in Worker, NEW e \in Execution, Start(w, e)
        PROVE  Seen' = Seen
    <2> SUFFICES ASSUME NEW g \in Group, NEW h \in Host
                 PROVE  Phase(row'[g].states[h]) = Phase(row[g].states[h])
      BY NothingSeen
    <2>1. \/ row'[g].states[h] = row[g].states[h]
          \/ row[g].states[h] \in Taken /\ row'[g].states[h] \in Taken
      BY <1>0, <1>9, StartRows DEF Taken
    <2> QED
      BY <1>4, <2>1
  <1>10. ASSUME NEW w \in Worker, NEW own \in [Host -> Reported], Record(w, own)
         PROVE  Promise!Next
    BY <1>10, RecordSettlesInOrder
  <1>11. ASSUME NEW w \in Worker, Grant(w)
         PROVE  Seen' = Seen
    <2> SUFFICES ASSUME NEW g \in Group, NEW h \in Host
                 PROVE  Phase(row'[g].states[h]) = Phase(row[g].states[h])
      BY NothingSeen
    <2>1. \/ row'[g].states[h] = row[g].states[h]
          \/ row[g].states[h] \in Taken /\ row'[g].states[h] \in Taken
      BY <1>0, <1>11, GrantRows DEF Taken
    <2> QED
      BY <1>4, <2>1
  <1>12. CASE UNCHANGED row
    BY <1>12 DEF Seen
  <1> QED
    BY <1>1, <1>5, <1>6, <1>7, <1>8, <1>9, <1>10, <1>11, <1>12
       DEF Next, Request, CancelRead, CancelExecution, Work, Run, End, Follow, Claim, Fault,
           StartFails, BodyFails, RecordFails, Crash, LoseFlush, LoseExecution, Redeliver,
           vars, rowVars

\* The runs implement HostAssignments, whatever crashes, is lost or comes
\* twice, as long as nobody cancels: a host is taken for all the playbooks it
\* is held for at once, its results come in their order, nothing goes back.
THEOREM PromiseIsKept ==
    ASSUME MaxCancels = 0, MaxChildCancels = 0
    PROVE  Spec => KeepsPromise
  <1>1. Init => PromiseInv
    BY InitPromiseInv
  <1>2. PromiseInv /\ [Next]_vars => PromiseInv'
    BY NextPromiseInv
  <1>3. Init => Promise!Init
    <2> SUFFICES ASSUME Init
                 PROVE  Promise!Init
      OBVIOUS
    <2>1. Phase("absent") = "absent"
      BY PhaseIs DEF HostState
    <2>2. \A g \in Group, h \in Host : Phase(row[g].states[h]) = "absent"
      BY <2>1 DEF Init, NoRow
    <2> QED
      BY <2>2 DEF Promise!Init, Promise!Group, Promise!Sequence, Promise!Step, Group,
                  Sequence, Step
  <1>4. PromiseInv /\ [Next]_vars
          => [Promise!Next]_[g \in Group |-> [h \in Host |-> Phase(row[g].states[h])]]
    BY StepKeepsPromise DEF Seen
  <1> QED
    BY <1>1, <1>2, <1>3, <1>4, PTL DEF Spec, KeepsPromise, Promise!Spec

=============================================================================
