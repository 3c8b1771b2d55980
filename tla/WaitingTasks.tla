---------------------------- MODULE WaitingTasks ----------------------------
(***************************************************************************)
(* Grouped runs of backend/services/waiting_tasks.py: one run of a         *)
(* playbook, a software scan or an agent task on many hosts, the chain of  *)
(* runs several playbooks make, and the executions (child tasks) that      *)
(* carry them out in the celery worker.                                    *)
(*                                                                         *)
(* A row of task_runs with grouped = True is a group; the groups of one    *)
(* create_task_sequence call form a sequence, so a group is named by its   *)
(* sequence and its step and after_task_id of <<s, k>> is <<s, k-1>>.      *)
(* Executions are created a chain at a time, by create_task_sequence or by *)
(* flush_released: such a chain is a batch, an execution is named by its   *)
(* batch and step, and after_task_id is the previous non-empty step.       *)
(*                                                                         *)
(* A database transaction is one step: the code takes its rows FOR UPDATE  *)
(* and PostgreSQL re-reads a row after waiting for its lock.  Whatever the *)
(* code does in several transactions is several steps.                     *)
(***************************************************************************)
EXTENDS Integers, FiniteSets, Sequences

CONSTANTS
    Host,            \* hosts a run may address
    Playbook,        \* (task type, repository, playbook): what _open_groups matches
    Batch,           \* identities of execution chains (uuid4: never reused)
    Worker,          \* processes of the celery worker
    MaxSequences,    \* bound: calls of create_task_sequence
    MaxSteps,        \* bound: playbooks of one call (MAX_PLAYBOOKS_PER_RUN)
    MaxCancels,      \* bound: cancel requests for a group
    MaxChildCancels, \* bound: cancel requests for one execution
    MaxFaults,       \* bound: crashes, lost messages, failed transactions
    MaxRedeliveries, \* bound: messages the broker delivers again
    Reported         \* what an executor may write for one host

ASSUME BoundsAssumption ==
    /\ MaxSequences \in Nat
    /\ MaxSteps \in Nat
    /\ {MaxCancels, MaxChildCancels, MaxFaults, MaxRedeliveries} \subseteq Nat

ASSUME ReportedAssumption ==
    Reported \subseteq {"success", "failed", "cancelled", "none"}

VARIABLES
    made,      \* sequences created so far
    began,     \* history: sequence -> how many were made when its creation first read
    playbook,  \* group -> its playbook, NoPlaybook before it is created
    row,       \* group -> host_states, status and finished_at of its row
    flushes,   \* group -> flush_released messages in flight
    owner,     \* batch -> sequence its executions belong to, 0 while unused
    targets,   \* execution -> host_ids
    status,    \* execution -> status
    sent,      \* execution -> messages in flight that ask to run it
    worker,    \* worker -> what it is doing
    request,   \* the cancel request in progress: the row its session has read
    left       \* what remains of the bounds on requests and faults

vars == <<made, began, playbook, row, flushes, owner, targets, status, sent,
          worker, request, left>>

runVars    == <<made, began, playbook>>
rowVars    == <<row, flushes>>
execVars   == <<owner, targets, status, sent>>

Sequence  == 1 .. MaxSequences
Step      == 1 .. MaxSteps
Group     == Sequence \X Step
Execution == Batch \X Step

NoPlaybook == "no playbook"

Settled    == {"success", "failed", "cancelled"}
OpenStates == {"waiting", "ready", "pending", "queued", "running"}
HostState  == {"absent"} \cup OpenStates \cup Settled
RunStatus  == {"none", "queued", "running", "pending", "waiting"} \cup Settled

Row == [states : [Host -> HostState], status : RunStatus, finished : BOOLEAN]

\* A group that is not created: no query finds it.
NoRow == [states |-> [h \in Host |-> "absent"], status |-> "none", finished |-> TRUE]

Idle == [pc |-> "idle"]
Activity == {Idle} \cup [pc : {"taken", "body", "ended", "follow", "claim", "grant"},
                         exec : Execution, at : Execution]
NoRequest == [open |-> FALSE]

-----------------------------------------------------------------------------
(* Helpers of the module *)

HostsIn(r, S) == {h \in Host : r.states[h] \in S}

\* Mutant: only what an execution has taken keeps a group open.
AnyOpenTakenOnly(states) == \E h \in Host : states[h] \in {"pending", "queued", "running"}

AnyOpen(states) == \E h \in Host : states[h] \in OpenStates

\* Mutant: the status of a group shows the inner state ready.
GroupStatusShowsReady(states) ==
    LET has(S) == \E h \in Host : states[h] \in S
    IN  IF has({"running"}) THEN "running"
        ELSE IF has({"queued"}) THEN "queued"
        ELSE IF has({"ready"}) THEN "ready"
        ELSE IF has({"pending"}) THEN "pending"
        ELSE IF has({"waiting"}) THEN "waiting"
        ELSE IF has({"failed"}) THEN "failed"
        ELSE "success"

\* What still goes on decides, then what failed.
GroupStatus(states) ==
    LET has(S) == \E h \in Host : states[h] \in S
    IN  IF has({"running"}) THEN "running"
        ELSE IF has({"queued", "ready"}) THEN "queued"
        ELSE IF has({"pending"}) THEN "pending"
        ELSE IF has({"waiting"}) THEN "waiting"
        ELSE IF has({"failed"}) THEN "failed"
        ELSE IF has({"success"}) THEN "success"
        ELSE "cancelled"

\* Mutant: the status is summed up only when the group is over.
SetStatesLateSummary(r, changes) ==
    LET new == [h \in Host |-> IF h \in DOMAIN changes THEN changes[h] ELSE r.states[h]]
    IN  IF DOMAIN changes = {}
        THEN r
        ELSE [states |-> new, finished |-> ~AnyOpen(new),
              status |-> IF AnyOpen(new) THEN r.status ELSE GroupStatus(new)]

\* changes is a function from the hosts that change to their new states.
SetStates(r, changes) ==
    LET new == [h \in Host |-> IF h \in DOMAIN changes THEN changes[h] ELSE r.states[h]]
    IN  IF DOMAIN changes = {}
        THEN r
        ELSE [states |-> new, status |-> GroupStatus(new), finished |-> ~AnyOpen(new)]

Move(r, hosts, to) == SetStates(r, [h \in hosts |-> to])

NewRow(states) == [states |-> states, status |-> GroupStatus(states), finished |-> FALSE]

GroupOf(e) == <<owner[e[1]], e[2]>>

\* The execution whose after_task_id is e, if there is one.
IsFollower(f, e) ==
    /\ f[1] = e[1] /\ f[2] > e[2] /\ targets[f] # {}
    /\ \A k \in Step : (e[2] < k /\ k < f[2]) => targets[<<e[1], k>>] = {}

HasFollower(e) == \E f \in Execution : IsFollower(f, e)
Follower(e)    == CHOOSE f \in Execution : IsFollower(f, e)

FreeBatches == {b \in Batch : owner[b] = 0}

\* Mutant: the later executions of a chain are queued at once as well.
AddBatchAllQueued(b, s, take, first) ==
    /\ owner' = [owner EXCEPT ![b] = s]
    /\ targets' = [e \in Execution |-> IF e[1] = b THEN take[e[2]] ELSE targets[e]]
    /\ status' = [e \in Execution |-> IF e[1] = b /\ take[e[2]] # {} THEN "queued" ELSE status[e]]
    /\ sent' = [sent EXCEPT ![<<b, first>>] = 1]

\* Mutant: every execution of a chain is sent at once.
AddBatchAllSent(b, s, take, first) ==
    /\ owner' = [owner EXCEPT ![b] = s]
    /\ targets' = [e \in Execution |-> IF e[1] = b THEN take[e[2]] ELSE targets[e]]
    /\ status' = [e \in Execution |-> IF e[1] = b /\ take[e[2]] # {} THEN "queued" ELSE status[e]]
    /\ sent' = [e \in Execution |-> IF e[1] = b /\ take[e[2]] # {} THEN 1 ELSE sent[e]]

\* Adds the executions of batch b: take[k] are the hosts of step k, the first
\* non-empty step is queued and its message is sent, the others wait for it.
AddBatch(b, s, take, first) ==
    /\ owner' = [owner EXCEPT ![b] = s]
    /\ targets' = [e \in Execution |-> IF e[1] = b THEN take[e[2]] ELSE targets[e]]
    /\ status' = [e \in Execution |->
                    IF e[1] = b /\ take[e[2]] # {}
                    THEN IF e[2] = first THEN "queued" ELSE "pending"
                    ELSE status[e]]
    /\ sent' = [sent EXCEPT ![<<b, first>>] = 1]

Spend(kind) ==
    /\ left[kind] > 0
    /\ left' = [left EXCEPT ![kind] = @ - 1]

-----------------------------------------------------------------------------
Init ==
    /\ made = 0
    /\ began = [s \in Sequence |-> 0]
    /\ playbook = [g \in Group |-> NoPlaybook]
    /\ row = [g \in Group |-> NoRow]
    /\ flushes = [g \in Group |-> 0]
    /\ owner = [b \in Batch |-> 0]
    /\ targets = [e \in Execution |-> {}]
    /\ status = [e \in Execution |-> "none"]
    /\ sent = [e \in Execution |-> 0]
    /\ worker = [w \in Worker |-> Idle]
    /\ request = NoRequest
    /\ left = [cancel |-> MaxCancels, child |-> MaxChildCancels,
               fault |-> MaxFaults, again |-> MaxRedeliveries]

\* Mutant: only the runs of the first playbook are looked up.
SupersedesFirstOnly(plan, seen, g) ==
    ~row[g].finished /\ playbook[g] = plan[1] /\ g[1] <= seen[1]

\* _open_groups: of the runs its statement sees, those of the playbooks of
\* plan that are not over.  seen[k] sequences were committed when the statement
\* for playbook k took its snapshot.
Supersedes(plan, seen, g) ==
    /\ ~row[g].finished
    /\ \E k \in DOMAIN plan : playbook[g] = plan[k] /\ g[1] <= seen[k]

(* create_task_sequence: the groups of the same playbooks it sees lose the *)
(* hosts that still wait there (_supersede), then a group per playbook is  *)
(* added and, for the hosts that are online, one chain of executions.  The *)
(* caller sends the first one after the commit.  Without defer every host  *)
(* counts as online and nothing is superseded.  The step is the commit:    *)
(* the rows it has locked are those of seen, and what other calls commit   *)
(* after its statements have begun it neither sees nor waits for.          *)
Create(plan, hosts, online, defer, seen) ==
    LET s == made + 1
        first == [h \in Host |-> IF h \in online THEN "queued"
                                 ELSE IF h \in hosts THEN "waiting" ELSE "absent"]
        later == [h \in Host |-> IF first[h] = "queued" THEN "pending" ELSE first[h]]
    IN  /\ made < MaxSequences
        /\ hosts # {} /\ online \subseteq hosts
        /\ defer \/ online = hosts
        /\ \A j, k \in Step : j <= k => seen[j] <= seen[k]
        /\ made' = s
        /\ began' = [began EXCEPT ![s] = seen[1]]
        /\ playbook' = [g \in Group |->
                          IF g[1] = s /\ g[2] \in DOMAIN plan THEN plan[g[2]] ELSE playbook[g]]
        /\ row' = [g \in Group |->
                     IF g[1] = s /\ g[2] \in DOMAIN plan
                     THEN NewRow(IF g[2] = 1 THEN first ELSE later)
                     ELSE IF defer /\ Supersedes(plan, seen, g)
                     THEN Move(row[g], HostsIn(row[g], {"waiting"}) \cap hosts, "cancelled")
                     ELSE row[g]]
        /\ IF online = {}
           THEN UNCHANGED execVars
           ELSE /\ FreeBatches # {}
                /\ AddBatch(CHOOSE b \in FreeBatches : TRUE, s,
                            [k \in Step |-> IF k \in DOMAIN plan THEN online ELSE {}], 1)
        /\ UNCHANGED <<flushes, worker, request, left>>

\* Mutant: the flush is scheduled when the ready hosts, the new one counted,
\* are none.
ReleaseCountsItself(h) ==
    LET holding == {g \in Group : ~row[g].finished /\ row[g].states[h] \in {"waiting", "ready"}}
        freed == {g \in holding :
                    /\ row[g].states[h] = "waiting"
                    /\ \A e \in holding : e[1] = g[1] => e[2] >= g[2]}
    IN  /\ freed # {}
        /\ row' = [g \in Group |-> IF g \in freed THEN Move(row[g], {h}, "ready") ELSE row[g]]
        /\ flushes' = [g \in Group |->
                         IF g \in freed /\ HostsIn(row'[g], {"ready"}) = {}
                         THEN flushes[g] + 1 ELSE flushes[g]]
        /\ UNCHANGED <<runVars, execVars, worker, request, left>>

\* Mutant: a host that waits for the previous playbook is released as well.
ReleasePendingToo(h) ==
    LET freed == {g \in Group : ~row[g].finished /\ row[g].states[h] \in {"waiting", "pending"}}
    IN  /\ freed # {}
        /\ row' = [g \in Group |-> IF g \in freed THEN Move(row[g], {h}, "ready") ELSE row[g]]
        /\ flushes' = [g \in Group |->
                         IF g \in freed /\ HostsIn(row[g], {"ready"}) = {}
                         THEN flushes[g] + 1 ELSE flushes[g]]
        /\ UNCHANGED <<runVars, execVars, worker, request, left>>

\* Mutant: every group of a chain lets the host go, not only the first.
ReleaseWholeChain(h) ==
    LET freed == {g \in Group : ~row[g].finished /\ row[g].states[h] = "waiting"}
    IN  /\ freed # {}
        /\ row' = [g \in Group |-> IF g \in freed THEN Move(row[g], {h}, "ready") ELSE row[g]]
        /\ flushes' = [g \in Group |->
                         IF g \in freed /\ HostsIn(row[g], {"ready"}) = {}
                         THEN flushes[g] + 1 ELSE flushes[g]]
        /\ UNCHANGED <<runVars, execVars, worker, request, left>>

(* release_waiting_tasks: the host is reachable.  Of each chain only the   *)
(* first group that still holds the host lets it go; the first ready host  *)
(* of a group schedules flush_released for it.                             *)
Release(h) ==
    LET holding == {g \in Group : ~row[g].finished /\ row[g].states[h] \in {"waiting", "ready"}}
        freed == {g \in holding :
                    /\ row[g].states[h] = "waiting"
                    /\ \A e \in holding : e[1] = g[1] => e[2] >= g[2]}
    IN  /\ freed # {}
        /\ row' = [g \in Group |-> IF g \in freed THEN Move(row[g], {h}, "ready") ELSE row[g]]
        /\ flushes' = [g \in Group |->
                         IF g \in freed /\ HostsIn(row[g], {"ready"}) = {}
                         THEN flushes[g] + 1 ELSE flushes[g]]
        /\ UNCHANGED <<runVars, execVars, worker, request, left>>

\* Mutant: the hosts an execution was made for stay ready.
FlushKeepsReady(g) ==
    LET ready == HostsIn(row[g], {"ready"})
        take == [k \in Step |-> IF k = g[2] THEN ready ELSE {}]
    IN  /\ flushes[g] > 0
        /\ flushes' = [flushes EXCEPT ![g] = @ - 1]
        /\ IF ready = {} \/ FreeBatches = {}
           THEN UNCHANGED execVars
           ELSE AddBatch(CHOOSE b \in FreeBatches : TRUE, g[1], take, g[2])
        /\ UNCHANGED <<runVars, row, worker, request, left>>

(* flush_released: one execution for all the ready hosts of the group and, *)
(* behind it, one for each later group of the chain that holds any of them.*)
Flush(g) ==
    LET ready == HostsIn(row[g], {"ready"})
        take == [k \in Step |->
                   IF k = g[2] THEN ready
                   ELSE IF k > g[2] THEN ready \cap HostsIn(row[<<g[1], k>>], {"waiting"})
                   ELSE {}]
    IN  /\ flushes[g] > 0
        /\ flushes' = [flushes EXCEPT ![g] = @ - 1]
        /\ IF ready = {}
           THEN UNCHANGED <<row, execVars>>
           ELSE /\ FreeBatches # {}
                /\ AddBatch(CHOOSE b \in FreeBatches : TRUE, g[1], take, g[2])
                /\ row' = [f \in Group |->
                             IF f[1] = g[1]
                             THEN Move(row[f], take[f[2]], IF f = g THEN "queued" ELSE "pending")
                             ELSE row[f]]
        /\ UNCHANGED <<runVars, worker, request, left>>

(* expire_waiting_tasks: groups created before the cutoff, that is the     *)
(* first c sequences, drop the hosts that never appeared.                  *)
Expire(c) ==
    LET stale == {g \in Group : /\ g[1] <= c /\ ~row[g].finished
                                /\ HostsIn(row[g], {"waiting"}) # {}}
    IN  /\ stale # {}
        /\ row' = [g \in Group |->
                     IF g \in stale
                     THEN Move(row[g], HostsIn(row[g], {"waiting"}), "cancelled")
                     ELSE row[g]]
        /\ UNCHANGED <<runVars, flushes, execVars, worker, request, left>>

-----------------------------------------------------------------------------
(* A worker process takes an execution through task_prerun, the task body  *)
(* and task_postrun.                                                       *)

Doing(w, pc) == worker[w].pc = pc
Goto(w, pc, e, at) == worker' = [worker EXCEPT ![w] = [pc |-> pc, exec |-> e, at |-> at]]
Rest(w) == worker' = [worker EXCEPT ![w] = Idle]

Deliver(w, e) ==
    /\ Doing(w, "idle")
    /\ sent[e] > 0
    /\ sent' = [sent EXCEPT ![e] = @ - 1]
    /\ Goto(w, "taken", e, e)

\* execution_started, in the task_prerun signal.
Start(w, e) ==
    LET g == GroupOf(e)
    IN  /\ Deliver(w, e)
        /\ row' = [row EXCEPT ![g] =
                     Move(row[g], targets[e] \cap HostsIn(row[g], {"queued", "pending"}), "running")]
        /\ UNCHANGED <<runVars, flushes, owner, targets, status, request, left>>

\* The signal handler logs an exception and lets the task run.
StartFails(w, e) ==
    /\ Deliver(w, e)
    /\ Spend("fault")
    /\ UNCHANGED <<runVars, rowVars, owner, targets, status, request>>

\* The executor marks its own row running and turns to the hosts.
Run(w) ==
    LET e == worker[w].exec
    IN  /\ Doing(w, "taken")
        /\ status' = [status EXCEPT ![e] = "running"]
        /\ Goto(w, "body", e, e)
        /\ UNCHANGED <<runVars, rowVars, owner, targets, sent, request, left>>

\* The executor ends: its status, and its host_states (read in Record only).
End(w, outcome) ==
    LET e == worker[w].exec
    IN  /\ Doing(w, "body")
        /\ status' = [status EXCEPT ![e] = outcome]
        /\ Goto(w, "ended", e, e)
        /\ UNCHANGED <<runVars, rowVars, owner, targets, sent, request, left>>

\* The executor fails to store something and, in its own handler, fails again,
\* for the session is not rolled back: its row stays as it is.
BodyFails(w) ==
    LET e == worker[w].exec
    IN  /\ Doing(w, "taken") \/ Doing(w, "body")
        /\ Spend("fault")
        /\ Goto(w, "ended", e, e)
        /\ UNCHANGED <<runVars, rowVars, execVars, request>>

\* host_results: what the executor wrote for a host, else the task's status.
Result(e, own, h) == IF own[h] \in Settled THEN own[h]
                     ELSE IF status[e] \in {"success", "cancelled"} THEN status[e] ELSE "failed"

\* Mutant: a host without a result of its own gets none.
RecordOwnOnly(w, own) ==
    LET e == worker[w].exec
        g == GroupOf(e)
        mine == {h \in targets[e] \cap HostsIn(row[g], {"queued", "running", "pending"}) :
                    own[h] \in Settled}
    IN  /\ Doing(w, "ended")
        /\ row' = [row EXCEPT ![g] = SetStates(row[g], [h \in mine |-> Result(e, own, h)])]
        /\ Goto(w, "follow", e, e)
        /\ UNCHANGED <<runVars, flushes, execVars, request, left>>

\* Mutant: results are written over earlier ones.
RecordAgain(w, own) ==
    LET e == worker[w].exec
        g == GroupOf(e)
    IN  /\ Doing(w, "ended")
        /\ row' = [row EXCEPT ![g] = SetStates(row[g], [h \in targets[e] |-> Result(e, own, h)])]
        /\ Goto(w, "follow", e, e)
        /\ UNCHANGED <<runVars, flushes, execVars, request, left>>

\* execution_finished, its first transaction, in the task_postrun signal.
Record(w, own) ==
    LET e == worker[w].exec
        g == GroupOf(e)
        mine == targets[e] \cap HostsIn(row[g], {"queued", "running", "pending"})
    IN  /\ Doing(w, "ended")
        /\ row' = [row EXCEPT ![g] = SetStates(row[g], [h \in mine |-> Result(e, own, h)])]
        /\ Goto(w, "follow", e, e)
        /\ UNCHANGED <<runVars, flushes, execVars, request, left>>

\* The signal handler logs an exception: no results, no follower.
RecordFails(w) ==
    /\ Doing(w, "ended")
    /\ Spend("fault")
    /\ Rest(w)
    /\ UNCHANGED <<runVars, rowVars, execVars, request>>

\* Mutant: a failed playbook ends the chain.
FollowSuccessOnly(w) ==
    LET e  == worker[w].exec
        at == worker[w].at
        f  == Follower(at)
    IN  /\ Doing(w, "follow")
        /\ IF ~HasFollower(at) \/ status[e] # "success" THEN Rest(w)
           ELSE IF status[f] = "cancelled" THEN Goto(w, "follow", e, f)
           ELSE Goto(w, "claim", e, f)
        /\ UNCHANGED <<runVars, rowVars, execVars, request, left>>

\* start_followers reads the follower; a cancelled one is stepped over.
Follow(w) ==
    LET e  == worker[w].exec
        at == worker[w].at
        f  == Follower(at)
    IN  /\ Doing(w, "follow")
        /\ IF ~HasFollower(at) THEN Rest(w)
           ELSE IF status[f] = "cancelled" THEN Goto(w, "follow", e, f)
           ELSE Goto(w, "claim", e, f)
        /\ UNCHANGED <<runVars, rowVars, execVars, request, left>>

\* Mutant: the follower is taken by its id alone.
ClaimAny(w) ==
    LET f == worker[w].at
    IN  /\ Doing(w, "claim")
        /\ status' = [status EXCEPT ![f] = "queued"]
        /\ Goto(w, "grant", worker[w].exec, f)
        /\ UNCHANGED <<runVars, rowVars, owner, targets, sent, request, left>>

\* UPDATE ... WHERE status = pending; no row claimed: nothing more to do.
Claim(w) ==
    LET f == worker[w].at
    IN  /\ Doing(w, "claim")
        /\ IF status[f] = "pending"
           THEN /\ status' = [status EXCEPT ![f] = "queued"]
                /\ Goto(w, "grant", worker[w].exec, f)
           ELSE /\ Rest(w)
                /\ UNCHANGED status
        /\ UNCHANGED <<runVars, rowVars, owner, targets, sent, request, left>>

\* The group of the claimed follower, then its message.
Grant(w) ==
    LET f == worker[w].at
        g == GroupOf(f)
    IN  /\ Doing(w, "grant")
        /\ row' = [row EXCEPT ![g] =
                     Move(row[g], targets[f] \cap HostsIn(row[g], {"pending"}), "queued")]
        /\ sent' = [sent EXCEPT ![f] = @ + 1]
        /\ Rest(w)
        /\ UNCHANGED <<runVars, flushes, owner, targets, status, request, left>>

-----------------------------------------------------------------------------
(* cancel_waiting_task.  The router reads the row with db.get; the locking *)
(* SELECT later finds the object in the session and, without               *)
(* populate_existing, keeps the column values read first.                  *)

CancelRead(g) ==
    /\ ~request.open
    /\ playbook[g] # NoPlaybook
    /\ Spend("cancel")
    /\ request' = [open |-> TRUE, group |-> g, seen |-> row[g]]
    /\ UNCHANGED <<runVars, rowVars, execVars, worker>>

\* A column is written when its value differs from the one the session read.
Written(new, seen, current) == IF new = seen THEN current ELSE new

CancelCommit ==
    LET g == request.group
        seen == request.seen
        hosts == HostsIn(seen, {"waiting", "ready", "pending"})
        new == Move(seen, hosts, "cancelled")
    IN  /\ request.open
        /\ status' = [e \in Execution |->
                        IF owner[e[1]] # 0 /\ GroupOf(e) = g /\ status[e] = "pending"
                        THEN "cancelled" ELSE status[e]]
        /\ row' = IF hosts = {} THEN row
                  ELSE [row EXCEPT ![g] =
                          [states   |-> new.states,
                           status   |-> Written(new.status, seen.status, row[g].status),
                           finished |-> Written(new.finished, seen.finished, row[g].finished)]]
        /\ request' = NoRequest
        /\ UNCHANGED <<runVars, flushes, owner, targets, sent, worker, left>>

\* The same request for an execution: one conditional UPDATE of its row.
CancelExecution(e) ==
    /\ status[e] = "pending"
    /\ Spend("child")
    /\ status' = [status EXCEPT ![e] = "cancelled"]
    /\ UNCHANGED <<runVars, rowVars, owner, targets, sent, worker, request>>

-----------------------------------------------------------------------------
(* Faults.  A process that dies between its commit and apply_async, and a  *)
(* broker that refuses the message, leave the same state as a lost one; so *)
(* does a flush whose transaction fails, its message being acknowledged.   *)

LoseFlush(g) ==
    /\ flushes[g] > 0
    /\ Spend("fault")
    /\ flushes' = [flushes EXCEPT ![g] = @ - 1]
    /\ UNCHANGED <<runVars, row, execVars, worker, request>>

LoseExecution(e) ==
    /\ sent[e] > 0
    /\ Spend("fault")
    /\ sent' = [sent EXCEPT ![e] = @ - 1]
    /\ UNCHANGED <<runVars, rowVars, owner, targets, status, worker, request>>

\* The worker process is killed; a started task is acknowledged already.
Crash(w) ==
    /\ ~Doing(w, "idle")
    /\ Spend("fault")
    /\ Rest(w)
    /\ UNCHANGED <<runVars, rowVars, execVars, request>>

\* A message reserved past the broker's visibility timeout comes twice.
Redeliver(e) ==
    /\ sent[e] > 0
    /\ Spend("again")
    /\ sent' = [sent EXCEPT ![e] = @ + 1]
    /\ UNCHANGED <<runVars, rowVars, owner, targets, status, worker, request>>

-----------------------------------------------------------------------------
\* PlaybookRunRequest.playbooks drops repeated names, keeping the order.
Plan == {p \in UNION {[1 .. n -> Playbook] : n \in Step} :
            \A j, k \in DOMAIN p : p[j] = p[k] => j = k}

Request ==
    \/ /\ made < MaxSequences     \* asked here as well: TLC need not list the arguments
       /\ \E plan \in Plan, hosts, online \in SUBSET Host, defer \in BOOLEAN,
             seen \in [Step -> 0 .. made] : Create(plan, hosts, online, defer, seen)
    \/ \E g \in Group : CancelRead(g)
    \/ CancelCommit
    \/ \E e \in Execution : CancelExecution(e)

Work(w) ==
    \/ \E e \in Execution : Start(w, e)
    \/ Run(w)
    \/ \E outcome \in {"success", "failed"} : End(w, outcome)
    \/ \E own \in [Host -> Reported] : Record(w, own)
    \/ Follow(w)
    \/ Claim(w)
    \/ Grant(w)

Fault ==
    \/ \E w \in Worker, e \in Execution : StartFails(w, e)
    \/ \E w \in Worker : BodyFails(w) \/ RecordFails(w) \/ Crash(w)
    \/ \E g \in Group : LoseFlush(g)
    \/ \E e \in Execution : LoseExecution(e) \/ Redeliver(e)

Next ==
    \/ Request
    \/ \E h \in Host : Release(h)
    \/ \E g \in Group : Flush(g)
    \/ \E c \in Sequence : Expire(c)
    \/ \E w \in Worker : Work(w)
    \/ Fault

Spec == Init /\ [][Next]_vars

(* The worker keeps taking messages and every task body ends: nothing sets *)
(* a time limit on it, so that rests on ansible ending by itself.  Celery  *)
(* delivers a flush message once its countdown is over; beat calls         *)
(* expire_waiting_tasks every hour.  Requests, heartbeats and faults owe   *)
(* nothing.                                                                *)
Fairness ==
    /\ \A w \in Worker : WF_vars(Work(w))
    /\ \A g \in Group : WF_vars(Flush(g))
    /\ WF_vars(\E c \in Sequence : Expire(c))
    /\ WF_vars(CancelCommit)

FairSpec == Spec /\ Fairness

-----------------------------------------------------------------------------
(* Properties *)

\* Every variable keeps its type.
TypeOK ==
    /\ made \in 0 .. MaxSequences
    /\ began \in [Sequence -> 0 .. MaxSequences]
    /\ playbook \in [Group -> Playbook \cup {NoPlaybook}]
    /\ row \in [Group -> Row]
    /\ flushes \in [Group -> Nat]
    /\ owner \in [Batch -> 0 .. MaxSequences]
    /\ targets \in [Execution -> SUBSET Host]
    /\ status \in [Execution -> {"none", "pending", "queued", "running"} \cup Settled]
    /\ sent \in [Execution -> Nat]
    /\ worker \in [Worker -> Activity]
    /\ request \in {NoRequest} \cup [open : {TRUE}, group : Group, seen : Row]
    /\ left \in [{"cancel", "child", "fault", "again"} -> Nat]

Used(e) == owner[e[1]] # 0 /\ targets[e] # {}

\* A heartbeat and an SSH check that come at once, a flush and a later one, a
\* release in the middle of a chain: whatever happens, a group never has two
\* executions for one host (release_waiting_tasks: "do not double a host").
OneExecutionPerHost ==
    \A e, f \in Execution :
        (Used(e) /\ Used(f) /\ GroupOf(e) = GroupOf(f) /\ e # f)
            => targets[e] \cap targets[f] = {}

\* A host an execution was made for is not held back in that group any more:
\* neither a flush nor a release nor a stale cancel puts it back.
TakenIsNotHeld ==
    \A e \in Execution : \A h \in targets[e] :
        Used(e) => row[GroupOf(e)].states[h] \notin {"absent", "waiting", "ready"}

\* A host that still waits stands in a row with finished_at null: release,
\* supersede and expire, which all filter on it, keep finding the host.
HeldIsFound ==
    \A g \in Group : HostsIn(row[g], {"waiting", "ready"}) # {} => ~row[g].finished

\* A message or a worker is going to carry on with e.
Carries(w, e) == \/ worker[w].pc \in {"taken", "body"} /\ worker[w].exec = e
                 \/ worker[w].pc = "grant" /\ worker[w].at = e
UnderWay(e) == sent[e] > 0 \/ \E w \in Worker : Carries(w, e)

\* Nobody will do anything for e any more, whatever status was stored for it.
Over(e) == status[e] \notin {"none", "pending"} /\ ~UnderWay(e)

\* A batch of hosts goes through the playbooks in order: an execution leaves
\* pending only when the earlier ones of the chain for its hosts are over.
ChainOrder ==
    \A e, f \in Execution :
        (/\ Used(e) /\ Used(f) /\ owner[e[1]] = owner[f[1]] /\ e[2] < f[2]
         /\ targets[e] \cap targets[f] # {}
         /\ status[f] \notin {"pending", "cancelled"})
            => Over(e)

\* Two workers are never busy with one host for the same chain of playbooks.
OneAtATime ==
    \A v, w \in Worker :
        (v # w /\ Doing(v, "body") /\ Doing(w, "body")
         /\ owner[worker[v].exec[1]] = owner[worker[w].exec[1]])
            => targets[worker[v].exec] \cap targets[worker[w].exec] = {}

\* start_followers claims an execution with a conditional UPDATE, so a
\* predecessor that runs twice still sends its follower only once.
ClaimedOnce ==
    \A v, w \in Worker :
        (v # w /\ Doing(v, "grant") /\ Doing(w, "grant")) => worker[v].at # worker[w].at

\* "The first host that appears schedules the launch, the others just join":
\* while a group has a ready host, a flush_released for it is on its way.
ReadyIsScheduled ==
    \A g \in Group : HostsIn(row[g], {"ready"}) # {} => flushes[g] > 0

\* A host shown as pending, queued or running has an execution that has still
\* to report on it: the group cannot wait for somebody who is gone.
OpenIsCovered ==
    \A g \in Group : \A h \in HostsIn(row[g], {"pending", "queued", "running"}) :
        \E e \in Execution :
            /\ Used(e) /\ GroupOf(e) = g /\ h \in targets[e]
            /\ \/ status[e] \in {"pending", "queued", "running"}
               \/ \E w \in Worker : Doing(w, "ended") /\ worker[w].exec = e

\* The stored status and finished_at of a group are the summary of its hosts.
SummaryAgrees ==
    \A g \in Group : playbook[g] # NoPlaybook =>
        /\ row[g].status = GroupStatus(row[g].states)
        /\ row[g].finished = ~AnyOpen(row[g].states)

\* The result of a host in a run is final: no later transaction reopens it.
SettledStays ==
    [][\A g \in Group : \A h \in HostsIn(row[g], Settled) :
          row'[g].states[h] = row[g].states[h]]_vars

\* Assigning a playbook again takes the host out of every earlier run the
\* assignment could see: it waits in one of the two at most, whatever cancels
\* with old rows, releases and expiries come between.
SeenIsSuperseded ==
    \A g, f \in Group :
        (playbook[g] = playbook[f] /\ playbook[g] # NoPlaybook /\ f[1] <= began[g[1]])
            => HostsIn(row[g], {"waiting"}) \cap HostsIn(row[f], {"waiting"}) = {}

\* A host that waits is found, and superseded where it was seen.
HeldOnceAndFound == HeldIsFound /\ SeenIsSuperseded

\* The module's docstring: assigning again "cancels the host in the earlier runs
\* where it still waits: the last assignment is carried out, not both".  Two
\* runs of one playbook never both wait for a host.
OneWaitingAssignment ==
    \A g, f \in Group :
        (g # f /\ playbook[g] = playbook[f] /\ playbook[g] # NoPlaybook)
            => HostsIn(row[g], {"waiting"}) \cap HostsIn(row[f], {"waiting"}) = {}

\* The same also for a host that is ready, when it is assigned again.
LastAssignmentOnly ==
    \A g, f \in Group :
        (g # f /\ playbook[g] = playbook[f] /\ playbook[g] # NoPlaybook)
            => HostsIn(row[g], {"waiting", "ready"}) \cap HostsIn(row[f], {"waiting", "ready"}) = {}

\* What cancel took back is not carried out: no execution is queued or running
\* on a host its group reports as cancelled.
CancelledIsNotRun ==
    \A e \in Execution : Used(e) /\ status[e] \in {"queued", "running"} =>
        targets[e] \cap HostsIn(row[GroupOf(e)], {"cancelled"}) = {}

\* The promise of a run, and what a group's host_states say of it.
Phase(state) ==
    CASE state = "absent" -> "absent"
      [] state \in {"waiting", "ready"} -> "held"
      [] state \in {"pending", "queued", "running"} -> "taken"
      [] state \in Settled -> "settled"

Promise == INSTANCE HostAssignments WITH
    phase <- [g \in Group |-> [h \in Host |-> Phase(row[g].states[h])]]

\* As long as nobody cancels, and whatever is lost or delivered twice, the runs
\* keep the promise of HostAssignments.
KeepsPromise == Promise!Spec

\* Every host of a run comes to an end: success, failed or cancelled.
EveryHostSettles ==
    \A g \in Group, h \in Host :
        (row[g].states[h] \in OpenStates) ~> (row[g].states[h] \in Settled)

\* "The next one waits until the previous one is over; a cancelled one is
\* skipped": a pending execution is some day queued or cancelled.
PendingAdvances ==
    \A e \in Execution : (status[e] = "pending") ~> (status[e] # "pending")
=============================================================================
