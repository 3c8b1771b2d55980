---------------------------- MODULE HostPresence ----------------------------
(***************************************************************************)
(* Who is on the network, as the server believes it: the status column of  *)
(* hosts, the last agent report, and the release of assignments that wait  *)
(* for a host.  Three writers work on the same row without a lock: the     *)
(* requests of the agent (routers/agent.py), the sweep over SSH that beat  *)
(* starts every five minutes (services/host_health.py) and the diagnostics *)
(* task (services/host_diagnostics.py).  The last two read the row, spend  *)
(* seconds to minutes in Ansible and write afterwards.                     *)
(*                                                                         *)
(* SQLAlchemy writes a column only when its new value differs from the one *)
(* the session has read (OrmWrite), so the sweep does not undo what        *)
(* another session has stored when it finds what it had read.  Time is     *)
(* abstract: a report may lapse (FRESH_FOR) at any moment.                 *)
(***************************************************************************)
EXTENDS Naturals, FiniteSets

CONSTANTS
    Host,         \* rows of hosts
    Agents,       \* those with an agent installed
    AgentManaged, \* those whose row the agent's registration created
    Pinger,       \* celery processes that may run ping_hosts at once
    MaxMail,      \* bound: requests of one agent handled at the same time
    MaxSwitches,  \* bound: changes of the PCs
    MaxDiagnoses, \* bound: diagnostics tasks
    MaxDeletes    \* bound: hosts deleted

ASSUME HostsAssumption == Agents \subseteq Host /\ AgentManaged \subseteq Agents
ASSUME BoundsAssumption == {MaxMail, MaxSwitches, MaxDiagnoses, MaxDeletes} \subseteq Nat

VARIABLES
    machine,    \* host -> the PC itself
    agents,     \* hosts whose agent is installed
    mail,       \* host -> agent requests being handled
    known,      \* hosts that have a row
    status,     \* host -> its status column
    report,     \* host -> ssh_state and power_state, as far as they are fresh
    assignment, \* host -> its state in one run that is assigned to it
    creating,   \* host -> the state create_task_sequence is about to give it
    sweep,      \* pinger -> the ping_hosts task it runs
    diagnosis,  \* the run_host_diagnostic task in progress
    left        \* what remains of the bounds

vars == <<machine, agents, mail, known, status, report, assignment, creating,
          sweep, diagnosis, left>>

presence == <<known, status, report>>
tasks    == <<sweep, diagnosis>>

Statuses == {"online", "offline", "unknown"}
Reports  == {"none", "ok", "blocked", "installing"}
Machines == {"off", "open", "closed", "installing"}

\* An agent request; "stored" is a heartbeat that has committed its report,
\* "granted" one that has found nothing against releasing the waiting tasks.
Mail == [kind : {"heartbeat"}, report : Reports]
            \cup [kind : {"ping", "offline", "uninstall", "stored", "granted"}, report : {"none"}]

IdleSweep     == [stage |-> "idle", read |-> [h \in Host |-> "absent"], reached |-> {}, left |-> {}]
IdleDiagnosis == [stage |-> "idle", host |-> CHOOSE h \in Host : TRUE, reached |-> FALSE]

TypeOK ==
    /\ machine \in [Host -> Machines]
    /\ agents \in SUBSET Agents
    /\ mail \in [Host -> SUBSET Mail]
    /\ known \in SUBSET Host
    /\ status \in [Host -> Statuses]
    /\ report \in [Host -> Reports]
    /\ assignment \in [Host -> {"none", "waiting", "ready"}]
    /\ creating \in [Host -> {"no", "waiting", "ready"}]
    /\ sweep \in [Pinger -> [stage : {"idle", "probing", "recording", "releasing"},
                             read : [Host -> Statuses \cup {"absent"}],
                             reached : SUBSET Host, left : SUBSET Host]]
    /\ diagnosis \in [stage : {"idle", "probing", "recording"}, host : Host,
                      reached : BOOLEAN]
    /\ left \in [switches : 0..MaxSwitches, diagnoses : 0..MaxDiagnoses, deletes : 0..MaxDeletes]

Init ==
    /\ machine \in [Host -> Machines]
    /\ agents = Agents
    /\ mail = [h \in Host |-> {}]
    /\ known = Host
    /\ status = [h \in Host |-> "unknown"]
    /\ report = [h \in Host |-> "none"]
    /\ assignment = [h \in Host |-> "none"]
    /\ creating = [h \in Host |-> "no"]
    /\ sweep = [p \in Pinger |-> IdleSweep]
    /\ diagnosis = IdleDiagnosis
    /\ left = [switches |-> MaxSwitches, diagnoses |-> MaxDiagnoses, deletes |-> MaxDeletes]

Spend(kind) ==
    /\ left[kind] > 0
    /\ left' = [left EXCEPT ![kind] = @ - 1]

-----------------------------------------------------------------------------
(* The PC and its agent.                                                   *)

Answers(h) == machine[h] \in {"open", "installing"}

\* The PC is switched on or off, its SSH opens or closes, Windows updates.
Machine(h) ==
    /\ \E m \in Machines : m # machine[h] /\ machine' = [machine EXCEPT ![h] = m]
    /\ Spend("switches")
    /\ UNCHANGED <<agents, mail, assignment, creating>>
    /\ UNCHANGED presence
    /\ UNCHANGED tasks

Seen(h) == CASE machine[h] = "open" -> "ok"
             [] machine[h] = "closed" -> "blocked"
             [] OTHER -> "installing"

\* The agent sends a request; older agents report nothing about SSH.  It may
\* give up on one the server still handles, so several can be in progress.
Send(h) ==
    /\ h \in agents /\ machine[h] # "off"
    /\ Cardinality(mail[h]) < MaxMail
    /\ \E m \in [kind : {"heartbeat"}, report : {Seen(h), "none"}]
                    \cup [kind : {"ping", "offline", "uninstall"}, report : {"none"}] :
          mail' = [mail EXCEPT ![h] = @ \cup {m}]
    /\ UNCHANGED <<machine, agents, assignment, creating, left>>
    /\ UNCHANGED presence
    /\ UNCHANGED tasks

\* A report older than FRESH_FOR decides nothing.
Lapse(h) ==
    /\ report[h] # "none"
    /\ report' = [report EXCEPT ![h] = "none"]
    /\ UNCHANGED <<machine, agents, mail, known, status, assignment, creating, left>>
    /\ UNCHANGED tasks

-----------------------------------------------------------------------------
(* Requests of the agent.                                                  *)

Handled(h, m) == mail' = [mail EXCEPT ![h] = @ \ {m}]

\* release_waiting_tasks: the host is taken out of waiting.
Release(h) ==
    assignment' = [assignment EXCEPT ![h] = IF @ = "waiting" THEN "ready" ELSE @]

\* The host is gone or its token is not known any more: 401 or 404.
Reject(h, m) ==
    /\ m.kind # "granted"
    /\ h \notin known \/ (h \notin agents /\ m.kind # "stored")
    /\ Handled(h, m)
    /\ UNCHANGED <<machine, agents, assignment, creating, left>>
    /\ UNCHANGED presence
    /\ UNCHANGED tasks

\* heartbeat, up to its first commit; a report that was not sent stays.
Heartbeat(h, m) ==
    /\ m.kind = "heartbeat" /\ h \in known \cap agents
    /\ mail' = [mail EXCEPT ![h] = (@ \ {m}) \cup {[kind |-> "stored", report |-> "none"]}]
    /\ status' = [status EXCEPT ![h] = "online"]
    /\ report' = [report EXCEPT ![h] = IF m.report = "none" THEN @ ELSE m.report]
    /\ UNCHANGED <<machine, agents, known, assignment, creating, left>>
    /\ UNCHANGED tasks

\* heartbeat, after the commit: the row is read again, and does its report say
\* that SSH is closed or that updates are installed, nothing is released.
HeartbeatCheck(h, m) ==
    /\ m.kind = "stored" /\ h \in known
    /\ mail' = [mail EXCEPT ![h] = IF report[h] \in {"blocked", "installing"}
                                  THEN @ \ {m}
                                  ELSE (@ \ {m}) \cup {[kind |-> "granted", report |-> "none"]}]
    /\ UNCHANGED <<machine, agents, assignment, creating, left>>
    /\ UNCHANGED presence
    /\ UNCHANGED tasks

\* release_waiting_tasks locks the runs, not the host, which may be gone, and
\* commits after what other requests have stored meanwhile.
HeartbeatRelease(h, m) ==
    /\ m.kind = "granted"
    /\ Handled(h, m)
    /\ Release(h)
    /\ UNCHANGED <<machine, agents, creating, left>>
    /\ UNCHANGED presence
    /\ UNCHANGED tasks

Ping(h, m) ==
    /\ m.kind = "ping" /\ h \in known \cap agents
    /\ Handled(h, m)
    /\ status' = [status EXCEPT ![h] = "online"]
    /\ UNCHANGED <<machine, agents, known, report, assignment, creating, left>>
    /\ UNCHANGED tasks

MarkOffline(h, m) ==
    /\ m.kind = "offline" /\ h \in known \cap agents
    /\ Handled(h, m)
    /\ status' = [status EXCEPT ![h] = "offline"]
    /\ UNCHANGED <<machine, agents, known, report, assignment, creating, left>>
    /\ UNCHANGED tasks

\* uninstall: a row the agent created is deleted, another one loses its agent.
UninstallAgent(h, m) ==
    /\ m.kind = "uninstall" /\ h \in known \cap agents
    /\ Handled(h, m)
    /\ agents' = agents \ {h}
    /\ \/ h \in AgentManaged /\ known' = known \ {h} /\ UNCHANGED status
       \/ h \notin AgentManaged /\ status' = [status EXCEPT ![h] = "offline"] /\ UNCHANGED known
    /\ UNCHANGED <<machine, report, assignment, creating, left>>
    /\ UNCHANGED tasks

Agent(h) == Send(h) \/ Lapse(h) \/ \E m \in mail[h] :
    Reject(h, m) \/ Heartbeat(h, m) \/ HeartbeatCheck(h, m) \/ HeartbeatRelease(h, m)
        \/ Ping(h, m) \/ MarkOffline(h, m) \/ UninstallAgent(h, m)

-----------------------------------------------------------------------------
(* Tasks of the worker.                                                    *)

\* What the column holds after an update from a session that had read `read`.
OrmWrite(stored, read, new) == IF new = read THEN stored ELSE new

AtSweep(p, next) == sweep' = [sweep EXCEPT ![p] = next]

\* ping_hosts reads all hosts and builds the inventory.
SweepBegin(p) ==
    /\ sweep[p].stage = "idle" /\ known # {}
    /\ AtSweep(p, [stage |-> "probing", reached |-> {}, left |-> {},
                   read |-> [h \in Host |-> IF h \in known THEN status[h] ELSE "absent"]])
    /\ UNCHANGED <<machine, agents, mail, assignment, creating, diagnosis, left>>
    /\ UNCHANGED presence

Rows(p) == {h \in Host : sweep[p].read[h] # "absent"}

\* The Ansible run: one echo on every host of the inventory.
SweepProbe(p) ==
    /\ sweep[p].stage = "probing"
    /\ AtSweep(p, [sweep[p] EXCEPT !.stage = "recording",
                                   !.reached = {h \in Rows(p) : Answers(h)}])
    /\ UNCHANGED <<machine, agents, mail, assignment, creating, diagnosis, left>>
    /\ UNCHANGED presence

Found(p, h) == IF h \in sweep[p].reached THEN "online" ELSE "offline"

\* Mutant: the column takes the outcome of the probe (HostOutcome).
RecordOutcome(p) ==
    status' = [h \in Host |-> IF h \in sweep[p].reached THEN "ok" ELSE "unreachable"]

\* Mutant: hosts that did not answer are left as they are.
RecordReachedOnly(p) ==
    status' = [h \in Host |-> IF h \in sweep[p].reached
                              THEN OrmWrite(status[h], sweep[p].read[h], "online")
                              ELSE status[h]]

Record(p) ==
    status' = [h \in Host |-> IF h \in Rows(p)
                              THEN OrmWrite(status[h], sweep[p].read[h], Found(p, h))
                              ELSE status[h]]

\* Mutant: only hosts that were not online before are visited.
ToVisitChanged(p) == {h \in Rows(p) : sweep[p].read[h] # "online"}

\* Afterwards every host of the sweep is visited, in the order of the query.
ToVisit(p) == Rows(p)

\* All statuses and history rows are one commit: the deletion of one host
\* meanwhile loses the whole sweep.
SweepRecord(p) ==
    /\ sweep[p].stage = "recording"
    /\ \/ /\ Rows(p) \subseteq known
          /\ Record(p)
          /\ AtSweep(p, [sweep[p] EXCEPT !.stage = "releasing", !.left = ToVisit(p)])
       \/ /\ ~ Rows(p) \subseteq known
          /\ AtSweep(p, IdleSweep)
          /\ UNCHANGED status
    /\ UNCHANGED <<machine, agents, mail, known, report, assignment, creating, diagnosis, left>>

\* Each release commits and so expires the rows of the session: the next
\* host.id is read again, and a host deleted by then ends the task.
SweepVisit(p) ==
    /\ sweep[p].stage = "releasing"
    /\ \/ /\ sweep[p].left = {}
          /\ AtSweep(p, IdleSweep)
          /\ UNCHANGED assignment
       \/ \E h \in sweep[p].left \cap known :
             /\ AtSweep(p, [sweep[p] EXCEPT !.left = @ \ {h}])
             /\ IF h \in sweep[p].reached THEN Release(h) ELSE UNCHANGED assignment
       \/ /\ ~ sweep[p].left \subseteq known
          /\ AtSweep(p, IdleSweep)
          /\ UNCHANGED assignment
    /\ UNCHANGED <<machine, agents, mail, creating, diagnosis, left>>
    /\ UNCHANGED presence

Sweep(p) == SweepBegin(p) \/ SweepProbe(p) \/ SweepRecord(p) \/ SweepVisit(p)

\* run_host_diagnostic up to the inventory of its one host.
DiagnosisBegin(h) ==
    /\ diagnosis.stage = "idle" /\ h \in known
    /\ diagnosis' = [stage |-> "probing", host |-> h, reached |-> FALSE]
    /\ Spend("diagnoses")
    /\ UNCHANGED <<machine, agents, mail, assignment, creating, sweep>>
    /\ UNCHANGED presence

\* The connection and the echo over SSH.
DiagnosisProbe ==
    /\ diagnosis.stage = "probing"
    /\ diagnosis' = [diagnosis EXCEPT !.stage = "recording", !.reached = Answers(diagnosis.host)]
    /\ UNCHANGED <<machine, agents, mail, assignment, creating, sweep, left>>
    /\ UNCHANGED presence

\* The answer has been logged, and so committed, before the status is set:
\* the session has forgotten what it read and the column is written in any
\* case.  Nothing is released.
DiagnosisRecord ==
    /\ diagnosis.stage = "recording"
    /\ diagnosis' = IdleDiagnosis
    /\ status' = [h \in Host |-> IF h = diagnosis.host /\ h \in known
                                 THEN IF diagnosis.reached THEN "online" ELSE "offline"
                                 ELSE status[h]]
    /\ UNCHANGED <<machine, agents, mail, known, report, assignment, creating, sweep, left>>

-----------------------------------------------------------------------------
(* Assignments and deletion, requests of the users.                        *)

\* create_task_sequence reads the status (split_offline); a host without a
\* row counts as online ...
AssignBegin(h) ==
    /\ assignment[h] = "none" /\ creating[h] = "no"
    /\ creating' = [creating EXCEPT ![h] =
                       IF h \in known => status[h] = "online" THEN "ready" ELSE "waiting"]
    /\ UNCHANGED <<machine, agents, mail, assignment, left>>
    /\ UNCHANGED presence
    /\ UNCHANGED tasks

\* ... and commits the run with the host waiting or on its way.
AssignCommit(h) ==
    /\ creating[h] # "no"
    /\ assignment' = [assignment EXCEPT ![h] = creating[h]]
    /\ creating' = [creating EXCEPT ![h] = "no"]
    /\ UNCHANGED <<machine, agents, mail, left>>
    /\ UNCHANGED presence
    /\ UNCHANGED tasks

\* The flush, the execution and its result: module WaitingTasks.
Execute(h) ==
    /\ assignment[h] = "ready"
    /\ assignment' = [assignment EXCEPT ![h] = "none"]
    /\ UNCHANGED <<machine, agents, mail, creating, left>>
    /\ UNCHANGED presence
    /\ UNCHANGED tasks

\* delete_host and delete_hosts.
Delete(h) ==
    /\ h \in known
    /\ known' = known \ {h}
    /\ Spend("deletes")
    /\ UNCHANGED <<machine, agents, mail, status, report, assignment, creating>>
    /\ UNCHANGED tasks

Next ==
    \/ \E h \in Host : \/ Machine(h) \/ Agent(h) \/ DiagnosisBegin(h)
                       \/ AssignBegin(h) \/ AssignCommit(h) \/ Execute(h) \/ Delete(h)
    \/ \E p \in Pinger : Sweep(p)
    \/ DiagnosisProbe \/ DiagnosisRecord

Spec == Init /\ [][Next]_vars

\* Beat starts ping_hosts every five minutes and the worker runs it to its
\* end.  Nothing is assumed of agents, their requests or diagnostics.
FairSpec == Spec /\ \A p \in Pinger : WF_vars(Sweep(p))

-----------------------------------------------------------------------------
(* Properties.                                                             *)

Remains(h) == [](h \in known)

\* A host that waits and whose PC stays reachable is released, whatever its
\* agent reports or fails to report, whoever writes its status and whichever
\* hosts are deleted while sweeps run (ping_hosts releases by what it reached,
\* not by a change of status).
WaitingIsReleased ==
    \A h \in Host :
        (Remains(h) /\ <>[](machine[h] = "open"))
            => (assignment[h] = "waiting" ~> assignment[h] # "waiting")

\* A PC that stays off is shown offline in the end, although late heartbeats
\* and overlapping sweeps that read an older status may still report on it
\* (half of the PCs go without telling the server: power_state.py).
AbsenceIsNoticed ==
    \A h \in Host :
        (Remains(h) /\ <>[](machine[h] = "off")) => <>[](status[h] = "offline")

LeavingSoon(h) == \E m \in mail[h] : m.kind \in {"offline", "uninstall"}

\* A PC that stays reachable is shown online in the end, although a request
\* about its shutdown or a diagnosis that failed earlier has been written late.
PresenceIsNoticed ==
    \A h \in Host :
        (Remains(h) /\ <>[](machine[h] = "open" /\ ~ LeavingSoon(h))) => <>[](status[h] = "online")

\* heartbeat (routers/agent.py): not while the agent itself reports that SSH is
\* closed, or updates: a host whose row says so is released by no heartbeat.
ReleaseNeedsAccess ==
    [][\A h \in Host :
          (assignment[h] = "waiting" /\ assignment'[h] = "ready")
              => \/ report[h] \in {"none", "ok"}
                 \/ \E p \in Pinger : h \in sweep[p].reached]_vars

\* power_state.py: while Windows installs updates the waiting tasks are not
\* released.  The sweep over SSH does not look at the report.
UpdatesHoldTasks ==
    [][\A h \in Host :
          (assignment[h] = "waiting" /\ assignment'[h] = "ready")
              => report[h] # "installing"]_vars
=============================================================================
