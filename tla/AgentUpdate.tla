---------------------------- MODULE AgentUpdate -----------------------------
(***************************************************************************)
(* How a release of the agent reaches the PCs.                             *)
(*                                                                         *)
(* services/agent_installer_sync.py copies the latest release of GitHub to *)
(* the share: first the installer, then the sidecar file with its version. *)
(* services/agent_update.py installs it over SSH, one PC first (the canary *)
(* of services/host_parallel.py), the others together when that one is ok. *)
(* A PC it cannot reach gets a target: the next heartbeat of its agent is  *)
(* answered with an offer (services/agent_version.py) and the agent        *)
(* installs the build itself.                                              *)
(*                                                                         *)
(* A version is a number, 0 stands for None.  A build in Broken fails to   *)
(* install and leaves its PC without a working agent.                      *)
(*                                                                         *)
(* A PC may be deleted from the register at any time.  Nothing tells the   *)
(* task so: run_for_hosts takes a PC whose row is gone for one that is ok, *)
(* and a row that goes while its PC is in work raises an error that ends   *)
(* the task.  Heartbeats and scans read a row first and write it later.    *)
(***************************************************************************)
EXTENDS Naturals, FiniteSets

CONSTANTS
    Host,        \* PCs with an agent
    MaxVersion,  \* bound: releases
    Broken,      \* versions whose installer fails
    SelfUpdateSince, \* the first agent that understands an offer
    Syncer,      \* processes that may run sync_agent_installer at once
    Parallelism, \* settings.host_task_parallelism
    MaxTasks,    \* bound: agent_update tasks
    MaxCrashes,  \* bound: syncs cut off and SSH sessions lost
    MaxReturns   \* bound: releases GitHub takes back

Version == 1..MaxVersion

ASSUME VersionsAssumption ==
    /\ MaxVersion \in Nat \ {0} /\ SelfUpdateSince \in Nat
    /\ Broken \subseteq Version
ASSUME BoundsAssumption == {Parallelism, MaxTasks, MaxCrashes, MaxReturns} \subseteq Nat

VARIABLES
    published, \* the latest release on GitHub
    exe,       \* the build FleetManagerAgent-Setup.exe holds
    sidecar,   \* the version its .version file tells
    syncs,     \* syncer -> the sync in progress
    installed, \* host -> version of its agent
    harmed,    \* host -> how a broken build has reached it
    reachable, \* host -> SSH: open, closed, or not set up at all
    gone,      \* hosts that were deleted
    stored,    \* host -> agent_version
    target,    \* host -> agent_update_target
    beat,      \* host -> version in the heartbeat that is on its way
    answer,    \* host -> what a heartbeat request will commit and answer
    offer,     \* host -> agent_update of the last response
    scans,     \* host -> the version a scan is about to store
    task,      \* the agent_update task
    work,      \* host -> what the task does with it
    seen,      \* host -> the row as its thread of the task has read it
    outcome,   \* host -> what run_for_hosts has noted
    trial,     \* history: what the task has harmed, what made its canary idle
    left       \* what remains of the bounds

shareVars == <<published, exe, sidecar, syncs>>
hostVars  == <<installed, harmed, reachable>>
rowVars   == <<gone, stored, target>>
agentVars == <<beat, answer, offer, scans>>
taskVars  == <<task, work, seen, outcome, trial>>
vars == <<shareVars, hostVars, rowVars, agentVars, taskVars, left>>

IdleSync == [stage |-> "idle", tag |-> 0]
IdleTask == [stage |-> "idle", available |-> 0]
NoOffer  == [version |-> 0, build |-> 0]
NoAnswer == [stores |-> 0, clears |-> FALSE, offer |-> NoOffer]
NoRow    == [stored |-> 0, target |-> 0]
NoScan   == MaxVersion + 1
Offer    == [version : 0..MaxVersion, build : 0..MaxVersion]

TypeOK ==
    /\ published \in Version
    /\ exe \in Version
    /\ sidecar \in 0..MaxVersion
    /\ syncs \in [Syncer -> [stage : {"idle", "downloading", "replaced", "writing"}, tag : 0..MaxVersion]]
    /\ installed \in [Host -> Version]
    /\ harmed \in [Host -> {"no", "ssh", "self"}]
    /\ reachable \in [Host -> {"open", "closed", "unset"}]
    /\ gone \subseteq Host
    /\ stored \in [Host -> 0..MaxVersion]
    /\ target \in [Host -> 0..MaxVersion]
    /\ beat \in [Host -> 0..MaxVersion]
    /\ answer \in [Host -> [stores : 0..MaxVersion, clears : BOOLEAN, offer : Offer]]
    /\ offer \in [Host -> Offer]
    /\ scans \in [Host -> 0..NoScan]
    /\ task \in [stage : {"idle", "canary", "batch", "raised"}, available : 0..MaxVersion]
    /\ work \in [Host -> {"none", "todo", "started", "installing", "lost"}]
    /\ seen \in [Host -> [stored : 0..MaxVersion, target : 0..MaxVersion]]
    /\ trial \in [harmed : SUBSET Host, spoilt : BOOLEAN]
    /\ outcome \in [Host -> {"none", "ok", "unreachable", "failed", "untouched"}]
    /\ left \in [tasks : 0..MaxTasks, crashes : 0..MaxCrashes, returns : 0..MaxReturns]

Init ==
    /\ published \in Version /\ exe = published /\ sidecar = published
    /\ syncs = [s \in Syncer |-> IdleSync]
    /\ installed \in [Host -> Version \ Broken]
    /\ harmed = [h \in Host |-> "no"]
    /\ reachable \in [Host -> {"open", "closed", "unset"}]
    /\ gone = {}
    /\ stored = installed
    /\ target = [h \in Host |-> 0]
    /\ beat = [h \in Host |-> 0]
    /\ answer = [h \in Host |-> NoAnswer]
    /\ offer = [h \in Host |-> NoOffer]
    /\ scans = [h \in Host |-> NoScan]
    /\ task = IdleTask
    /\ work = [h \in Host |-> "none"]
    /\ seen = [h \in Host |-> NoRow]
    /\ trial = [harmed |-> {}, spoilt |-> FALSE]
    /\ outcome = [h \in Host |-> "none"]
    /\ left = [tasks |-> MaxTasks, crashes |-> MaxCrashes, returns |-> MaxReturns]

Spend(kind) ==
    /\ left[kind] > 0
    /\ left' = [left EXCEPT ![kind] = @ - 1]

\* version_status(installed, available) == STATUS_OUTDATED; unknown is not.
Outdated(version, available) == 0 \notin {version, available} /\ version < available

InWork == {h \in Host : work[h] \in {"started", "installing", "lost"}}
Todo   == {h \in Host : work[h] = "todo"}

\* History: from here on the canary of the task tells nothing of the others.
Spoil(reason) == trial' = [trial EXCEPT !.spoilt = @ \/ reason]

-----------------------------------------------------------------------------
(* sync_agent_installer                                                    *)

AtSync(s, next) == syncs' = [syncs EXCEPT ![s] = next]

\* GitHub publishes a release, or takes the last one back.
Publish ==
    /\ \/ published < MaxVersion /\ published' = published + 1 /\ UNCHANGED left
       \/ published > 1 /\ published' = published - 1 /\ Spend("returns")
    /\ UNCHANGED <<exe, sidecar, syncs, hostVars, rowVars, agentVars, taskVars>>

\* The latest release is downloaded unless the sidecar names it already.
SyncStart(s) ==
    /\ syncs[s].stage = "idle" /\ sidecar # published
    /\ AtSync(s, [stage |-> "downloading", tag |-> published])
    /\ UNCHANGED <<published, exe, sidecar, hostVars, rowVars, agentVars, taskVars, left>>

\* Mutant: the sidecar is written before the installer is there.
ReplaceLast(s) ==
    /\ syncs[s].stage = "downloading"
    /\ sidecar' = syncs[s].tag
    /\ \/ exe' = syncs[s].tag /\ UNCHANGED left
       \/ UNCHANGED exe /\ Spend("crashes")
    /\ AtSync(s, IdleSync)
    /\ Spoil(task.stage # "idle")
    /\ UNCHANGED <<published, hostVars, rowVars, agentVars, task, work, seen, outcome>>

\* _download_asset ends with os.replace.
SyncReplace(s) ==
    /\ syncs[s].stage = "downloading"
    /\ exe' = syncs[s].tag
    /\ AtSync(s, [syncs[s] EXCEPT !.stage = "replaced"])
    /\ Spoil(exe' # exe /\ (task.stage \in {"batch", "raised"} \/ InWork # {}))
    /\ UNCHANGED <<published, sidecar, hostVars, rowVars, agentVars, task, work, seen, outcome, left>>

\* open(sidecar, "w") empties the file ...
SyncTruncate(s) ==
    /\ syncs[s].stage = "replaced"
    /\ sidecar' = 0
    /\ AtSync(s, [syncs[s] EXCEPT !.stage = "writing"])
    /\ UNCHANGED <<published, exe, hostVars, rowVars, agentVars, taskVars, left>>

\* ... before the tag is written.
SyncWrite(s) ==
    /\ syncs[s].stage = "writing"
    /\ sidecar' = syncs[s].tag
    /\ AtSync(s, IdleSync)
    /\ UNCHANGED <<published, exe, hostVars, rowVars, agentVars, taskVars, left>>

\* The download fails or the process ends in the middle.
SyncCrash(s) ==
    /\ syncs[s].stage # "idle" /\ Spend("crashes")
    /\ AtSync(s, IdleSync)
    /\ UNCHANGED <<published, exe, sidecar, hostVars, rowVars, agentVars, taskVars>>

SyncStep(s) == SyncStart(s) \/ SyncReplace(s) \/ SyncTruncate(s) \/ SyncWrite(s)

-----------------------------------------------------------------------------
(* The PC: what an installer does to it, and its agent.                    *)

\* The installer also sets SSH up; a broken one leaves everything as it is.
Install(h, build, way) ==
    IF build \in Broken
    THEN harmed' = [harmed EXCEPT ![h] = way] /\ UNCHANGED <<installed, reachable>>
    ELSE /\ installed' = [installed EXCEPT ![h] = build]
         /\ harmed' = [harmed EXCEPT ![h] = "no"]
         /\ reachable' = [reachable EXCEPT ![h] = IF @ = "unset" THEN "open" ELSE @]

\* The agent collects its inventory.
Collect(h) ==
    /\ h \notin gone /\ harmed[h] = "no" /\ beat[h] = 0
    /\ beat' = [beat EXCEPT ![h] = installed[h]]
    /\ UNCHANGED <<shareVars, hostVars, rowVars, answer, offer, scans, taskVars, left>>

\* The target is dropped when the reported version has reached it.
Reached(h) == target[h] # 0 /\ target[h] <= beat[h]
Pending(h) == IF Reached(h) THEN 0 ELSE target[h]

\* Mutant: an older build is offered as well.
OfferOlderToo(h) ==
    LET repair == reachable[h] = "unset"
    IN  IF \/ Pending(h) = 0 /\ ~ repair
           \/ sidecar = 0 \/ sidecar < Pending(h)
        THEN NoOffer
        ELSE [version |-> sidecar, build |-> exe]

\* Mutant: a target is offered only when the share has exactly that version.
OfferOfTarget(h) ==
    IF Pending(h) = 0 \/ sidecar # Pending(h) \/ sidecar <= beat[h] THEN NoOffer
    ELSE [version |-> sidecar, build |-> exe]

\* agent_update_offer: the version on the share, for a pending target it
\* satisfies or, the same version too, to repair SSH.
Offered(h) ==
    LET repair == reachable[h] = "unset"
    IN  IF \/ Pending(h) = 0 /\ ~ repair
           \/ sidecar = 0 \/ sidecar < Pending(h)
           \/ sidecar < beat[h]
           \/ sidecar = beat[h] /\ ~ (repair /\ beat[h] >= SelfUpdateSince)
        THEN NoOffer
        ELSE [version |-> sidecar, build |-> exe]

\* heartbeat, the part that concerns versions: what it will write and answer
\* is decided on the row as it was read when the request began ...
HeartbeatRead(h) ==
    /\ beat[h] # 0 /\ answer[h] = NoAnswer
    /\ answer' = [answer EXCEPT ![h] =
          [stores |-> IF stored[h] = beat[h] THEN 0 ELSE beat[h],
           clears |-> Reached(h),
           offer  |-> Offered(h)]]
    /\ beat' = [beat EXCEPT ![h] = 0]
    /\ UNCHANGED <<shareVars, hostVars, rowVars, offer, scans, taskVars, left>>

\* ... and the commit writes the columns that differ from it, whatever they
\* hold by now.
HeartbeatCommit(h) ==
    /\ answer[h] # NoAnswer
    /\ stored' = [stored EXCEPT ![h] = IF answer[h].stores = 0 THEN @ ELSE answer[h].stores]
    /\ target' = [target EXCEPT ![h] = IF answer[h].clears THEN 0 ELSE @]
    /\ offer' = [offer EXCEPT ![h] = answer[h].offer]
    /\ answer' = [answer EXCEPT ![h] = NoAnswer]
    /\ UNCHANGED <<shareVars, hostVars, gone, beat, scans, taskVars, left>>

\* The agent downloads the installer and runs it if its hash is the offered
\* one (the hash of the build the server saw when it made the offer).
SelfUpdate(h) ==
    /\ offer[h] # NoOffer /\ installed[h] >= SelfUpdateSince /\ harmed[h] = "no"
    /\ IF exe = offer[h].build THEN Install(h, exe, "self") ELSE UNCHANGED hostVars
    /\ offer' = [offer EXCEPT ![h] = NoOffer]
    /\ UNCHANGED <<shareVars, rowVars, beat, answer, scans, taskVars, left>>

\* SSH of the PC is blocked or opened.
SshChange(h) ==
    /\ reachable[h] # "unset"
    /\ reachable' = [reachable EXCEPT ![h] = IF @ = "open" THEN "closed" ELSE "open"]
    /\ UNCHANGED <<shareVars, installed, harmed, rowVars, agentVars, taskVars, left>>

\* delete_host: the row goes, and the requests and scans that are about to
\* write it fail.
Delete(h) ==
    /\ h \notin gone
    /\ gone' = gone \cup {h}
    /\ stored' = [stored EXCEPT ![h] = 0]
    /\ target' = [target EXCEPT ![h] = 0]
    /\ beat' = [beat EXCEPT ![h] = 0]
    /\ answer' = [answer EXCEPT ![h] = NoAnswer]
    /\ scans' = [scans EXCEPT ![h] = NoScan]
    /\ UNCHANGED <<shareVars, hostVars, offer, taskVars, left>>

\* What the list of installed programs tells of the agent: a PC a broken build
\* was run on may have none.
Listed(h) == {installed[h]} \cup (IF harmed[h] = "no" THEN {} ELSE {0})

\* _scan_host: the PC is asked over SSH ...
ScanRead(h) ==
    /\ h \notin gone /\ reachable[h] = "open" /\ scans[h] = NoScan
    /\ \E version \in Listed(h) :
          version # stored[h] /\ scans' = [scans EXCEPT ![h] = version]
    /\ UNCHANGED <<shareVars, hostVars, rowVars, beat, answer, offer, taskVars, left>>

\* ... and what it told, none too, is stored when it differs from what was read.
ScanCommit(h) ==
    /\ scans[h] # NoScan
    /\ stored' = [stored EXCEPT ![h] = scans[h]]
    /\ scans' = [scans EXCEPT ![h] = NoScan]
    /\ UNCHANGED <<shareVars, hostVars, gone, target, beat, answer, offer, taskVars, left>>

-----------------------------------------------------------------------------
(* run_agent_update and run_for_hosts.                                     *)

\* The user selects PCs; the available version is read once, at the start.
TaskStart(hosts) ==
    /\ task.stage = "idle" /\ hosts # {} /\ Spend("tasks")
    /\ task' = [stage |-> "canary", available |-> sidecar]
    /\ work' = [h \in Host |-> IF h \in hosts THEN "todo" ELSE "none"]
    /\ outcome' = [h \in Host |-> "none"]
    /\ trial' = [harmed |-> {}, spoilt |-> FALSE]
    /\ UNCHANGED <<shareVars, hostVars, rowVars, agentVars, seen>>

\* One PC at a time until one is ok, then Parallelism of them.
Free ==
    IF task.stage = "canary" THEN InWork = {} ELSE Cardinality(InWork) < Parallelism

\* A thread takes a PC and reads its row.
Pick(h) ==
    /\ work[h] = "todo" /\ h \notin gone /\ Free
    /\ work' = [work EXCEPT ![h] = "started"]
    /\ seen' = [seen EXCEPT ![h] = [stored |-> stored[h], target |-> target[h]]]
    /\ UNCHANGED <<shareVars, hostVars, rowVars, agentVars, task, outcome, trial, left>>

\* Mutant: a canary that failed does not end the task.
VerdictOfAnyAnswer(h, result) ==
    IF task.stage = "canary" /\ result # "unreachable" THEN "batch" ELSE task.stage

\* The canary decides on its own: ok starts the batch, a failure ends the
\* task, an unreachable PC decides nothing.  In the batch nothing is decided.
Verdict(h, result) ==
    CASE task.stage = "canary" /\ result = "ok" -> "batch"
      [] task.stage = "canary" /\ result = "failed" -> "idle"
      [] OTHER -> task.stage

\* The task goes on at this stage without h, or is over: run_for_hosts has
\* told it so, or no PC is left.
GoOn(h, stage) ==
    LET over == stage = "idle" \/ (Todo \ {h} = {} /\ InWork \ {h} = {})
    IN  /\ task' = IF over THEN IdleTask ELSE [task EXCEPT !.stage = stage]
        /\ work' = [g \in Host |-> IF over \/ g = h THEN "none" ELSE work[g]]
        /\ seen' = [seen EXCEPT ![h] = NoRow]

\* Mutant: the result is noted in the words of host_states.
ConcludeAsState(h, result) ==
    /\ GoOn(h, Verdict(h, result))
    /\ outcome' = [outcome EXCEPT ![h] = IF result = "ok" THEN "success" ELSE "failed"]

Conclude(h, result) ==
    LET stage == Verdict(h, result)
    IN  /\ GoOn(h, stage)
        /\ outcome' = [g \in Host |-> IF g = h THEN result
                                      ELSE IF stage = "idle" /\ g \in Todo THEN "untouched"
                                      ELSE outcome[g]]

\* db.get finds no row: the PC was deleted before its turn.  It counts as ok
\* (missing_outcome), as a canary too.
Missing(h) ==
    /\ work[h] = "todo" /\ h \in gone /\ Free
    /\ Conclude(h, "ok")
    /\ Spoil(task.stage = "canary")
    /\ UNCHANGED <<shareVars, hostVars, rowVars, agentVars, left>>

\* The row is gone when its thread writes or reloads it.  The handler reads
\* the name of the PC for the log and raises the same error: run_for_hosts
\* ends with it, at once for a canary and for a batch when it comes to this
\* PC's result.
Raise(h) ==
    /\ h \in gone /\ h \in InWork
    /\ work[h] = "started" => \/ reachable[h] = "open"
                              \/ Outdated(seen[h].stored, task.available)
    /\ GoOn(h, IF task.stage = "canary" THEN "idle" ELSE "raised")
    /\ UNCHANGED <<shareVars, hostVars, rowVars, agentVars, outcome, trial, left>>

\* The PCs of a batch whose turn had not come are dropped then.
DropRest(h) ==
    /\ task.stage = "raised" /\ work[h] = "todo"
    /\ work' = [g \in Host |-> IF g \in Todo THEN "none" ELSE work[g]]
    /\ task' = IF InWork = {} THEN IdleTask ELSE task
    /\ UNCHANGED <<shareVars, hostVars, rowVars, agentVars, seen, outcome, trial, left>>

\* No SSH: the agent shall update itself, if the version read is older.
Delegate(h) ==
    LET older == Outdated(seen[h].stored, task.available)
    IN  /\ work[h] = "started" /\ reachable[h] # "open"
        /\ older => h \notin gone
        /\ target' = [target EXCEPT ![h] = IF older /\ seen[h].target # task.available
                                           THEN task.available ELSE @]
        /\ Conclude(h, "unreachable")
        /\ UNCHANGED <<shareVars, hostVars, gone, stored, agentVars, trial, left>>

\* The PC downloads what the share holds by now, which the server refuses to
\* one it does not know, and installs it; the result arrives or the session is
\* lost.
RunInstaller(h) ==
    /\ work[h] = "started" /\ reachable[h] = "open"
    /\ \/ /\ Install(h, exe, "ssh")
          /\ trial' = [trial EXCEPT !.harmed = IF exe \in Broken THEN @ \cup {h} ELSE @]
       \/ h \in gone /\ UNCHANGED <<hostVars, trial>>
    /\ work' = [work EXCEPT ![h] = "installing"]
    /\ UNCHANGED <<shareVars, rowVars, agentVars, task, seen, outcome, left>>

\* The session is lost, before the installer has run or after.  If the PC had
\* the version all the same, it tells nothing of the installer.
LoseSession(h) ==
    /\ work[h] \in {"started", "installing"} /\ Spend("crashes")
    /\ reachable[h] = "open"
    /\ work' = [work EXCEPT ![h] = "lost"]
    /\ Spoil(/\ ~ Outdated(installed[h], task.available)
             /\ work[h] = "started" \/ harmed[h] # "no" \/ h \in gone)
    /\ UNCHANGED <<shareVars, hostVars, rowVars, agentVars, task, seen, outcome>>

\* The exit code tells a broken build, the registry the version, if it has one.
Result(h) ==
    /\ work[h] = "installing"
    /\ \E version \in Listed(h) :
          /\ version # 0 => h \notin gone
          /\ stored' = [stored EXCEPT ![h] = IF version = 0 THEN @ ELSE version]
          /\ Conclude(h, IF harmed[h] = "no" /\ ~ Outdated(version, task.available)
                         THEN "ok" ELSE "failed")
    /\ UNCHANGED <<shareVars, hostVars, gone, target, agentVars, trial, left>>

\* Mutant: any answer of the PC confirms the update.
RecheckAny(h) ==
    /\ work[h] = "lost"
    /\ \/ /\ stored' = [stored EXCEPT ![h] = installed[h]]
          /\ Conclude(h, "ok")
       \/ Conclude(h, "failed") /\ UNCHANGED stored
    /\ UNCHANGED <<shareVars, hostVars, gone, target, agentVars, trial, left>>

\* _recheck_version in a new session: only the version counts.  Six attempts
\* may all fail.
Recheck(h) ==
    /\ work[h] = "lost"
    /\ \/ /\ reachable[h] = "open" /\ ~ Outdated(installed[h], task.available)
          /\ h \notin gone
          /\ stored' = [stored EXCEPT ![h] = installed[h]]
          /\ Conclude(h, "ok")
       \/ Conclude(h, "failed") /\ UNCHANGED stored
    /\ UNCHANGED <<shareVars, hostVars, gone, target, agentVars, trial, left>>

Update(h) ==
    \/ Pick(h) \/ Missing(h) \/ Delegate(h) \/ RunInstaller(h)
    \/ Result(h) \/ Recheck(h) \/ Raise(h) \/ DropRest(h)

Next ==
    \/ Publish
    \/ \E s \in Syncer : SyncStep(s) \/ SyncCrash(s)
    \/ \E hosts \in SUBSET (Host \ gone) : TaskStart(hosts)
    \/ \E h \in Host : \/ Collect(h) \/ HeartbeatRead(h) \/ HeartbeatCommit(h) \/ SelfUpdate(h)
                       \/ SshChange(h) \/ Delete(h) \/ ScanRead(h) \/ ScanCommit(h)
                       \/ Update(h) \/ LoseSession(h)

Spec == Init /\ [][Next]_vars

\* Syncs are started every hour and take their steps; agents that work send a
\* heartbeat every five minutes and act on what they are answered; a request
\* that has begun comes to its commit.
Fairness ==
    /\ \A s \in Syncer : WF_vars(SyncStep(s))
    /\ \A h \in Host : /\ WF_vars(Collect(h)) /\ WF_vars(SelfUpdate(h))
                       /\ WF_vars(HeartbeatRead(h)) /\ WF_vars(HeartbeatCommit(h))

FairSpec == Spec /\ Fairness

-----------------------------------------------------------------------------
(* Properties.                                                             *)

\* host_parallel.py: PCs go one by one until one has answered, and a bad
\* release breaks one PC, not the batch.  A PC deleted before its turn breaks
\* this: it counts as ok, and the batch begins although none was tried.
OneIsHarmed == Cardinality(trial.harmed) <= 1

\* All that can: a task harms a second PC only if its canary told nothing of
\* the build the others get, because it was deleted, because a sync replaced
\* the installer after it, or because its session was lost while it had the
\* version anyway.
CanaryProtects == Cardinality(trial.harmed) > 1 => trial.spoilt

\* A PC counts as updated only if its agent is then at least the version the
\* task set out to install, whatever was replaced on the share and whatever
\* session was lost in between - or if it was deleted meanwhile.
OkIsCurrent ==
    [][\A h \in Host :
          (outcome'[h] = "ok" /\ outcome[h] # "ok")
              => h \in gone \/ ~ Outdated(installed[h], task.available)]_vars

\* An agent that updates itself never goes back to an older version, although
\* its heartbeat, the offer and the download see the share at three moments.
SelfUpdateAdvances ==
    [][\A h \in Host : SelfUpdate(h) => installed'[h] >= installed[h]]_vars

\* An update leads forward: what a task calls ok is not outdated (_recheck_version),
\* and an agent that updates itself does not go back (agent_update_offer).
UpdatesAdvance == OkIsCurrent /\ SelfUpdateAdvances

\* agent_update_offer: a target is dropped when it is reached.  A heartbeat
\* breaks it that has read an older target, which it reached: its commit drops
\* the one a task has set meanwhile.
TargetDropsWhenReached ==
    [][\A h \in Host :
          target[h] # 0 /\ target'[h] = 0
              => stored'[h] >= target[h] \/ installed[h] >= target[h] \/ h \in gone']_vars

\* Such a heartbeat is under way.
LateHeartbeat(h) == answer[h].clears /\ Outdated(installed[h], target[h])

\* A target set for a PC that SSH does not reach leads to an agent of that
\* version: dropped targets do not count as reached.  What can end it are a
\* broken build, an agent too old for offers, a deletion, and the late
\* heartbeat above.
TargetIsReached ==
    \A h \in Host, version \in Version :
        target[h] = version
            ~> \/ installed[h] >= version
               \/ harmed[h] # "no" \/ installed[h] < SelfUpdateSince \/ h \in gone
               \/ LateHeartbeat(h)

\* agent_version.py: the sidecar tells the version of the installer on the
\* share - again and again, whatever was cut off in between.
SidecarIsInstaller == <>[](sidecar = exe)

\* agent_installer_sync.py: the installer is replaced by a newer one.
InstallerAdvances == [][exe' >= exe]_vars
=============================================================================
