# FleetManager Server: verification project

FleetManager Server is a FastAPI service with a Celery worker (`--concurrency=4`,
`docker-compose.yml:123`), Celery beat, PostgreSQL and Redis. It manages the
Windows PCs of an organisation: an agent on each PC reports to the API, and the
worker runs Ansible over SSH. This directory models the parts of the server in
which several processes work on the same rows: TLA+ modules, TLC configurations
and proofs. `PROJECT.json` maps every definition to the lines it stands for.

Contents: [inventory](#1-inventory), [modules](#2-the-modules),
[runs](#3-the-runs), [bounds](#4-bounds), [fairness](#5-fairness),
[proofs](#6-proofs), [divergences](#7-where-code-and-text-differ),
[limits](#8-what-is-not-modelled), [plan](#9-plan).

## 1. Inventory

Paths are relative to `backend/`. Three kinds of process share the database:
threads of the API, processes of the worker, and beat, which only sends
messages. The handlers share no memory. A database transaction is the unit of atomicity,
and rows are locked only where a query says `with_for_update()`. Celery
acknowledges a message before it runs the task, so a killed worker loses the
task it runs.

Two habits of SQLAlchemy matter everywhere. A column is written only when its
new value differs from the one the session has read, so two sessions that
change different columns of a row both win (`OrmWrite`, `Written` in the
modules). And a locking query for a row the session has loaded already locks it
without reading it again.

| Component | State | Operations | What is hard | What makes it correct | Module |
|---|---|---|---|---|---|
| Waiting tasks (`services/waiting_tasks.py`) | rows of `task_runs` with `grouped`, their `host_states`; child executions linked by `parent_id` and `after_task_id` | create a run or a chain, release, flush, start, finish, start followers, cancel, expire | heartbeats, the SSH sweep, flush messages with a countdown, four workers, cancels and crashes interleave | a host is executed once per run, in the order of the playbooks; it settles; it is never forgotten | `WaitingTasks` |
| Playbook execution (`services/ansible_runner.py`) | the execution's row, `host_states` | `run_playbook_task` | redelivery, a crash in the middle, database errors | an outcome for every host | `WaitingTasks`, `Playbooks` |
| Playbooks and schedules (`services/local_playbooks.py`, `services/schedule_targets.py`, `routers/playbooks.py`) | files, `playbook_schedules` | save, rename, delete, dispatch | targets that empty themselves, files renamed under a schedule | a schedule works on its targets and on nothing else | `Playbooks` |
| Host presence (`services/host_health.py`, `host_diagnostics.py`, `routers/agent.py`) | `Host.status`, the SSH report, the power state | heartbeat, ping, offline, uninstall, the sweep, a diagnosis | status read before minutes of probing and written after it | status follows the PC; waiting tasks are released when, and only when, the PC can run them | `HostPresence` |
| Agent registration (`routers/agent.py`, `services/host_dedup.py`, `agent_auth.py`) | hosts, agent tokens | register, adopt an old record, merge twins, import | concurrent registrations, merges while tasks run | a PC has one record; a merge loses nothing | `HostRegistry` |
| Host groups (`services/host_grouping.py`, `routers/hosts.py`) | `host_groups`, `Host.group_id` | grouping by name, regroup, prune, moves, create, delete | a prune that reads and then deletes | groups hold what their owner put there | `AccessChange` |
| SSH access (`services/access_change.py`, `credential_rules.py`) | `Host.credential_id`, `HostGroup.credential_id`, tasks of type `access_change` | change a credential or move hosts after a login with the new credential | minutes between plan and application | a login that works is kept | `AccessChange` |
| Agent update (`services/agent_update.py`, `host_parallel.py`, `agent_version.py`) | `agent_version`, `agent_update_target`, the installer on the share | canary, batches, delegation to the agent, self-update, recheck, scans | the installer is replaced and PCs are deleted meanwhile; sessions are lost; heartbeats write what they read earlier | a bad release breaks one PC, unless its canary told nothing | `AgentUpdate` |
| Agent installer (`services/agent_installer_sync.py`) | `FleetManagerAgent-Setup.exe` and its `.version` | download, replace, write the version | two files, no lock | the version names the installer | `AgentUpdate` |
| Distribution (`services/distribution.py`, `routers/installers.py`) | the share, the mirror, the manifest, a lock file and `.again` | upload, remove, sync, link | files that change while they are copied and hashed | a link leads to the file that is on the share | `Distribution` |
| Offsite backup (`services/offsite_backup.py`, `routers/backup.py`) | settings, journal, the restic repository, a temporary database | save settings, run now, scheduled runs, check | settings changed during a run, failures between two snapshots, dead workers | a good copy is whole; copies keep arriving | `OffsiteBackup` |
| Wake-on-LAN, restart (`services/wake_on_lan.py`, `host_restart.py`) | task rows, their logs | packets through relays, rounds of questions, commands in parallel | PCs deleted or switched during the wait, late heartbeats | the log tells what happened | `Power` |
| Wallpapers (`services/wallpapers.py`) | catalogue, files, assignments, schedules | upload, delete, assign, schedule, cancel, apply, heartbeat | an image or a group changes under a schedule | a schedule is decided, and reaches the whole group | `Wallpapers` |
| Rollouts (`routers/rollouts.py`) | requests, items, links to runs | derive statuses, save, edit | every look saves what it derives | statuses settle | `Rollouts` |
| Printers (`services/printer_discovery.py`, `printer_monitor.py`) | `printers`, Redis keys with a lifetime | search, poll, edit, delete | a key runs out during a round, a row is edited during a poll | one search adds; a printer shows its own data | `Printers` |
| Software (`services/software_sync.py`, `software_scanner.py`) | installed rows of a PC | heartbeat, scan, result | three writers compare with rows none of them locks | the rows name what is installed | `Software` |
| Hardware, disks (`services/workplace_devices.py`, `disk_alerts.py`) | snapshots, pending changes, alarms | compare a snapshot, confirm, alert | snapshots that lack something | a change is noted when it has lasted, an alert sent once | `Devices` |
| Host tags (`services/host_tags.py`, `routers/host_tags.py`) | tags, rules, `Host.tag_id`, `Host.tag_manual` | set a rule, assign, give back, delete, heartbeat | a rule rewrites the tag of many PCs while heartbeats rewrite one | the tag follows the rule, or the hand | `HostTags` |
| Users and sign-in (`routers/users.py`, `routers/auth.py`, `services/ldap_users.py`) | `users`, sessions, the directory | register, role change, deletion, sync, refresh | two administrators at once, a directory that has changed | an administrator remains; leavers are out | `Accounts` |
| Dashboard, schemas, migrations, frontend, deployment | none of their own | - | - | - | - |

How they interact. A heartbeat (`routers/agent.py`) writes presence, groups the
host, offers an agent update, compares devices, disks, software and the tag's
rule, and releases what waits for the host. The sweep
(`host_health.ping_hosts`, started by beat every five minutes) writes presence
and releases as well. A release changes rows and sends a delayed flush; the
flush makes executions and sends the first of them; the worker's signal
handlers (`task_prerun`, `task_postrun`) carry results back into the run and
send the next. A schedule makes one execution. Access changes, wakes and
restarts are tasks too, but not grouped ones.

## 2. The modules

| Module | Models | Proofs |
|---|---|---|
| `HostAssignments` | abstract specification of a run: held, taken, settled | |
| `WaitingTasks` | the core, `services/waiting_tasks.py` with the executor and the queue | `WaitingTasks_proofs` `WaitingTasks_order` |
| `HostPresence` | who is reachable, as three writers see it | `Heartbeats_proofs` |
| `HostRegistry` | records, agent tokens, adoption, import, merge of twins | `HostRegistry_proofs` |
| `AgentUpdate` | canary, delegation, self-update, installer | `AgentUpdate_proofs` |
| `AccessChange` | credentials, groups, verified changes | `AccessChange_proofs` |
| `OffsiteBackup` | settings, runs, the repository and its copies | `Copies_proofs` |
| `Distribution` | share, mirror, manifest | `Copies_proofs` |
| `Accounts` | roles, the directory, sessions | `Services_proofs` |
| `Printers` | searches and polls of printers | `Services_proofs` |
| `Playbooks` | playbooks, schedules and what they run on | `Services_proofs` |
| `Wallpapers` | images, assignments along the tree of groups, schedules | `Services_proofs` |
| `Rollouts` | requests whose statuses are derived | |
| `Devices` | the journal of devices, alerts about full disks | `Heartbeats_proofs` |
| `HostTags` `Software` | what else a heartbeat brings | |
| `Power` | a wake or a restart and the PCs around it | `Heartbeats_proofs` |
| `MCServices` | seven instances of services, one followed at a time | |
| `MCHeartbeats` | six instances of what heartbeats bring, one at a time | |
| `MCAgentUpdate` `MCAccessChange` | two parts of one instance each, one followed at a time | |
| `MC...` (others) | constants, symmetry, initial states | |

### WaitingTasks

One transaction is one step. `row[g]` is the row of a group: `host_states`,
`status`, `finished_at IS NOT NULL`. `row` is changed only through `SetStates`, which also stores the
summary, as `_set_states` does. Groups are named by sequence and step, so
`after_task_id` of `<<s, k>>` is `<<s, k-1>>`; executions by batch and step.
`flushes[g]` and `sent[e]` count messages in flight; `worker[w]` is the program
counter of a worker process through `_on_execution_start`, the task's body,
`execution_finished` and `start_followers`, each of whose transactions is one
action (`Start`, `Run`, `End`, `Record`, `Follow`, `Claim`, `Grant`).

| Code | Action |
|---|---|
| `create_task_sequence`, `_supersede`, `_execution` | `Create` |
| `release_waiting_tasks` | `Release` |
| `flush_released` | `Flush` |
| `expire_waiting_tasks` | `Expire` |
| `_on_execution_start`, its swallowed error | `Start`, `StartFails` |
| `run_playbook_task`, an error it does not get over | `Run`, `End`, `BodyFails` |
| `execution_finished`, its swallowed error | `Record`, `RecordFails` |
| `start_followers`: read, conditional UPDATE, group | `Follow`, `Claim`, `Grant` |
| `cancel_task` + `cancel_waiting_task` of a group | `CancelRead`, `CancelCommit` |
| the same of an execution | `CancelExecution` |
| a killed worker, a message lost or delivered twice | `Crash`, `LoseFlush`, `LoseExecution`, `Redeliver` |

`Create` is the commit of an assignment. What it supersedes was locked before,
by statements that see only runs committed when they began: `seen` says how many
that were for each playbook. Two assignments at once do not see each other, and
`began` remembers for the properties which did.

A cancel is two steps because `routers/tasks.py` loads the row with `db.get`
and the locking SELECT of `waiting_tasks.py:421` finds the object in the
session: without `populate_existing` SQLAlchemy locks the row and keeps the
values read before.

`Promise` maps the rows to `HostAssignments`: waiting and ready are held;
pending, queued and running are taken. `KeepsPromise` is the refinement.

### HostPresence

`Heartbeat`, `Ping`, `MarkOffline`, `UninstallAgent` are requests of the agent,
several of which the server may be handling at once (`mail`). A heartbeat is
three steps: `Heartbeat` stores the report and commits, `HeartbeatCheck` looks at
the row again, which may hold the report of another request by then, and
`HeartbeatRelease` commits the release it has decided on. The sweep is four
steps: it reads all hosts (`SweepBegin`), probes them (`SweepProbe`), commits
all statuses together (`SweepRecord`, which fails as a whole when a host has
been deleted) and visits the hosts for the release (`SweepVisit`). Time is
abstract: a report may lapse at any moment (`FRESH_FOR`). The
runs themselves are one state per host; their life is `WaitingTasks`.

### HostRegistry

`hosts` is the table, `agent[p]` the machine id and token the agent of a PC has
stored; a record accepts an agent when both agree (`HeldBy`). A
registration is `RegisterRead` (find a record by machine id, name, address, or
one to adopt) and `RegisterCommit`, whose answer may get lost; the merge after
a heartbeat is `AbsorbRead`, `AbsorbMerge` and one `AbsorbOlder` for each
further twin. None of them locks what it has read. `AddHost` and `ImportCsv`
are the two ways a user enters a record. A merge that finds one of its records
gone, or the machine id at a third one, is rolled back (`CanMerge`). `past` stands for
the rows of the history tables by the record they were stored for, `hw` for the
MACs and the serial number a PC reports. A clone is a PC whose agent starts
with the machine id of another (`Init`). `fresh` is a heartbeat within
`CLONE_GUARD_WINDOW`, and `Lapse` its end. `reporting` in a registration and in
a merge is a history variable: who reported under which record when it read.

A PC counts as reporting (`OwnRecord`) when its record bears its name, as it
does from the first heartbeat on. Before that heartbeat it may not: when two
PCs take one stale record at once, a record may keep the token of the one and
the name of the other, and a clone of the first that has this name is then let
in (`routers/agent.py:232`). It takes four PCs, so `hr_records` does not reach
it; the attempt to prove the property for any number of PCs did.

### AgentUpdate

`exe` is the build in the share, `sidecar` the version its file names (0 while
the file is empty). `SyncStart`, `SyncReplace`, `SyncTruncate`, `SyncWrite` are the moments
of `sync_agent_installer` another process can see. `Pick`, `Verdict`, `GoOn` and
`Conclude` are `run_for_hosts`: one PC alone until one has answered well, then
`Parallelism` of them. A PC that SSH does not reach gets a target (`Delegate`)
and is updated by its agent (`Collect`, the heartbeat, `SelfUpdate`). A broken
build fails on a PC and leaves its agent harmed, by SSH or by itself.

Whoever writes a row has read it before. `seen` is the row as a thread of the task
has loaded it (`Pick`); a heartbeat decides on what it stores, clears and offers
when it begins (`HeartbeatRead`) and writes the columns that differ at its commit
(`HeartbeatCommit`), over a target that was set meanwhile; a scan stores at
`ScanCommit` what it was told at `ScanRead`, which is nothing when no agent is
listed.

A PC may be deleted at any time (`Delete`, `gone`). Before its turn the task takes
it for one that is ok, as a canary too (`Missing`, `host_parallel.py:75-79`);
while it is in work, the first statement that needs its row raises, the handler
that wants its name for the log raises again, and `run_for_hosts` ends (`Raise`),
without those of the batch whose turn has not come (`DropRest`).

`trial` is a history variable: whom the task has harmed over SSH, and whether its
canary has told anything of the build the others get.

### AccessChange

A tree of floors and rooms, the credential of each group and of each host, and
`works`, the logins the PCs accept. `ChangeLater`, `VerifyLogins` and
`ApplyVerified` are the request and the two halves of `run_access_change`: the
plan and the logins, then `apply_change` with that plan. `ChangeNow` is a
request that no host has to be checked for. `Move`, `CreateGroup`, `AutoGroup`,
`PruneRead`, `PruneDelete`, `DeleteGroup`, `DeleteCredential` and what an agent
does with its key are what may happen in between, and all of it may: nothing
keeps one request waiting for another. A registration replaces the credential
of its host when it commits (`Register`); the PC accepts the new key once the
answer has arrived (`KeyArrives`), which it may never do (`AnswerLost`; the agent
then registers again and is sent the same key). A request that moves hosts ends
with a prune (`cleanup`); the prune reads the empty groups level by level and
then deletes them, and so is two steps. With `ByName = TRUE` a move names its
group, with `FALSE` it gives its id.

`PlanIsCurrent(t, h)` says that a plan made now would say of `h` what the plan of
`t` says. What the properties promise of an application they promise of each such
host, whatever has happened to the others.

The tree has two levels, as the names of rooms give them: `SchemeAssumption`
says that a floor is at the top and that no room is one. A group that an administrator
creates is at the top or below the floor of its name. `FiniteAssumption` says
that there are finitely many groups, which the walk over the empty ones needs.

### OffsiteBackup

`storage` is the settings row, `form` a `save_settings` request between its
checks and its commit (it scans the server's SSH key in between), `repo` the
password of the repository at each place, `copies` the snapshots. A run is a
journal row and the stage of its task: `Start` reads the settings once,
`Connect` opens or creates the repository and writes `initialized`, `CopyDb`
and `CopyConfig` are the two snapshots of `backup_db`, `CheckCreate`,
`CheckLoad` and `CheckCount` the restore check over its one temporary database.
`Refused` is a call that cannot succeed, `Fails` one that fails anyhow, `Dies`
a worker that is gone, `Ages` the thirteen hours after which `run_now` no longer
waits for an open row.

### Distribution

A file is a version; an upload is always a new one. One round of a sync is
`Walk` (which also removes `.again`), `Transfer` of one file after the other,
`WalkAgain`, `Publish` (hash and manifest), `Repeat`. A task that finds the lock
taken leaves `.again` in a step of its own (`Take`, `Flag`). `Linked` is
`link_for`: the file's stat is the listed one.

### Accounts

A role change or a deletion is `Begin` (let in as an administrator), `Count`
(the snapshot of `SELECT ... FOR UPDATE`), `Lock` (its rows once they are free,
those that still match) and `Commit`. A sign-in or refresh of a domain account
is `AskDirectory` and `Sync`: the second writes, without a lock of its own but
waiting for those of others, what was derived from the first.

### Playbooks, Wallpapers, Printers, Rollouts

`Playbooks`: a save or rename is checked, writes the new file, unlinks the old one,
reads the schedules that have the old name (`SaveSelect`) and commits their move
(`SaveSchedules`, which fails for all of them when one has been deleted meanwhile). The
server takes any name for a schedule; `astray` is a history variable with those
that were given the name of a file that was not there, or lost theirs to a
deletion or to such a failure. The dispatcher resolves groups and tags, commits a task and sends it; the
worker builds the inventory when it starts (`pcs` may be deleted by then). What a
task works on is kept apart from what the schedule meant.

`Wallpapers`: groups are a tree, an assignment to a group replaces those below
it. Deleting an image removes the file first (`DeleteBegin`) and the row at the
commit (`DeleteCommit`), where a foreign key may refuse it. A schedule names its
images in JSON. The beat reads a schedule that is due and decides it at its commit
(`ReadDue`, `ApplyDue`), a cancellation reads and writes it (`CancelRead`, `Cancel`),
and neither looks again. `Heartbeat` is what a PC is answered.

`Printers`: `poll` is one poll of one printer, `searches` are tasks that hold,
renew or have lost the Redis key; `Hour` passes time in the unit the two hours
of the key are counted in.

`Rollouts`: `Look` and `Save` are one page view, which reads, derives
(`DerivedItems`, `DerivedRequest`) and saves what has changed. People change
statuses (`PatchRequest`), replace the list of programs with its links to runs and rooms
(`PatchItems`: its rows are made anew, so that a look that has read the old ones
fails), and PCs move between rooms (`Move`).

### HostTags, Devices, Software, Power

`HostTags`: every request is a read and a `Commit`; a commit writes the columns
that request has changed. `Devices`: one snapshot is one step, with whatever it
lacks; `streak` and `quiet` are history variables, which say how long snapshots
have shown a change in fact. `Software`:
a writer collects the list on the PC, reads the rows, then writes the
difference, each with the others in between; the list of a scan may lack
programs, as a source whose output does not parse adds nothing. `Power`: `job` is one task, `power` the PCs, `beats`
the heartbeats since the packets; `wereOn`, `stayOpen` and `restarts` record
what was the case, so that the log can be compared with it.

### MCServices and MCHeartbeats

The services of `MCServices` read nothing of each other's, so their
interleavings add nothing. A behaviour chooses one of them as its `focus` in the
initial state; the others stay in one state of theirs. Every part is thus
explored with all its own interleavings, and the states add up instead of
multiplying. The fairness of a part binds only behaviours that follow it.
`MCHeartbeats` does the same for what a heartbeat brings: those parts share the
request but no column that any of them reads to decide. `HostPresence` has
two instances. A property of a part that is not in
focus is that of a state at rest, so each is decided where its part moves.

`MCAgentUpdate` divides the actions of `AgentUpdate` over two parts: `agent` has one PC with its
heartbeats, scans, offers and tasks, `canary` a task with all PCs, lost
sessions and deletions; syncs are in both. `MCAccessChange` has `changes`, which
is all of `AccessChange` with one credential, and `rooms`, which is what moves PCs
between groups with two.

## 3. The runs

Twelve runs: ten that pass and two that end in a counterexample. All of them
are finite; in those that pass TLC explores every state.

| Run | Instance | Properties | Question |
|---|---|---|---|
| `wt_chain` | 2 hosts, up to 3 playbooks, 2 workers, no faults | `TypeOK` `ChainOrder` `OneAtATime` `ReadyIsScheduled` `OpenIsCovered` `SummaryAgrees` | Does a batch of hosts go through the chain in order, with somebody responsible for every host at any moment? |
| `wt_hostile` | 1 host, 1 worker, 2 assignments of up to 2 playbooks, a stale cancel, a cancelled execution, one fault | `OneExecutionPerHost` `TakenIsNotHeld` `HeldOnceAndFound` | Is a host executed twice, lost from the queries that look for it, or left waiting in a run that a later one superseded? |
| `wt_redelivered` | 2 hosts, 2 playbooks, one fault, one message twice | `ClaimedOnce` `KeepsPromise` `SettledStays` | Do runs implement `HostAssignments` when messages are lost and repeated? |
| `wt_live` | 2 hosts, 2 playbooks, fair | `EveryHostSettles` `PendingAdvances` | Does every host reach a result? |
| `wt_stale_cancel` | 2 hosts, 1 playbook, one cancel | `SettledStays` (violated) | Can a result be taken back? |
| `hp` | `MCHeartbeats`, six instances (below) | `HeartbeatsTypeOK` `LogIsTrue` `StatusFollows` `ReportsSettle` `NewsIsTrue` | Is what the server shows of a PC right in the end, although everybody who writes it writes late? |
| `hr_records` | 2 PCs, 3 records, 3 registrations, one deleted; two reinstallations, or one and a record entered by hand | `ReportingPcIsKept` `HistoryStays` | Does a PC that reports keep its record, and does a merge keep every history, whatever is registered meanwhile? |
| `hr_live` | 2 PCs of one name, two reinstallations, fair | `OneRecordInTheEnd` | Do the records of one PC end as one? |
| `ac` | 1 PC, a floor and a room, a deletion; with 1 credential beside the agent's key, or with 2 and what moves PCs only | `AccessAndKeysStay` `ChangesAreVerified` | What can take a login that works, and does a change do what its logins said, when all requests interleave? |
| `au` | 2 PCs, 3 releases of which the last is broken, 1 sync process, two parts (above) | `TypeOK` `CanaryProtects` `UpdatesAdvance` `SidecarIsInstaller` `TargetsAreReached` | What lets a bad release pass its canary, and do task, agent and share agree on versions? |
| `services` | `MCServices`, seven instances (below) | ten, each of one instance or two, and the types | Does each service keep its promise through its own interleavings, crashes and failures? |
| `ob_password` | 1 place, 2 passwords, 1 run, 2 saves | `PasswordStays` (violated) | Can the password of the repository be lost? |

The six instances of `hp`:

| Focus | Instance | Property | What it shows |
|---|---|---|---|
| `reports` | 1 PC with an agent, a sweep, a diagnosis, an assignment | `StatusFollows` | the status of a PC that stays as it is ends right, and whoever waits and stays reachable is released |
| `sweeps` | 2 PCs without agents, one deletion | the same | a sweep that fails as a whole only delays the others |
| `tags` | 1 PC, 1 model, 2 tags, 2 requests at once | `ReportsSettle` | tags without a hand follow the rule in the end |
| `software` | 1 PC, 1 program in 2 versions, 2 reports at once, 1 scan | `ReportsSettle` | the rows name the programs of the PC in the end |
| `devices` | a memory module and a USB disk, 1 drive, 3 ticks, 1 agent update | `NewsIsTrue` | a journal entry stands for a change that has lasted; an alert is not repeated |
| `power` | 3 PCs of one subnet, one without a MAC, one switch and one deletion | `LogIsTrue` | the log of a wake or restart tells what happened |

The seven instances of `services`:

| Focus | Instance | Properties | What it shows |
|---|---|---|---|
| `backup` | 1 place, 1 password, 2 runs, a save, a failure, a new key | `CopiesAreWhole` `CopiesArrive` | a failure anywhere looks like one, and the next copies arrive |
| `mirror` | 1 file, 2 uploads, one failure or dead worker | `CopiesAreWhole` `CopiesArrive` | a link leads to today's file, and every file that stays gets one |
| `walls` | 2 images, a floor, its faculty and a PC, 1 schedule with its cancellation | `PlansAreCarriedOut` | a schedule is decided, and an assignment reaches the whole group |
| `users` | a local and a domain account, 2 requests at once, a change in the directory | `KeepsAnAdmin` `DirectoryIsFollowed` | an administrator remains; leavers lose the session; roles set by hand prevail |
| `plays` | 2 names, 1 schedule, 1 group, 2 PCs, an edit, a change of the schedule | `ScheduleHolds` | an empty group never becomes the whole fleet; a rename takes schedules along, and the ways one is left at a file that is gone are named |
| `printers` | 2 addresses, 2 searches, an edit, a failure | `AddersHoldKey` `PrintersRecover` | only the holder of the key adds; a dead search ends; a printer shows its own data |
| `rollouts` | 2 items with or without a room, 2 runs, 2 viewers, a manual change of a status, a link or a room | `StatusSettles` | derived statuses do not flap |

Every property has a mutant in `PROJECT.json`, a change of one definition that
a slip in the code would make (a summary not recomputed, an UPDATE without its
condition, the rows of the snapshot counted instead of the locked ones), for
which TLC finds the property violated.

## 4. Bounds

Two hosts are the least at which hosts of a run
appear at different times, a batch holds more than one, and one waits while the
other runs; three playbooks the least chain with a middle that can be stepped
over; two workers the least that compete for a message, and at most one message
per batch is in flight without faults. A batch is used up by each `Create` with
hosts online and each `Flush` with hosts ready, that is by at most one per host
and one per sequence: three batches never run out in these instances (`wt_hostile`: one host in
two sequences needs at most two). One fault, one cancel and one repeated
message each hit every point of every behaviour; two of a kind are left out. `wt_hostile` has one
host, because two hosts with two sequences pass ten million states, and one worker,
as what it asks is about the rows of the host; two workers are in the other runs.

In `hr_records` two PCs are one that reports and one that could displace it, as
its namesake, its clone or neither; three records are a live one and two twins,
so that the merge has a second commit; three registrations are one for each PC
and one after a reinstallation, or three of one PC, which is what two twins
take. `RecordsSpec` and `LiveSpec` of `MCHostRegistry` spend the bounds in the
two ways named in the table, which is the full specification from fewer initial
states.

In the runs of `AccessChange` one PC suffices since requests treat hosts one by
one, and the tree has one floor and one room: inheritance has one level that
gives and one that takes. A second task would only apply what `ChangeNow` and the
other requests do already between the logins and the application of the first.
In the part `changes` the one credential of the administrators, the agent's key and having none are the old
access and the new one. Two credentials matter where a room may have another one than
its floor; the part `rooms` has them and leaves out requests and registrations,
which keeps the run within three minutes. The theorems of `AccessChange` have any number.

In `au` the part `canary` has a canary and one more PC, the least that a second one
can be harmed; its task knows two versions, a sync brings the broken third. The part
`agent` has three versions, so that a target, the share and a newer release
differ, and two tasks, so that a heartbeat that has read the target of the first
may drop that of the second; `Within` says how the bounds are spent there: two
tasks, or one with a sync cut off, a lost session or scans. Deletions
are in the part `canary` only, for a PC that is gone ends all that `agent` is about.

In `services` and `hp` each instance has the least at which its hazard needs
all its actors:

- `backup`: two runs, one that fails or dies and one that overtakes it or meets
  it over the temporary database; one place and one password, as what a second
  of each adds is the run `ob_password`, and a place with another path is
  another repository.
- `mirror`: files are copied and listed one by one, so one file is enough for a
  link; two uploads are a version that is copied and one that arrives under way.
  `MaxAsked` (2 messages) and `Rounds` (3, the code's own limit) let a task
  find the lock taken while another repeats.
- `users`: two persons are the fewest of whom one may demote the other while
  the other demotes them; one of them is of the domain, so that a sync competes
  with both.
- `walls`: a PC, its floor and the faculty above are the three levels an
  assignment can come from. `plays`: two PCs, one in the group and one that
  must stay out of it. `rollouts`: a program counts its runs or, with a
  room, the PCs of the room; of two runs one may have failed a PC that the other has yet to reach.
- `printers`: two searches, the second of which may be started when the key of
  the first has run out; two rounds, so that a round may end without being the last.
- `tags`, `software`: two requests at once are the ones that overwrite each
  other; two versions and two tags, so that right and wrong differ.
- `devices`: one device that a failed collection hides and one that it does not;
  three ticks exceed the longest wait of the instance.
- `power`: one PC to be woken, one that relays, one that cannot be woken.

`CHECK_DEADLOCK FALSE` stands in every configuration: requests, faults and
batches are bounded, and a system with nothing left to do may stop.

## 5. Fairness

Weak fairness unless said otherwise, and only of what a process of the server
or an agent does of its own accord; requests of people, faults and changes on
PCs owe nothing.

- `WaitingTasks`: a worker keeps taking messages and every task body ends.
  Nothing in the code limits its time (`celery_app.py` sets no limit, `run_ansible` gets
  no timeout), so this rests on Ansible ending by itself: its connections do. The broker delivers a flush once its countdown is
  over, beat calls the expiry every hour, and a request that has begun ends.
  Heartbeats owe nothing: that a host which never appears settles is due to the
  expiry.
- `HostPresence`: beat starts a sweep, and a sweep that runs goes on. An agent
  may be silent for ever, and a request may be handled however late. The
  properties speak about a PC that stays as it is (`[]`-premises), since nothing
  can follow a PC that changes faster than it is looked at.
- `HostRegistry`: an agent that is accepted sends heartbeats, a merge that has
  begun goes on, and a record no agent reports for goes stale.
- `AgentUpdate`: the hourly sync takes its steps, an agent that works
  collects, reports and acts on what it is answered, and a heartbeat that has
  begun comes to its commit.
- `OffsiteBackup`: tasks go on and time passes. Strong fairness of `Beat("db")`:
  beat sends its message every four hours whatever the other runs do, but the
  model follows two journal rows only, so the step is enabled again and again
  and not always.
- `Distribution`: beat asks, a task takes its message and goes on.
- `Wallpapers`: beat reads and decides what is due, a PC sends heartbeats, a deletion and a
  cancellation that have begun end.
- `Accounts`: requests that have begun end, and a session that is held is refreshed.
- `Printers`: polls and searches go on, a key runs out, time passes. A poll that
  goes on reaches its answer; failures are bounded.
- `Rollouts`: somebody looks at the page now and then.
- `HostTags`, `Software`: requests reach their commit. Strong fairness of the
  heartbeats: a writer that is busy with another request makes the step disabled
  in the model, but the agent sends its report every few minutes all the same.

## 6. Proofs

Forty-three theorems, each for every value of the constants (where one needs that
something never happens, it assumes that bound to be 0 and no more). A module that
has theorems about several components EXTENDS one and has the others as instances
beside it, each with constants and variables of its own.

`WaitingTasks_proofs` begins with what holds from `BoundsAssumption` and
`ReportedAssumption` only:

- `TypeCorrect`: `Spec => []TypeOK`.
- `NoDoubleExecution`: `Spec => []OneExecutionPerHost`. No group has two
  executions for one host, however releases, flushes, cancels with old rows,
  expiries, crashes, lost and repeated messages interleave.
- `NeverHeldAgain`: `Spec => []TakenIsNotHeld`.

`OneExecutionPerHost` alone is not inductive: a state in which a host that has
an execution is still shown as ready satisfies it, and the next flush breaks
it. So the invariant is

    ExecutionInv == TypeOK /\ Fresh /\ SeenAbsent /\ TakenIsNotHeld /\ OneExecutionPerHost

`TakenIsNotHeld` closes that gap. A cancel with an old row could open it again
by writing an earlier state, in which the host was not yet taken. That it does
not is the point of the argument: `cancel_waiting_task` turns what it has seen
as waiting or ready into cancelled, which is not held; all else it writes
back was seen as neither, and `SeenAbsent` says that a host it saw absent from
the run is absent from the stored row too. `Fresh` says that unused batches
have no targets and that groups not yet created have no hosts, which
`Create` and `Flush` need when they add a batch. The lemmas `Still` and
`NoReturn` collect the actions that only move hosts out of the held states; the
proof has one step for each action of `Next`.

Its second part is about the rows of `task_runs`. The lemmas `CreateRows` to
`GrantRows` say for each transaction what becomes of one host of one group; the
theorems only look at those.

- `HeldHostsAreKept`: `Spec => []HeldOnceAndFound`, without an assumption. A host
  waits in one at most of an assignment and the earlier runs of the playbook that it
  saw. A cancel with an old row does not break it, for it turns every host it saw
  waiting into cancelled. Two assignments at once are not covered: they both wait
  (section 7).
- `SummaryHolds`: `Spec => []SummaryAgrees` if `MaxCancels = 0`. Each
  transaction stores what `GroupStatus` gives for its hosts (`NextSummed`).
- `ResultsAreFinal`: `Spec => SettledStays` if `MaxCancels = 0`. `NextAdvance`
  states what a step may do to a host: nothing, or one of the moves forward.
- `ReadyHostsAreScheduled`: `Spec => []ReadyIsScheduled` if `MaxFaults = 0`.

The module ends with the invariant the next one starts from:

    BatchesInv == ExecutionInv /\ HeldOnceAndFound /\ ReadyFirst /\ TakenForGood /\ SameBatch

A host is let go by the first group that holds it (`ReadyFirst`), so a flush of
that group takes it for all that follow, it is not held anywhere in the run
afterwards (`TakenForGood`), and all its executions in the run are of one batch
(`SameBatch`). This is how a row of groups, each with a transaction of its own,
comes to behave like one assignment.

`WaitingTasks_order`, about executions and workers:

- `FollowerIsClaimedOnce`: `Spec => []ClaimedOnce`, without an assumption. What
  `WorkInv` adds is that whatever is sent, taken or followed was queued once, so
  it is not pending, and only a pending execution can be claimed.
- `ChainsKeepOrder`: `Spec => []ChainOrder`, and `HostsAreWorkedOnce`:
  `Spec => []OneAtATime`, both if `MaxRedeliveries = 0`. Then an execution under
  way is one token (`OneToken`): its message, or the one worker that carries it.
  `StatusKnown` says what a worker knows of the status of its execution between
  its transactions, `BatchOrder` that whatever has begun has only settled
  executions before it. Cancels and crashes are allowed: they settle, or leave
  the chain standing. "Over" in `ChainOrder` means that nobody will do anything for
  the execution any more; the status stored for it may be running for good, when
  its body or its handler has failed.
- `OpenHostsAreCovered`: `Spec => []OpenIsCovered` if nothing is cancelled or lost.
- `PromiseIsKept`: `Spec => KeepsPromise`, the refinement of `HostAssignments`, if
  nothing is cancelled, with losses, crashes and repeated messages. `PromiseInv`
  adds that a host shown as taken has an execution in its group
  (`TakenIsCovered`) and that an execution begins when those before it in the
  batch have recorded their results (`PastSettled`), so a result is recorded where
  `Settle` allows it, or repeats one. `Create` is `Assign`, `Flush` is `Take`,
  `Expire` is `Withdraw`, `Record` is `Settle`; all other steps leave what
  `Promise` sees unchanged (`StepKeepsPromise`).

Each of the assumptions is needed. With two hosts and two playbooks TLC finds
`SummaryAgrees`, `SettledStays`, `OpenIsCovered` and `KeepsPromise` broken with
`MaxCancels = 1`, by a cancel that writes back an old row; `ChainOrder` and
`OneAtATime` with `MaxRedeliveries = 1`, by an execution that runs beside the
followers it has sent; `ReadyIsScheduled` and `OpenIsCovered` with
`MaxFaults = 1`, by a message that is lost; `OpenIsCovered`, and with three playbooks
`KeepsPromise`, with `MaxChildCancels = 1`, by an execution cancelled on its own,
whose hosts stay open in the row.

`Services_proofs`, of `Accounts`, for a finite non-empty `Person` and bounds in `Nat`:

- `AccountsTyped`: `Spec => []AccountsTypeOK`.
- `LastAdminStays`: `Spec => KeepsAnAdmin`. The invariant is `LockedAreAdmins`:
  whoever a locked request has counted is still an administrator. It holds
  because the locking query keeps only rows that match once it has them, because
  another request's commit and a sync wait for a row that is held, and because
  accounts that come into being were in nobody's count. Then a request that
  takes a right has counted two, and the one who is not its target remains
  (`CommitKeepsOne`).

`Copies_proofs`, of `OffsiteBackup`, for any sets and bounds in `Nat`:

- `GoodCopiesAreWhole`: `Spec => []OkIsComplete`. The journal alone does not
  say it: the invariant (`Fits`) adds that a run which goes on with the
  configuration is a copy of the database and has left its dump at the storage
  it has read, and that the stages of a check belong to checks. A run keeps its
  storage although the settings change; that is what makes both halves lie in
  one place. `RekeysBounded` keeps the keys of servers within their type.

and of `Distribution`, for any set of files and bounds in `Nat`:

- `LinksAreCurrent`: `Spec => []LinkIsCurrent`. `NothingNewer` says that
  versions never come back: the manifest and the walks know none newer than
  the newest, so an upload ends a link until the next manifest. `CopiedAsWalked`
  says that rsync has copied each file it has passed that is still the one of
  the first walk; this is why only files that both walks have seen alike are listed.

`HostRegistry_proofs`, for any sets, addresses and bounds in `Nat`:

- `HistoriesAreKept`: `Spec => HistoryStays`. The invariant (`RegistryInv`,
  which `RegistryInvariant` states) is that no two records have the history of
  the same one (`OneHistory`), that a merge with further twins keeps none of
  those that go (`KeptStays`), and that a registration has read the row it
  writes (`RowWasRead`). A step does nothing to the histories, adds a record
  with its own, moves one to another record, or belongs to a deletion
  (`HistoryStep`); the oldest twin is one of the twins (`OldestIsOne`).
- `ReportersAreKept`: `Spec => ReportingPcIsKept`. `KeptInv` adds who is who:
  PCs of one name have different machine ids (`NamesApart`, which is what tells
  a clone), a token is one agent's, and a machine id one record's
  (`MachinesApart`, kept by the unique index and by merges that hand it on). From it
  follows what the transactions know that have read: a registration has chosen
  no record anybody reported under then (`TakesNobodys`), and a merge keeps and
  drops only stale ones, but for the one of the heartbeat, whose token and
  machine id the record that stays is given (`MergesStale`). The last holds
  although tokens come and go meanwhile: one that was issued keeps its machine
  id as long as an agent has it (`TokensKept`).

`AccessChange_proofs`, for any hosts, credentials, schedules and tasks, any finite
set of groups, from the assumptions of the module:

- `AccessTyped`: `Spec => [](TypeOK /\ TreeOK(tree, creds))`, also when moves name
  their group. `TypeOK` says that the rows name
  credentials, groups and parents that exist: a change whose plan has become
  impossible is rolled back (`Applies`), a deletion clears what names the row.
  `TreeOK` adds the two levels, from which follow what the walk up the tree finds
  (`InheritedIsNearest`) and what the walk over the empty groups finds
  (`EmptyAutoIs`: a second look finds all that a third one would).
- `AccessStays`: `Spec => AccessAndKeysStay`, with every interleaving. A login that
  works is lost in four ways: a deletion by an administrator, a registration whose
  answer has not reached the PC, a plan that is no longer the one of this PC, a
  prune of groups that have been filled since it read them. Naming groups adds
  none: the plan of such a move takes access away, so that nobody passes who
  has any (`NamedMoveKeeps`).
- `ChangesFollowLogins`: `Spec => ChangesAreVerified` if `~ByName`; its second half,
  `UncheckedStays`, is also `UncheckedIsNothing`.

The invariant is `Sound`: the types, and that whoever has passed was to be checked, with a
credential of an administrator that still logs in (`LoginsHold`); registrations
and uninstallations change what an agent's key opens, not that. The argument about
a change is one lemma, `AppliedAsPlanned`: a plan that is up to date for a host,
applied, gives that host what the plan says, whether the credential of the host,
of its group or the group itself changes, and whatever the plan says of others.
What else touches the tree gives each host what it had:
a group that is new (`GrownTreeGives`), a room that gets its floor and so may
inherit more, but only where it gave nothing (`RoomedTreeGives`), a prune of
groups that are empty when it deletes them (`PruneSpares`). The first exception of
`AccessKept` is what administrators ask for; the others are what the code
does, against its own text where section 7 says so.

`Services_proofs`, of `Printers`, for any addresses and searches and bounds in `Nat`, if no search
has for its token that of a key that is not there (tokens are from `uuid4`):

- `OnlyHoldersAdd`: `Spec => []AddersHoldKey`. Not every search under way has the
  key: one whose message has waited for two hours, or whose round took too long,
  has lost it and another may run. The invariant (`HolderInv`) is that a search
  has it while it is being asked for and from its last round on; time does not
  pass meanwhile, which is the assumption of the module that these steps are
  short against two hours.
- `KeysAreLeft`: `Spec => KeyIsLeft`, which is why `enqueue_discovery` may delete
  the key of a refused message without comparing the token (`SendApart`).
- `PrintersTyped`: `Spec => []PrintersTypeOK`.

and of `Playbooks`, for any sets and bounds in `Nat`:

- `OnlyTheTargetsAreReached`: `Spec => [](PlaybooksTypeOK /\ OnlyTargets)`. The
  empty inventory is the whole fleet, so the point is that a task never has an
  empty list of hosts: the dispatcher leaves such a schedule alone, and what
  becomes of groups, tags and PCs afterwards only shrinks what the worker finds.
- `SchedulesAreMoved`: `Spec => []SchedulesFollow` if there is one editor. The
  invariant adds `MovesHaveFiles`: a save that is going to move schedules has its
  new file in place, and the old name is another one. Nothing is assumed of the names schedules
  are given: a schedule at a file that is not there is about to move, or is `astray`. With
  two editors TLC finds it broken (section 7).

and of `Wallpapers`, for any images, PCs and schedules and bounds in `Nat`:

- `GroupsAreReached`: `Spec => GroupIsReached`, in a tree of any depth. A group that
  is served empties all that is below it (`AppliedCovers`), so whatever is then
  nearest above a PC of it is the group or another target of the same request
  (`AppliedReaches`). `WallpapersTyped` has the types.
- What it assumes of the tree (`WalksUp`) is what the walk along `parent_id`
  finds: the group itself, with each group all that is above that one, and of any
  groups on the way a lowest. For a tree of any depth that is an induction, which
  the prover has not; `TwoLevels` proves it for the groups the server makes
  itself, rooms with a floor or building above them, and TLC evaluates it for a tree of three
  levels.

`Heartbeats_proofs`, of `HostPresence`, for any non-empty set of PCs, any number
of sweeps and requests at once:

- `PresenceTyped`: the types, and `Unassigned`: a run that is being created has not
  assigned its host yet, so a release in between cannot find it.

of `Devices`, for any devices, categories, waits in `Nat` and drives:

- `EntriesHaveLasted`: `Spec => ChangeHeld`. The row does not say how long a
  device has been gone; it says since when it counts. `StreaksHold` says
  that what counts since then has been shown by every snapshot since (`streak`),
  also by those that were of no use for its category.
- `AlertsAreRaisedOnce`: `Spec => AlertOnce`, from `QuietHold`: a drive without an
  alarm in the row has been seen with space, or not at all, since its last one.

and of `Power`, for any PCs, subnets and bounds in `Nat`:

- `TheLogIsTrue`: `Spec => [](PowerTypeOK /\ LogIsTrue)`. The log alone does not
  carry it. `PolledInVain` says that a PC that has had its turn in a round and is
  still pending was not open then, so that it was not open all the time when the
  rounds are over; `Followed` that whoever is on or has sent a heartbeat since the packets counts
  as on; `NothingYet` that before the wait nobody has been told of; `Ended` that a task
  that went well has no step left.

`AgentUpdate_proofs`, for any PCs, releases and bounds:

- `CanaryGoesAlone`: `Spec => [](OneByOne /\ WithinLimit /\ Results)` if `Parallelism # 0`, which
  is what `max(1, ...)` in `run_for_hosts` sees to. `Results`: the batch begins only
  after a result that is ok. Of a deleted PC that is no answer, so the theorem
  does not say that a PC has answered. `AgentUpdateTyped` has the types.
- `OnlyABlindTrialHarms`: `Spec => []CanaryProtects`, for any fleet, syncs, releases
  taken back, lost sessions and deletions. A task harms a second PC over SSH only if
  its trial was spoilt: the canary was deleted, the installer was replaced
  after it, or its session was lost while it ran a version that passes for
  the task's. The invariant (`TrialInv`) says what the canary in work tells (`Telling`): a broken
  build it has run shows itself by its exit code, or, where the session was lost,
  by the old version, which `_recheck_version` does not take for an update; and
  a batch that begins unspoilt begins with a build that works (`Tells`).
  That a bad release harms one PC without these exceptions, as
  `host_parallel.py:69` has it, is broken (section 7).
- `UpdatesLeadForward`: `Spec => UpdatesAdvance` if there is at most one syncer and
  `MaxReturns = 0`, with crashes and lost sessions. That a result is ok needs no
  assumption (`OkHasTheRelease`). That an agent does not go back needs that the
  installer only advances (`ShareInv`: the sidecar tells nothing newer than the
  installer, and a download nothing older), and that an offer is not older than
  what the agent runs, although it was made from an earlier heartbeat
  (`AgentInv`). With two syncers, or with a release taken back, TLC finds
  `SelfUpdateAdvances` broken.

Each of these modules has one lemma for each action, or for each group of
actions that treat the invariant alike. `KeepsAnAdmin`, `AddersHoldKey`,
`LogIsTrue`, `OkIsComplete` and `LinkIsCurrent` (in `CopiesAreWhole`), `OnlyTargets`
and `SchedulesFollow` (in `ScheduleHolds`), `GroupIsReached` (in
`PlansAreCarriedOut`), and `ChangeHeld` and `AlertOnce` (in `NewsIsTrue`) are what the
runs `services` and `hp` check on their instances.

Only model-checked: all liveness (the prover has no fairness), and `HostTags`,
`Software` and `Rollouts`, whose properties that hold are of that kind. `TypeOK` of
`AccessChange`, `KeyIsLeft` of `Printers` and `OneByOne /\ WithinLimit /\ Results` of
`AgentUpdate` are proved and in no run. No module declares a RECURSIVE operator.

## 7. Where code and text differ

Two differences have a run and are listed in `PROJECT.json`:

- `wt_stale_cancel`: a cancel that has read the row before a result was
  recorded writes the old `host_states` back; the host is shown as running for
  good (`services/waiting_tasks.py:421`).
- `ob_password`: a password saved while the first run creates the repository is
  stored over the one the repository was made with; the form then refuses to
  change it back (`services/offsite_backup.py:398`).

More were met while modelling. The properties they break are defined in the
modules and are in no run; each can be reproduced by checking the property in the
instance named (that of its part in `hp` and `services`), with the change:

| Property | Instance | Change | What happens |
|---|---|---|---|
| `CancelledIsNotRun` | `wt_stale_cancel` | - | a host shown as cancelled is run: its execution was claimed after the cancel had read (`waiting_tasks.py:429`) |
| `PendingAdvances` | `wt_live` | 1 host, 3 playbooks and steps, 1 batch, 1 worker, `MaxCancels = 1` | a follower cancelled between the read and the UPDATE of `start_followers` ends the chain: what comes after stays pending (`:404`) |
| `EveryHostSettles` | `wt_live` | `MaxChildCancels = 1` | an execution cancelled on its own leaves its hosts pending in the run (`:435`) |
| `OneWaitingAssignment` | `wt_stale_cancel` | 1 host, `MaxSequences = 2`, `MaxCancels = 0` | two assignments of one playbook at once do not see each other's rows: the host waits in both runs and is executed for both (`:161`; `:15-16`: a later assignment replaces an earlier one) |
| `LastAssignmentOnly` | `wt_stale_cancel` | the same | a host that is ready is not superseded: both assignments are carried out (`:175`, against `:15-16`) |
| `ReadyIsScheduled` | `wt_stale_cancel` | `MaxCancels = 0`, `MaxFaults = 1` | a lost flush leaves ready hosts that nothing schedules or expires (`:292`) |
| `ReleaseNeedsAccess` | `hp` | `MaxMail = 2` | a heartbeat has looked at the row and decided to release; before it commits, another request stores that SSH is closed, and the tasks go there all the same (`routers/agent.py:461`) |
| `UpdatesHoldTasks` | `hp` | - | the sweep over SSH releases the tasks of every PC that answers, also of one that has reported that Windows installs updates (`services/host_health.py:54`, against `power_state.py:9`) |
| `ReportingPcStays` | `hr_records` | - | two PCs of one name register at once and both take the record entered for it; the one that commits first is refused from then on (`routers/agent.py:247`) |
| `OneIsHarmed` | `au` | - | a deleted PC counts as a canary that is ok, and a release that arrives after the canary goes to the batch untried: a broken one harms two (`host_parallel.py:75`, `agent_update.py:376`, against `host_parallel.py:69`) |
| `TargetDropsWhenReached` | `au` | - | a heartbeat that has read a target it reached drops, at its commit, a newer one that a task has set meanwhile (`agent_version.py:120`, against `:117`) |
| `SidecarIsInstaller` | `au` | two syncers | two syncs leave the newer version beside the older installer (`agent_installer_sync.py:62`) |
| `SidecarIsInstaller` | `au` | `MaxReturns = 1` | a sync cut off after it has replaced the installer, and a release that is taken back: the sidecar names the latest release, the installer is the other, and nothing fetches again (`:62`) |
| `InstallerAdvances` | `au` | `MaxReturns = 1` | a release taken back is replaced by the older one (`:62`, against `:44`) |
| `VerifiedKeepsAccess` | `ac` | - | a change is applied with the plan made before its logins: a PC that was told to use its group's credential, and logged in with it, has none when the group's is taken away meanwhile (`access_change.py:290`, against `:5`) |
| `PruneTakesNothing` | `ac` | - | a group that is filled, or given a credential, between the read and the delete of a prune goes with it (`host_grouping.py:194`, against `:176-177`) |
| `UncheckedStays` | `ac` | `ByName = TRUE` | a move that names an existing group is planned as one to a new group, which has no credential: a PC without access gets that of the group at once, without a login (`access_change.py:91`, against `:13`) |
| `AgentKeyStays` without `AppliesStale` | `ac` | - | an agent that registers during the logins has its key replaced (`access_change.py:167`, against `credential_rules.py:6`) |
| `AccessKept` without registrations | `ac` | - | a registration replaces the credential a PC inherits from its group when it commits; if the answer is lost the server cannot log in until the agent registers again (`routers/agent.py:302`) |
| `ManualTagStays` | `hp` | - | a tag set by hand between the reading and the commit of a heartbeat or of a rule is overwritten and stays marked as set by hand (`routers/host_tags.py:174`) |
| `SchedulesFollow` | `services` | two editors and edits | two renames or saves at once leave a schedule at a file that is gone (`routers/playbooks.py:250`) |
| `SchedulesFollow` without `astray` | `services` | - | the server takes any name for a schedule (`routers/playbooks.py:333`): a form opened before a rename saves the old one; a schedule made between the check and the unlink of a deletion; a rename whose commit fails, as a schedule was deleted, after the files have moved (`:254`) |
| `CancelledIsNotApplied` | `services` | - | a cancellation that has read a schedule writes over its outcome, and the beat applies one cancelled since it read it (`routers/wallpapers.py:174`, `services/wallpapers.py:255`) |
| `FileIsThere` | `services` | - | an image assigned while it is deleted keeps its row and has lost its file (`wallpapers.py`, against `models/wallpaper.py:17`) |
| `HumanDecides` | `services` | - | a look overwrites a blocker or a cancellation set meanwhile (`routers/rollouts.py:122`) |
| `VersionsSettle` | `hp` | - | two reports that cross add a program twice; one of the rows keeps its old version (`software_sync.py:9`) |

Smaller ones, seen while reading the same code, without a property: moving the
storage away and back allows another password, `initialized` may be set for a
place without a repository, and two checks share one temporary database
(`offsite_backup.py`); the move of schedules compares with the path as the form sent it, not as it was checked
(`routers/playbooks.py:254`); PCs that SSH does not reach get the target of a task before
its canary has failed (`agent_update.py:365`); `.again` may be left after the last look for it
(`distribution.py:229`), and concurrent uploads share one `.part` file
(`installers.py:86`); two rules for one model, and "manual without tag" after the
assigned tag was deleted meanwhile (`routers/host_tags.py`); a schedule deleted after
another's commit in the same minute ends the dispatcher's task
(`ansible_runner.py`); a snapshot that lacks its components is not retaken after an
update of the agent (`workplace_devices.py:286`), and a disk missing from one
report alerts again; a poll may save the old address's data over an edit, and a
search that waited long in the queue scans beside another
(`printer_monitor.py`, `printer_discovery.py`); one deleted PC fails a whole wake
(`wake_on_lan.py`).

Deleting a credential or a manual group takes the access of the hosts that use
it, and no login is checked (`routers/credentials.py:84`, `routers/hosts.py:274`);
`AccessKept` excepts such steps.

## 8. What is not modelled

- The verdict of `run_playbook_task` over Ansible's recap, the texts of tasks,
  logs, notifications: outcomes are free choices.
- Row locks as such, but for those of `Accounts`. A transaction that locks its
  rows is one step; two that lock in different orders may make PostgreSQL abort
  one, which is a step that does nothing, or a fault.
- Clocks. Countdown, `FRESH_FOR`, the expiry's cutoff and the beat are
  nondeterministic, which allows more than the code does. Whether a schedule is
  due in the minute before the beat is not modelled.
- In `AccessChange` hosts are neither created nor deleted; the building and the
  floor are one level, groups an administrator puts below other groups than the floor
  of their name, or deeper, are not there, and groups are found by a unique name. Who a playbook is run
  as (`run_as.py`) and the contents of credentials are left out.
- In `AgentUpdate` builds are identified with their versions, and an agent that
  a broken build has hit stays as it is until it is installed again over SSH. A
  deleted PC does not come back, an agent has one heartbeat on its way at a time, and the
  canary may be any PC of the task (the code takes them in the order of its list).
  Building an installer (`installer_builder.py`) is left out.
- In `HostRegistry` names and addresses of PCs do not change, a heartbeat up to
  its commit is one step, and so is an uninstallation. Of a merge it has the
  values, the agent and the history, not the credential that becomes unused and
  not the references in tasks: `_rewrite_json` reads and writes `host_states`
  without a lock (`host_dedup.py:124`), so a result stored in between is lost.
- `Playbooks` has local files only; repositories in git are fetched into
  directories of their own. The owner's rights are left out.
- `Rollouts` follows one request. Its list of programs keeps its length, and
  creating and deleting requests are left out.
- `Wallpapers` has one beat at a time: two workers that apply
  the same schedule at once are left out.
- `Accounts` leaves out the viewer and monitoring roles, `is_active` (which
  nothing changes), TOTP, the rate limits, conflicts of names and addresses, and
  a directory that does not answer, which leaves the account as it is.
- `Power` follows PCs only while its task is there. A killed worker, and a
  database error in `run_host_wake` (whose handler does not roll back, so that the
  task stays running), are not modelled; nor is the choice of the adapter.
- `Software` has no history: the rows of `software_history` and the agent
  version a scan shows decide nothing.
- `Devices` leaves out the comparison of boards, BIOS and summary fields
  (`hardware_change.py`), a pure function of two reports.
- The dashboard, schemas, migrations, frontend and deployment keep no state of
  their own to model.

## 9. Plan

Built: the core (`WaitingTasks`), what feeds it (`HostPresence`, `Playbooks`),
what runs on it (`AgentUpdate`, `AccessChange`, `Power`), the records
(`HostRegistry`), and one module for each service beside it.

To build next, most important first:

1. `Merging`: the merge of `HostRegistry` over the runs of `WaitingTasks`, whose `host_ids`
   and `host_states` it rewrites without `FOR UPDATE`. One run, two records of one
   PC. Property: a merge loses no result of a run.
2. When a schedule is due (`ansible_runner.py:306-360`): a drifting beat; each minute once.
3. The hardware comparison as an operator with a reference definition.

Theorems: that a merge loses no result, once `Merging` is there. What the runs check
and no theorem states is liveness.
