----------------------------- MODULE Playbooks -----------------------------
(***************************************************************************)
(* Local playbooks and schedules: the editor that writes and renames files *)
(* (routers/playbooks.py, services/local_playbooks.py), schedules that     *)
(* name a file and targets, the dispatcher that turns a schedule into a    *)
(* task (dispatch_scheduled_playbooks), and the task that builds its       *)
(* inventory when a worker takes it (run_playbook_task).                   *)
(*                                                                         *)
(* Targets are groups and tags; which PCs they hold changes elsewhere at   *)
(* any moment, and PCs are deleted.  A playbook is abstracted to its name, *)
(* which is always spelled the same way: what matters is whether the file  *)
(* a schedule names is there.  When a schedule is due is left to the beat. *)
(***************************************************************************)
EXTENDS Naturals

CONSTANTS
    Name,        \* paths of playbooks
    Schedule,    \* rows of playbook_schedules of interest
    PC,
    Target,      \* groups with what lies below them, and tags
    Editor,      \* requests that edit files at once
    MaxEdits,    \* bound: edits and deletions of playbooks
    MaxChanges   \* bound: schedules created or changed

VARIABLES
    playbooks, \* files that exist
    schedules, \* schedule -> its row
    pcs,       \* PCs that have a row
    members,   \* target -> its PCs
    edits,     \* editor -> the save or the deletion in progress
    tasks,     \* schedule -> the last task it has led to
    astray,    \* history: schedules that somebody has left without a file
    bounds     \* what remains of the bounds

vars == <<playbooks, schedules, pcs, members, edits, tasks, astray, bounds>>

NoRow  == [name |-> "none", targets |-> {}, direct |-> {}, enabled |-> FALSE]
Rows   == [name : Name, targets : SUBSET Target, direct : SUBSET PC, enabled : BOOLEAN]
NoTask == [stage |-> "none", name |-> "none", hosts |-> {}, reached |-> {}]
NoEdit == [stage |-> "idle"]

PlaybooksTypeOK ==
    /\ playbooks \subseteq Name
    /\ schedules \in [Schedule -> Rows \cup {NoRow}]
    /\ pcs \subseteq PC
    /\ members \in [Target -> SUBSET PC]
    /\ tasks \in [Schedule -> {NoTask} \cup
          [stage : {"queued", "running", "success", "failed"}, name : Name, hosts : SUBSET PC, reached : SUBSET PC]]
    /\ astray \subseteq Schedule
    /\ bounds \in [edits : 0..MaxEdits, changes : 0..MaxChanges]

Init ==
    /\ playbooks \in SUBSET Name
    /\ schedules = [s \in Schedule |-> NoRow]
    /\ pcs = PC
    /\ members \in [Target -> SUBSET PC]
    /\ edits = [e \in Editor |-> NoEdit]
    /\ tasks = [s \in Schedule |-> NoTask]
    /\ astray = {}
    /\ bounds = [edits |-> MaxEdits, changes |-> MaxChanges]

Spend(kind) ==
    /\ bounds[kind] > 0
    /\ bounds' = [bounds EXCEPT ![kind] = @ - 1]

-----------------------------------------------------------------------------
(* The editor: save_local_playbook and delete_local_playbook.              *)

\* The checks.  The syntax check takes up to its time limit after them.
SaveBegin(e, path, original) ==
    /\ edits[e] = NoEdit
    /\ original # "none" => original \in playbooks
    /\ path \in playbooks => path = original
    /\ Spend("edits")
    /\ edits' = [edits EXCEPT ![e] = [stage |-> "checked", path |-> path, original |-> original]]
    /\ UNCHANGED <<playbooks, schedules, pcs, members, tasks, astray>>

SyntaxError(e) ==
    /\ edits[e].stage = "checked"
    /\ edits' = [edits EXCEPT ![e] = NoEdit]
    /\ UNCHANGED <<playbooks, schedules, pcs, members, tasks, astray, bounds>>

Renames(edit) == edit.original # "none" /\ edit.original # edit.path

\* local_playbooks.write replaces the file at once.
SaveWrite(e) ==
    /\ edits[e].stage = "checked"
    /\ playbooks' = playbooks \cup {edits[e].path}
    /\ edits' = [edits EXCEPT ![e] = IF Renames(@) THEN [@ EXCEPT !.stage = "written"] ELSE NoEdit]
    /\ UNCHANGED <<schedules, pcs, members, tasks, astray, bounds>>

\* A file renamed or deleted meanwhile ends the request with an error.
SaveUnlink(e) ==
    /\ edits[e].stage = "written"
    /\ playbooks' = playbooks \ {edits[e].original}
    /\ edits' = [edits EXCEPT ![e] = IF @.original \in playbooks THEN [@ EXCEPT !.stage = "unlinked"] ELSE NoEdit]
    /\ UNCHANGED <<schedules, pcs, members, tasks, astray, bounds>>

\* Mutant: the schedules that have the new name are taken for the old ones.
SaveSelectNew(e) ==
    /\ edits[e].stage = "unlinked"
    /\ edits' = [edits EXCEPT ![e] =
          [stage |-> "moving", path |-> @.path,
           rows |-> {s \in Schedule : schedules[s].name = @.path}]]
    /\ UNCHANGED <<playbooks, schedules, pcs, members, tasks, astray, bounds>>

\* The schedules that have the old name are read ...
SaveSelect(e) ==
    /\ edits[e].stage = "unlinked"
    /\ edits' = [edits EXCEPT ![e] =
          [stage |-> "moving", path |-> @.path,
           rows |-> {s \in Schedule : schedules[s].name = @.original}]]
    /\ UNCHANGED <<playbooks, schedules, pcs, members, tasks, astray, bounds>>

\* ... and move to the new one at the commit, whatever name they have by then.
\* It may fail, for all of them, when one has been deleted meanwhile.
SaveSchedules(e) ==
    /\ edits[e].stage = "moving"
    /\ LET left == {s \in edits[e].rows : schedules[s] # NoRow}
       IN  \/ /\ schedules' = [s \in Schedule |->
                       IF s \in left THEN [schedules[s] EXCEPT !.name = edits[e].path]
                       ELSE schedules[s]]
             /\ astray' = astray \ left
          \/ /\ left # edits[e].rows
             /\ astray' = astray \cup left
             /\ UNCHANGED schedules
    /\ edits' = [edits EXCEPT ![e] = NoEdit]
    /\ UNCHANGED <<playbooks, pcs, members, tasks, bounds>>

\* A playbook that a schedule runs is not deleted ...
DeleteBegin(e, path) ==
    /\ edits[e] = NoEdit
    /\ path \in playbooks
    /\ \A s \in Schedule : schedules[s].name # path
    /\ Spend("edits")
    /\ edits' = [edits EXCEPT ![e] = [stage |-> "unused", path |-> path]]
    /\ UNCHANGED <<playbooks, schedules, pcs, members, tasks, astray>>

\* ... unless the schedule has been made since.
DeleteUnlink(e) ==
    /\ edits[e].stage = "unused"
    /\ playbooks' = playbooks \ {edits[e].path}
    /\ astray' = astray \cup {s \in Schedule : schedules[s].name = edits[e].path}
    /\ edits' = [edits EXCEPT ![e] = NoEdit]
    /\ UNCHANGED <<schedules, pcs, members, tasks, bounds>>

-----------------------------------------------------------------------------
(* Schedules.  The server takes any name, of a file that is there or not:  *)
(* the list in the form of the web interface is as old as the page.        *)

\* History: who names a file that is not there leaves the schedule without one.
Chosen(s, name) ==
    astray' = IF name \in playbooks THEN astray \ {s} ELSE astray \cup {s}

\* A row that a save is about to write is not the id of a new one.
CreateSchedule(s, name, targets, direct) ==
    /\ schedules[s] = NoRow
    /\ \A e \in Editor : edits[e].stage = "moving" => s \notin edits[e].rows
    /\ targets # {} \/ direct # {}
    /\ Spend("changes")
    /\ schedules' = [schedules EXCEPT ![s] =
                        [name |-> name, targets |-> targets, direct |-> direct, enabled |-> TRUE]]
    /\ Chosen(s, name)
    /\ UNCHANGED <<playbooks, pcs, members, edits, tasks>>

\* update_schedule: another playbook, other targets, or switched off and on.
UpdateSchedule(s, row) ==
    /\ schedules[s] # NoRow /\ schedules[s] # row
    /\ row.targets # {} \/ row.direct # {}
    /\ Spend("changes")
    /\ schedules' = [schedules EXCEPT ![s] = row]
    /\ IF row.name = schedules[s].name THEN UNCHANGED astray ELSE Chosen(s, row.name)
    /\ UNCHANGED <<playbooks, pcs, members, edits, tasks>>

DeleteSchedule(s) ==
    /\ schedules[s] # NoRow
    /\ schedules' = [schedules EXCEPT ![s] = NoRow]
    /\ UNCHANGED <<playbooks, pcs, members, edits, tasks, astray, bounds>>

-----------------------------------------------------------------------------
(* PCs, elsewhere in the system.                                           *)

Join(t, c) ==
    /\ c \in pcs
    /\ members' = [members EXCEPT ![t] = IF c \in @ THEN @ \ {c} ELSE @ \cup {c}]
    /\ UNCHANGED <<playbooks, schedules, pcs, edits, tasks, astray, bounds>>

DeletePC(c) ==
    /\ c \in pcs
    /\ pcs' = pcs \ {c}
    /\ members' = [t \in Target |-> members[t] \ {c}]
    /\ UNCHANGED <<playbooks, schedules, edits, tasks, astray, bounds>>

-----------------------------------------------------------------------------
(* services/ansible_runner.py.                                             *)

\* resolve_target_host_ids: PCs named directly are not looked up.
Targeted(row) == row.direct \cup UNION {members[t] : t \in row.targets}

\* build_full_inventory: no PCs means all of them.
Inventory(hosts) == IF hosts = {} THEN pcs ELSE hosts \cap pcs

\* Mutant: targets that have run empty are not looked at.
DispatchAny(s) ==
    /\ schedules[s].enabled
    /\ tasks[s].stage # "queued" /\ tasks[s].stage # "running"
    /\ tasks' = [tasks EXCEPT ![s] = [stage |-> "queued", name |-> schedules[s].name,
                                      hosts |-> Targeted(schedules[s]), reached |-> {}]]
    /\ UNCHANGED <<playbooks, schedules, pcs, members, edits, astray, bounds>>

\* dispatch_scheduled_playbooks for a schedule that is due.  One that fires
\* while its task is under way makes a second task, which shares nothing with
\* the first and is not followed.
Dispatch(s) ==
    /\ schedules[s].enabled
    /\ tasks[s].stage # "queued" /\ tasks[s].stage # "running"
    /\ Targeted(schedules[s]) # {}
    /\ tasks' = [tasks EXCEPT ![s] = [stage |-> "queued", name |-> schedules[s].name,
                                      hosts |-> Targeted(schedules[s]), reached |-> {}]]
    /\ UNCHANGED <<playbooks, schedules, pcs, members, edits, astray, bounds>>

\* run_playbook_task builds the inventory ...
StartTask(s) ==
    /\ tasks[s].stage = "queued"
    /\ tasks' = [tasks EXCEPT ![s].stage = "running", ![s].reached = Inventory(tasks[s].hosts)]
    /\ UNCHANGED <<playbooks, schedules, pcs, members, edits, astray, bounds>>

\* ... and runs the file of that name; without a file or a PC it fails.
EndTask(s) ==
    /\ tasks[s].stage = "running"
    /\ \E outcome \in {"success", "failed"} :
          /\ outcome = "success" => tasks[s].name \in playbooks /\ tasks[s].reached # {}
          /\ tasks' = [tasks EXCEPT ![s].stage = outcome]
    /\ UNCHANGED <<playbooks, schedules, pcs, members, edits, astray, bounds>>

Next ==
    \/ \E e \in Editor :
          \/ \E path \in Name : DeleteBegin(e, path)
          \/ \E path \in Name, original \in Name \cup {"none"} : SaveBegin(e, path, original)
          \/ SyntaxError(e) \/ SaveWrite(e) \/ SaveUnlink(e)
          \/ SaveSelect(e) \/ SaveSchedules(e) \/ DeleteUnlink(e)
    \/ \E s \in Schedule :
          \/ \E name \in Name, ts \in SUBSET Target, cs \in SUBSET PC : CreateSchedule(s, name, ts, cs)
          \/ \E row \in Rows : UpdateSchedule(s, row)
          \/ DeleteSchedule(s) \/ Dispatch(s) \/ StartTask(s) \/ EndTask(s)
    \/ \E c \in PC : DeletePC(c) \/ \E t \in Target : Join(t, c)

Spec == Init /\ [][Next]_vars

-----------------------------------------------------------------------------
(* Properties.                                                             *)

\* A scheduled playbook works on PCs the schedule aimed at when it was
\* dispatched and on no others, also when its groups and tags have run empty
\* or its PCs have been deleted - an empty inventory is the whole fleet.
OnlyTargets ==
    \A s \in Schedule :
        tasks[s].stage # "none" => tasks[s].hosts # {} /\ tasks[s].reached \subseteq tasks[s].hosts

\* A rename takes the schedules along, also those made, changed or switched
\* off while it is under way.  As long as administrators edit one at a time, a
\* schedule that names no file was given the name of a file that was gone, has
\* lost it to a deletion or to a rename that failed - or is about to move.
SchedulesFollow ==
    \A s \in Schedule :
        schedules[s] # NoRow /\ schedules[s].name \notin playbooks /\ s \notin astray =>
            \E e \in Editor : \/ edits[e].stage = "unlinked" /\ edits[e].original = schedules[s].name
                              \/ edits[e].stage = "moving" /\ s \in edits[e].rows
=============================================================================
