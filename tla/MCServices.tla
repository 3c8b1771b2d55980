----------------------------- MODULE MCServices -----------------------------
(***************************************************************************)
(* Instances of the services that share nothing but the database server:   *)
(* offsite backup, the distribution mirror, wallpapers, accounts, playbooks*)
(* and schedules, printers and rollout requests.  None reads what another  *)
(* writes, so their interleavings add nothing: a behaviour follows one of  *)
(* them, its focus, and leaves the others as they start.  One run explores *)
(* every one of them with all its own interleavings.                       *)
(***************************************************************************)
EXTENDS Naturals, FiniteSets

CONSTANT Parts  \* the services of this run

VARIABLES
    focus,
    storage, form, serverKey, repo, copies, runs, scratch, remaining,
    share, newest, mirror, manifest, sync, again, flagging, asked, budget,
    catalog, files, assigned, home, plans, looks, deleting, shown, allowance,
    accounts, directory, requests, checks, signedIn, credit,
    playbooks, schedules, pcs, members, edits, tasks, astray, bounds,
    printer, poll, pollKey, key, searches, status, found, spare,
    request, items, links, rows, states, views, patches

Backup == INSTANCE OffsiteBackup WITH
    Place <- {"p1"}, Password <- {"a"}, Run <- {"r1", "r2"},
    MaxSaves <- 1, MaxFailures <- 1, MaxRekeys <- 1

Mirror == INSTANCE Distribution WITH File <- {"f1"}, MaxEdits <- 2, MaxFailures <- 1

FloorOf == [r \in {"floor", "faculty"} |-> IF r = "floor" THEN "faculty" ELSE "none"]
Walls == INSTANCE Wallpapers WITH
    Image <- {"i1", "i2"}, PC <- {"c1"}, Room <- {"floor", "faculty"}, Parent <- FloorOf,
    Plan <- {"q1"}, MaxChanges <- 1, MaxUploads <- 2

Users == INSTANCE Accounts WITH
    Person <- {"l1", "d1"}, Domain <- {"d1"}, Request <- {"r1", "r2"},
    MaxRequests <- 2, MaxChanges <- 1

Plays == INSTANCE Playbooks WITH
    Name <- {"a", "b"}, Schedule <- {"s1"}, PC <- {"c1", "c2"}, Target <- {"g1"},
    Editor <- {"e1"}, MaxEdits <- 1, MaxChanges <- 1

Printing == INSTANCE Printers WITH
    Address <- {"x", "y"}, Search <- {"s1", "s2"}, MaxRounds <- 2, MaxEdits <- 1, MaxFailures <- 1

Links == {[runs |-> {"r1", "r2"}, rooms |-> {}], [runs |-> {"r1", "r2"}, rooms |-> {"c1"}]}
Rolling == INSTANCE Rollouts WITH
    Item <- {"i1", "i2"}, PC <- {"c1"}, Run <- {"r1", "r2"}, Link <- Links,
    Viewer <- {"v1", "v2"}, MaxPatches <- 1

backupVars  == <<storage, form, serverKey, repo, copies, runs, scratch, remaining>>
mirrorVars  == <<share, newest, mirror, manifest, sync, again, flagging, asked, budget>>
wallVars    == <<catalog, files, assigned, home, plans, looks, deleting, shown, allowance>>
userVars    == <<accounts, directory, requests, checks, signedIn, credit>>
playVars    == <<playbooks, schedules, pcs, members, edits, tasks, astray, bounds>>
printVars   == <<printer, poll, pollKey, key, searches, status, found, spare>>
rollVars    == <<request, items, links, rows, states, views, patches>>
AllVars == <<focus, backupVars, mirrorVars, wallVars, userVars,
             playVars, printVars, rollVars>>

-----------------------------------------------------------------------------
(* One part starts as it may, the others in one state of theirs.           *)

Still(part) == IF focus = part THEN TRUE ELSE
    CASE part = "walls" -> \A c \in DOMAIN home : home[c] = "floor"
      [] part = "users" -> \A u \in DOMAIN directory : directory[u] = "none"
      [] part = "plays" -> playbooks = {} /\ \A t \in DOMAIN members : members[t] = {}
      [] part = "printers" -> printer.address = "none"
      [] part = "rollouts" -> /\ \A i \in DOMAIN links : links[i].rooms = {}
                              /\ \A r \in DOMAIN states : states[r]["c1"] = "absent"

MCInit ==
    /\ focus \in Parts
    /\ Backup!Init /\ Mirror!Init
    /\ Walls!Init /\ Still("walls")
    /\ Users!Init /\ Still("users")
    /\ Plays!Init /\ Still("plays")
    /\ Printing!Init /\ Still("printers")
    /\ Rolling!Init /\ Still("rollouts")

\* Everything but the focus stays as it is.
OthersStay ==
    /\ UNCHANGED focus
    /\ IF focus = "backup" THEN TRUE ELSE UNCHANGED backupVars
    /\ IF focus = "mirror" THEN TRUE ELSE UNCHANGED mirrorVars
    /\ IF focus = "walls" THEN TRUE ELSE UNCHANGED wallVars
    /\ IF focus = "users" THEN TRUE ELSE UNCHANGED userVars
    /\ IF focus = "plays" THEN TRUE ELSE UNCHANGED playVars
    /\ IF focus = "printers" THEN TRUE ELSE UNCHANGED printVars
    /\ IF focus = "rollouts" THEN TRUE ELSE UNCHANGED rollVars

MCNext ==
    \/ focus = "backup"   /\ Backup!Next   /\ OthersStay
    \/ focus = "mirror"   /\ Mirror!Next   /\ OthersStay
    \/ focus = "walls"    /\ Walls!Next    /\ OthersStay
    \/ focus = "users"    /\ Users!Next    /\ OthersStay
    \/ focus = "plays"    /\ Plays!Next    /\ OthersStay
    \/ focus = "printers" /\ Printing!Next /\ OthersStay
    \/ focus = "rollouts" /\ Rolling!Next  /\ OthersStay

\* The fairness of every part, which binds the part in focus.
MCFairness ==
    /\ WF_mirrorVars(focus = "mirror" /\ Mirror!Beat)
    /\ WF_mirrorVars(focus = "mirror" /\ Mirror!Take)
    /\ WF_mirrorVars(focus = "mirror" /\ Mirror!Flag)
    /\ WF_mirrorVars(focus = "mirror" /\ Mirror!Work)
    /\ WF_wallVars(focus = "walls" /\ Walls!ReadDue("q1"))
    /\ WF_wallVars(focus = "walls" /\ Walls!ApplyDue("q1"))
    /\ WF_wallVars(focus = "walls" /\ Walls!Cancel("q1"))
    /\ WF_wallVars(focus = "walls" /\ Walls!Heartbeat("c1"))
    /\ \A i \in {"i1", "i2"} : WF_wallVars(focus = "walls" /\ Walls!DeleteCommit(i))
    /\ SF_backupVars(focus = "backup" /\ Backup!Beat("db"))
    /\ WF_backupVars(focus = "backup" /\ Backup!SaveCommit)
    /\ \A r \in {"r1", "r2"} : /\ WF_backupVars(focus = "backup" /\ Backup!Work(r))
                               /\ WF_backupVars(focus = "backup" /\ Backup!Ages(r))
    /\ \A r \in {"r1", "r2"} : WF_userVars(focus = "users" /\ Users!Step(r))
    /\ \A u \in {"l1", "d1"} : /\ WF_userVars(focus = "users" /\ Users!AskDirectory(u))
                               /\ WF_userVars(focus = "users" /\ Users!Sync(u))
    /\ WF_printVars(focus = "printers" /\ Printing!PollBegin)
    /\ WF_printVars(focus = "printers" /\ Printing!PollCheck)
    /\ WF_printVars(focus = "printers" /\ Printing!PollSave(TRUE))
    /\ WF_printVars(focus = "printers" /\ Printing!PollKeyExpires)
    /\ \A s \in {"s1", "s2"} : WF_printVars(focus = "printers" /\ Printing!Works(s))
    /\ WF_printVars(focus = "printers" /\ Printing!Hour)
    /\ \A v \in {"v1", "v2"} : /\ WF_rollVars(focus = "rollouts" /\ Rolling!Look(v))
                               /\ WF_rollVars(focus = "rollouts" /\ Rolling!Save(v))

MCSpec == MCInit /\ [][MCNext]_AllVars /\ MCFairness

-----------------------------------------------------------------------------
(* Properties: each is that of the part.                                   *)

\* Every variable of the part in focus keeps its type.
ServicesTypeOK ==
    CASE focus = "backup"   -> Backup!BackupTypeOK
      [] focus = "mirror"   -> Mirror!DistTypeOK
      [] focus = "walls"    -> Walls!WallpapersTypeOK
      [] focus = "users"    -> Users!AccountsTypeOK
      [] focus = "plays"    -> Plays!PlaybooksTypeOK
      [] focus = "printers" -> Printing!PrintersTypeOK
      [] focus = "rollouts" -> Rolling!RolloutsTypeOK

\* What is called a copy is one: a backup the journal calls good has the dump
\* and the .env (backup_db), a link leads to the very file the playbook copies
\* today (distribution.py).
CopiesAreWhole == Backup!OkIsComplete /\ Mirror!LinkIsCurrent

\* Complete copies keep arriving at a storage that can be opened (run_backup),
\* and files that stay get to the mirror and get their link, whatever request
\* was lost (distribution.py).
CopiesArrive == Backup!CopiesArrive /\ Mirror!MirrorCatchesUp

\* A planned wallpaper is decided on (apply_due_schedules) and reaches every
\* PC of the group (apply_assignment).
PlansAreCarriedOut == Walls!GroupIsReached /\ Walls!DueIsDecided

\* No two requests together take the last administrator (routers/users.py).
KeepsAnAdmin == Users!KeepsAnAdmin

\* Whoever leaves the domain's groups loses the session (routers/auth.py), and
\* a role set by hand prevails in the end (services/ldap_users.py).
DirectoryIsFollowed == Users!LeaversAreOut /\ Users!ManualRoleWins

\* A scheduled playbook works on its targets only (ansible_runner.py), and a
\* rename takes the schedules along (routers/playbooks.py).
ScheduleHolds == Plays!OnlyTargets /\ Plays!SchedulesFollow

\* Only the search that holds the key adds printers and closes
\* (discover_printers).
AddersHoldKey == Printing!AddersHoldKey

\* No search is shown as under way for good (discover_printers), and an edited
\* printer shows its own data in the end (poll_printers).
PrintersRecover == Printing!RegistrySettles

\* Derived statuses of a request settle (auto_status).
StatusSettles == Rolling!StatusSettles
=============================================================================
