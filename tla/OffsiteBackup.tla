---------------------------- MODULE OffsiteBackup ----------------------------
(***************************************************************************)
(* Copies outside the VM: the settings row an administrator edits          *)
(* (routers/backup.py) and the restic runs of the worker                   *)
(* (services/offsite_backup.py).  A run reads the settings once, works for *)
(* hours on the storage it has read, and writes the settings row and its   *)
(* journal row without a lock.  Saving reads the row, scans the SSH key of *)
(* the server and writes afterwards; SQLAlchemy writes the columns whose   *)
(* value differs from what that session has read (OrmWrite).               *)
(*                                                                         *)
(* A place is a server and a path.  Any call of restic may fail (network,  *)
(* lock of another restic, missing .env), and the worker may die.          *)
(***************************************************************************)
EXTENDS Naturals, FiniteSets

CONSTANTS
    Place,       \* storages an administrator may enter
    Password,    \* encryption passwords
    Run,         \* rows of backup_runs that are of interest at once
    MaxSaves,    \* bound: settings saved
    MaxFailures, \* bound: failed calls and dead workers
    MaxRekeys    \* bound: changes of a server's SSH key

VARIABLES
    storage,   \* the row of backup_settings
    form,      \* the save_settings request in progress
    serverKey, \* place -> the SSH key of the server
    repo,      \* place -> password of the restic repository there, or "none"
    copies,    \* snapshots: [place, tag, run]
    runs,      \* run -> its row and its task
    scratch,   \* the temporary database of a check: the run whose dump it holds
    remaining  \* what is left of the bounds

vars == <<storage, form, serverKey, repo, copies, runs, scratch, remaining>>

Kinds == {"db", "share", "check"}
Tags  == {"db", "config", "share"}
Keys  == 0..MaxRekeys
NoKey == MaxRekeys + 1

\* BackupSettings.
Settings == [enabled : BOOLEAN, place : Place \cup {"none"},
             password : Password \cup {"none"}, hostKey : Keys \cup {NoKey},
             initialized : BOOLEAN]
NoSettings == [enabled |-> FALSE, place |-> "none", password |-> "none",
               hostKey |-> NoKey, initialized |-> FALSE]

\* BackupRun and what run_backup holds in memory: the target and the value
\* of initialized it has read.
Stages == {"queued", "connect", "copy", "config", "create", "load", "count", "idle"}
RunRow == [kind : Kinds, row : {"none", "open", "ok", "failed"}, recent : BOOLEAN,
           stage : Stages, target : Settings]
NoRun  == [kind |-> "db", row |-> "none", recent |-> FALSE, stage |-> "idle",
           target |-> NoSettings]

NoForm == [open |-> FALSE, read |-> NoSettings, new |-> NoSettings, rekey |-> FALSE]

BackupTypeOK ==
    /\ storage \in Settings
    /\ form \in [open : BOOLEAN, read : Settings, new : Settings, rekey : BOOLEAN]
    /\ serverKey \in [Place -> Keys]
    /\ repo \in [Place -> Password \cup {"none"}]
    /\ copies \subseteq [place : Place, tag : Tags, run : Run]
    /\ runs \in [Run -> RunRow]
    /\ scratch \in Run \cup {"none", "empty"}
    /\ remaining \in [saves : 0..MaxSaves, failures : 0..MaxFailures, rekeys : 0..MaxRekeys]

Init ==
    /\ storage = NoSettings
    /\ form = NoForm
    /\ serverKey = [p \in Place |-> 0]
    /\ repo = [p \in Place |-> "none"]
    /\ copies = {}
    /\ runs = [r \in Run |-> NoRun]
    /\ scratch = "none"
    /\ remaining = [saves |-> MaxSaves, failures |-> MaxFailures, rekeys |-> MaxRekeys]

Spend(kind) ==
    /\ remaining[kind] > 0
    /\ remaining' = [remaining EXCEPT ![kind] = @ - 1]

-----------------------------------------------------------------------------
(* The settings.                                                           *)

Complete(s) == s.place # "none" /\ s.password # "none"

\* _draft: an empty password keeps the saved one, the pinned key of the
\* server is kept while the address stays.
Draft(enabled, place, password) ==
    [enabled     |-> enabled,
     place       |-> place,
     password    |-> IF password = "keep" THEN storage.password ELSE password,
     hostKey     |-> IF place = storage.place THEN storage.hostKey ELSE NoKey,
     initialized |-> storage.initialized /\ place = storage.place]

\* The password may change only while no repository is known to exist.
PasswordAllowed(password) ==
    password # "keep" =>
        (storage.initialized => password = storage.password)

\* save_settings up to ssh-keyscan.
SaveBegin ==
    /\ ~form.open
    /\ Spend("saves")
    /\ \E enabled \in BOOLEAN, place \in Place, password \in Password \cup {"keep"} :
          LET new == Draft(enabled, place, password) IN
          /\ enabled => Complete(new)
          /\ PasswordAllowed(password)
          /\ form' = [open |-> TRUE, read |-> storage,
                      new |-> [new EXCEPT !.hostKey = IF @ = NoKey THEN serverKey[place] ELSE @],
                      rekey |-> password # "keep"]
    /\ UNCHANGED <<storage, serverKey, repo, copies, runs, scratch>>

OrmWrite(old, new, current) == IF new # old THEN new ELSE current

\* ... and its commit.  A password is encrypted anew, so it always differs.
SaveCommit ==
    /\ form.open
    /\ storage' = [enabled     |-> OrmWrite(form.read.enabled, form.new.enabled, storage.enabled),
                   place       |-> OrmWrite(form.read.place, form.new.place, storage.place),
                   password    |-> IF form.rekey THEN form.new.password ELSE storage.password,
                   hostKey     |-> OrmWrite(form.read.hostKey, form.new.hostKey, storage.hostKey),
                   initialized |-> OrmWrite(form.read.initialized, form.new.initialized,
                                            storage.initialized)]
    /\ form' = NoForm
    /\ UNCHANGED <<serverKey, repo, copies, runs, scratch, remaining>>

\* The server of a storage gets a new SSH key.
Rekey(p) ==
    /\ Spend("rekeys")
    /\ serverKey' = [serverKey EXCEPT ![p] = @ + 1]
    /\ UNCHANGED <<storage, form, repo, copies, runs, scratch>>

-----------------------------------------------------------------------------
(* Runs.                                                                   *)

\* Bound: only Run rows are followed, and the row of a finished run or of
\* one older than 13 hours whose task is gone is taken for the next one.
Free(r) == runs[r].stage = "idle" /\ (runs[r].row # "open" \/ ~runs[r].recent)

Journal(r, kind) ==
    runs' = [runs EXCEPT ![r] = [kind |-> kind, row |-> "open", recent |-> TRUE,
                                 stage |-> "queued", target |-> NoSettings]]

\* What the journal no longer shows, retention has long forgotten.
Forgotten(r) == {c \in copies : c.run # r}

\* Mutant: beat waits for a run of the kind that is unfinished, as run_now
\* does, but without its limit of thirteen hours.
PlannedAlone(r, kind) ==
    /\ Free(r)
    /\ storage.enabled
    /\ \A q \in Run : runs[q].kind # kind \/ runs[q].row # "open"
    /\ Journal(r, kind)
    /\ copies' = Forgotten(r)
    /\ UNCHANGED <<storage, form, serverKey, repo, scratch, remaining>>

\* beat starts run_backup without a row: only if copying is on.
Planned(r, kind) ==
    /\ Free(r)
    /\ storage.enabled
    /\ Journal(r, kind)
    /\ copies' = Forgotten(r)
    /\ UNCHANGED <<storage, form, serverKey, repo, scratch, remaining>>

\* run_now: not while a recent run of that kind is unfinished.
Running(kind) == \E r \in Run : runs[r].kind = kind /\ runs[r].row = "open" /\ runs[r].recent

RunNow(r, kind) ==
    /\ Free(r)
    /\ Complete(storage)
    /\ ~Running(kind)
    /\ Journal(r, kind)
    /\ copies' = Forgotten(r)
    /\ UNCHANGED <<storage, form, serverKey, repo, scratch, remaining>>

\* Thirteen hours pass.
Ages(r) ==
    /\ runs[r].row = "open" /\ runs[r].recent
    /\ runs' = [runs EXCEPT ![r].recent = FALSE]
    /\ UNCHANGED <<storage, form, serverKey, repo, copies, scratch, remaining>>

Ended(r, result) == [runs[r] EXCEPT !.row = result, !.stage = "idle", !.target = NoSettings]
Goes(r, stage)   == [runs[r] EXCEPT !.stage = stage]

\* target_from_row.
Start(r) ==
    /\ runs[r].stage = "queued"
    /\ runs' = [runs EXCEPT ![r] = IF Complete(storage)
                                   THEN [@ EXCEPT !.stage = "connect", !.target = storage]
                                   ELSE Ended(r, "failed")]
    /\ UNCHANGED <<storage, form, serverKey, repo, copies, scratch, remaining>>

\* The repository opens: pinned key and password are right.
Opens(r) ==
    LET t == runs[r].target IN
    /\ t.hostKey = serverKey[t.place]
    /\ repo[t.place] \in {t.password, "none"}

First(kind) == IF kind = "check" THEN "create" ELSE "copy"

\* ensure_repository and the flag: the repository is created if there is
\* none; initialized is written unless it was read as set.
Connect(r) ==
    /\ runs[r].stage = "connect"
    /\ IF Opens(r)
       THEN /\ repo' = [repo EXCEPT ![runs[r].target.place] = runs[r].target.password]
            /\ storage' = [storage EXCEPT !.initialized = @ \/ ~runs[r].target.initialized]
            /\ runs' = [runs EXCEPT ![r] = Goes(r, First(@.kind))]
       ELSE /\ runs' = [runs EXCEPT ![r] = Ended(r, "failed")]
            /\ UNCHANGED <<repo, storage>>
    /\ UNCHANGED <<form, serverKey, copies, scratch, remaining>>

Copied(r, tag) == copies' = copies \cup {[place |-> runs[r].target.place, tag |-> tag, run |-> r]}

\* backup_db: the dump, ...
CopyDb(r) ==
    /\ runs[r].stage = "copy" /\ runs[r].kind = "db"
    /\ Opens(r)
    /\ Copied(r, "db")
    /\ runs' = [runs EXCEPT ![r] = Goes(r, "config")]
    /\ UNCHANGED <<storage, form, serverKey, repo, scratch, remaining>>

\* ... then .env, the certificates and the playbooks.
CopyConfig(r) ==
    /\ runs[r].stage = "config"
    /\ Opens(r)
    /\ Copied(r, "config")
    /\ runs' = [runs EXCEPT ![r] = Ended(r, "ok")]
    /\ UNCHANGED <<storage, form, serverKey, repo, scratch, remaining>>

\* backup_share.
CopyShare(r) ==
    /\ runs[r].stage = "copy" /\ runs[r].kind = "share"
    /\ Opens(r)
    /\ Copied(r, "share")
    /\ runs' = [runs EXCEPT ![r] = Ended(r, "ok")]
    /\ UNCHANGED <<storage, form, serverKey, repo, scratch, remaining>>

Holds(place, tag) == \E c \in copies : c.place = place /\ c.tag = tag

\* A session of another check may be connected to the temporary database:
\* then DROP DATABASE fails.
InUse(r) == \E q \in Run \ {r} : runs[q].stage = "load"

\* restore_check: the newest dump and .env, an empty temporary database, ...
CheckCreate(r) ==
    /\ runs[r].stage = "create"
    /\ Opens(r)
    /\ Holds(runs[r].target.place, "db") /\ Holds(runs[r].target.place, "config")
    /\ scratch' = "empty"
    /\ runs' = [runs EXCEPT ![r] = Goes(r, "load")]
    /\ UNCHANGED <<storage, form, serverKey, repo, copies, remaining>>

\* ... the dump loaded into it (a database that holds another dump already,
\* or none at all, makes psql stop), ...
CheckLoad(r) ==
    /\ runs[r].stage = "load"
    /\ Opens(r)
    /\ scratch = "empty"
    /\ scratch' = r
    /\ runs' = [runs EXCEPT ![r] = Goes(r, "count")]
    /\ UNCHANGED <<storage, form, serverKey, repo, copies, remaining>>

\* ... hosts counted and a secret decrypted, the database dropped, pruned.
\* Another check may have put its own database, not yet filled, in place.
CheckCount(r) ==
    /\ runs[r].stage = "count"
    /\ scratch # "none"
    /\ scratch' = "none"
    /\ runs' = [runs EXCEPT ![r] = Ended(r, "ok")]
    /\ UNCHANGED <<storage, form, serverKey, repo, copies, remaining>>

\* Mutant: what fails after the dump is taken for done.
FailsSoftly(r) ==
    /\ runs[r].stage \notin {"idle", "queued"}
    /\ Spend("failures")
    /\ runs' = [runs EXCEPT ![r] = Ended(r, IF @.stage = "config" THEN "ok" ELSE "failed")]
    /\ scratch' = IF runs[r].stage \in {"load", "count"} THEN "none" ELSE scratch
    /\ UNCHANGED <<storage, form, serverKey, repo, copies>>

\* Any failure of a call ends in the journal; a check that has created the
\* temporary database drops it.
Fails(r) ==
    /\ runs[r].stage \notin {"idle", "queued"}
    /\ Spend("failures")
    /\ runs' = [runs EXCEPT ![r] = Ended(r, "failed")]
    /\ scratch' = IF runs[r].stage \in {"load", "count"} THEN "none" ELSE scratch
    /\ UNCHANGED <<storage, form, serverKey, repo, copies>>

\* A call that cannot succeed fails.
Refused(r) ==
    /\ \/ runs[r].stage \in {"copy", "config", "create", "load"} /\ ~Opens(r)
       \/ runs[r].stage = "create"
          /\ (InUse(r) \/ ~Holds(runs[r].target.place, "db")
                       \/ ~Holds(runs[r].target.place, "config"))
       \/ runs[r].stage = "load" /\ scratch # "empty"
       \/ runs[r].stage = "count" /\ scratch \in {"none", "empty"}
    /\ runs' = [runs EXCEPT ![r] = Ended(r, "failed")]
    /\ scratch' = IF runs[r].stage \in {"load", "count"} THEN "none" ELSE scratch
    /\ UNCHANGED <<storage, form, serverKey, repo, copies, remaining>>

\* The worker dies (or the message is lost with it): the row stays open.
Dies(r) ==
    /\ runs[r].stage # "idle"
    /\ Spend("failures")
    /\ runs' = [runs EXCEPT ![r].stage = "idle", ![r].target = NoSettings]
    /\ UNCHANGED <<storage, form, serverKey, repo, copies, scratch>>

Work(r) ==
    \/ Start(r) \/ Connect(r)
    \/ CopyDb(r) \/ CopyConfig(r) \/ CopyShare(r)
    \/ CheckCreate(r) \/ CheckLoad(r) \/ CheckCount(r)
    \/ Refused(r)

Beat(kind) == \E r \in Run : Planned(r, kind)

Next ==
    \/ SaveBegin \/ SaveCommit
    \/ \E p \in Place : Rekey(p)
    \/ \E r \in Run, kind \in Kinds : Planned(r, kind) \/ RunNow(r, kind)
    \/ \E r \in Run : Ages(r) \/ Work(r) \/ Fails(r) \/ Dies(r)

Spec == Init /\ [][Next]_vars

\* beat keeps starting the copies of the database, the worker keeps working,
\* and time passes.  SF, as beat never waits for one of the Run rows.
Fairness ==
    /\ SF_vars(Beat("db"))
    /\ \A r \in Run : WF_vars(Work(r)) /\ WF_vars(Ages(r))
    /\ WF_vars(SaveCommit)

-----------------------------------------------------------------------------
(* Properties.                                                             *)

\* A copy of the database that the journal calls good has both halves, the
\* dump and the .env without which its secrets cannot be read, in one place:
\* a failure between the two never looks like success (backup_db).
OkIsComplete ==
    \A r \in Run :
        runs[r].row = "ok" /\ runs[r].kind = "db" =>
            \E p \in Place : \A tag \in {"db", "config"} :
                [place |-> p, tag |-> tag, run |-> r] \in copies

\* If from some time on copying is on and the saved settings open the
\* storage, complete copies keep arriving there, whatever failed before: a
\* run that died with its journal row open holds up nothing.
Usable ==
    /\ storage.enabled
    /\ storage.hostKey = serverKey[storage.place]
    /\ repo[storage.place] \in {storage.password, "none"}

HasCopy ==
    \E r \in Run : \A tag \in {"db", "config"} :
        [place |-> storage.place, tag |-> tag, run |-> r] \in copies

CopiesArrive == <>[]Usable => []<>HasCopy

\* models/backup.py: "the restic repository is created, the encryption
\* password does not change any more".
PasswordStays ==
    [][ storage.initialized /\ storage'.initialized /\ storage'.place = storage.place
            => storage'.password = storage.password ]_vars
=============================================================================
