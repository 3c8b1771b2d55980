---------------------------- MODULE Distribution ----------------------------
(***************************************************************************)
(* The distribution mirror: the share of installers, its copy on a server  *)
(* near the PCs, and the manifest by which the backend decides which files *)
(* it may hand out links for (services/distribution.py).  Files are put on *)
(* the share and removed at any moment (routers/installers.py), while a    *)
(* sync that takes hours copies them.                                      *)
(*                                                                         *)
(* A file is abstracted to its version, 0 when it is absent.  A version    *)
(* stands for the size and the mtime, and the content that goes with them; *)
(* an upload is renamed into place, so every version is new.               *)
(***************************************************************************)
EXTENDS Naturals

CONSTANTS
    File,
    MaxEdits,   \* bound: uploads and removals
    MaxFailures \* bound: failed transfers and dead workers


MaxAsked == 2  \* bound: messages of sync_distribution in the queue
Rounds   == 3  \* one task synchronises at most three times

VARIABLES
    share,    \* file -> version on the share
    newest,   \* file -> the newest version it ever had
    mirror,   \* file -> version on the distribution server
    manifest, \* file -> what the manifest says: stat and SHA-256
    sync,     \* the task that holds the lock file
    again,    \* does the .again file exist
    flagging, \* tasks that found the lock taken and have yet to leave .again
    asked,    \* messages in the queue
    budget    \* what remains of the bounds

vars == <<share, newest, mirror, manifest, sync, again, flagging, asked, budget>>

Versions == 0..MaxEdits
Entries  == [stat : Versions, sha : Versions]
Unlisted == [stat |-> 0, sha |-> 0]
Stages   == {"idle", "begin", "transfer", "hash", "check", "report"}

NoSync == [stage |-> "idle", round |-> 0, before |-> [f \in File |-> 0],
           todo |-> {}, after |-> [f \in File |-> 0]]

DistTypeOK ==
    /\ share \in [File -> Versions]
    /\ newest \in [File -> Versions]
    /\ mirror \in [File -> Versions]
    /\ manifest \in [File -> Entries]
    /\ sync \in [stage : Stages, round : 0..Rounds, before : [File -> Versions],
                 todo : SUBSET File, after : [File -> Versions]]
    /\ again \in BOOLEAN
    /\ flagging \in 0..MaxAsked
    /\ asked \in 0..MaxAsked
    /\ budget \in [edits : 0..MaxEdits, failures : 0..MaxFailures]

Init ==
    /\ share = [f \in File |-> 0]
    /\ newest = share
    /\ mirror = share
    /\ manifest = [f \in File |-> Unlisted]
    /\ sync = NoSync
    /\ again = FALSE
    /\ flagging = 0
    /\ asked = 0
    /\ budget = [edits |-> MaxEdits, failures |-> MaxFailures]

-----------------------------------------------------------------------------
(* The share.                                                              *)

\* request_sync and beat: one more message in the queue.
Ask == asked' = IF asked < MaxAsked THEN asked + 1 ELSE asked

\* upload_installer renames the .part file, which is not mirrored.
Upload(f) ==
    /\ budget.edits > 0
    /\ budget' = [budget EXCEPT !.edits = @ - 1]
    /\ newest' = [newest EXCEPT ![f] = @ + 1]
    /\ share' = [share EXCEPT ![f] = newest[f] + 1]
    /\ Ask
    /\ UNCHANGED <<mirror, manifest, sync, again, flagging>>

\* delete_installer.
Remove(f) ==
    /\ share[f] # 0
    /\ share' = [share EXCEPT ![f] = 0]
    /\ Ask
    /\ UNCHANGED <<newest, mirror, manifest, sync, again, flagging, budget>>

-----------------------------------------------------------------------------
(* sync.                                                                   *)

\* beat, every fifteen minutes.
Beat ==
    /\ asked = 0
    /\ asked' = 1
    /\ UNCHANGED <<share, newest, mirror, manifest, sync, again, flagging, budget>>

\* A task takes the lock, or finds it taken.
Take ==
    /\ asked > 0
    /\ asked' = asked - 1
    /\ IF sync.stage = "idle"
       THEN /\ sync' = [sync EXCEPT !.stage = "begin", !.round = 1]
            /\ UNCHANGED flagging
       ELSE /\ flagging < MaxAsked
            /\ flagging' = flagging + 1
            /\ UNCHANGED sync
    /\ UNCHANGED <<share, newest, mirror, manifest, again, budget>>

\* The refused task leaves .again, for the one that runs to repeat.
Flag ==
    /\ flagging > 0
    /\ flagging' = flagging - 1
    /\ again' = TRUE
    /\ UNCHANGED <<share, newest, mirror, manifest, sync, asked, budget>>

\* A round starts: .again is removed, _snapshot walks the share.
Walk ==
    /\ sync.stage = "begin"
    /\ again' = FALSE
    /\ sync' = [sync EXCEPT !.stage = "transfer", !.before = share, !.todo = File]
    /\ UNCHANGED <<share, newest, mirror, manifest, flagging, asked, budget>>

\* Mutant: rsync runs without --delete.
TransferKeeps(f) ==
    /\ sync.stage = "transfer"
    /\ f \in sync.todo
    /\ sync' = [sync EXCEPT !.todo = @ \ {f}]
    /\ mirror' = IF share[f] = 0 THEN mirror ELSE [mirror EXCEPT ![f] = share[f]]
    /\ UNCHANGED <<share, newest, manifest, again, flagging, asked, budget>>

\* rsync copies one file after the other as it finds them; what is gone
\* before it started is deleted, what vanishes under way may remain.
Transfer(f) ==
    /\ sync.stage = "transfer"
    /\ f \in sync.todo
    /\ sync' = [sync EXCEPT !.todo = @ \ {f}]
    /\ \/ mirror' = [mirror EXCEPT ![f] = share[f]]
       \/ /\ share[f] = 0 /\ sync.before[f] # 0
          /\ UNCHANGED mirror
    /\ UNCHANGED <<share, newest, manifest, again, flagging, asked, budget>>

\* rsync has ended well: the share is walked again.
WalkAgain ==
    /\ sync.stage = "transfer"
    /\ sync.todo = {}
    /\ sync' = [sync EXCEPT !.stage = "hash", !.after = share]
    /\ UNCHANGED <<share, newest, mirror, manifest, again, flagging, asked, budget>>

\* Mutant: every file found by the second walk is listed.
Found(f) == sync.after[f] # 0

\* Which files are listed: those unchanged between the two walks.  The hash
\* of one already listed with this stat is kept, others are read now.
Unchanged(f) == sync.after[f] # 0 /\ sync.before[f] = sync.after[f]

Entry(f) ==
    IF manifest[f].stat = sync.after[f] THEN manifest[f]
    ELSE IF share[f] = 0 THEN Unlisted
    ELSE [stat |-> sync.after[f], sha |-> share[f]]

Publish ==
    /\ sync.stage = "hash"
    /\ manifest' = [f \in File |-> IF Unchanged(f) THEN Entry(f) ELSE Unlisted]
    /\ sync' = [sync EXCEPT !.stage = "check"]
    /\ UNCHANGED <<share, newest, mirror, again, flagging, asked, budget>>

\* rsync ends with an error: the manifest stays as it was.
Fail ==
    /\ sync.stage \in {"transfer", "hash"}
    /\ budget.failures > 0
    /\ budget' = [budget EXCEPT !.failures = @ - 1]
    /\ sync' = [sync EXCEPT !.stage = "check", !.todo = {}]
    /\ UNCHANGED <<share, newest, mirror, manifest, again, flagging, asked>>

\* Once more if somebody asked meanwhile; then the health check, ...
Repeat ==
    /\ sync.stage = "check"
    /\ sync' = IF again /\ sync.round < Rounds
               THEN [sync EXCEPT !.stage = "begin", !.round = @ + 1]
               ELSE [sync EXCEPT !.stage = "report"]
    /\ UNCHANGED <<share, newest, mirror, manifest, again, flagging, asked, budget>>

\* ... and the lock is released.
Release ==
    /\ sync.stage = "report"
    /\ sync' = NoSync
    /\ UNCHANGED <<share, newest, mirror, manifest, again, flagging, asked, budget>>

\* The worker dies: the system releases the lock.
Die ==
    /\ sync.stage # "idle"
    /\ budget.failures > 0
    /\ budget' = [budget EXCEPT !.failures = @ - 1]
    /\ sync' = NoSync
    /\ UNCHANGED <<share, newest, mirror, manifest, again, flagging, asked>>

Work ==
    \/ Walk \/ WalkAgain \/ Publish \/ Repeat \/ Release
    \/ \E f \in File : Transfer(f)

Next ==
    \/ \E f \in File : Upload(f) \/ Remove(f)
    \/ Beat \/ Take \/ Flag \/ Work \/ Fail \/ Die

Spec == Init /\ [][Next]_vars

\* beat, the worker and the task that holds the lock keep going.
Fairness == WF_vars(Beat) /\ WF_vars(Take) /\ WF_vars(Flag) /\ WF_vars(Work)

-----------------------------------------------------------------------------
(* Properties.                                                             *)

\* link_for hands out a link only for a file whose stat is the listed one.
Linked(f) == share[f] # 0 /\ manifest[f].stat = share[f]

\* A PC that follows a link gets the very file the playbook copies today:
\* the mirror holds it whole and the SHA-256 is its own, whatever was
\* uploaded or removed while rsync and the hashing were under way.
LinkIsCurrent ==
    \A f \in File : Linked(f) => mirror[f] = share[f] /\ manifest[f].sha = share[f]

\* Once the share is left alone, every file of it gets its link and nothing
\* else stays on the mirror, although a request that meets a running sync
\* may get lost: .again may be left after the last look for it.
Settled == \A f \in File : mirror[f] = share[f] /\ (share[f] # 0 => Linked(f))

MirrorCatchesUp == <>[]Settled
=============================================================================
