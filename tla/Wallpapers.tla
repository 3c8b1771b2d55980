----------------------------- MODULE Wallpapers -----------------------------
(***************************************************************************)
(* Desktop wallpapers: the catalogue with its files, assignments to PCs    *)
(* and to groups, scheduled changes (services/wallpapers.py and            *)
(* routers/wallpapers.py), and what the agents show.                       *)
(*                                                                         *)
(* Deleting an image removes its file first and its row at the commit,     *)
(* where the foreign key of an assignment made meanwhile refuses it.  A    *)
(* schedule names its images in JSON and no key protects them.             *)
(*                                                                         *)
(* The two kinds (desktop, lock screen) are handled alike and apart; this  *)
(* is one of them.  Groups and their tree do not change.                   *)
(***************************************************************************)
EXTENDS Naturals, FiniteSets

CONSTANTS
    Image,
    PC,
    Room,       \* groups
    Parent,     \* group -> its parent, or "none"
    Plan,       \* rows of wallpaper_schedules
    MaxChanges, \* bound: requests that assign at once, PCs moved to a group
    MaxUploads  \* bound: uploads

VARIABLES
    catalog,    \* images that have a row
    files,      \* images whose file is in wallpaper_dir
    assigned,   \* PC or group -> its image, or "none"
    home,       \* PC -> its group, or "none"
    plans,      \* schedule -> its row
    looks,      \* schedule -> who has read it as pending and is to decide it
    deleting,   \* images whose file is removed and whose row is not yet
    shown,      \* PC -> the image its agent has set, or "own"
    allowance   \* what remains of the bounds

vars == <<catalog, files, assigned, home, plans, looks, deleting, shown, allowance>>

Targets == PC \cup Room
Values  == Image \cup {"clear"}

\* WallpaperSchedule; "draft" is a row not written yet, "due" one that is
\* pending and whose apply_at has come.
Statuses == {"draft", "pending", "due", "applied", "cancelled", "failed"}
NoPlan   == [status |-> "draft", targets |-> {}, value |-> "clear"]

WallpapersTypeOK ==
    /\ catalog \in SUBSET Image
    /\ files \in SUBSET Image
    /\ assigned \in [Targets -> Image \cup {"none"}]
    /\ home \in [PC -> Room \cup {"none"}]
    /\ plans \in [Plan -> [status : Statuses, targets : SUBSET Targets, value : Values]]
    /\ looks \in [Plan -> SUBSET {"beat", "request"}]
    /\ deleting \in SUBSET Image
    /\ shown \in [PC -> Image \cup {"own"}]
    /\ allowance \in [changes : 0..MaxChanges, uploads : 0..MaxUploads]

Init ==
    /\ catalog = {}
    /\ files = {}
    /\ assigned = [t \in Targets |-> "none"]
    /\ home \in [PC -> Room]
    /\ plans = [p \in Plan |-> NoPlan]
    /\ looks = [p \in Plan |-> {}]
    /\ deleting = {}
    /\ shown = [c \in PC |-> "own"]
    /\ allowance = [changes |-> MaxChanges, uploads |-> MaxUploads]

Spend(kind) ==
    /\ allowance[kind] > 0
    /\ allowance' = [allowance EXCEPT ![kind] = @ - 1]

-----------------------------------------------------------------------------
(* Which image a PC should have.                                           *)

\* A group with the groups it lies in, and the PCs under it.
Above[g \in Room] == {g} \cup IF Parent[g] = "none" THEN {} ELSE Above[Parent[g]]

\* Mutant: only what lies directly in the group.
UnderDirectly(g) == {r \in Room : Parent[r] = g} \cup {c \in PC : home[c] = g}

\* group_subtree.
Under(g) == {r \in Room \ {g} : g \in Above[r]}
                \cup {c \in PC : home[c] # "none" /\ g \in Above[home[c]]}

\* effective_wallpapers: the PC's own, or that of the nearest group.
Effective(c) ==
    LET up == IF home[c] = "none" THEN {} ELSE {g \in Above[home[c]] : assigned[g] # "none"}
    IN IF assigned[c] # "none" THEN assigned[c]
       ELSE IF up = {} THEN "none"
       ELSE assigned[CHOOSE g \in up : \A r \in up : r \in Above[g]]

\* apply_assignment: a group takes what its subgroups and PCs had, before the
\* PCs of the same request are served.  Groups are served in the order they
\* are listed: a subgroup listed first loses what it got, and has it from
\* above.
Narrower(ts) == UNION {Under(g) : g \in ts \cap Room}

Applied(ts, value) ==
    [t \in Targets |-> IF t \in ts THEN (IF value = "clear" THEN "none" ELSE value)
                       ELSE IF t \in Narrower(ts) THEN "none"
                       ELSE assigned[t]]

-----------------------------------------------------------------------------
(* The catalogue.                                                          *)

\* store_upload: the same image twice is refused.
Upload(i) ==
    /\ i \notin catalog
    /\ Spend("uploads")
    /\ files' = files \cup {i}
    /\ catalog' = catalog \cup {i}
    /\ UNCHANGED <<assigned, home, plans, looks, deleting, shown>>

\* delete_wallpaper up to remove_file: neither assigned nor planned.
Used(i) == \E t \in Targets : assigned[t] = i
Awaited(i) == \E p \in Plan : plans[p].status \in {"pending", "due"} /\ plans[p].value = i

DeleteBegin(i) ==
    /\ i \in catalog \ deleting
    /\ ~Used(i) /\ ~Awaited(i)
    /\ files' = files \ {i}
    /\ deleting' = deleting \cup {i}
    /\ UNCHANGED <<catalog, assigned, home, plans, looks, shown, allowance>>

\* ... and its commit; an assignment made meanwhile keeps the row.
DeleteCommit(i) ==
    /\ i \in deleting
    /\ deleting' = deleting \ {i}
    /\ catalog' = IF Used(i) THEN catalog ELSE catalog \ {i}
    /\ UNCHANGED <<files, assigned, home, plans, looks, shown, allowance>>

-----------------------------------------------------------------------------
(* Assignments, now and at a given time.                                   *)

Known(value) == value = "clear" \/ value \in catalog

\* assign_wallpapers.
Assign(ts, value) ==
    /\ ts # {} /\ Known(value)
    /\ Spend("changes")
    /\ assigned' = Applied(ts, value)
    /\ UNCHANGED <<catalog, files, home, plans, looks, deleting, shown>>

\* ... with apply_at in the future.
Schedule(p, ts, value) ==
    /\ plans[p].status = "draft"
    /\ ts # {} /\ Known(value)
    /\ plans' = [plans EXCEPT ![p] = [status |-> "pending", targets |-> ts, value |-> value]]
    /\ UNCHANGED <<catalog, files, assigned, home, looks, deleting, shown, allowance>>

\* apply_at comes.
Comes(p) ==
    /\ plans[p].status = "pending"
    /\ plans' = [plans EXCEPT ![p].status = "due"]
    /\ UNCHANGED <<catalog, files, assigned, home, looks, deleting, shown, allowance>>

\* apply_due_schedules reads what is due ...
ReadDue(p) ==
    /\ plans[p].status = "due" /\ "beat" \notin looks[p]
    /\ looks' = [looks EXCEPT ![p] = @ \cup {"beat"}]
    /\ UNCHANGED <<catalog, files, assigned, home, plans, deleting, shown, allowance>>

\* ... and decides it at its commit, although it may be cancelled by then.
ApplyDue(p) ==
    /\ "beat" \in looks[p]
    /\ IF Known(plans[p].value)
       THEN /\ plans' = [plans EXCEPT ![p].status = "applied"]
            /\ assigned' = Applied(plans[p].targets, plans[p].value)
       ELSE /\ plans' = [plans EXCEPT ![p].status = "failed"]
            /\ UNCHANGED assigned
    /\ looks' = [looks EXCEPT ![p] = @ \ {"beat"}]
    /\ UNCHANGED <<catalog, files, home, deleting, shown, allowance>>

\* cancel_schedule reads a schedule that is not decided ...
CancelRead(p) ==
    /\ plans[p].status \in {"pending", "due"} /\ "request" \notin looks[p]
    /\ looks' = [looks EXCEPT ![p] = @ \cup {"request"}]
    /\ UNCHANGED <<catalog, files, assigned, home, plans, deleting, shown, allowance>>

\* ... and writes over what has become of it.
Cancel(p) ==
    /\ "request" \in looks[p]
    /\ plans' = [plans EXCEPT ![p].status = "cancelled"]
    /\ looks' = [looks EXCEPT ![p] = @ \ {"request"}]
    /\ UNCHANGED <<catalog, files, assigned, home, deleting, shown, allowance>>

-----------------------------------------------------------------------------
(* PCs.                                                                    *)

Move(c, g) ==
    /\ home[c] # g
    /\ Spend("changes")
    /\ home' = [home EXCEPT ![c] = g]
    /\ UNCHANGED <<catalog, files, assigned, plans, looks, deleting, shown>>

\* heartbeat_wallpaper and download_wallpaper: the agent sets what it can
\* download, and gives back the user's own image when nothing is assigned.
Heartbeat(c) ==
    /\ shown' = [shown EXCEPT ![c] =
                    IF Effective(c) = "none" THEN "own"
                    ELSE IF Effective(c) \in files \cap catalog THEN Effective(c)
                    ELSE @]
    /\ UNCHANGED <<catalog, files, assigned, home, plans, looks, deleting, allowance>>

Next ==
    \/ \E i \in Image : Upload(i) \/ DeleteBegin(i) \/ DeleteCommit(i)
    \/ \E ts \in SUBSET Targets, value \in Values :
          Assign(ts, value) \/ \E p \in Plan : Schedule(p, ts, value)
    \/ \E p \in Plan : Comes(p) \/ ReadDue(p) \/ ApplyDue(p) \/ CancelRead(p) \/ Cancel(p)
    \/ \E c \in PC : Heartbeat(c) \/ \E g \in Room \cup {"none"} : Move(c, g)

Spec == Init /\ [][Next]_vars

\* beat runs apply_wallpaper_schedules every minute, agents keep calling and
\* requests that removed a file or cancel a schedule reach their commit.
Fairness ==
    /\ \A p \in Plan : WF_vars(ReadDue(p)) /\ WF_vars(ApplyDue(p)) /\ WF_vars(Cancel(p))
    /\ \A c \in PC : WF_vars(Heartbeat(c))
    /\ \A i \in Image : WF_vars(DeleteCommit(i))

-----------------------------------------------------------------------------
(* Properties.                                                             *)

\* The PC and the groups it lies in; those of them that ts covers.
Ways(c) == {c} \cup IF home[c] = "none" THEN {} ELSE Above[home[c]]

Below(c, ts) == {t \in Ways(c) : t \in ts \/ (t = c /\ Ways(c) \cap ts # {})
                                   \/ (t \in Room /\ Above[t] \cap ts # {})}

\* A PC covered by ts has the value, or what lies above ts.
Reached(ts, value) ==
    \A c \in PC : Below(c, ts) # {} =>
        IF value = "clear" THEN \A t \in Below(c, ts) : assigned'[t] = "none"
        ELSE Effective(c)' = value

\* An image given to a group reaches every PC of it, also those that had one
\* of their own or through a subgroup; taking it away leaves all of them to
\* what lies above the group (the docstring of apply_assignment).
GroupIsReached ==
    [][ \A p \in Plan :
          plans[p].status # "applied" /\ plans'[p].status = "applied" =>
              Reached(plans[p].targets, plans[p].value) ]_vars

\* A schedule whose time has come is decided, also when its image has been
\* deleted from the catalogue by a request that did not see it.
DueIsDecided == \A p \in Plan : plans[p].status = "due" ~> plans[p].status # "due"

\* cancel_schedule refuses what is decided, and what it has cancelled is not
\* applied.  Neither holds: the beat and the request read the row and decide
\* it later.
CancelledIsNotApplied ==
    [][ \A p \in Plan :
          /\ plans[p].status \in {"applied", "failed"} => plans'[p].status # "cancelled"
          /\ plans[p].status = "cancelled" => plans'[p].status # "applied" ]_vars

\* models/wallpaper.py: the file of every image of the catalogue lies in
\* wallpaper_dir.  An image whose deletion is under way is not looked at.
FileIsThere == \A i \in catalog \ deleting : i \in files
=============================================================================
