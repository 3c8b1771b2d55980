------------------------------ MODULE Rollouts ------------------------------
(***************************************************************************)
(* Rollout requests: programs to install, the runs that install them, and  *)
(* the statuses the server derives from the PCs of the runs whenever       *)
(* somebody looks at the list (routers/rollouts.py).                       *)
(*                                                                         *)
(* Looking reads the request, its programs and the runs, derives the       *)
(* statuses and saves those that have changed; people change statuses and  *)
(* runs change states between the reading and the saving.  People also     *)
(* link programs to other runs and rooms, and PCs move to other rooms.     *)
(* One request with its programs is followed; a program with rooms counts  *)
(* the PCs of the rooms, one without rooms, or with empty ones, counts     *)
(* those of its runs.                                                      *)
(***************************************************************************)
EXTENDS Naturals, FiniteSets

CONSTANTS
    Item,       \* programs of the request
    PC,
    Run,        \* runs of playbooks
    Link,       \* what a program may be linked to: runs, and the PCs of rooms
    Viewer,     \* looks at the list in progress at once
    MaxPatches  \* bound: changes made by people

VARIABLES
    request, \* status of the request
    items,   \* item -> its status
    links,   \* item -> its runs, and the PCs of its rooms
    rows,    \* how often the rows of the programs have been replaced
    states,  \* run -> state of each of its PCs
    views,   \* viewer -> what it has derived and has yet to save
    patches  \* what remains of MaxPatches

vars == <<request, items, links, rows, states, views, patches>>

RequestStatus == {"new", "in_progress", "blocked", "done", "cancelled"}
ItemStatus    == {"todo", "in_progress", "blocked", "done"}
Active        == {"waiting", "running"}
State         == Active \cup {"success", "failed", "cancelled", "absent"}
NoView        == [stage |-> "idle"]

RolloutsTypeOK ==
    /\ request \in RequestStatus
    /\ items \in [Item -> ItemStatus]
    /\ links \in [Item -> Link]
    /\ states \in [Run -> [PC -> State]]
    /\ \A v \in Viewer : views[v] = NoView \/
          views[v] \in [stage : {"derived"}, request : RequestStatus, items : [Item -> ItemStatus],
                        was : RequestStatus, were : [Item -> ItemStatus], rows : 0..MaxPatches]
    /\ rows \in 0..MaxPatches
    /\ patches \in 0..MaxPatches

Init ==
    /\ request = "new"
    /\ items = [i \in Item |-> "todo"]
    /\ links \in [Item -> Link]
    /\ rows = 0
    /\ states \in [Run -> [PC -> {"absent", "waiting"}]]
    /\ views = [v \in Viewer |-> NoView]
    /\ patches = MaxPatches

-----------------------------------------------------------------------------
(* item_progress and auto_status.                                          *)

\* _RANK: the best of the runs counts for a PC.
Rank == [success |-> 6, running |-> 5, waiting |-> 3, failed |-> 2, cancelled |-> 1, absent |-> 0]

Best(i, c) ==
    LET seen == {states[r][c] : r \in links[i].runs} \cup {"absent"}
    IN CHOOSE s \in seen : \A t \in seen : Rank[t] <= Rank[s]

Counted(i) == IF links[i].rooms # {} THEN links[i].rooms ELSE {c \in PC : Best(i, c) # "absent"}

Finished(i) == Counted(i) # {} /\ \A c \in Counted(i) : Best(i, c) = "success"
Begun(i)    == \E c \in Counted(i) : Best(i, c) \in Active \cup {"success", "failed"}

\* Mutant: a program none of whose PCs runs goes back to "todo".
DerivedItemIdle(i, status) ==
    IF Counted(i) = {} \/ status = "blocked" THEN status
    ELSE IF Finished(i) THEN "done"
    ELSE IF status \in {"todo", "done"} /\ Begun(i) THEN "in_progress"
    ELSE IF \A c \in Counted(i) : Best(i, c) \notin Active THEN "todo"
    ELSE status

DerivedItem(i, status) ==
    IF Counted(i) = {} \/ status = "blocked" THEN status
    ELSE IF Finished(i) THEN "done"
    ELSE IF status = "done" \/ (status = "todo" /\ Begun(i)) THEN "in_progress"
    ELSE status

DerivedItems(current) == [i \in Item |-> DerivedItem(i, current[i])]

\* Mutant: a request goes back to the first status of a program.
DerivedRequestTodo(status, current) ==
    IF status \in {"blocked", "cancelled"} THEN status
    ELSE IF \A i \in Item : current[i] = "done" THEN "done"
    ELSE IF \E i \in Item : current[i] # "todo" THEN "in_progress"
    ELSE "todo"

DerivedRequest(status, current) ==
    IF status \in {"blocked", "cancelled"} THEN status
    ELSE IF \A i \in Item : current[i] = "done" THEN "done"
    ELSE IF \E i \in Item : current[i] # "todo" THEN "in_progress"
    ELSE "new"

-----------------------------------------------------------------------------
(* list_rollouts and the answer to every change: requests_out.             *)

Look(v) ==
    /\ views[v] = NoView
    /\ LET derived == DerivedItems(items) IN
       views' = [views EXCEPT ![v] = [stage |-> "derived", items |-> derived, were |-> items, rows |-> rows,
                                      request |-> DerivedRequest(request, derived), was |-> request]]
    /\ UNCHANGED <<request, items, links, rows, states, patches>>

\* Only what has changed since the reading is written; the transaction fails
\* when it has a row to write that has been replaced.
Save(v) ==
    /\ views[v].stage = "derived"
    /\ IF views[v].items # views[v].were /\ views[v].rows # rows
       THEN UNCHANGED <<request, items>>
       ELSE /\ request' = IF views[v].request = views[v].was THEN request ELSE views[v].request
            /\ items' = [i \in Item |->
                  IF views[v].items[i] = views[v].were[i] THEN items[i] ELSE views[v].items[i]]
    /\ views' = [views EXCEPT ![v] = NoView]
    /\ UNCHANGED <<links, rows, states, patches>>

-----------------------------------------------------------------------------
(* People and runs.                                                        *)

\* update_rollout: a status of the request ...
PatchRequest(status) ==
    /\ patches > 0 /\ status # request
    /\ request' = status
    /\ patches' = patches - 1
    /\ UNCHANGED <<items, links, rows, states, views>>

\* ... or the list of its programs, with their statuses and links, whose rows
\* are made anew (_set_items).
PatchItems(current, linked) ==
    /\ patches > 0
    /\ items' = current
    /\ links' = linked
    /\ rows' = rows + 1
    /\ patches' = patches - 1
    /\ UNCHANGED <<request, states, views>>

\* PCs come to the rooms of a program or leave them.
Move(i, link) ==
    /\ patches > 0
    /\ link.runs = links[i].runs /\ link # links[i]
    /\ links' = [links EXCEPT ![i] = link]
    /\ patches' = patches - 1
    /\ UNCHANGED <<request, items, rows, states, views>>

\* A PC of a run advances (services/waiting_tasks.py).
Follows(from, to) ==
    \/ from = "waiting" /\ to \in {"running", "cancelled"}
    \/ from = "running" /\ to \in {"success", "failed"}

Advance(r, c, to) ==
    /\ Follows(states[r][c], to)
    /\ states' = [states EXCEPT ![r][c] = to]
    /\ UNCHANGED <<request, items, links, rows, views, patches>>

Next ==
    \/ \E v \in Viewer : Look(v) \/ Save(v)
    \/ \E r \in Run, c \in PC, to \in State : Advance(r, c, to)
    \/ \E status \in RequestStatus : PatchRequest(status)
    \/ \E i \in Item, link \in Link :
          \/ Move(i, link)
          \/ \E to \in ItemStatus : PatchItems([items EXCEPT ![i] = to], [links EXCEPT ![i] = link])

Spec == Init /\ [][Next]_vars

\* Pages that are open ask again and again, and what has been read is saved.
Fairness == \A v \in Viewer : WF_vars(Look(v)) /\ WF_vars(Save(v))

FairSpec == Spec /\ Fairness

-----------------------------------------------------------------------------
(* Properties.                                                             *)

\* Statuses that agree with each other and with the PCs: deriving them again
\* changes nothing.
Settled == items = DerivedItems(items) /\ request = DerivedRequest(request, items)

\* Looks overwrite each other and what people have decided, but whoever looks
\* last finds the truth: statuses never flap between two derivations.
StatusSettles == <>[]Settled

\* rollouts.py, auto_status: a blocker and a cancellation are set by people -
\* and taken back by people.  Broken: a look that has read the request before
\* saves what it has derived over them.
HumanDecides ==
    [][(request = "blocked" \/ request = "cancelled")
          => (request' = request \/ patches' # patches)]_vars
=============================================================================
