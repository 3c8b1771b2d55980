---------------------------- MODULE MCHeartbeats ----------------------------
(***************************************************************************)
(* Instances of what heartbeats bring to the server: who is on the         *)
(* network, the tags of the models that report, the software they have,    *)
(* the journal of devices and full disks, and the tasks that wake and      *)
(* restart PCs.  Apart from the status, which the last one has for itself, *)
(* these share no column that any of them reads to decide, so a behaviour  *)
(* follows one of them, its focus, and leaves the others as they start.    *)
(*                                                                         *)
(* HostPresence has two instances: one PC with an agent, its requests and  *)
(* a diagnosis; and two PCs without one, which only the sweeps tell about. *)
(***************************************************************************)
EXTENDS HostPresence

VARIABLES
    focus,
    tags, rules, hosts, writes, inserted, asks,
    now, plugged, usage, agent, row, journal, alarms, streak, quiet,
    pc, rows, syncs, scans, changes,
    power, listed, shown, beats, job, wereOn, stayOpen, restarts, rest

WithoutAgent == INSTANCE HostPresence WITH
    Host <- {"h1", "h2"}, Agents <- {}, AgentManaged <- {},
    MaxMail <- 0, MaxDiagnoses <- 0, MaxDeletes <- 1

Tagging == INSTANCE HostTags WITH
    Host <- {"h1"}, Model <- {"m1"}, Tag <- {"a", "b"}, Writer <- {"w1", "w2"},
    MaxRequests <- 3, MaxRules <- 2

KindOf == [d \in {"ram", "usb"} |-> IF d = "ram" THEN "memory" ELSE "external_disk"]
WaitOf == [c \in {"memory", "external_disk"} |-> IF c = "memory" THEN 1 ELSE 2]
Journal == INSTANCE Devices WITH
    Device <- {"ram", "usb"}, Category <- KindOf, Wait <- WaitOf, Drive <- {"c"},
    MaxTime <- 3, MaxUpdates <- 1

Inventory == INSTANCE Software WITH
    Program <- {"p"}, Version <- {"1", "2"}, Writer <- {"w1", "w2"}, MaxScans <- 1, MaxChanges <- 2

Waking == INSTANCE Power WITH
    PC <- {"a", "b", "c"}, Subnet <- [c \in {"a", "b", "c"} |-> "lan"], NoMac <- {"c"},
    Choices <- {{"a", "b"}, {"a", "c"}}, status <- shown, left <- rest, MaxSwitches <- 1, MaxDeletes <- 1

wakingVars    == <<power, listed, shown, beats, job, wereOn, stayOpen, restarts, rest>>
inventoryVars == <<pc, rows, syncs, scans, changes>>
tagVars     == <<tags, rules, hosts, writes, inserted, asks>>
journalVars == <<now, plugged, usage, agent, row, journal, alarms, streak, quiet>>
AllVars     == <<focus, vars, tagVars, journalVars, inventoryVars, wakingVars>>

\* One part starts as it may, the others in one state of theirs.
MCInit ==
    /\ focus \in {"reports", "sweeps", "tags", "software", "devices", "power"}
    /\ IF focus = "sweeps" THEN WithoutAgent!Init ELSE Init
    /\ focus \notin {"reports", "sweeps"} => machine = [h \in Host |-> "closed"]
    /\ Tagging!Init
    /\ Journal!Init
    /\ Inventory!Init
    /\ focus # "software" => pc = << >>
    /\ Waking!Init /\ power \in [{"a", "b", "c"} -> {"off", "open"}]
    /\ shown = [c \in {"a", "b", "c"} |-> IF power[c] = "open" THEN "online" ELSE "offline"]
    /\ focus # "power" => \A c \in listed : power[c] = "off"
    /\ focus # "devices" => plugged = {} /\ usage = [v \in {"c"} |-> "free"] /\ ~row.reported

\* Everything but the focus stays as it is.
OthersStay ==
    /\ UNCHANGED focus
    /\ IF focus \in {"reports", "sweeps"} THEN TRUE ELSE UNCHANGED vars
    /\ IF focus = "tags" THEN TRUE ELSE UNCHANGED tagVars
    /\ IF focus = "software" THEN TRUE ELSE UNCHANGED inventoryVars
    /\ IF focus = "devices" THEN TRUE ELSE UNCHANGED journalVars
    /\ IF focus = "power" THEN TRUE ELSE UNCHANGED wakingVars

MCNext ==
    \/ focus = "reports"  /\ Next              /\ OthersStay
    \/ focus = "sweeps"   /\ WithoutAgent!Next /\ OthersStay
    \/ focus = "tags"     /\ Tagging!Next      /\ OthersStay
    \/ focus = "software" /\ Inventory!Next    /\ OthersStay
    \/ focus = "devices"  /\ Journal!Next      /\ OthersStay
    \/ focus = "power"    /\ Waking!Next       /\ OthersStay

\* The fairness of every part, which binds the part in focus.
MCFairness ==
    /\ \A p \in Pinger : /\ WF_vars(focus = "reports" /\ Sweep(p))
                         /\ WF_vars(focus = "sweeps" /\ WithoutAgent!Sweep(p))
    /\ \A w \in {"w1", "w2"} : WF_tagVars(focus = "tags" /\ Tagging!Commit(w))
    /\ SF_tagVars(focus = "tags" /\ \E w \in {"w1", "w2"} : Tagging!HeartbeatRead(w, "h1"))
    /\ \A w \in {"w1", "w2"} : WF_inventoryVars(focus = "software" /\ Inventory!Progress(w))
    /\ SF_inventoryVars(focus = "software" /\ \E w \in {"w1", "w2"} : Inventory!Heartbeat(w))

MCSpec == MCInit /\ [][MCNext]_AllVars /\ MCFairness

-----------------------------------------------------------------------------
(* Properties: each is that of the part.                                   *)

\* Every variable of the part in focus keeps its type.
HeartbeatsTypeOK ==
    CASE focus = "reports" -> TypeOK
      [] focus = "sweeps"  -> WithoutAgent!TypeOK
      [] focus = "tags"    -> Tagging!TagsTypeOK
      [] focus = "software" -> Inventory!SoftwareTypeOK
      [] focus = "power" -> Waking!PowerTypeOK
      [] focus = "devices" -> Journal!DevicesTypeOK

\* The status follows a PC that stays as it is, and whoever waits and stays
\* reachable is released (ping_hosts).
StatusFollows == AbsenceIsNoticed /\ PresenceIsNoticed /\ WaitingIsReleased

\* A PC that reports ends with the tag of its model's rule (host_tags.py) and
\* with the programs it has (software_sync.py).
ReportsSettle == <>[](Tagging!TagFits /\ Inventory!InventoryFits)

\* The journal notes a change only when it has lasted (update_peripherals) and
\* a full disk is reported once (check_disks).
NewsIsTrue == Journal!ChangeHeld /\ Journal!AlertOnce

\* What the log of a task tells of a PC that was woken or restarted is true
\* (run_host_wake, restart_host).
LogIsTrue == Waking!LogIsTrue
=============================================================================
