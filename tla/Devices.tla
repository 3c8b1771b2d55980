------------------------------ MODULE Devices ------------------------------
(***************************************************************************)
(* The hardware journal of one PC and its alarms about full disks: what    *)
(* the server makes of the snapshots that come with heartbeats             *)
(* (services/workplace_devices.py, services/disk_alerts.py and heartbeat   *)
(* of routers/agent.py).                                                   *)
(*                                                                         *)
(* A device that appears or disappears is confirmed when the change has    *)
(* lasted as long as its category asks for.  A snapshot may lack anything: *)
(* Windows does not always answer the agent's questions.  Between two      *)
(* heartbeats the PC may be off for any time.                              *)
(*                                                                         *)
(* Heartbeats of one PC come one after another.  The comparison of the     *)
(* board, the BIOS and the summary fields, and texts of the journal, are   *)
(* left out.                                                               *)
(***************************************************************************)
EXTENDS Naturals

CONSTANTS
    Device,
    Category,  \* device -> its category
    Wait,      \* category -> ticks a change has to last
    Drive,     \* local drives
    MaxTime,   \* bound: ticks
    MaxUpdates \* bound: updates of the agent

\* An empty list of these means that the collection has failed.
TrackedInternal == {"memory", "disk", "gpu"}

VARIABLES
    now,
    plugged,  \* devices the PC has
    usage,    \* drive -> below the clearing threshold, between, or full
    agent,    \* version of the agent
    row,      \* what the server keeps of the PC
    journal,  \* entries this step has made: <<device, action>>
    alarms,   \* drives this step has raised an alert for
    streak,   \* device -> what snapshots show of it, and since when
    quiet     \* drives seen with space, or not at all, since their last alert

vars == <<now, plugged, usage, agent, row, journal, alarms, streak, quiet>>

Usages   == {"free", "tight", "full"}
Versions == 0..MaxUpdates + 1
Times    == 0..MaxTime
Never    == 0

DevicesTypeOK ==
    /\ now \in 1..MaxTime
    /\ plugged \subseteq Device
    /\ usage \in [Drive -> Usages]
    /\ agent \in Versions \ {0}
    /\ row \in [reported : BOOLEAN, snapshot : SUBSET Device, version : Versions,
                state : [Device -> [present : BOOLEAN, since : Times]], alarmed : SUBSET Drive]
    /\ journal \subseteq Device \X {"added", "removed"}
    /\ alarms \subseteq Drive
    /\ streak \in [Device -> [seen : BOOLEAN, since : Times]]
    /\ quiet \subseteq Drive

Unknown == [present |-> FALSE, since |-> Never]

\* A PC that has not reported yet; or one whose journal was kept before
\* memory, disks and video cards were tracked.
NewRow == [reported |-> FALSE, snapshot |-> {}, version |-> 0,
           state |-> [d \in Device |-> Unknown], alarmed |-> {}]
LegacyRow == [NewRow EXCEPT
    !.reported = TRUE, !.snapshot = plugged, !.version = agent,
    !.state = [d \in Device |->
        [present |-> d \in plugged /\ Category[d] \notin TrackedInternal, since |-> Never]]]

Init ==
    /\ now = 1
    /\ plugged \in SUBSET Device
    /\ usage \in [Drive -> Usages]
    /\ agent = 1
    /\ row \in {NewRow, LegacyRow}
    /\ journal = {} /\ alarms = {}
    /\ streak = [d \in Device |-> [seen |-> row.reported /\ d \in plugged, since |-> Never]]
    /\ quiet = Drive

-----------------------------------------------------------------------------
(* The PC.                                                                 *)

NoEntries == journal' = {} /\ alarms' = {}

Pass ==
    /\ now < MaxTime
    /\ now' = now + 1
    /\ NoEntries
    /\ UNCHANGED <<plugged, usage, agent, row, streak, quiet>>

\* plugged and unplugged
Plug(d) ==
    /\ plugged' = IF d \in plugged THEN plugged \ {d} ELSE plugged \cup {d}
    /\ NoEntries
    /\ UNCHANGED <<now, usage, agent, row, streak, quiet>>

Fill(v, u) ==
    /\ usage' = [usage EXCEPT ![v] = u]
    /\ NoEntries
    /\ UNCHANGED <<now, plugged, agent, row, streak, quiet>>

UpdateAgent ==
    /\ agent <= MaxUpdates
    /\ agent' = agent + 1
    /\ NoEntries
    /\ UNCHANGED <<now, plugged, usage, row, streak, quiet>>

-----------------------------------------------------------------------------
(* workplace_devices.py.                                                   *)

Blind(seen) == {c \in TrackedInternal : \A d \in seen : Category[d] # c}

Kept(entry) == entry.present \/ entry.since # Never

\* update_peripherals: categories the state does not know yet are taken from
\* the previous snapshot.
Seeded ==
    LET known == {Category[d] : d \in {e \in Device : Kept(row.state[e])}}
    IN [d \in Device |->
          IF d \in row.snapshot /\ Category[d] \notin known
          THEN [present |-> TRUE, since |-> Never] ELSE row.state[d]]

Confirmed(d, seen, entry) ==
    /\ Category[d] \notin Blind(seen)
    /\ (d \in seen) # entry.present
    /\ entry.since # Never
    /\ now - entry.since >= Wait[Category[d]]

\* Mutant: a change that has been taken back goes on counting.
ObservedOn(d, seen, entry) ==
    IF Category[d] \in Blind(seen) \/ (d \in seen) = entry.present THEN entry
    ELSE IF Confirmed(d, seen, entry) THEN [present |-> d \in seen, since |-> Never]
    ELSE IF entry.since = Never THEN [entry EXCEPT !.since = now]
    ELSE entry

Observed(d, seen, entry) ==
    IF Category[d] \in Blind(seen) THEN entry
    ELSE IF (d \in seen) = entry.present THEN [entry EXCEPT !.since = Never]
    ELSE IF Confirmed(d, seen, entry) THEN [present |-> d \in seen, since |-> Never]
    ELSE IF entry.since = Never THEN [entry EXCEPT !.since = now]
    ELSE entry

Taken(seen) == [d \in Device |-> [present |-> d \in seen, since |-> Never]]

\* Without a snapshot of the same agent version there is nothing to compare.
Baseline == ~row.reported \/ row.version # agent

\* apply_components, unless the agent has sent no snapshot.
NextState(seen) ==
    IF Baseline THEN Taken(seen)
    ELSE LET from == Seeded IN [d \in Device |-> Observed(d, seen, from[d])]

Entries(seen) ==
    IF Baseline THEN {}
    ELSE LET from == Seeded IN
         {<<d, IF d \in seen THEN "added" ELSE "removed">> :
             d \in {e \in Device : Confirmed(e, seen, from[e])}}

-----------------------------------------------------------------------------
(* disk_alerts.py: check_disks.                                            *)

Full(drives)  == {v \in drives : usage[v] = "full"}
Alarmed(drives) == Full(drives) \cup {v \in drives \cap row.alarmed : usage[v] = "tight"}
Alerts(drives) == Full(drives) \ row.alarmed

-----------------------------------------------------------------------------
(* routers/agent.py: heartbeat.  "collected" is false when the agent has   *)
(* sent no snapshot, "listed" when it has sent no drives at all.           *)

Noted(seen) ==
    [d \in Device |->
        IF ~Baseline /\ Category[d] \in Blind(seen) THEN streak[d]
        ELSE IF Baseline \/ streak[d].seen # (d \in seen) THEN [seen |-> d \in seen, since |-> now]
        ELSE streak[d]]

Heartbeat(collected, seen, listed, drives) ==
    /\ row' = [reported |-> row.reported \/ collected,
               snapshot |-> IF collected THEN seen ELSE row.snapshot,
               version  |-> agent,
               state    |-> IF collected THEN NextState(seen) ELSE row.state,
               alarmed  |-> IF listed THEN Alarmed(drives) ELSE row.alarmed]
    /\ journal' = IF collected THEN Entries(seen) ELSE {}
    /\ alarms' = IF listed THEN Alerts(drives) ELSE {}
    /\ streak' = IF collected THEN Noted(seen) ELSE streak
    /\ quiet' = (quiet \ alarms') \cup
                  (IF listed THEN {v \in Drive : v \notin drives \/ usage[v] = "free"} ELSE {})
    /\ UNCHANGED <<now, plugged, usage, agent>>

Next ==
    \/ Pass \/ UpdateAgent
    \/ \E d \in Device : Plug(d)
    \/ \E v \in Drive, u \in Usages : Fill(v, u)
    \/ \E collected, listed \in BOOLEAN :
          \E seen \in IF collected THEN SUBSET plugged ELSE {{}},
             drives \in IF listed THEN SUBSET Drive ELSE {{}} :
                Heartbeat(collected, seen, listed, drives)

Spec == Init /\ [][Next]_vars

-----------------------------------------------------------------------------
(* Properties.                                                             *)

\* An entry is made only of a change that every snapshot has shown for as long
\* as the category asks for, failed collections aside: a mouse moved to another
\* port, a module Windows missed once or a disk brought for a lesson make none,
\* and what an update of the agent changes in the snapshots makes none.
ChangeHeld ==
    [][ \A e \in journal' :
          /\ streak'[e[1]].seen = (e[2] = "added")
          /\ now - streak'[e[1]].since >= Wait[Category[e[1]]] ]_vars

\* Between two alerts about a drive some report shows it with enough space, or
\* does not show it.
AlertOnce == [][alarms' \subseteq quiet]_vars
=============================================================================
