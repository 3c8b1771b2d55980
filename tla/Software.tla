------------------------------ MODULE Software ------------------------------
(***************************************************************************)
(* The software inventory of one PC: heartbeats, scans over SSH and        *)
(* results sent in by hand each bring a list of programs, and              *)
(* sync_host_software compares it with the installed rows                  *)
(* (services/software_sync.py, services/software_scanner.py,               *)
(* routers/software.py, heartbeat of routers/agent.py).                    *)
(*                                                                         *)
(* A list is collected on the PC, the rows are read when it has arrived,   *)
(* and the difference is written at the commit.  Nothing locks the rows    *)
(* and no constraint forbids two of one name.  A row marked removed is     *)
(* never read again, so it leaves the table here.  The history and the     *)
(* agent's version a scan shows are written in the same transactions and   *)
(* decide nothing.                                                         *)
(***************************************************************************)
EXTENDS Naturals, Sequences, FiniteSets, Functions

CONSTANTS
    Program,
    Version,
    Writer,     \* reports worked on at once
    MaxScans,   \* bound: scans, and results sent in by hand
    MaxChanges  \* bound: programs installed, updated or removed on the PC

VARIABLES
    pc,      \* program -> its version, for those on the PC
    rows,    \* row of software_items -> name and version, installed ones
    syncs,   \* writer -> the report it works on
    scans,   \* task runs of scans, in the order they were asked for
    changes  \* what remains of MaxChanges

vars == <<pc, rows, syncs, scans, changes>>

Lists == UNION {[S -> Version] : S \in SUBSET Program}
Row   == 1..(2 * Cardinality(Writer) * Cardinality(Program))
Idle  == [step |-> "idle"]

SoftwareTypeOK ==
    /\ pc \in Lists
    /\ DOMAIN rows \subseteq Row /\ \A r \in DOMAIN rows : rows[r] \in [name : Program, version : Version]
    /\ \A w \in Writer : syncs[w].step \in {"idle", "collected", "read", "synced"}
    /\ Len(scans) <= MaxScans
    /\ \A t \in DOMAIN scans : scans[t] \in {"queued", "running", "success", "failed", "sent in"}
    /\ changes \in 0..MaxChanges

Init ==
    /\ pc \in Lists
    /\ rows = << >>
    /\ syncs = [w \in Writer |-> Idle]
    /\ scans = << >>
    /\ changes = MaxChanges

-----------------------------------------------------------------------------
(* The PC, and what is collected on it.                                    *)

Change ==
    /\ changes > 0
    /\ changes' = changes - 1
    /\ \E list \in Lists : \E p \in Program : Restrict(list, Program \ {p}) = Restrict(pc, Program \ {p}) /\ pc' = list
    /\ pc' # pc
    /\ UNCHANGED <<rows, syncs, scans>>

Collect(w, task, whole, list) ==
    /\ syncs[w].step = "idle"
    /\ syncs' = [syncs EXCEPT ![w] = [step |-> "collected", task |-> task, whole |-> whole, list |-> list]]

\* heartbeat: the agent says whether it could collect its programs.
Heartbeat(w) ==
    /\ Collect(w, 0, TRUE, pc)
    /\ UNCHANGED <<pc, rows, scans, changes>>

HeartbeatWithout(w) ==
    /\ Collect(w, 0, FALSE, << >>)
    /\ UNCHANGED <<pc, rows, scans, changes>>

\* trigger_scan, for a PC that is online; a waiting one is WaitingTasks'.
TriggerScan ==
    /\ Len(scans) < MaxScans
    /\ scans' = Append(scans, "queued")
    /\ UNCHANGED <<pc, rows, syncs, changes>>

\* _scan_host: a source whose output does not parse adds nothing.
Parsed == {Restrict(pc, S) : S \in SUBSET DOMAIN pc}

\* scan_software_task: a command that fails ends the scan of the PC.
Scan(w, t) ==
    /\ scans[t] = "queued"
    /\ \E list \in Parsed : Collect(w, t, TRUE, list)
    /\ scans' = [scans EXCEPT ![t] = "running"]
    /\ UNCHANGED <<pc, rows, changes>>

ScanFails(t) ==
    /\ scans[t] = "queued"
    /\ scans' = [scans EXCEPT ![t] = "failed"]
    /\ UNCHANGED <<pc, rows, syncs, changes>>

\* ingest_scan_result: the same list without the registry, sent in.
Ingest(w) ==
    /\ Len(scans) < MaxScans
    /\ scans' = Append(scans, "sent in")
    /\ \E list \in Parsed : Collect(w, 0, TRUE, list)
    /\ UNCHANGED <<pc, rows, changes>>

-----------------------------------------------------------------------------
(* sync_host_software.                                                     *)

\* Mutant: what could not be collected is taken for an empty list.
AnyReport(sync) == TRUE

\* heartbeat: "if payload.software_collected".
Synced(sync) == sync.whole

Named(n) == {r \in DOMAIN rows : rows[r].name = n}

\* existing_items: of several rows of a name the dictionary keeps one.
Existing ==
    LET names == {rows[r].name : r \in DOMAIN rows}
    IN {e \in [names -> DOMAIN rows] : \A n \in names : e[n] \in Named(n)}

\* What the sync will write: names to add, versions to set, rows to remove.
Difference(list, existing) ==
    [add  |-> Restrict(list, DOMAIN list \ DOMAIN existing),
     set  |-> [r \in {existing[n] : n \in {m \in DOMAIN list \cap DOMAIN existing :
                                              rows[existing[m]].version # list[m]}}
                 |-> list[rows[r].name]],
     gone |-> {existing[n] : n \in DOMAIN existing \ DOMAIN list}]

Read(w) ==
    /\ syncs[w].step = "collected" /\ Synced(syncs[w])
    /\ \E existing \in Existing :
          syncs' = [syncs EXCEPT ![w] = [step |-> "read", task |-> syncs[w].task,
                                         writes |-> Difference(syncs[w].list, existing)]]
    /\ UNCHANGED <<pc, rows, scans, changes>>

\* The inventory stays as it is.
Skip(w) ==
    /\ syncs[w].step = "collected" /\ ~Synced(syncs[w])
    /\ syncs' = [syncs EXCEPT ![w] = Idle]
    /\ UNCHANGED <<pc, rows, scans, changes>>

\* A new row is one that no transaction in progress has read.
Held == UNION {LET s == syncs[w] IN IF s.step = "read" THEN DOMAIN s.writes.set \cup s.writes.gone ELSE {}
                 : w \in Writer}
Fresh(n) == CHOOSE S \in SUBSET (Row \ (DOMAIN rows \cup Held)) : Cardinality(S) = n

Write(diff) ==
    LET kept  == DOMAIN rows \ diff.gone
        fresh == Fresh(Cardinality(DOMAIN diff.add))
        name  == CHOOSE f \in [fresh -> DOMAIN diff.add] : IsInjective(f)
    IN rows' = [r \in kept \cup fresh |->
                  IF r \in fresh THEN [name |-> name[r], version |-> diff.add[name[r]]]
                  ELSE IF r \in DOMAIN diff.set THEN [rows[r] EXCEPT !.version = diff.set[r]]
                  ELSE rows[r]]

Commit(w) ==
    /\ syncs[w].step = "read"
    /\ Write(syncs[w].writes)
    /\ syncs' = [syncs EXCEPT ![w] = IF syncs[w].task = 0 THEN Idle
                                     ELSE [step |-> "synced", task |-> syncs[w].task]]
    /\ UNCHANGED <<pc, scans, changes>>

\* scan_software_task, after its PCs.
ScanEnds(w) ==
    /\ syncs[w].step = "synced"
    /\ scans' = [scans EXCEPT ![syncs[w].task] = "success"]
    /\ syncs' = [syncs EXCEPT ![w] = Idle]
    /\ UNCHANGED <<pc, rows, changes>>

Progress(w) == Read(w) \/ Skip(w) \/ Commit(w) \/ ScanEnds(w)

Next ==
    \/ Change
    \/ TriggerScan
    \/ \E t \in DOMAIN scans : ScanFails(t) \/ \E w \in Writer : Scan(w, t)
    \/ \E w \in Writer : Heartbeat(w) \/ HeartbeatWithout(w) \/ Ingest(w) \/ Progress(w)

Spec == Init /\ [][Next]_vars

\* Requests reach their commit, and the agent goes on sending full reports.
Fairness ==
    /\ \A w \in Writer : WF_vars(Progress(w))
    /\ SF_vars(\E w \in Writer : Heartbeat(w))

-----------------------------------------------------------------------------
(* Properties.                                                             *)

\* The installed rows have the names of the programs on the PC, and a name with
\* one row shows the version the PC has.
InventoryFits ==
    /\ {rows[r].name : r \in DOMAIN rows} = DOMAIN pc
    /\ \A n \in DOMAIN pc : Cardinality(Named(n)) = 1 => \A r \in Named(n) : rows[r].version = pc[n]

\* Whatever scans miss and whichever reports are late or cross each other,
\* once the programs of the PC stay as they are the inventory settles on them.
InventorySettles == <>[]InventoryFits

\* A program is shown with the version the PC has.  Two reports that cross
\* each leave a row of a new program, sync_host_software sees one of the two,
\* and the other keeps its version: this does not hold.
VersionsSettle ==
    <>[](\A r \in DOMAIN rows : rows[r].name \in DOMAIN pc /\ rows[r].version = pc[rows[r].name])
=============================================================================
