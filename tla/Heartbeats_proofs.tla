-------------------------- MODULE Heartbeats_proofs --------------------------
(***************************************************************************)
(* Theorems about what heartbeats bring to the server.  HostPresence: that *)
(* every column and task keeps its type.  Devices and Power, as instances  *)
(* beside it: that the journal and the alarms of a PC are true, and so is  *)
(* the log of a task that wakes or restarts PCs.  Each of them for any     *)
(* PCs, devices and drives, any times, and every bound.                    *)
(***************************************************************************)
EXTENDS HostPresence, TLAPS

-----------------------------------------------------------------------------
(* HostPresence.                                                           *)

SweepRecordSet ==
    [stage : {"idle", "probing", "recording", "releasing"},
     read : [Host -> Statuses \cup {"absent"}], reached : SUBSET Host, left : SUBSET Host]
DiagnosisRecordSet == [stage : {"idle", "probing", "recording"}, host : Host, reached : BOOLEAN]

AgentsTyped ==
    /\ machine \in [Host -> Machines] /\ agents \in SUBSET Agents
    /\ mail \in [Host -> SUBSET Mail]
RowsTyped ==
    known \in SUBSET Host /\ status \in [Host -> Statuses] /\ report \in [Host -> Reports]
RunsTyped ==
    /\ assignment \in [Host -> {"none", "waiting", "ready"}]
    /\ creating \in [Host -> {"no", "waiting", "ready"}]
TasksTyped == sweep \in [Pinger -> SweepRecordSet] /\ diagnosis \in DiagnosisRecordSet
LeftTyped ==
    left \in [switches : 0..MaxSwitches, diagnoses : 0..MaxDiagnoses, deletes : 0..MaxDeletes]

\* A run that is being created has not assigned the host yet.
Unassigned == \A h \in Host : creating[h] # "no" => assignment[h] = "none"

PresenceInv == AgentsTyped /\ RowsTyped /\ RunsTyped /\ TasksTyped /\ LeftTyped /\ Unassigned

LEMMA PresenceIsTypeOK == PresenceInv => TypeOK
  BY DEF PresenceInv, AgentsTyped, RowsTyped, RunsTyped, TasksTyped, LeftTyped, TypeOK,
         SweepRecordSet, DiagnosisRecordSet

\* A bounded event takes one from what remains.
LEMMA SpendTyped ==
    ASSUME LeftTyped, NEW kind \in {"switches", "diagnoses", "deletes"}, Spend(kind)
    PROVE  LeftTyped'
  BY BoundsAssumption DEF LeftTyped, Spend

\* Who is released: a waiting host becomes ready, and nobody else changes.
LEMMA ReleaseOne ==
    ASSUME RunsTyped, Unassigned, NEW h \in Host, Release(h), creating' = creating
    PROVE  /\ RunsTyped' /\ Unassigned'
           /\ \A g \in Host \ {h} : assignment'[g] = assignment[g]
  <1>1. assignment' \in [Host -> {"none", "waiting", "ready"}]
    BY DEF Release, RunsTyped
  <1>2. /\ \A g \in Host \ {h} : assignment'[g] = assignment[g]
        /\ assignment[h] = "none" => assignment'[h] = "none"
    BY DEF Release, RunsTyped
  <1> QED
    BY <1>1, <1>2 DEF RunsTyped, Unassigned

\* What a request of an agent does to the runs, it does by its release.
LEMMA AgentPresence ==
    ASSUME PresenceInv, NEW h \in Host, Agent(h)
    PROVE  PresenceInv'
  <1> USE DEF PresenceInv
  <1>1. UNCHANGED <<machine, creating, sweep, diagnosis, left>>
    BY DEF Agent, Send, Lapse, Reject, Heartbeat, HeartbeatCheck, HeartbeatRelease, Ping, MarkOffline,
           UninstallAgent, tasks
  <1>2. CASE Send(h)
    <2>1. PICK m \in [kind : {"heartbeat"}, report : {Seen(h), "none"}]
                        \cup [kind : {"ping", "offline", "uninstall"}, report : {"none"}] :
            mail' = [mail EXCEPT ![h] = @ \cup {m}]
      BY <1>2 DEF Send
    <2>2. Seen(h) \in Reports
      BY DEF Seen, Reports
    <2>3. m \in Mail
      BY <2>1, <2>2 DEF Mail, Reports
    <2>4. AgentsTyped'
      BY <1>2, <2>1, <2>3 DEF Send, AgentsTyped
    <2> QED
      BY <1>1, <1>2, <2>4 DEF Send, presence, RowsTyped, RunsTyped, TasksTyped, LeftTyped, Unassigned
  <1>3. CASE Lapse(h)
    BY <1>1, <1>3 DEF Lapse, AgentsTyped, RowsTyped, RunsTyped, TasksTyped, LeftTyped, Unassigned, Reports
  <1>4. ASSUME NEW m \in mail[h],
               Reject(h, m) \/ Heartbeat(h, m) \/ HeartbeatCheck(h, m) \/ HeartbeatRelease(h, m)
                   \/ Ping(h, m) \/ MarkOffline(h, m) \/ UninstallAgent(h, m)
        PROVE  PresenceInv'
    <2>1. m \in Mail /\ m.report \in Reports
      <3>1. m \in Mail
        BY DEF AgentsTyped
      <3> QED
        BY <3>1 DEF Mail, Reports
    <2>2. \A k \in {"stored", "granted"} : [kind |-> k, report |-> "none"] \in Mail
      BY DEF Mail
    <2>3. AgentsTyped'
      <3>1. mail' \in [Host -> SUBSET Mail]
        <4>1. \E S \in SUBSET Mail : mail' = [mail EXCEPT ![h] = S]
          <5>1. /\ mail[h] \ {m} \in SUBSET Mail
                /\ (mail[h] \ {m}) \cup {[kind |-> "stored", report |-> "none"]} \in SUBSET Mail
                /\ (mail[h] \ {m}) \cup {[kind |-> "granted", report |-> "none"]} \in SUBSET Mail
            BY <2>2 DEF AgentsTyped
          <5> QED
            BY <1>4, <5>1 DEF Reject, Heartbeat, HeartbeatCheck, HeartbeatRelease, Ping,
               MarkOffline, UninstallAgent, Handled
        <4> QED
          BY <4>1 DEF AgentsTyped
      <3>2. agents' \subseteq agents
        BY <1>4 DEF Reject, Heartbeat, HeartbeatCheck, HeartbeatRelease, Ping, MarkOffline, UninstallAgent
      <3> QED
        BY <1>1, <3>1, <3>2 DEF AgentsTyped
    <2>4. RowsTyped'
      <3>1. known' \subseteq known
        BY <1>4 DEF Reject, Heartbeat, HeartbeatCheck, HeartbeatRelease, Ping, MarkOffline, UninstallAgent, presence
      <3>2. status' \in [Host -> Statuses]
        BY <1>4 DEF Reject, Heartbeat, HeartbeatCheck, HeartbeatRelease, Ping, MarkOffline, UninstallAgent,
           presence, RowsTyped, Statuses
      <3>3. report' \in [Host -> Reports]
        BY <1>4, <2>1 DEF Reject, Heartbeat, HeartbeatCheck, HeartbeatRelease, Ping, MarkOffline, UninstallAgent,
           presence, RowsTyped
      <3> QED
        BY <3>1, <3>2, <3>3 DEF RowsTyped
    <2>5. CASE Release(h)
      BY <1>1, <2>3, <2>4, <2>5, ReleaseOne DEF TasksTyped, LeftTyped
    <2>6. CASE assignment' = assignment
      BY <1>1, <2>3, <2>4, <2>6 DEF RunsTyped, Unassigned, TasksTyped, LeftTyped
    <2> QED
      BY <1>4, <2>5, <2>6 DEF Reject, Heartbeat, HeartbeatCheck, HeartbeatRelease, Ping, MarkOffline, UninstallAgent
  <1> QED
    BY <1>1, <1>2, <1>3, <1>4 DEF Agent

\* A sweep stores what it found and releases whom it has reached.
LEMMA SweepPresence ==
    ASSUME PresenceInv, NEW p \in Pinger, Sweep(p)
    PROVE  PresenceInv'
  <1> USE DEF PresenceInv
  <1>1. UNCHANGED <<machine, agents, mail, known, report, creating, diagnosis, left>>
    BY DEF Sweep, SweepBegin, SweepProbe, SweepRecord, SweepVisit, presence
  <1>2. sweep[p] \in SweepRecordSet
    BY DEF TasksTyped
  <1>3. \A next \in SweepRecordSet : AtSweep(p, next) => TasksTyped'
    BY <1>1 DEF AtSweep, TasksTyped
  <1>4. IdleSweep \in SweepRecordSet
    BY DEF IdleSweep, SweepRecordSet
  <1>5. TasksTyped'
    <2>1. CASE SweepBegin(p)
      <3> DEFINE next == [stage |-> "probing", reached |-> {}, left |-> {},
                          read |-> [h \in Host |-> IF h \in known THEN status[h] ELSE "absent"]]
      <3>1. [h \in Host |-> IF h \in known THEN status[h] ELSE "absent"]
               \in [Host -> Statuses \cup {"absent"}]
        BY DEF RowsTyped
      <3>2. next \in SweepRecordSet
        BY <3>1 DEF SweepRecordSet
      <3> QED
        BY <1>3, <2>1, <3>2 DEF SweepBegin
    <2>2. CASE SweepProbe(p)
      <3> DEFINE reached == {h \in Rows(p) : Answers(h)}
                 next    == [sweep[p] EXCEPT !.stage = "recording", !.reached = reached]
      <3>1. reached \in SUBSET Host
        BY DEF Rows
      <3> HIDE DEF reached
      <3>2. next \in SweepRecordSet
        BY <1>2, <3>1 DEF SweepRecordSet
      <3> QED
        BY <1>3, <2>2, <3>2 DEF SweepProbe, reached
    <2>3. CASE SweepRecord(p)
      <3> DEFINE next == [sweep[p] EXCEPT !.stage = "releasing", !.left = ToVisit(p)]
      <3>1. ToVisit(p) \in SUBSET Host
        BY DEF ToVisit, Rows
      <3>2. next \in SweepRecordSet
        BY <1>2, <3>1 DEF SweepRecordSet
      <3>3. AtSweep(p, next) \/ AtSweep(p, IdleSweep)
        BY <2>3 DEF SweepRecord
      <3> QED
        BY <1>3, <1>4, <3>2, <3>3
    <2>4. CASE SweepVisit(p)
      <3>1. \A h \in Host : [sweep[p] EXCEPT !.left = @ \ {h}] \in SweepRecordSet
        BY <1>2 DEF SweepRecordSet
      <3>2. AtSweep(p, IdleSweep) \/ \E h \in Host : AtSweep(p, [sweep[p] EXCEPT !.left = @ \ {h}])
        BY <2>4 DEF SweepVisit, RowsTyped
      <3> QED
        BY <1>3, <1>4, <3>1, <3>2
    <2> QED
      BY <2>1, <2>2, <2>3, <2>4 DEF Sweep
  <1>6. RowsTyped'
    <2>1. CASE SweepRecord(p)
      <3>1. status' \in [Host -> Statuses]
        BY <2>1 DEF SweepRecord, Record, OrmWrite, Found, RowsTyped, Statuses
      <3> QED
        BY <1>1, <3>1 DEF RowsTyped
    <2>2. CASE ~SweepRecord(p)
      BY <1>1, <2>2 DEF Sweep, SweepBegin, SweepProbe, SweepVisit, presence, RowsTyped
    <2> QED
      BY <2>1, <2>2
  <1>7. RunsTyped' /\ Unassigned'
    <2>1. assignment' = assignment \/ \E h \in Host : Release(h)
      BY DEF Sweep, SweepBegin, SweepProbe, SweepRecord, SweepVisit, RowsTyped
    <2>2. CASE assignment' = assignment
      BY <1>1, <2>2 DEF RunsTyped, Unassigned
    <2>3. ASSUME NEW h \in Host, Release(h)
          PROVE  RunsTyped' /\ Unassigned'
      BY <1>1, <2>3, ReleaseOne
    <2> QED
      BY <2>1, <2>2, <2>3
  <1> QED
    BY <1>1, <1>5, <1>6, <1>7 DEF AgentsTyped, LeftTyped

\* A diagnosis and the requests of the users.
LEMMA OtherPresence ==
    ASSUME PresenceInv, NEW h \in Host,
           \/ Machine(h) \/ DiagnosisBegin(h) \/ Delete(h) \/ DiagnosisProbe \/ DiagnosisRecord
           \/ AssignBegin(h) \/ AssignCommit(h) \/ Execute(h)
    PROVE  PresenceInv'
  <1> USE DEF PresenceInv
  <1>1. CASE Machine(h) \/ Delete(h)
    <2>1. LeftTyped'
      BY <1>1, SpendTyped DEF Machine, Delete
    <2>2. AgentsTyped'
      BY <1>1 DEF Machine, Delete, AgentsTyped
    <2>3. RowsTyped'
      BY <1>1 DEF Machine, Delete, presence, RowsTyped
    <2> QED
      BY <1>1, <2>1, <2>2, <2>3 DEF Machine, Delete, tasks, RunsTyped, TasksTyped, Unassigned
  <1>2. CASE DiagnosisBegin(h) \/ DiagnosisProbe \/ DiagnosisRecord
    <2>1. LeftTyped'
      BY <1>2, SpendTyped DEF DiagnosisBegin, DiagnosisProbe, DiagnosisRecord, LeftTyped
    <2>2. diagnosis' \in DiagnosisRecordSet /\ sweep' = sweep
      <3>1. CASE DiagnosisBegin(h)
        BY <3>1 DEF DiagnosisBegin, DiagnosisRecordSet
      <3>2. CASE DiagnosisProbe
        <4> DEFINE reached == Answers(diagnosis.host)
        <4>1. reached \in BOOLEAN
          BY DEF Answers
        <4>2. diagnosis' = [diagnosis EXCEPT !.stage = "recording", !.reached = reached]
          BY <3>2 DEF DiagnosisProbe
        <4> HIDE DEF reached
        <4>3. diagnosis' \in DiagnosisRecordSet
          BY <4>1, <4>2 DEF TasksTyped, DiagnosisRecordSet
        <4> QED
          BY <3>2, <4>3 DEF DiagnosisProbe
      <3>3. CASE DiagnosisRecord
        BY <3>3 DEF DiagnosisRecord, IdleDiagnosis, DiagnosisRecordSet
      <3> QED
        BY <1>2, <3>1, <3>2, <3>3
    <2>3. RowsTyped'
      BY <1>2 DEF DiagnosisBegin, DiagnosisProbe, DiagnosisRecord, presence, RowsTyped, Statuses
    <2> QED
      BY <1>2, <2>1, <2>2, <2>3 DEF DiagnosisBegin, DiagnosisProbe, DiagnosisRecord, AgentsTyped,
         RunsTyped, TasksTyped, Unassigned
  <1>3. CASE AssignBegin(h) \/ AssignCommit(h) \/ Execute(h)
    <2>1. UNCHANGED <<machine, agents, mail, known, status, report, sweep, diagnosis, left>>
      BY <1>3 DEF AssignBegin, AssignCommit, Execute, presence, tasks
    <2>2. RunsTyped' /\ Unassigned'
      <3>1. CASE AssignBegin(h)
        BY <3>1 DEF AssignBegin, RunsTyped, Unassigned
      <3>2. CASE AssignCommit(h)
        BY <3>2 DEF AssignCommit, RunsTyped, Unassigned
      <3>3. CASE Execute(h)
        BY <3>3 DEF Execute, RunsTyped, Unassigned
      <3> QED
        BY <1>3, <3>1, <3>2, <3>3
    <2> QED
      BY <2>1, <2>2 DEF AgentsTyped, RowsTyped, TasksTyped, LeftTyped
  <1> QED
    BY <1>1, <1>2, <1>3

LEMMA NextPresence ==
    ASSUME PresenceInv, [Next]_vars, Host # {}
    PROVE  PresenceInv'
  <1>1. CASE UNCHANGED vars
    BY <1>1 DEF vars, PresenceInv, AgentsTyped, RowsTyped, RunsTyped, TasksTyped, LeftTyped, Unassigned
  <1>2. ASSUME NEW h \in Host, Agent(h)
        PROVE  PresenceInv'
    BY <1>2, AgentPresence
  <1>3. ASSUME NEW p \in Pinger, Sweep(p)
        PROVE  PresenceInv'
    BY <1>3, SweepPresence
  <1>4. ASSUME NEW h \in Host,
               \/ Machine(h) \/ DiagnosisBegin(h) \/ Delete(h) \/ DiagnosisProbe \/ DiagnosisRecord
               \/ AssignBegin(h) \/ AssignCommit(h) \/ Execute(h)
        PROVE  PresenceInv'
    BY <1>4, OtherPresence
  <1> QED
    BY <1>1, <1>2, <1>3, <1>4 DEF Next

LEMMA InitPresence ==
    ASSUME Init, Host # {}
    PROVE  PresenceInv
  <1>1. sweep \in [Pinger -> SweepRecordSet]
    BY DEF Init, IdleSweep, SweepRecordSet
  <1>2. diagnosis \in DiagnosisRecordSet
    BY DEF Init, IdleDiagnosis, DiagnosisRecordSet
  <1>3. AgentsTyped /\ RowsTyped /\ RunsTyped /\ Unassigned
    BY DEF Init, AgentsTyped, RowsTyped, RunsTyped, Unassigned, Statuses, Reports
  <1>4. LeftTyped
    BY BoundsAssumption DEF Init, LeftTyped
  <1> QED
    BY <1>1, <1>2, <1>3, <1>4 DEF PresenceInv, TasksTyped

\* Rows, reports, sweeps and diagnoses are what their columns and tasks hold,
\* and no run assigns a host twice.
THEOREM PresenceTyped ==
    ASSUME Host # {}
    PROVE  Spec => [](TypeOK /\ Unassigned)
  <1>1. PresenceInv => TypeOK /\ Unassigned
    BY PresenceIsTypeOK DEF PresenceInv
  <1>2. Init => PresenceInv
    BY InitPresence
  <1>3. PresenceInv /\ [Next]_vars => PresenceInv'
    BY NextPresence
  <1> QED
    BY <1>1, <1>2, <1>3, PTL DEF Spec

-----------------------------------------------------------------------------
(***************************************************************************)
(* Devices: the journal and the alarms of one PC.  MaxTime and MaxUpdates  *)
(* bound nothing but how long it is watched; what a category asks for may  *)
(* be any number of ticks (CONFIRM_AFTER).                                 *)
(***************************************************************************)
CONSTANTS Device, Category, Wait, Drive, MaxTime, MaxUpdates

VARIABLES now, plugged, usage, agent, row, journal, alarms, streak, quiet

Journal == INSTANCE Devices

TicksAssumption ==
    /\ MaxTime \in Nat \ {0} /\ MaxUpdates \in Nat
    /\ \A d \in Device : Wait[Category[d]] \in Nat

Entry     == [present : BOOLEAN, since : Journal!Times]
Streak    == [seen : BOOLEAN, since : Journal!Times]
RowRecord == [reported : BOOLEAN, snapshot : SUBSET Device, version : Journal!Versions,
              state : [Device -> Entry], alarmed : SUBSET Drive]

DriveTyped ==
    /\ usage \in [Drive -> Journal!Usages] /\ quiet \subseteq Drive /\ alarms \subseteq Drive
DeviceTyped ==
    /\ now \in 1..MaxTime /\ plugged \subseteq Device /\ agent \in Journal!Versions \ {0}
    /\ row \in RowRecord /\ streak \in [Device -> Streak]
    /\ journal \subseteq Device \X {"added", "removed"}

\* An entry that counts has been shown by every snapshot for as long as it
\* counts.
Counts(entry, shownAs) ==
    entry.since # Journal!Never =>
        shownAs.seen # entry.present /\ shownAs.since <= entry.since
StreaksHold == \A d \in Device : streak[d].since <= now /\ Counts(row.state[d], streak[d])

\* A drive without an alarm has been seen with space, or not at all, since its
\* last one.
QuietHold == Drive \ row.alarmed \subseteq quiet

JournalInv == DeviceTyped /\ DriveTyped /\ StreaksHold /\ QuietHold

LEMMA TickFacts ==
    ASSUME TicksAssumption
    PROVE  /\ Journal!Times \subseteq Nat /\ Journal!Never \in Journal!Times /\ Journal!Never = 0
           /\ 1..MaxTime \subseteq Journal!Times \ {0}
           /\ \A n \in 1..MaxTime : n \in Nat /\ n # 0
  BY DEF TicksAssumption, Journal!Times, Journal!Never

\* What a snapshot makes of one entry: it begins to count now, goes on, or
\* stops, and only one that has counted long enough is confirmed.
LEMMA ObservedOne ==
    ASSUME TicksAssumption, NEW d \in Device, NEW seen \in SUBSET Device, NEW entry \in Entry,
           now \in 1..MaxTime
    PROVE  /\ Journal!Observed(d, seen, entry) \in Entry
           /\ Category[d] \in Journal!Blind(seen) => Journal!Observed(d, seen, entry) = entry
           /\ Category[d] \notin Journal!Blind(seen) =>
                 \/ Journal!Observed(d, seen, entry).since = Journal!Never
                 \/ /\ Journal!Observed(d, seen, entry).present # (d \in seen)
                    /\ entry.present # (d \in seen)
                    /\ \/ Journal!Observed(d, seen, entry).since = now
                       \/ Journal!Observed(d, seen, entry) = entry
  <1> DEFINE after == Journal!Observed(d, seen, entry)
  <1>1. Journal!Never \in Journal!Times /\ now \in Journal!Times
    BY TickFacts
  <1>2. CASE Category[d] \in Journal!Blind(seen)
    BY <1>2 DEF Journal!Observed
  <1>3. CASE Category[d] \notin Journal!Blind(seen) /\ (d \in seen) = entry.present
    <2>1. after = [entry EXCEPT !.since = Journal!Never]
      BY <1>3 DEF Journal!Observed
    <2>2. after \in Entry /\ after.since = Journal!Never
      BY <1>1, <2>1 DEF Entry
    <2> QED
      BY <1>3, <2>2
  <1>4. CASE Category[d] \notin Journal!Blind(seen) /\ (d \in seen) # entry.present
    <2>1. entry.present \in BOOLEAN /\ entry.present # (d \in seen)
      BY <1>4 DEF Entry
    <2>2. CASE Journal!Confirmed(d, seen, entry)
      <3>1. after = [present |-> d \in seen, since |-> Journal!Never]
        BY <1>4, <2>2 DEF Journal!Observed
      <3>2. after \in Entry /\ after.since = Journal!Never
        BY <1>1, <3>1 DEF Entry
      <3> QED
        BY <1>4, <3>2
    <2>3. CASE ~Journal!Confirmed(d, seen, entry) /\ entry.since = Journal!Never
      <3>1. after = [entry EXCEPT !.since = now]
        BY <1>4, <2>3 DEF Journal!Observed
      <3>2. after \in Entry /\ after.since = now /\ after.present = entry.present
        BY <1>1, <3>1 DEF Entry
      <3> QED
        BY <1>4, <2>1, <3>2
    <2>4. CASE ~Journal!Confirmed(d, seen, entry) /\ entry.since # Journal!Never
      <3>1. after = entry
        BY <1>4, <2>4 DEF Journal!Observed
      <3> QED
        BY <1>4, <2>1, <3>1
    <2> QED
      BY <2>2, <2>3, <2>4
  <1> QED
    BY <1>2, <1>3, <1>4

\* Taking the entries of new categories from the snapshot makes none count.
LEMMA SeededOne ==
    ASSUME TicksAssumption, DeviceTyped, StreaksHold, NEW d \in Device
    PROVE  Journal!Seeded[d] \in Entry /\ Counts(Journal!Seeded[d], streak[d])
  <1> DEFINE tracked == {Category[f] : f \in {e \in Device : Journal!Kept(row.state[e])}}
             taken == [present |-> TRUE, since |-> Journal!Never]
  <1>1. row.state[d] \in Entry /\ Counts(row.state[d], streak[d])
    BY DEF DeviceTyped, RowRecord, StreaksHold
  <1>2. taken \in Entry /\ Counts(taken, streak[d])
    BY TickFacts DEF Entry, Counts
  <1>3. Journal!Seeded[d] = IF d \in row.snapshot /\ Category[d] \notin tracked THEN taken ELSE row.state[d]
    BY DEF Journal!Seeded
  <1> HIDE DEF tracked, taken
  <1> QED
    BY <1>1, <1>2, <1>3

\* A snapshot that is compared with the one before leaves each entry and its
\* streak in step, and confirms only what its streak has shown long enough.
LEMMA ComparedOne ==
    ASSUME TicksAssumption, DeviceTyped, StreaksHold, NEW d \in Device, NEW seen \in SUBSET Device,
           ~Journal!Baseline
    PROVE  LET from  == Journal!Seeded[d]
               after == Journal!Observed(d, seen, from)
               noted == Journal!Noted(seen)[d]
           IN  /\ after \in Entry /\ noted \in Streak /\ noted.since <= now
               /\ Counts(after, noted)
               /\ Journal!Confirmed(d, seen, from) =>
                     noted.seen = (d \in seen) /\ now - noted.since >= Wait[Category[d]]
  <1> DEFINE from  == Journal!Seeded[d]
             after == Journal!Observed(d, seen, from)
             noted == Journal!Noted(seen)[d]
             new   == [seen |-> d \in seen, since |-> now]
  <1>1. from \in Entry /\ Counts(from, streak[d])
    BY SeededOne
  <1>2. now \in 1..MaxTime /\ now \in Journal!Times /\ now \in Nat
    BY TickFacts DEF DeviceTyped
  <1>3. /\ after \in Entry
        /\ Category[d] \in Journal!Blind(seen) => after = from
        /\ Category[d] \notin Journal!Blind(seen) =>
              \/ after.since = Journal!Never
              \/ /\ after.present # (d \in seen) /\ from.present # (d \in seen)
                 /\ after.since = now \/ after = from
    BY <1>1, <1>2, ObservedOne
  <1>4. noted = IF Category[d] \in Journal!Blind(seen) \/ streak[d].seen = (d \in seen)
                THEN streak[d] ELSE new
    BY DEF Journal!Noted
  <1>5. streak[d] \in Streak /\ streak[d].since <= now /\ streak[d].since \in Nat
        /\ streak[d].seen \in BOOLEAN
    <2>1. streak[d] \in Streak
      BY DEF DeviceTyped
    <2>2. streak[d].since \in Journal!Times /\ streak[d].seen \in BOOLEAN
      BY <2>1 DEF Streak
    <2> QED
      BY <2>1, <2>2, TickFacts DEF StreaksHold
  <1>6. new \in Streak /\ new.since = now /\ new.seen = (d \in seen)
    BY <1>2 DEF Streak
  <1>7. from.present \in BOOLEAN /\ from.since \in Nat /\ after.since \in Nat
    <2>1. from.since \in Journal!Times /\ after.since \in Journal!Times /\ from.present \in BOOLEAN
      BY <1>1, <1>3 DEF Entry
    <2> QED
      BY <2>1, TickFacts
  <1>8. Journal!Confirmed(d, seen, from) =>
           /\ Category[d] \notin Journal!Blind(seen) /\ (d \in seen) # from.present
           /\ from.since # Journal!Never /\ now - from.since >= Wait[Category[d]]
    BY DEF Journal!Confirmed
  <1> HIDE DEF from, after, noted, new
  <1>9. noted \in Streak /\ noted.since <= now
    BY <1>2, <1>4, <1>5, <1>6
  <1>10. Counts(after, noted)
    <2>1. CASE Category[d] \in Journal!Blind(seen)
      BY <1>1, <1>3, <1>4, <2>1
    <2>2. CASE Category[d] \notin Journal!Blind(seen) /\ after.since = Journal!Never
      BY <2>2 DEF Counts
    <2>3. CASE /\ Category[d] \notin Journal!Blind(seen) /\ after.since # Journal!Never
               /\ after.since = now
      <3>1. noted.seen = (d \in seen)
        BY <1>4, <1>6, <2>3
      <3>2. after.present # (d \in seen)
        BY <1>3, <2>3
      <3>3. noted.seen # after.present
        BY <3>1, <3>2
      <3> QED
        BY <1>9, <2>3, <3>3 DEF Counts
    <2>4. CASE Category[d] \notin Journal!Blind(seen) /\ after.since # Journal!Never /\ after = from
      <3>1. streak[d].seen = (d \in seen)
        <4>1. streak[d].seen # from.present
          BY <1>1, <2>4 DEF Counts
        <4>2. from.present # (d \in seen)
          BY <1>3, <2>4
        <4> QED
          BY <1>5, <1>7, <4>1, <4>2
      <3>2. noted = streak[d]
        BY <1>4, <3>1
      <3> QED
        BY <1>1, <2>4, <3>2
    <2> QED
      BY <1>3, <2>1, <2>2, <2>3, <2>4
  <1>11. ASSUME Journal!Confirmed(d, seen, from)
         PROVE  noted.seen = (d \in seen) /\ now - noted.since >= Wait[Category[d]]
    <2>1. streak[d].seen = (d \in seen) /\ streak[d].since <= from.since
      <3>1. streak[d].seen # from.present /\ streak[d].since <= from.since
        BY <1>1, <1>8, <1>11 DEF Counts
      <3>2. from.present # (d \in seen)
        BY <1>8, <1>11
      <3> QED
        BY <1>5, <1>7, <3>1, <3>2
    <2>2. noted = streak[d]
      BY <1>4, <2>1
    <2>3. now - from.since >= Wait[Category[d]] /\ Wait[Category[d]] \in Nat
      BY <1>8, <1>11 DEF TicksAssumption
    <2> QED
      BY <1>2, <1>5, <1>7, <2>1, <2>2, <2>3
  <1> QED
    BY <1>3, <1>9, <1>10, <1>11 DEF from, after, noted

\* A heartbeat keeps the journal in step and makes only entries that are true.
LEMMA HeartbeatKeepsStreaks ==
    ASSUME TicksAssumption, JournalInv, NEW collected \in BOOLEAN, NEW listed \in BOOLEAN,
           NEW seen \in SUBSET Device, NEW drives \in SUBSET Drive,
           Journal!Heartbeat(collected, seen, listed, drives)
    PROVE  /\ DeviceTyped' /\ StreaksHold'
           /\ \A e \in journal' : /\ streak'[e[1]].seen = (e[2] = "added")
                                  /\ now - streak'[e[1]].since >= Wait[Category[e[1]]]
  <1> USE DEF JournalInv
  <1>1. /\ UNCHANGED <<now, plugged, usage, agent>>
        /\ row'.reported = (row.reported \/ collected)
        /\ row'.snapshot = IF collected THEN seen ELSE row.snapshot
        /\ row'.version = agent
        /\ row'.state = IF collected THEN Journal!NextState(seen) ELSE row.state
        /\ row'.alarmed = IF listed THEN Journal!Alarmed(drives) ELSE row.alarmed
        /\ journal' = IF collected THEN Journal!Entries(seen) ELSE {}
        /\ streak' = IF collected THEN Journal!Noted(seen) ELSE streak
    BY DEF Journal!Heartbeat
  <1>2. row' \in RowRecord <=> row'.state \in [Device -> Entry]
    <2> DEFINE state   == IF collected THEN Journal!NextState(seen) ELSE row.state
               alarmed == IF listed THEN Journal!Alarmed(drives) ELSE row.alarmed
               reported == row.reported \/ collected
               snapshot == IF collected THEN seen ELSE row.snapshot
    <2>1. row' = [reported |-> reported, snapshot |-> snapshot, version |-> agent,
                  state |-> state, alarmed |-> alarmed]
      BY DEF Journal!Heartbeat
    <2>2. reported \in BOOLEAN /\ snapshot \in SUBSET Device /\ agent \in Journal!Versions
      BY DEF DeviceTyped, RowRecord
    <2>3. alarmed \in SUBSET Drive
      <3>1. Journal!Alarmed(drives) \subseteq drives
        BY DEF Journal!Alarmed, Journal!Full
      <3>2. row.alarmed \in SUBSET Drive
        BY DEF DeviceTyped, RowRecord
      <3> QED
        BY <3>1, <3>2
    <2> HIDE DEF state, alarmed, reported, snapshot
    <2>4. row'.state = state
      BY <2>1
    <2> QED
      BY <2>1, <2>2, <2>3, <2>4 DEF RowRecord
  <1>3. now \in 1..MaxTime /\ now \in Journal!Times /\ now \in Nat
    BY TickFacts DEF DeviceTyped
  <1>4. CASE ~collected
    <2>1. row'.state = row.state /\ streak' = streak /\ journal' = {} /\ row.state \in [Device -> Entry]
      BY <1>1, <1>4 DEF DeviceTyped, RowRecord
    <2> QED
      BY <1>1, <1>2, <2>1 DEF DeviceTyped, StreaksHold
  <1>5. CASE collected /\ Journal!Baseline
    <2>1. /\ row'.state = Journal!Taken(seen) /\ journal' = {}
          /\ streak' = [d \in Device |-> [seen |-> d \in seen, since |-> now]]
      BY <1>1, <1>5 DEF Journal!NextState, Journal!Entries, Journal!Noted
    <2>2. row'.state \in [Device -> Entry] /\ \A d \in Device : row'.state[d].since = Journal!Never
      BY <2>1, TickFacts DEF Journal!Taken, Entry
    <2>3. streak' \in [Device -> Streak] /\ \A d \in Device : streak'[d].since = now
      BY <1>3, <2>1 DEF Streak
    <2> QED
      BY <1>1, <1>2, <1>3, <2>1, <2>2, <2>3 DEF DeviceTyped, StreaksHold, Counts
  <1>6. CASE collected /\ ~Journal!Baseline
    <2>1. /\ row'.state = [d \in Device |-> Journal!Observed(d, seen, Journal!Seeded[d])]
          /\ journal' = {<<d, IF d \in seen THEN "added" ELSE "removed">> :
                            d \in {e \in Device : Journal!Confirmed(e, seen, Journal!Seeded[e])}}
          /\ streak' = Journal!Noted(seen)
      BY <1>1, <1>6 DEF Journal!NextState, Journal!Entries
    <2>2. ASSUME NEW d \in Device
          PROVE  /\ row'.state[d] \in Entry /\ streak'[d] \in Streak /\ streak'[d].since <= now
                 /\ Counts(row'.state[d], streak'[d])
                 /\ Journal!Confirmed(d, seen, Journal!Seeded[d]) =>
                       streak'[d].seen = (d \in seen) /\ now - streak'[d].since >= Wait[Category[d]]
      BY <1>6, <2>1, ComparedOne
    <2>3. streak' = [d \in Device |-> streak'[d]]
      BY <2>1 DEF Journal!Noted
    <2>4. row'.state \in [Device -> Entry] /\ streak' \in [Device -> Streak]
      BY <2>1, <2>2, <2>3
    <2>5. journal' \subseteq Device \X {"added", "removed"}
      BY <2>1
    <2>6. DeviceTyped' /\ StreaksHold'
      BY <1>1, <1>2, <2>2, <2>4, <2>5 DEF DeviceTyped, StreaksHold, Counts
    <2>7. ASSUME NEW e \in journal'
          PROVE  /\ streak'[e[1]].seen = (e[2] = "added")
                 /\ now - streak'[e[1]].since >= Wait[Category[e[1]]]
      <3>1. PICK d \in Device : /\ Journal!Confirmed(d, seen, Journal!Seeded[d])
                                /\ e = <<d, IF d \in seen THEN "added" ELSE "removed">>
        BY <2>1
      <3>2. e[1] = d /\ (e[2] = "added") = (d \in seen)
        BY <3>1
      <3> QED
        BY <2>2, <3>1, <3>2
    <2> QED
      BY <2>6, <2>7
  <1> QED
    BY <1>4, <1>5, <1>6

\* An alert is raised only about a drive without an alarm, so about a quiet one.
LEMMA HeartbeatKeepsQuiet ==
    ASSUME JournalInv, NEW collected \in BOOLEAN, NEW listed \in BOOLEAN,
           NEW seen \in SUBSET Device, NEW drives \in SUBSET Drive,
           Journal!Heartbeat(collected, seen, listed, drives)
    PROVE  DriveTyped' /\ QuietHold' /\ alarms' \subseteq quiet
  <1>1. /\ usage' = usage
        /\ row'.alarmed = IF listed THEN Journal!Alarmed(drives) ELSE row.alarmed
        /\ alarms' = IF listed THEN Journal!Alerts(drives) ELSE {}
        /\ quiet' = (quiet \ alarms') \cup
              (IF listed THEN {v \in Drive : v \notin drives \/ usage[v] = "free"} ELSE {})
    BY DEF Journal!Heartbeat
  <1>2. /\ quiet \subseteq Drive /\ usage \in [Drive -> Journal!Usages]
        /\ \A v \in Drive : v \in row.alarmed \/ v \in quiet
    BY DEF JournalInv, DriveTyped, QuietHold
  <1>3. \A v \in Drive : usage[v] \in {"free", "tight", "full"}
    BY <1>2 DEF Journal!Usages
  <1>4. CASE listed
    <2>1. /\ alarms' = {v \in drives : usage[v] = "full"} \ row.alarmed
          /\ row'.alarmed = {v \in drives : usage[v] = "full"}
                               \cup {v \in drives \cap row.alarmed : usage[v] = "tight"}
          /\ quiet' = (quiet \ alarms') \cup {v \in Drive : v \notin drives \/ usage[v] = "free"}
      BY <1>1, <1>4 DEF Journal!Alerts, Journal!Alarmed, Journal!Full
    <2>2. alarms' \subseteq quiet /\ alarms' \subseteq Drive
      BY <1>2, <2>1
    <2>3. \A v \in Drive : v \in row'.alarmed \/ v \in quiet'
      BY <1>2, <1>3, <2>1
    <2>4. quiet' \subseteq Drive
      BY <1>2, <2>1
    <2> QED
      BY <1>1, <1>2, <2>2, <2>3, <2>4 DEF DriveTyped, QuietHold
  <1>5. CASE ~listed
    BY <1>1, <1>2, <1>5 DEF DriveTyped, QuietHold
  <1> QED
    BY <1>4, <1>5

\* What a step tells, in a state of the system.
EntriesAreTrue ==
    \A e \in journal' : /\ streak'[e[1]].seen = (e[2] = "added")
                        /\ now - streak'[e[1]].since >= Wait[Category[e[1]]]

LEMMA NextJournal ==
    ASSUME TicksAssumption, JournalInv, [Journal!Next]_(Journal!vars)
    PROVE  /\ JournalInv'
           /\ [EntriesAreTrue]_(Journal!vars) /\ [alarms' \subseteq quiet]_(Journal!vars)
  <1> USE DEF JournalInv
  <1>1. ASSUME NEW collected \in BOOLEAN, NEW listed \in BOOLEAN,
               NEW seen \in (SUBSET plugged) \cup {{}}, NEW drives \in (SUBSET Drive) \cup {{}},
               Journal!Heartbeat(collected, seen, listed, drives)
        PROVE  JournalInv' /\ EntriesAreTrue /\ alarms' \subseteq quiet
    <2>1. seen \in SUBSET Device /\ drives \in SUBSET Drive
      BY DEF DeviceTyped
    <2> QED
      BY <1>1, <2>1, HeartbeatKeepsStreaks, HeartbeatKeepsQuiet DEF EntriesAreTrue
  <1>2. ASSUME \/ Journal!Pass \/ Journal!UpdateAgent
               \/ \E d \in Device : Journal!Plug(d)
               \/ \E v \in Drive, u \in Journal!Usages : Journal!Fill(v, u)
        PROVE  JournalInv' /\ EntriesAreTrue /\ alarms' \subseteq quiet
    <2>1. /\ journal' = {} /\ alarms' = {} /\ UNCHANGED <<row, streak, quiet>>
          /\ now' = now \/ Journal!Pass
      BY <1>2 DEF Journal!Pass, Journal!UpdateAgent, Journal!Plug, Journal!Fill, Journal!NoEntries
    <2>2. now' \in 1..MaxTime /\ now <= now'
      BY <2>1 DEF Journal!Pass, DeviceTyped, TicksAssumption
    <2>3. plugged' \subseteq Device
      BY <1>2 DEF Journal!Pass, Journal!UpdateAgent, Journal!Plug, Journal!Fill, DeviceTyped
    <2>4. usage' \in [Drive -> Journal!Usages]
      BY <1>2 DEF Journal!Pass, Journal!UpdateAgent, Journal!Plug, Journal!Fill, DriveTyped
    <2>5. agent' \in Journal!Versions \ {0}
      BY <1>2 DEF Journal!Pass, Journal!UpdateAgent, Journal!Plug, Journal!Fill, DeviceTyped,
         Journal!Versions, TicksAssumption
    <2>6. \A d \in Device : streak[d].since \in Nat
      <3>1. ASSUME NEW d \in Device
            PROVE  streak[d].since \in Journal!Times
        BY DEF DeviceTyped, Streak
      <3> QED
        BY <3>1, TickFacts
    <2>7. now \in Nat /\ now' \in Nat
      BY <2>2, TickFacts DEF DeviceTyped
    <2>8. StreaksHold'
      BY <2>1, <2>2, <2>6, <2>7 DEF StreaksHold
    <2> QED
      BY <2>1, <2>2, <2>3, <2>4, <2>5, <2>8 DEF DeviceTyped, DriveTyped, QuietHold, EntriesAreTrue
  <1>3. CASE UNCHANGED Journal!vars
    <2>1. UNCHANGED <<now, plugged, usage, agent, row, journal, alarms, streak, quiet>>
      BY <1>3 DEF Journal!vars
    <2> QED
      BY <1>3, <2>1 DEF DeviceTyped, DriveTyped, StreaksHold, QuietHold
  <1> QED
    BY <1>1, <1>2, <1>3 DEF Journal!Next

LEMMA InitJournal ==
    ASSUME TicksAssumption, Journal!Init
    PROVE  JournalInv
  <1>1. now \in 1..MaxTime /\ plugged \in SUBSET Device /\ agent \in Journal!Versions \ {0}
    BY DEF Journal!Init, Journal!Versions, TicksAssumption
  <1>2. row \in RowRecord /\ row.alarmed = {}
        /\ \A d \in Device : row.state[d].since = Journal!Never
    <2>1. CASE row = Journal!NewRow
      BY <2>1, TickFacts DEF Journal!NewRow, Journal!Unknown, RowRecord, Entry, Journal!Versions,
         TicksAssumption
    <2>2. CASE row = Journal!LegacyRow
      <3> DEFINE state == [d \in Device |->
                   [present |-> d \in plugged /\ Category[d] \notin Journal!TrackedInternal,
                    since |-> Journal!Never]]
      <3>1. row = [reported |-> TRUE, snapshot |-> plugged, version |-> agent, state |-> state,
                   alarmed |-> {}]
        BY <2>2 DEF Journal!LegacyRow, Journal!NewRow
      <3>2. state \in [Device -> Entry]
        BY TickFacts DEF Entry
      <3> HIDE DEF state
      <3>3. row \in RowRecord /\ row.alarmed = {} /\ row.state = state
        BY <1>1, <3>1, <3>2 DEF RowRecord
      <3> QED
        BY <3>3 DEF state
    <2> QED
      BY <2>1, <2>2 DEF Journal!Init
  <1>3. row.reported \in BOOLEAN
    BY <1>2 DEF RowRecord
  <1>4. streak = [d \in Device |-> [seen |-> row.reported /\ d \in plugged, since |-> Journal!Never]]
    BY DEF Journal!Init
  <1>5. streak \in [Device -> Streak] /\ \A d \in Device : streak[d].since = Journal!Never
    BY <1>3, <1>4, TickFacts DEF Streak
  <1>6. StreaksHold
    BY <1>1, <1>2, <1>5, TickFacts DEF StreaksHold, Counts
  <1>7. DeviceTyped /\ DriveTyped /\ QuietHold
    BY <1>1, <1>2, <1>5 DEF Journal!Init, DeviceTyped, DriveTyped, QuietHold
  <1> QED
    BY <1>6, <1>7 DEF JournalInv

\* What update_peripherals and check_disks keep between two snapshots - the
\* entries, the streaks of snapshots and the drives that were told of - agree
\* with what the snapshots have shown.
THEOREM JournalInvariant ==
    ASSUME TicksAssumption
    PROVE  Journal!Spec => []JournalInv
  BY InitJournal, NextJournal, PTL DEF Journal!Spec

\* The journal notes only changes that every snapshot has shown for as long as
\* the category asks for: whatever snapshots lack, however the agent is updated
\* and for whatever time the PC is off between them (update_peripherals).
THEOREM EntriesHaveLasted ==
    ASSUME TicksAssumption
    PROVE  Journal!Spec => Journal!ChangeHeld
  <1>1. Journal!ChangeHeld <=> [][EntriesAreTrue]_(Journal!vars)
    BY PTL DEF Journal!ChangeHeld, EntriesAreTrue
  <1>2. JournalInv /\ [Journal!Next]_(Journal!vars) => [EntriesAreTrue]_(Journal!vars)
    BY NextJournal
  <1> QED
    BY <1>1, <1>2, JournalInvariant, PTL DEF Journal!Spec

\* A drive that stays full, or full and tight by turns, raises one alert
\* (check_disks): the next one needs a report that shows it with space, or
\* without it.
THEOREM AlertsAreRaisedOnce ==
    ASSUME TicksAssumption
    PROVE  Journal!Spec => Journal!AlertOnce
  <1>1. JournalInv /\ [Journal!Next]_(Journal!vars) => [alarms' \subseteq quiet]_(Journal!vars)
    BY NextJournal
  <1> QED
    BY <1>1, JournalInvariant, PTL DEF Journal!Spec, Journal!AlertOnce

-----------------------------------------------------------------------------
(***************************************************************************)
(* Power: one task that wakes or restarts PCs, for any PCs, any subnets,   *)
(* and every bound on what happens to the PCs meanwhile.                   *)
(***************************************************************************)
CONSTANTS
    PC, Subnet, NoMac, Choices,
    MaxTurns, \* PCs going on and off
    MaxGone   \* PCs deleted

VARIABLES power, listed, shown, beats, job, wereOn, stayOpen, restarts, rest

Waking == INSTANCE Power WITH
    MaxSwitches <- MaxTurns, MaxDeletes <- MaxGone, status <- shown, left <- rest

WakingBounds == {MaxTurns, MaxGone} \subseteq Nat

JobRecord ==
    [kind : {"none", "wake", "restart"}, state : {"none", "queued", "running", "success", "failed"},
     step : {"none", "begin", "send", "wait", "each"}, pcs : SUBSET PC, todo : SUBSET PC,
     pending : SUBSET PC, round : SUBSET PC, told : [PC -> Waking!Words]]

PCsTyped ==
    /\ power \in [PC -> {"off", "deaf", "open"}]
    /\ listed \subseteq PC /\ beats \subseteq PC /\ wereOn \subseteq PC
    /\ stayOpen \subseteq PC /\ restarts \subseteq PC
    /\ shown \in [PC -> {"online", "busy", "offline"}]
    /\ rest \in [switches : 0..MaxTurns, deletes : 0..MaxGone]

\* What is followed since the packets were sent is what it is called.
Followed ==
    /\ stayOpen \subseteq {c \in PC : power[c] = "open"}
    /\ job.step = "wait" => {c \in PC : Waking!On(c)} \cup beats \subseteq wereOn

\* Until it waits or restarts, a task has told of nobody what only that shows.
NothingYet ==
    job.state = "none" \/ job.step \in {"begin", "send"} =>
        \A c \in PC : job.told[c] \notin {"woken", "silent", "accepted"}

\* A PC that is pending and has had its turn in the round was not open then.
PolledInVain == job.step = "wait" => (job.pending \ job.round) \cap stayOpen = {}

\* Without a task, and after one that went well, there is nothing to do.
Ended == job.state \in {"none", "success"} => job.step = "none"

WakingInv ==
    /\ job \in JobRecord /\ PCsTyped /\ Followed
    /\ NothingYet /\ PolledInVain /\ Ended /\ Waking!LogIsTrue

\* A bounded event takes one from what remains.
LEMMA EventSpent ==
    ASSUME PCsTyped, WakingBounds, NEW kind \in {"switches", "deletes"}, Waking!Spend(kind)
    PROVE  rest' \in [switches : 0..MaxTurns, deletes : 0..MaxGone]
  BY DEF PCsTyped, WakingBounds, Waking!Spend

-----------------------------------------------------------------------------
(* What happens around the task leaves its log true.                       *)

LEMMA AroundTheTask ==
    ASSUME WakingInv, WakingBounds, NEW c \in PC,
           Waking!Switch(c) \/ Waking!Heartbeat(c) \/ Waking!Swept(c) \/ Waking!Delete(c)
    PROVE  WakingInv'
  <1> USE DEF WakingInv
  <1>1. job' = job /\ restarts' = restarts /\ wereOn \subseteq wereOn' /\ stayOpen' \subseteq stayOpen
    BY DEF Waking!Switch, Waking!Heartbeat, Waking!Swept, Waking!Delete, Waking!traceVars
  <1>2. job' \in JobRecord /\ NothingYet' /\ PolledInVain' /\ Ended' /\ Waking!LogIsTrue'
    BY <1>1 DEF NothingYet, PolledInVain, Ended, Waking!LogIsTrue, Waking!Telling
  <1>3. CASE Waking!Switch(c)
    <2>1. PICK p \in {"off", "deaf", "open"} : power' = [power EXCEPT ![c] = p]
      BY <1>3 DEF Waking!Switch
    <2>2. /\ wereOn' = IF job.step = "wait" /\ power'[c] # "off" THEN wereOn \cup {c} ELSE wereOn
          /\ stayOpen' = IF power'[c] = "open" THEN stayOpen ELSE stayOpen \ {c}
          /\ UNCHANGED <<listed, shown, beats, job, restarts>>
      BY <1>3 DEF Waking!Switch, Waking!rowVars
    <2>3. PCsTyped'
      BY <1>3, <2>1, <2>2, EventSpent DEF Waking!Switch, PCsTyped
    <2>4. \A d \in PC \ {c} : power'[d] = power[d]
      BY <2>1 DEF PCsTyped
    <2>5. Followed'
      BY <2>2, <2>4 DEF Followed, Waking!On
    <2> QED
      BY <1>2, <2>3, <2>5
  <1>4. CASE Waking!Heartbeat(c)
    <2>1. PCsTyped'
      BY <1>4 DEF Waking!Heartbeat, Waking!traceVars, PCsTyped
    <2>2. Followed'
      BY <1>4 DEF Waking!Heartbeat, Waking!traceVars, Followed, Waking!On
    <2> QED
      BY <1>2, <2>1, <2>2
  <1>5. CASE Waking!Swept(c)
    <2>1. PICK s \in {"online", "busy", "offline"} : shown' = [shown EXCEPT ![c] = s]
      BY <1>5 DEF Waking!Swept, PCsTyped
    <2>2. PCsTyped' /\ Followed'
      BY <1>5, <2>1 DEF Waking!Swept, Waking!traceVars, PCsTyped, Followed, Waking!On
    <2> QED
      BY <1>2, <2>2
  <1>6. CASE Waking!Delete(c)
    <2>1. PCsTyped' /\ Followed'
      BY <1>6, EventSpent DEF Waking!Delete, Waking!traceVars, PCsTyped, Followed, Waking!On
    <2> QED
      BY <1>2, <2>1
  <1> QED
    BY <1>3, <1>4, <1>5, <1>6

-----------------------------------------------------------------------------
(* The task.                                                               *)

\* A request finds no task, so nothing has been told.
LEMMA TaskBegins ==
    ASSUME WakingInv, NEW pcs, Waking!WakeAsk(pcs) \/ Waking!RestartAsk(pcs)
    PROVE  WakingInv'
  <1> USE DEF WakingInv
  <1>1. UNCHANGED <<power, listed, shown, beats, wereOn, stayOpen, restarts, rest>>
    BY DEF Waking!WakeAsk, Waking!RestartAsk, Waking!rowVars, Waking!traceVars
  <1>2. PICK kind \in {"wake", "restart"}, chosen \in SUBSET PC :
          job' = [Waking!NoJob EXCEPT !.kind = kind, !.state = "queued", !.step = "begin",
                                      !.pcs = chosen]
    <2>1. pcs \cap listed \in SUBSET PC /\ (pcs \subseteq listed => pcs \in SUBSET PC)
      BY DEF PCsTyped
    <2> QED
      BY <2>1 DEF Waking!WakeAsk, Waking!RestartAsk
  <1>3. job' = [kind |-> kind, state |-> "queued", step |-> "begin", pcs |-> chosen, todo |-> {},
                pending |-> {}, round |-> {}, told |-> [c \in PC |-> "nothing"]]
    BY <1>2 DEF Waking!NoJob
  <1>4. job' \in JobRecord
    BY <1>3 DEF JobRecord, Waking!Words
  <1> QED
    BY <1>1, <1>3, <1>4 DEF PCsTyped, Followed, NothingYet, PolledInVain, Ended,
       Waking!LogIsTrue, Waking!Telling, Waking!On

\* The end of a task.
LEMMA EndFields ==
    ASSUME job \in JobRecord, NEW state \in {"success", "failed"}, NEW told \in [PC -> Waking!Words],
           Waking!Ends(state, told)
    PROVE  /\ job' \in JobRecord /\ job'.state = state /\ job'.step = "none"
           /\ job'.pcs = job.pcs /\ job'.told = told
  BY DEF Waking!Ends, JobRecord

\* A task that ends tells what it has told, and of those it has waited for that
\* they are silent; it succeeds only if all of that is good.
LEMMA TaskEnds ==
    ASSUME job \in JobRecord, Waking!LogIsTrue,
           NEW state \in {"success", "failed"}, NEW told \in [PC -> Waking!Words],
           Waking!Ends(state, told), state = "success" => Waking!Verdict(job.pcs, told) = "success",
           \A c \in PC : told[c] = job.told[c] \/ (told[c] = "silent" /\ c \notin stayOpen),
           UNCHANGED <<wereOn, stayOpen, restarts>>
    PROVE  /\ job' \in JobRecord /\ NothingYet' /\ PolledInVain' /\ Ended' /\ Waking!LogIsTrue'
           /\ job'.step # "wait"
  <1>1. /\ job' \in JobRecord /\ job'.state = state /\ job'.step = "none"
        /\ job'.pcs = job.pcs /\ job'.told = told
    BY EndFields
  <1>2. state = "success" => \A c \in job.pcs : told[c] \in Waking!Good
    BY DEF Waking!Verdict
  <1>3. Waking!LogIsTrue'
    <2>1. Waking!Telling("woken")' \subseteq Waking!Telling("woken")
      BY <1>1 DEF Waking!Telling
    <2>2. Waking!Telling("accepted")' \subseteq Waking!Telling("accepted")
      BY <1>1 DEF Waking!Telling
    <2>3. \A c \in Waking!Telling("silent")' : c \in Waking!Telling("silent") \/ c \notin stayOpen
      BY <1>1 DEF Waking!Telling
    <2> QED
      BY <1>1, <1>2, <2>1, <2>2, <2>3 DEF Waking!LogIsTrue
  <1> QED
    BY <1>1, <1>3 DEF NothingYet, PolledInVain, Ended

\* A step that leaves the PCs and their traces alone need only answer for the
\* task, as long as the wait does not begin with it.
LEMMA OnlyTheTask ==
    ASSUME WakingInv, UNCHANGED <<power, listed, shown, beats, wereOn, stayOpen, rest>>,
           restarts' \subseteq PC, job'.step = "wait" => job.step = "wait",
           job' \in JobRecord, NothingYet', PolledInVain', Ended', Waking!LogIsTrue'
    PROVE  WakingInv'
  <1>1. PCsTyped' /\ Followed'
    BY DEF WakingInv, PCsTyped, Followed, Waking!On
  <1> QED
    BY <1>1 DEF WakingInv

\* Until the packets are sent the log tells only what rows and packets are.
LEMMA WakeSends ==
    ASSUME WakingInv, Waking!WakeBegin \/ \E s \in {Subnet[c] : c \in PC} : Waking!WakeSend(s)
    PROVE  WakingInv'
  <1> USE DEF WakingInv
  <1>1. UNCHANGED <<power, listed, shown, beats, wereOn, stayOpen, restarts, rest>>
    BY DEF Waking!WakeBegin, Waking!WakeSend, Waking!rowVars, Waking!traceVars
  <1>2. ASSUME job' \in JobRecord, job'.step = "send", job'.state = "running",
               \A c \in PC : job'.told[c] \notin {"woken", "silent", "accepted"}
        PROVE  WakingInv'
    <2>1. NothingYet' /\ PolledInVain' /\ Ended' /\ Waking!LogIsTrue'
      BY <1>2 DEF NothingYet, PolledInVain, Ended, Waking!LogIsTrue, Waking!Telling
    <2> QED
      BY <1>1, <1>2, <2>1, OnlyTheTask DEF PCsTyped
  <1>3. CASE Waking!WakeBegin
    <2> DEFINE pcs  == job.pcs \cap listed
               told == [c \in PC |-> CASE c \notin pcs -> "nothing"
                                       [] c \in pcs /\ Waking!Online(c) -> "online"
                                       [] c \in pcs /\ ~Waking!Online(c) /\ ~Waking!HasTarget(c) -> "no MAC"
                                       [] OTHER -> "nothing"]
               todo == {c \in pcs : told[c] = "nothing"}
    <2>1. job' = [job EXCEPT !.state = "running", !.step = "send", !.pcs = pcs, !.told = told,
                             !.todo = todo]
      BY <1>3 DEF Waking!WakeBegin
    <2>2. told \in [PC -> {"nothing", "online", "no MAC"}]
      OBVIOUS
    <2>3. pcs \in SUBSET PC /\ todo \in SUBSET PC
      BY DEF PCsTyped
    <2> HIDE DEF pcs, told, todo
    <2>4. told \in [PC -> Waking!Words]
      BY <2>2 DEF Waking!Words
    <2>5. job' \in JobRecord /\ job'.step = "send" /\ job'.state = "running" /\ job'.told = told
      BY <2>1, <2>3, <2>4 DEF JobRecord
    <2> QED
      BY <1>2, <2>2, <2>5
  <1>4. ASSUME NEW s, Waking!WakeSend(s)
        PROVE  WakingInv'
    <2> DEFINE pcs  == {c \in job.todo : Subnet[c] = s}
               told == [c \in PC |-> IF c \in pcs THEN "not sent" ELSE job.told[c]]
    <2>1. job.step = "send" /\ pcs \in SUBSET PC /\ told \in [PC -> Waking!Words]
      BY <1>4 DEF Waking!WakeSend, JobRecord, Waking!Words
    <2>2. \/ job' = [job EXCEPT !.todo = @ \ pcs, !.pending = @ \cup pcs]
          \/ job' = [job EXCEPT !.todo = @ \ pcs, !.told = told]
      BY <1>4 DEF Waking!WakeSend, JobRecord
    <2>3. \A c \in PC : told[c] \in {job.told[c], "not sent"}
      OBVIOUS
    <2> HIDE DEF pcs, told
    <2>4. job' \in JobRecord /\ job'.step = "send" /\ job'.told \in {job.told, told}
      BY <2>1, <2>2 DEF JobRecord
    <2>5. job'.state = job.state
      BY <2>2 DEF JobRecord
    <2>6. \A c \in PC : job'.told[c] \notin {"woken", "silent", "accepted"}
      BY <2>1, <2>3, <2>4 DEF NothingYet
    <2>7. NothingYet' /\ PolledInVain' /\ Ended' /\ Waking!LogIsTrue'
      BY <2>1, <2>4, <2>5, <2>6 DEF NothingYet, PolledInVain, Ended, Waking!LogIsTrue, Waking!Telling
    <2> QED
      BY <1>1, <2>4, <2>7, OnlyTheTask DEF PCsTyped
  <1> QED
    BY <1>3, <1>4

\* The wait begins with what is on, and with nobody told about.
LEMMA WaitBegins ==
    ASSUME WakingInv, Waking!WakeWait
    PROVE  WakingInv'
  <1> USE DEF WakingInv
  <1>1. /\ job.step = "send"
        /\ UNCHANGED <<power, listed, shown, restarts, rest>>
    BY DEF Waking!WakeWait
  <1>2. CASE job.pending = {}
    <2>1. UNCHANGED <<beats, wereOn, stayOpen>>
      BY <1>2 DEF Waking!WakeWait
    <2>2. Waking!Verdict(job.pcs, job.told) \in {"success", "failed"}
      BY DEF Waking!Verdict
    <2>3. Waking!Ends(Waking!Verdict(job.pcs, job.told), job.told) /\ job.told \in [PC -> Waking!Words]
      BY <1>2 DEF Waking!WakeWait, JobRecord
    <2>4. /\ job' \in JobRecord /\ NothingYet' /\ PolledInVain' /\ Ended' /\ Waking!LogIsTrue'
          /\ job'.step # "wait"
      BY <1>1, <2>1, <2>2, <2>3, TaskEnds
    <2> QED
      BY <1>1, <2>1, <2>4, OnlyTheTask DEF PCsTyped
  <1>3. CASE job.pending # {}
    <2>1. /\ job' = [job EXCEPT !.step = "wait", !.round = job.pending]
          /\ beats' = {}
          /\ wereOn' = {c \in PC : Waking!On(c)}
          /\ stayOpen' = {c \in PC : power[c] = "open"}
      BY <1>3 DEF Waking!WakeWait
    <2>2. /\ job' \in JobRecord /\ job'.step = "wait" /\ job'.round = job'.pending
          /\ job'.state = job.state /\ job'.told = job.told
      BY <2>1 DEF JobRecord
    <2>3. \A c \in PC : job'.told[c] \notin {"woken", "silent", "accepted"}
      BY <1>1, <2>2 DEF NothingYet
    <2>4. job'.state \notin {"none", "success"}
      BY <1>1, <2>2 DEF Ended
    <2>5. NothingYet' /\ PolledInVain' /\ Ended' /\ Waking!LogIsTrue'
      BY <2>2, <2>3, <2>4 DEF NothingYet, PolledInVain, Ended, Waking!LogIsTrue, Waking!Telling
    <2>6. PCsTyped' /\ Followed'
      BY <1>1, <2>1 DEF PCsTyped, Followed, Waking!On
    <2> QED
      BY <2>2, <2>5, <2>6
  <1> QED
    BY <1>2, <1>3

\* A PC that answers is on, by its heartbeat or its SSH; one that does not is
\* not open.
LEMMA WaitPolls ==
    ASSUME WakingInv, NEW c \in PC, Waking!WakePoll(c)
    PROVE  WakingInv'
  <1> USE DEF WakingInv
  <1>1. /\ job.step = "wait"
        /\ UNCHANGED <<power, listed, shown, beats, wereOn, stayOpen, restarts, rest>>
    BY DEF Waking!WakePoll, Waking!rowVars, Waking!traceVars
  <1>2. CASE Waking!Answers(c)
    <2> DEFINE told == [job.told EXCEPT ![c] = "woken"]
    <2>1. told \in [PC -> Waking!Words] /\ \A d \in PC : told[d] = IF d = c THEN "woken" ELSE job.told[d]
      BY DEF JobRecord, Waking!Words
    <2>2. job' = [job EXCEPT !.round = @ \ {c}, !.pending = @ \ {c}, !.told = told]
      BY <1>2 DEF Waking!WakePoll, JobRecord
    <2> HIDE DEF told
    <2>3. /\ job' \in JobRecord /\ job'.step = "wait" /\ job'.state = job.state /\ job'.told = told
          /\ job'.pending \ job'.round \subseteq job.pending \ job.round
      BY <1>1, <2>1, <2>2 DEF JobRecord
    <2>4. c \in wereOn
      <3>1. CASE c \in beats
        BY <1>1, <3>1 DEF Followed
      <3>2. CASE power[c] = "open"
        BY <1>1, <3>2 DEF Followed, Waking!On
      <3> QED
        BY <1>2, <3>1, <3>2 DEF Waking!Answers
    <2>5. Waking!LogIsTrue'
      <3>1. Waking!Telling("woken")' \subseteq Waking!Telling("woken") \cup {c}
        BY <2>1, <2>3 DEF Waking!Telling
      <3>2. Waking!Telling("silent")' \subseteq Waking!Telling("silent")
        BY <2>1, <2>3 DEF Waking!Telling
      <3>3. Waking!Telling("accepted")' \subseteq Waking!Telling("accepted")
        BY <2>1, <2>3 DEF Waking!Telling
      <3>4. job'.state # "success"
        BY <1>1, <2>3 DEF Ended
      <3> QED
        BY <1>1, <2>4, <3>1, <3>2, <3>3, <3>4 DEF Waking!LogIsTrue
    <2>6. NothingYet' /\ PolledInVain' /\ Ended'
      BY <1>1, <2>3 DEF NothingYet, PolledInVain, Ended
    <2> QED
      BY <1>1, <2>3, <2>5, <2>6, OnlyTheTask DEF PCsTyped
  <1>3. CASE ~Waking!Answers(c)
    <2>1. job' = [job EXCEPT !.round = @ \ {c}]
      BY <1>3 DEF Waking!WakePoll
    <2>2. /\ job' \in JobRecord /\ job'.step = "wait" /\ job'.state = job.state
          /\ job'.told = job.told /\ job'.pcs = job.pcs
          /\ job'.pending \ job'.round \subseteq (job.pending \ job.round) \cup {c}
      BY <1>1, <2>1 DEF JobRecord
    <2>3. c \notin stayOpen
      BY <1>3 DEF Waking!Answers, Followed
    <2>4. NothingYet' /\ PolledInVain' /\ Ended' /\ Waking!LogIsTrue'
      BY <1>1, <2>2, <2>3 DEF NothingYet, PolledInVain, Ended, Waking!LogIsTrue, Waking!Telling
    <2> QED
      BY <1>1, <2>2, <2>4, OnlyTheTask DEF PCsTyped
  <1> QED
    BY <1>2, <1>3

\* A round ends; at the end of the time the PCs that are left are silent.
LEMMA WaitRounds ==
    ASSUME WakingInv, Waking!WakeRound
    PROVE  WakingInv'
  <1> USE DEF WakingInv
  <1>1. /\ job.step = "wait" /\ job.round = {}
        /\ UNCHANGED <<power, listed, shown, beats, wereOn, stayOpen, restarts, rest>>
    BY DEF Waking!WakeRound, Waking!rowVars, Waking!traceVars
  <1>2. CASE job' = [job EXCEPT !.round = job.pending]
    <2>1. /\ job' \in JobRecord /\ job'.step = "wait" /\ job'.state = job.state
          /\ job'.told = job.told /\ job'.pcs = job.pcs /\ job'.round = job'.pending
      BY <1>1, <1>2 DEF JobRecord
    <2>2. NothingYet' /\ PolledInVain' /\ Ended' /\ Waking!LogIsTrue'
      BY <1>1, <2>1 DEF NothingYet, PolledInVain, Ended, Waking!LogIsTrue, Waking!Telling
    <2> QED
      BY <1>1, <2>1, <2>2, OnlyTheTask DEF PCsTyped
  <1>3. CASE job' # [job EXCEPT !.round = job.pending]
    <2> DEFINE told == [c \in PC |-> IF c \in job.pending THEN "silent" ELSE job.told[c]]
    <2>1. Waking!Ends(Waking!Verdict(job.pcs, told), told)
      BY <1>3 DEF Waking!WakeRound
    <2>2. told \in [PC -> Waking!Words]
      BY DEF JobRecord, Waking!Words
    <2>3. \A c \in PC : told[c] = job.told[c] \/ (told[c] = "silent" /\ c \notin stayOpen)
      BY <1>1 DEF PolledInVain
    <2>4. Waking!Verdict(job.pcs, told) \in {"success", "failed"}
      BY DEF Waking!Verdict
    <2> HIDE DEF told
    <2>5. /\ job' \in JobRecord /\ NothingYet' /\ PolledInVain' /\ Ended' /\ Waking!LogIsTrue'
          /\ job'.step # "wait"
      BY <1>1, <2>1, <2>2, <2>3, <2>4, TaskEnds
    <2> QED
      BY <1>1, <2>5, OnlyTheTask DEF PCsTyped
  <1> QED
    BY <1>2, <1>3

\* A row that is gone ends the task with what it has told.
LEMMA WakeEndsEarly ==
    ASSUME WakingInv, Waking!WakeLost
    PROVE  WakingInv'
  <1> USE DEF WakingInv
  <1>1. /\ Waking!Ends("failed", job.told)
        /\ UNCHANGED <<power, listed, shown, beats, wereOn, stayOpen, restarts, rest>>
    BY DEF Waking!WakeLost, Waking!Lost, Waking!rowVars, Waking!traceVars
  <1>2. job.told \in [PC -> Waking!Words]
    BY DEF JobRecord
  <1>3. /\ job' \in JobRecord /\ NothingYet' /\ PolledInVain' /\ Ended' /\ Waking!LogIsTrue'
        /\ job'.step # "wait"
    BY <1>1, <1>2, TaskEnds
  <1> QED
    BY <1>1, <1>3, OnlyTheTask DEF PCsTyped

\* A PC said to have accepted its restart gets the command in the same step.
LEMMA RestartAnswers ==
    ASSUME WakingInv, NEW c \in PC, Waking!RestartRefused(c) \/ Waking!RestartSent(c)
    PROVE  WakingInv'
  <1> USE DEF WakingInv
  <1>1. /\ job.step = "each"
        /\ UNCHANGED <<power, listed, shown, beats, wereOn, stayOpen, rest>>
    BY DEF Waking!RestartRefused, Waking!RestartSent, Waking!rowVars, Waking!traceVars
  <1>2. PICK word \in {"accepted", "refused"} :
          /\ Waking!Told(c, word)
          /\ restarts' \in {restarts, restarts \cup {c}}
          /\ word = "accepted" => c \in restarts'
    BY DEF Waking!RestartRefused, Waking!RestartSent, Waking!traceVars
  <1> DEFINE told == [job.told EXCEPT ![c] = word]
  <1>3. told \in [PC -> Waking!Words] /\ \A d \in PC : told[d] = IF d = c THEN word ELSE job.told[d]
    BY DEF JobRecord, Waking!Words
  <1>4. job' = [job EXCEPT !.todo = @ \ {c}, !.told = told]
    BY <1>2 DEF Waking!Told, JobRecord
  <1> HIDE DEF told
  <1>5. /\ job' \in JobRecord /\ job'.step = "each" /\ job'.state = job.state /\ job'.told = told
    BY <1>1, <1>3, <1>4 DEF JobRecord
  <1>6. NothingYet' /\ PolledInVain' /\ Ended'
    BY <1>1, <1>5 DEF NothingYet, PolledInVain, Ended
  <1>7. Waking!LogIsTrue'
    <2>1. Waking!Telling("woken")' \subseteq Waking!Telling("woken")
      BY <1>3, <1>5 DEF Waking!Telling
    <2>2. Waking!Telling("silent")' \subseteq Waking!Telling("silent")
      BY <1>3, <1>5 DEF Waking!Telling
    <2>3. Waking!Telling("accepted")' \subseteq restarts'
      BY <1>2, <1>3, <1>5 DEF Waking!Telling, Waking!LogIsTrue
    <2>4. job'.state # "success"
      BY <1>1, <1>5 DEF Ended
    <2> QED
      BY <1>1, <2>1, <2>2, <2>3, <2>4 DEF Waking!LogIsTrue
  <1> QED
    BY <1>1, <1>2, <1>5, <1>6, <1>7, OnlyTheTask DEF PCsTyped

LEMMA RestartBeginsAndEnds ==
    ASSUME WakingInv, Waking!RestartBegin \/ Waking!RestartEnds
    PROVE  WakingInv'
  <1> USE DEF WakingInv
  <1>1. UNCHANGED <<power, listed, shown, beats, wereOn, stayOpen, restarts, rest>>
    BY DEF Waking!RestartBegin, Waking!RestartEnds, Waking!rowVars, Waking!traceVars
  <1>2. CASE Waking!RestartBegin
    <2>1. /\ job.step = "begin"
          /\ job' = [job EXCEPT !.state = "running", !.step = "each", !.todo = job.pcs]
      BY <1>2 DEF Waking!RestartBegin
    <2>2. /\ job' \in JobRecord /\ job'.step = "each" /\ job'.state = "running"
          /\ job'.told = job.told
      BY <2>1 DEF JobRecord
    <2>3. NothingYet' /\ PolledInVain' /\ Ended' /\ Waking!LogIsTrue'
      BY <1>1, <2>2 DEF NothingYet, PolledInVain, Ended, Waking!LogIsTrue, Waking!Telling
    <2> QED
      BY <1>1, <2>2, <2>3, OnlyTheTask DEF PCsTyped
  <1>3. CASE Waking!RestartEnds
    <2>1. Waking!Ends(Waking!Verdict(job.pcs, job.told), job.told) /\ job.told \in [PC -> Waking!Words]
      BY <1>3 DEF Waking!RestartEnds, JobRecord
    <2>2. Waking!Verdict(job.pcs, job.told) \in {"success", "failed"}
      BY DEF Waking!Verdict
    <2>3. /\ job' \in JobRecord /\ NothingYet' /\ PolledInVain' /\ Ended' /\ Waking!LogIsTrue'
          /\ job'.step # "wait"
      BY <1>1, <2>1, <2>2, TaskEnds
    <2> QED
      BY <1>1, <2>3, OnlyTheTask DEF PCsTyped
  <1> QED
    BY <1>2, <1>3

LEMMA NextWaking ==
    ASSUME WakingInv, WakingBounds, [Waking!Next]_(Waking!vars)
    PROVE  WakingInv'
  <1>1. CASE Waking!Work
    BY <1>1, WakeSends, WaitBegins, WaitRounds, WakeEndsEarly, RestartBeginsAndEnds, WaitPolls,
       RestartAnswers DEF Waking!Work
  <1>2. CASE UNCHANGED Waking!vars
    <2>1. UNCHANGED <<power, listed, shown, beats, job, wereOn, stayOpen, restarts, rest>>
      BY <1>2 DEF Waking!vars
    <2> QED
      BY <2>1 DEF WakingInv, PCsTyped, Followed, NothingYet, PolledInVain, Ended,
         Waking!LogIsTrue, Waking!Telling, Waking!On
  <1> QED
    BY <1>1, <1>2, AroundTheTask, TaskBegins DEF Waking!Next

\* What the task knows of the PCs - whom it asked, who answered, what it wrote
\* (run_host_wake, restart_host) - agrees with what has happened to them.
THEOREM WakingInvariant ==
    ASSUME WakingBounds
    PROVE  Waking!Spec => []WakingInv
  <1>1. Waking!Init => WakingInv
    <2> SUFFICES ASSUME Waking!Init
                 PROVE  WakingInv
      OBVIOUS
    <2>1. job \in JobRecord
      BY DEF Waking!Init, Waking!NoJob, JobRecord, Waking!Words
    <2>2. PCsTyped
      BY DEF Waking!Init, PCsTyped, WakingBounds
    <2> QED
      BY <2>1, <2>2 DEF Waking!Init, Waking!NoJob, WakingInv, Followed, NothingYet, PolledInVain,
         Ended, Waking!LogIsTrue, Waking!Telling
  <1> QED
    BY <1>1, NextWaking, PTL DEF Waking!Spec

\* The log of a task that wakes or restarts PCs is true (run_host_wake,
\* restart_host): who has woken was on after the packets, who is silent was
\* not reached all the time, who has accepted a restart has got it, and a
\* success has good news of everyone - however PCs go on and off, report, are
\* swept and are deleted between any two lines of it.
THEOREM TheLogIsTrue ==
    ASSUME WakingBounds
    PROVE  Waking!Spec => [](Waking!PowerTypeOK /\ Waking!LogIsTrue)
  <1>1. WakingInv => Waking!PowerTypeOK /\ Waking!LogIsTrue
    BY DEF WakingInv, PCsTyped, JobRecord, Waking!PowerTypeOK
  <1> QED
    BY <1>1, WakingInvariant, PTL
=============================================================================
