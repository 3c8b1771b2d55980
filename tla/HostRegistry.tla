---------------------------- MODULE HostRegistry ----------------------------
(***************************************************************************)
(* Which record of the table hosts a PC stands under: the registration of  *)
(* agents (routers/agent.py), the guard against cloned machine ids         *)
(* (services/agent_auth.py), the adoption of the record of a reinstalled   *)
(* PC and the merge of twins (services/host_dedup.py).                     *)
(*                                                                         *)
(* A registration reads the table, decides for a record and commits; the   *)
(* merge after a heartbeat does the same.  Neither locks what it reads, so *)
(* both are two steps and other requests come in between.  Time is         *)
(* abstract: a record is fresh while its last heartbeat lies within        *)
(* CLONE_GUARD_WINDOW and may go stale at any moment.                      *)
(***************************************************************************)
EXTENDS Naturals, FiniteSets

CONSTANTS
    PC,            \* computers
    Name,          \* host names, without the domain
    Address,       \* PC -> its address in the LAN
    MaxRecords,    \* bound: records ever created
    MaxTokens,     \* bound: registrations
    MaxReinstalls, \* bound: installations of an agent over another
    MaxEntries,    \* bound: records entered by users
    MaxDeletes     \* bound: records deleted by users

ASSUME BoundsAssumption == {MaxRecords, MaxTokens, MaxReinstalls, MaxEntries, MaxDeletes} \subseteq Nat

VARIABLES
    name,        \* PC -> its name
    agent,       \* PC -> machine id and token of its agent, 0 without one
    hosts,       \* existing record -> its row
    created,     \* records created so far: ids in the order of created_at
    issued,      \* tokens issued so far
    registering, \* PC -> the registration in progress
    merging,     \* PC -> what its heartbeat does after the commit
    left         \* what remains of the bounds

pcVars == <<name, agent>>
rows   == <<hosts, created>>
vars   == <<pcVars, rows, issued, registering, merging, left>>

Record  == 1 .. MaxRecords
NoRecord == 0
Token   == 1 .. MaxTokens
Machine == PC \X (0 .. MaxReinstalls)
NoMachine == <<>>
NoPC == "no PC"

\* past: the records whose history (status, hardware, alerts, software) the
\* row has, its own and what merges have brought.
Row == [machine : Machine \cup {NoMachine}, token : 0 .. MaxTokens, name : Name,
        address : {Address[p] : p \in PC}, hw : PC \cup {NoPC},
        seen : {"never", "stale", "fresh"}, managed : BOOLEAN, past : SUBSET Record]

Bounds == [reinstalls : 0 .. MaxReinstalls, entries : 0 .. MaxEntries, deletes : 0 .. MaxDeletes]

Idle == [stage |-> "idle"]

Init ==
    /\ name \in [PC -> Name]
    /\ agent \in [PC -> [machine : PC \X {0}, token : {0}]]
    /\ \A p, q \in PC : (name[p] = name[q] /\ agent[p].machine = agent[q].machine) => p = q
    /\ hosts = <<>>
    /\ created = 0 /\ issued = 0
    /\ registering = [p \in PC |-> Idle]
    /\ merging = [p \in PC |-> Idle]
    /\ left \in Bounds

Spend(kind) ==
    /\ left[kind] > 0
    /\ left' = [left EXCEPT ![kind] = @ - 1]

-----------------------------------------------------------------------------
(* The table                                                               *)

\* _authenticate_agent and _check_machine: the token and the machine id.
HeldBy(p) == {r \in DOMAIN hosts :
                agent[p].token # 0 /\ hosts[r].token = agent[p].token
                /\ hosts[r].machine = agent[p].machine}

\* The record p reports under, which bears its name: each heartbeat sees to that.
OwnRecord(p) == {r \in HeldBy(p) : hosts[r].seen = "fresh" /\ hosts[r].name = name[p]}

Reporting == {p \in PC : OwnRecord(p) # {}}

\* With which token and under which record they report.
Reports == UNION {{<<agent[p].token, r>> : r \in OwnRecord(p)} : p \in PC}

IsStale(r) == hosts[r].seen # "fresh"

Namesakes(n) == {r \in DOMAIN hosts :
                    hosts[r].managed /\ hosts[r].machine # NoMachine /\ hosts[r].name = n}

SameMachine(old, new) ==
    /\ hosts[old].name = hosts[new].name
    /\ \/ hosts[old].hw # NoPC /\ hosts[old].hw = hosts[new].hw
       \/ hosts[old].address = hosts[new].address

\* The unique index of agent_id.
MachineIsFree(m, r) == \A s \in DOMAIN hosts \ {r} : hosts[s].machine # m

NextRecord == created + 1

NoRow == <<>>

\* The ORM writes the fields that differ from those it has read: the rest of
\* the row keeps what other requests have written.
Written(r, read, new) ==
    [hosts[r] EXCEPT !.machine = IF new.machine = read.machine THEN @ ELSE new.machine,
                     !.token   = new.token,
                     !.name    = IF new.name = read.name THEN @ ELSE new.name,
                     !.address = IF new.address = read.address THEN @ ELSE new.address,
                     !.hw      = IF new.hw = read.hw THEN @ ELSE new.hw,
                     !.managed = IF new.managed = read.managed THEN @ ELSE new.managed,
                     !.seen    = "fresh"]

-----------------------------------------------------------------------------
(* Registration                                                            *)

\* is_machine_id_clone: the record with this machine id still reports under
\* another name.
IsClone(p, r) == hosts[r].name # name[p] /\ hosts[r].seen = "fresh"

\* Mutant: the name alone decides, whether or not its record reports.
AdoptableByName(p) == Namesakes(name[p])

\* adoptable_host: a record of the name, if none of the name reports.
Adoptable(p) ==
    IF \A r \in Namesakes(name[p]) : IsStale(r) THEN Namesakes(name[p]) ELSE {}

\* register_agent looks for a record by machine id, by name and by address
\* among those without an agent, then for one to adopt.
Matching(p) ==
    LET byMachine == {r \in DOMAIN hosts : hosts[r].machine = agent[p].machine}
        free      == {r \in DOMAIN hosts : hosts[r].machine = NoMachine}
        byName    == {r \in free : hosts[r].name = name[p]}
        byAddress == {r \in free : hosts[r].address = Address[p]}
    IN  IF byMachine # {} THEN byMachine
        ELSE IF byName # {} THEN byName
        ELSE IF byAddress # {} THEN byAddress
        ELSE IF Adoptable(p) # {} THEN Adoptable(p) ELSE {NoRecord}

\* Several free records of one name or address: scalar_one_or_none raises.
Ambiguous(p) ==
    /\ Cardinality(Matching(p)) > 1
    /\ \E r \in Matching(p) : hosts[r].machine = NoMachine

RegisterRead(p) ==
    /\ agent[p].token = 0 /\ registering[p] = Idle /\ issued < MaxTokens
    /\ ~Ambiguous(p)
    /\ \E r \in Matching(p) :
        /\ r # NoRecord /\ hosts[r].machine = agent[p].machine => ~IsClone(p, r)
        /\ registering' = [registering EXCEPT ![p] =
             [stage |-> "read", target |-> r, reporting |-> Reports,
              row |-> IF r = NoRecord THEN NoRow ELSE hosts[r]]]
    /\ UNCHANGED <<pcVars, rows, issued, merging, left>>

\* A new host, or the record with the agent's new token; a record that had the
\* machine id counts as created by the agent from now on.
Registered(p, t, g) ==
    IF g.target = NoRecord
    THEN [r \in DOMAIN hosts \cup {NextRecord} |->
            IF r # NextRecord THEN hosts[r]
            ELSE [machine |-> agent[p].machine, token |-> t, name |-> name[p],
                  address |-> Address[p], hw |-> NoPC, seen |-> "fresh",
                  managed |-> TRUE, past |-> {NextRecord}]]
    ELSE [hosts EXCEPT ![g.target] = Written(g.target, g.row,
            [g.row EXCEPT !.machine = agent[p].machine, !.token = t, !.name = name[p],
                          !.address = Address[p],
                          !.managed = @ \/ g.row.machine = agent[p].machine])]

\* What the commit does to the machine id of the record that was read.
TakesMachine(p, g) == IF g.target = NoRecord THEN TRUE ELSE g.row.machine # agent[p].machine

\* The commit, and the answer, which may get lost: the agent tries again.
RegisterCommit(p) ==
    LET g == registering[p]
    IN  /\ g.stage = "read" /\ issued < MaxTokens
        /\ IF g.target = NoRecord THEN created < MaxRecords ELSE g.target \in DOMAIN hosts
        /\ TakesMachine(p, g) => MachineIsFree(agent[p].machine, g.target)
        /\ issued' = issued + 1
        /\ hosts' = Registered(p, issued', g)
        /\ created' = IF g.target = NoRecord THEN NextRecord ELSE created
        /\ \E arrives \in BOOLEAN :
              agent' = [agent EXCEPT ![p].token = IF arrives THEN issued' ELSE 0]
        /\ registering' = [registering EXCEPT ![p] = Idle]
        /\ UNCHANGED <<name, merging, left>>

\* The record is gone, or the machine id was taken: 500, the agent tries again.
RegisterFails(p) ==
    LET g == registering[p]
    IN  /\ g.stage = "read"
        /\ \/ g.target # NoRecord /\ g.target \notin DOMAIN hosts
           \/ TakesMachine(p, g) /\ ~MachineIsFree(agent[p].machine, g.target)
        /\ registering' = [registering EXCEPT ![p] = Idle]
        /\ UNCHANGED <<pcVars, rows, issued, merging, left>>

-----------------------------------------------------------------------------
(* Heartbeat and merge                                                     *)

\* heartbeat, up to its commit; the twins are looked for afterwards.
Heartbeat(p) ==
    /\ merging[p] = Idle
    /\ \E r \in HeldBy(p) :
        /\ hosts' = [hosts EXCEPT ![r] = [@ EXCEPT !.name = name[p], !.address = Address[p],
                                                   !.hw = p, !.seen = "fresh"]]
        /\ merging' = [merging EXCEPT ![p] = [stage |-> "due", drop |-> r]]
    /\ UNCHANGED <<pcVars, created, issued, registering, left>>

\* Mutant: the address alone tells a twin.
TwinsByAddress(r) ==
    {t \in Namesakes(hosts[r].name) \ {r} :
        hosts[r].managed /\ IsStale(t) /\ hosts[t].address = hosts[r].address /\ hosts[t].hw = NoPC}

\* The stale records of the same PC, if the live one is the agent's own.
Twins(r) ==
    {t \in Namesakes(hosts[r].name) \ {r} :
        hosts[r].managed /\ IsStale(t) /\ SameMachine(t, r)}

Oldest(S) == CHOOSE r \in S : \A s \in S : r <= s

\* twins[1:], absorbed after the merge.
OlderOnes(twins) == twins \ {Oldest(twins)}

\* absorb_stale_twins reads the twins; the oldest is kept.
AbsorbRead(p) ==
    LET m == merging[p]
    IN  /\ m.stage = "due"
        /\ merging' = [merging EXCEPT ![p] =
             IF m.drop \notin DOMAIN hosts \/ Twins(m.drop) = {} THEN Idle
             ELSE LET keep == Oldest(Twins(m.drop))
                  IN  [stage |-> "merge", drop |-> m.drop, keep |-> keep, row |-> hosts[m.drop],
                       old |-> hosts[keep], extra |-> OlderOnes(Twins(m.drop)), reporting |-> Reports]]
        /\ UNCHANGED <<pcVars, rows, issued, registering, left>>

Without(r) == [s \in DOMAIN hosts \ {r} |-> hosts[s]]

\* Mutant: the history of the record that goes is not moved.
HistoriesOfTheOld(keep, drop) == hosts[keep].past

\* What the record that stays knows after the history of the other was moved to it.
Histories(keep, drop) == hosts[keep].past \cup hosts[drop].past

\* Both records are still there, and no third one has taken the machine id.
CanMerge(m) ==
    /\ {m.keep, m.drop} \subseteq DOMAIN hosts
    /\ m.row.machine # m.old.machine =>
          \A s \in DOMAIN hosts \ {m.keep, m.drop} : hosts[s].machine # m.row.machine

\* merge_host: the old record takes over the values of the new one, or it fails
\* and is rolled back.
AbsorbMerge(p) ==
    LET m == merging[p]
    IN  /\ m.stage = "merge"
        /\ IF CanMerge(m)
           THEN /\ hosts' = [Without(m.drop) EXCEPT ![m.keep] =
                    [Written(m.keep, m.old, m.row) EXCEPT !.past = Histories(m.keep, m.drop)]]
                /\ merging' = [merging EXCEPT ![p] =
                     IF m.extra = {} THEN Idle
                     ELSE [stage |-> "extra", keep |-> m.keep, extra |-> m.extra,
                           reporting |-> m.reporting]]
           ELSE /\ merging' = [merging EXCEPT ![p] = Idle]
                /\ UNCHANGED hosts
        /\ UNCHANGED <<pcVars, created, issued, registering, left>>

\* _absorb_older, one commit for each of the other twins.
AbsorbOlder(p) ==
    LET m == merging[p]
        older == Oldest(m.extra)
    IN  /\ m.stage = "extra"
        /\ IF {m.keep, older} \subseteq DOMAIN hosts
           THEN /\ hosts' = [Without(older) EXCEPT ![m.keep].past = Histories(m.keep, older)]
                /\ merging' = [merging EXCEPT ![p] =
                     IF m.extra = {older} THEN Idle ELSE [m EXCEPT !.extra = @ \ {older}]]
           ELSE /\ merging' = [merging EXCEPT ![p] = Idle]
                /\ UNCHANGED hosts
        /\ UNCHANGED <<pcVars, created, issued, registering, left>>

Absorb(p) == AbsorbRead(p) \/ AbsorbMerge(p) \/ AbsorbOlder(p)

\* CLONE_GUARD_WINDOW passes without a heartbeat.
Lapse(r) ==
    /\ hosts[r].seen = "fresh"
    /\ hosts' = [hosts EXCEPT ![r].seen = "stale"]
    /\ UNCHANGED <<pcVars, created, issued, registering, merging, left>>

-----------------------------------------------------------------------------
(* Installation, users                                                     *)

\* The agent is installed again, with its machine id or (clean) with a new one.
Reinstall(p) ==
    /\ registering[p] = Idle /\ Spend("reinstalls")
    /\ \E m \in {agent[p].machine, <<p, left[ "reinstalls" ]>>} :
          agent' = [agent EXCEPT ![p] = [machine |-> m, token |-> 0]]
    /\ UNCHANGED <<name, rows, issued, registering, merging>>

\* uninstall_agent: a record the agent created goes, another loses its agent.
Uninstall(p) ==
    /\ Spend("deletes")
    /\ \E r \in HeldBy(p) :
          hosts' = IF hosts[r].managed THEN Without(r)
                   ELSE [hosts EXCEPT ![r] = [@ EXCEPT !.machine = NoMachine, !.token = 0,
                                                       !.seen = "never"]]
    /\ agent' = [agent EXCEPT ![p].token = 0]
    /\ UNCHANGED <<name, created, issued, registering, merging>>

\* A record a user enters for a PC.
Entered(p) ==
    /\ created < MaxRecords /\ Spend("entries")
    /\ created' = NextRecord
    /\ hosts' = [r \in DOMAIN hosts \cup {NextRecord} |->
                    IF r # NextRecord THEN hosts[r]
                    ELSE [machine |-> NoMachine, token |-> 0, name |-> name[p],
                          address |-> Address[p], hw |-> NoPC, seen |-> "never",
                          managed |-> FALSE, past |-> {NextRecord}]]
    /\ UNCHANGED <<pcVars, issued, registering, merging>>

\* create_host: a user enters a PC, known or not.
AddHost(p) == Entered(p)

\* import_csv: the row of a PC with a known name and address is skipped.
ImportCsv(p) ==
    /\ \A r \in DOMAIN hosts : hosts[r].name = name[p] => hosts[r].address # Address[p]
    /\ Entered(p)

DeleteHost(r) ==
    /\ Spend("deletes")
    /\ hosts' = Without(r)
    /\ UNCHANGED <<pcVars, created, issued, registering, merging>>

Next ==
    \/ \E p \in PC : \/ RegisterRead(p) \/ RegisterCommit(p) \/ RegisterFails(p)
                     \/ Heartbeat(p) \/ Absorb(p)
                     \/ Reinstall(p) \/ Uninstall(p) \/ AddHost(p) \/ ImportCsv(p)
    \/ \E r \in DOMAIN hosts : Lapse(r) \/ DeleteHost(r)

Spec == Init /\ [][Next]_vars

Abandoned(r) == \A p \in PC : r \notin HeldBy(p)

(* Agents that are accepted send heartbeats every five minutes, what a     *)
(* heartbeat has begun ends, and a record no agent reports for goes stale. *)
Fairness ==
    /\ \A p \in PC : WF_vars(Heartbeat(p)) /\ WF_vars(Absorb(p))
    /\ \A r \in Record : WF_vars(r \in DOMAIN hosts /\ Abandoned(r) /\ Lapse(r))

FairSpec == Spec /\ Fairness

-----------------------------------------------------------------------------
(* Properties                                                              *)

Registration == [stage : {"read"}, target : Record \cup {NoRecord}, reporting : SUBSET (Token \X Record),
                 row : Row \cup {NoRow}]
Merge == [stage : {"due"}, drop : Record]
            \cup [stage : {"merge"}, drop : Record, keep : Record, row : Row, old : Row,
                  extra : SUBSET Record, reporting : SUBSET (Token \X Record)]
            \cup [stage : {"extra"}, keep : Record, extra : (SUBSET Record) \ {{}},
                  reporting : SUBSET (Token \X Record)]

\* Every variable keeps its type; a merge has different records for what stays,
\* for what goes and for what goes next.
TypeOK ==
    /\ name \in [PC -> Name]
    /\ agent \in [PC -> [machine : Machine, token : 0 .. issued]]
    /\ created \in 0 .. MaxRecords /\ issued \in 0 .. MaxTokens
    /\ DOMAIN hosts \subseteq 1 .. created
    /\ \A r \in DOMAIN hosts : hosts[r] \in Row
    /\ registering \in [PC -> {Idle} \cup Registration]
    /\ merging \in [PC -> {Idle} \cup Merge]
    /\ \A p \in PC : merging[p].stage = "merge" =>
           /\ merging[p].keep # merging[p].drop
           /\ {merging[p].keep, merging[p].drop} \cap merging[p].extra = {}
    /\ left \in Bounds

\* When the transactions in progress read the table, p reported as it does now.
SeenReporting(p) ==
    \A q \in PC, r \in HeldBy(p) :
        /\ registering[q] # Idle => <<agent[p].token, r>> \in registering[q].reporting
        /\ merging[q].stage \in {"merge", "extra"} => <<agent[p].token, r>> \in merging[q].reporting

\* A step after which some record still accepts p, if p's agent has not been
\* changed and nobody has deleted a record.
Keeps(p) == (agent'[p] = agent[p] /\ left'.deletes = left.deletes) => HeldBy(p)' # {}

\* The clone guard, the adoption and the merge together: a PC that has been
\* reporting under its name when they read keeps a record that accepts it,
\* whatever other PCs register, with its machine id or its name, and whatever is
\* merged.
ReportingPcIsKept == [][\A p \in Reporting : SeenReporting(p) => Keeps(p)]_vars

\* A PC that reports keeps a record that accepts it: broken by registrations
\* that had read before it began to report (README).
ReportingPcStays == [][\A p \in Reporting : Keeps(p)]_vars

\* Merges lose no history and duplicate none: unless somebody deletes a
\* record, what was known of any record is found at one record.
HistoryStays ==
    [][left'.deletes = left.deletes =>
          \A r \in DOMAIN hosts : \A o \in hosts[r].past :
              Cardinality({s \in DOMAIN hosts' : o \in hosts'[s].past}) = 1]_vars

\* The records of a PC that are or were an agent's.
RecordsOf(p) == {r \in Namesakes(name[p]) : hosts[r].hw = p \/ hosts[r].address = Address[p]}

\* A PC that goes on reporting under a record of its own stands, in the end,
\* under one record only: reinstallations leave no twins (host_dedup.py).
OneRecordInTheEnd ==
    \A p \in PC :
        <>[](\E r \in HeldBy(p) : hosts[r].managed)
            => <>[](Cardinality(RecordsOf(p)) <= 1)
=============================================================================
