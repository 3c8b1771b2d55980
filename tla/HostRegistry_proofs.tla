------------------------ MODULE HostRegistry_proofs ------------------------
(***************************************************************************)
(* Theorems of HostRegistry, for any number of PCs, whatever registers, is *)
(* installed again and merges at once: what was known of a record stays    *)
(* known at exactly one record, unless somebody deletes one, and a PC that *)
(* reports keeps a record that accepts it.                                 *)
(***************************************************************************)
EXTENDS HostRegistry, WellFoundedInduction, FiniteSetTheorems, TLAPS

Before == {pair \in Nat \X Nat : pair[1] < pair[2]}

\* Of some records there is an oldest one, and it is one of them.
LEMMA OldestIsOne ==
    ASSUME NEW S \in SUBSET Nat, S # {}
    PROVE  Oldest(S) \in S
  <1>1. IsWellFoundedOn(Before, Nat)
    BY NatLessThanWellFounded DEF OpToRel, Before
  <1>2. PICK r \in S : \A s \in S : ~ (<<s, r>> \in Before)
    BY <1>1, WFMin, Zenon
  <1>3. \A s \in S : r <= s
    <2> SUFFICES ASSUME NEW s \in S, s < r PROVE FALSE
      OBVIOUS
    <2>1. <<s, r>> \in Before
      BY DEF Before
    <2> QED
      BY <1>2, <2>1
  <1> QED
    BY <1>3 DEF Oldest

-----------------------------------------------------------------------------
(* Types, one lemma for each part of the state.                            *)

LEMMA Bounded ==
    /\ MaxRecords \in Nat /\ MaxTokens \in Nat /\ MaxReinstalls \in Nat
    /\ MaxEntries \in Nat /\ MaxDeletes \in Nat
  BY BoundsAssumption

LEMMA RowFields ==
    ASSUME NEW r \in Row
    PROVE  /\ r.machine \in Machine \cup {NoMachine} /\ r.token \in 0 .. MaxTokens
           /\ r.name \in Name /\ r.address \in {Address[p] : p \in PC}
           /\ r.hw \in PC \cup {NoPC} /\ r.seen \in {"never", "stale", "fresh"}
           /\ r.managed \in BOOLEAN /\ r.past \in SUBSET Record
  BY DEF Row

LEMMA InitTyped == Init => TypeOK
  <1> SUFFICES ASSUME Init PROVE TypeOK
    OBVIOUS
  <1>1. DOMAIN hosts = {}
    BY DEF Init
  <1>2. \A p \in PC : merging[p].stage = "idle"
    BY DEF Init, Idle
  <1>3. agent \in [PC -> [machine : Machine, token : 0 .. issued]]
    BY Bounded DEF Init, Machine
  <1>4. merging \in [PC -> {Idle} \cup Merge] /\ registering \in [PC -> {Idle} \cup Registration]
    BY DEF Init
  <1> QED
    BY <1>1, <1>2, <1>3, <1>4, Bounded DEF Init, TypeOK

\* What a request spends of its bound leaves the bounds in their type.
LEMMA SpendTyped ==
    ASSUME TypeOK, NEW kind \in {"reinstalls", "entries", "deletes"}, Spend(kind)
    PROVE  left' \in Bounds /\ left'[kind] # left[kind]
  <1>1. left \in Bounds /\ left[kind] \in Nat /\ left[kind] > 0
    BY Bounded DEF TypeOK, Spend, Bounds
  <1> QED
    BY <1>1, Bounded DEF Spend, Bounds

LEMMA WrittenTyped ==
    ASSUME NEW r \in DOMAIN hosts, hosts[r] \in Row, NEW read, NEW new,
           new.machine \in Machine \cup {NoMachine}, new.token \in 0 .. MaxTokens,
           new.name \in Name, new.address \in {Address[p] : p \in PC},
           new.hw \in PC \cup {NoPC}, new.managed \in BOOLEAN
    PROVE  Written(r, read, new) \in Row /\ Written(r, read, new).past = hosts[r].past
  <1> DEFINE Same(x, y) == y \in Row /\ y.past = x.past
             w1 == [hosts[r] EXCEPT !.machine = IF new.machine = read.machine THEN hosts[r].machine ELSE new.machine]
             w2 == [w1 EXCEPT !.token = new.token]
             w3 == [w2 EXCEPT !.name = IF new.name = read.name THEN hosts[r].name ELSE new.name]
             w4 == [w3 EXCEPT !.address = IF new.address = read.address THEN hosts[r].address ELSE new.address]
             w5 == [w4 EXCEPT !.hw = IF new.hw = read.hw THEN hosts[r].hw ELSE new.hw]
             w6 == [w5 EXCEPT !.managed = IF new.managed = read.managed THEN hosts[r].managed ELSE new.managed]
             w7 == [w6 EXCEPT !.seen = "fresh"]
  <1>1. Written(r, read, new) = w7
    BY Zenon DEF Written
  <1>2. Same(hosts[r], w1)
    BY DEF Row
  <1> HIDE DEF w1, w2, w3, w4, w5, w6, w7
  <1>3. Same(hosts[r], w2)
    BY <1>2 DEF Row, w2
  <1>4. Same(hosts[r], w3)
    BY <1>3, RowFields DEF Row, w3
  <1>5. Same(hosts[r], w4)
    BY <1>4, RowFields DEF Row, w4
  <1>6. Same(hosts[r], w5)
    BY <1>5, RowFields DEF Row, w5
  <1>7. Same(hosts[r], w6)
    BY <1>6, RowFields DEF Row, w6
  <1>8. Same(hosts[r], w7)
    BY <1>7 DEF Row, w7
  <1> QED
    BY <1>1, <1>8

-----------------------------------------------------------------------------
(* What the table, the registrations and the merges in progress know.      *)

\* A registration that found a record has read its row.
RowWasRead ==
    \A p \in PC : registering[p].stage = "read" /\ registering[p].target # NoRecord
        => registering[p].row \in Row

\* A merge that goes on with the other twins keeps none of those that go.
KeptStays == \A p \in PC : merging[p].stage = "extra" => merging[p].keep \notin merging[p].extra

\* Every record has the history of records that exist or did, and no two have
\* that of the same one.
OneHistory ==
    /\ \A r \in DOMAIN hosts : hosts[r].past \subseteq 1 .. created
    /\ \A r, s \in DOMAIN hosts : r # s => hosts[r].past \cap hosts[s].past = {}

RegistryInv == TypeOK /\ RowWasRead /\ KeptStays /\ OneHistory

LEMMA RegistrationFields ==
    ASSUME TypeOK, RowWasRead, NEW p \in PC, registering[p].stage = "read"
    PROVE  /\ registering[p] \in Registration
           /\ registering[p].target \in Record \cup {NoRecord}
           /\ registering[p].target # NoRecord => registering[p].row \in Row
  BY DEF TypeOK, RowWasRead, Registration, Idle

LEMMA MergeFields ==
    ASSUME TypeOK, KeptStays, NEW p \in PC
    PROVE  /\ merging[p].stage = "due" => merging[p].drop \in Record
           /\ merging[p].stage = "merge" =>
                 /\ merging[p].keep \in Record /\ merging[p].drop \in Record
                 /\ merging[p].row \in Row /\ merging[p].old \in Row
                 /\ merging[p].extra \in SUBSET Record
                 /\ merging[p].reporting \in SUBSET (Token \X Record)
                 /\ merging[p].keep # merging[p].drop
                 /\ {merging[p].keep, merging[p].drop} \cap merging[p].extra = {}
           /\ merging[p].stage = "extra" =>
                 /\ merging[p].keep \in Record
                 /\ merging[p].extra \in SUBSET Record /\ merging[p].extra # {}
                 /\ merging[p].reporting \in SUBSET (Token \X Record)
                 /\ merging[p].keep \notin merging[p].extra
  <1>1. merging[p] \in {Idle} \cup Merge
    BY DEF TypeOK
  <1>2. CASE merging[p] = Idle
    BY <1>2 DEF Idle
  <1>3. CASE merging[p] \in [stage : {"due"}, drop : Record]
    BY <1>3
  <1>4. CASE merging[p] \in [stage : {"merge"}, drop : Record, keep : Record, row : Row, old : Row,
                            extra : SUBSET Record, reporting : SUBSET (Token \X Record)]
    BY <1>4 DEF TypeOK
  <1>5. CASE merging[p] \in [stage : {"extra"}, keep : Record, extra : (SUBSET Record) \ {{}},
                            reporting : SUBSET (Token \X Record)]
    BY <1>5 DEF KeptStays
  <1> QED
    BY <1>1, <1>2, <1>3, <1>4, <1>5 DEF Merge

LEMMA AgentFields ==
    ASSUME TypeOK, NEW p \in PC
    PROVE  agent[p].machine \in Machine /\ agent[p].token \in 0 .. issued
  BY DEF TypeOK

LEMMA RecordsExist ==
    ASSUME TypeOK
    PROVE  /\ DOMAIN hosts \subseteq Record /\ NoRecord \notin DOMAIN hosts
           /\ created \in Nat /\ created <= MaxRecords /\ issued \in Nat /\ issued <= MaxTokens
  BY Bounded DEF TypeOK, Record, NoRecord

LEMMA ReportsTyped ==
    ASSUME TypeOK
    PROVE  Reports \in SUBSET (Token \X Record)
  <1> SUFFICES ASSUME NEW p \in PC, NEW r \in HeldBy(p)
               PROVE  <<agent[p].token, r>> \in Token \X Record
    BY DEF Reports, OwnRecord
  <1>1. r \in Record /\ agent[p].token # 0
    BY RecordsExist DEF HeldBy
  <1>2. agent[p].token \in Token
    BY <1>1, AgentFields, RecordsExist, Bounded DEF Token
  <1> QED
    BY <1>1, <1>2

LEMMA MatchingTyped ==
    ASSUME NEW p \in PC
    PROVE  Matching(p) \subseteq DOMAIN hosts \cup {NoRecord}
  BY DEF Matching, Adoptable, Namesakes

-----------------------------------------------------------------------------
(* What a step does to the histories: nothing, it adds a record with its   *)
(* own, moves one to another record, or somebody deletes a record.         *)

SamePast(R) == \A r \in R : hosts'[r].past = hosts[r].past

Rewrites == /\ created' = created /\ DOMAIN hosts' = DOMAIN hosts
            /\ SamePast(DOMAIN hosts)

Adds == /\ created' = NextRecord /\ DOMAIN hosts' = DOMAIN hosts \cup {NextRecord}
        /\ hosts'[NextRecord].past = {NextRecord}
        /\ SamePast(DOMAIN hosts)

Merges(keep, drop) ==
    /\ {keep, drop} \subseteq DOMAIN hosts /\ keep # drop
    /\ created' = created /\ DOMAIN hosts' = DOMAIN hosts \ {drop}
    /\ hosts'[keep].past = Histories(keep, drop)
    /\ SamePast(DOMAIN hosts \ {keep, drop})

Deletes == /\ left'.deletes # left.deletes
           /\ created' = created /\ DOMAIN hosts' \subseteq DOMAIN hosts
           /\ SamePast(DOMAIN hosts')

HistoryStep == Rewrites \/ Adds \/ Deletes \/ \E keep, drop \in Record : Merges(keep, drop)

LEMMA OneHistoryStays ==
    ASSUME TypeOK, OneHistory, HistoryStep
    PROVE  OneHistory'
  <1>0. created \in Nat /\ NextRecord \notin DOMAIN hosts
    BY RecordsExist DEF TypeOK, NextRecord
  <1>1. CASE Rewrites \/ Deletes
    BY <1>1 DEF Rewrites, Deletes, SamePast, OneHistory
  <1>2. CASE Adds
    <2>1. ASSUME NEW r \in DOMAIN hosts' PROVE hosts'[r].past \subseteq 1 .. created'
      BY <1>0, <1>2 DEF Adds, SamePast, OneHistory, NextRecord
    <2>2. ASSUME NEW r \in DOMAIN hosts, NEW s \in DOMAIN hosts, r # s
          PROVE  hosts'[r].past \cap hosts'[s].past = {}
      BY <1>2, <2>2 DEF Adds, SamePast, OneHistory
    <2>3. ASSUME NEW r \in DOMAIN hosts
          PROVE  hosts'[r].past \cap hosts'[NextRecord].past = {}
      <3>1. hosts'[r].past \subseteq 1 .. created /\ hosts'[NextRecord].past = {NextRecord}
        BY <1>2 DEF Adds, SamePast, OneHistory
      <3>2. NextRecord \notin 1 .. created
        BY <1>0 DEF NextRecord
      <3> QED
        BY <3>1, <3>2
    <2>4. DOMAIN hosts' = DOMAIN hosts \cup {NextRecord}
      BY <1>2 DEF Adds
    <2> QED
      BY <2>1, <2>2, <2>3, <2>4 DEF OneHistory
  <1>3. ASSUME NEW keep \in Record, NEW drop \in Record, Merges(keep, drop)
        PROVE  OneHistory'
    <2>1. ASSUME NEW r \in DOMAIN hosts'
          PROVE  hosts'[r].past = IF r = keep THEN hosts[keep].past \cup hosts[drop].past
                                  ELSE hosts[r].past
      BY <1>3 DEF Merges, SamePast, Histories
    <2>2. ASSUME NEW r \in DOMAIN hosts' PROVE hosts'[r].past \subseteq 1 .. created'
      BY <1>3, <2>1 DEF Merges, OneHistory
    <2>3. ASSUME NEW r \in DOMAIN hosts', NEW s \in DOMAIN hosts', r # s
          PROVE  hosts'[r].past \cap hosts'[s].past = {}
      BY <1>3, <2>1, <2>3 DEF Merges, OneHistory
    <2> QED
      BY <2>2, <2>3 DEF OneHistory
  <1> QED
    BY <1>1, <1>2, <1>3 DEF HistoryStep

\* A history that is somewhere before the step is at one record after it.
LEMMA HistoryIsAtOne ==
    ASSUME TypeOK, OneHistory, HistoryStep, left'.deletes = left.deletes,
           NEW r \in DOMAIN hosts, NEW o \in hosts[r].past
    PROVE  Cardinality({s \in DOMAIN hosts' : o \in hosts'[s].past}) = 1
  <1>1. OneHistory'
    BY OneHistoryStays
  <1>2. PICK t \in DOMAIN hosts' : o \in hosts'[t].past
    <2>1. CASE Rewrites \/ Adds
      BY <2>1 DEF Rewrites, Adds, SamePast
    <2>2. ASSUME NEW keep \in Record, NEW drop \in Record, Merges(keep, drop)
          PROVE  \E t \in DOMAIN hosts' : o \in hosts'[t].past
      BY <2>2 DEF Merges, SamePast, Histories
    <2> QED
      BY <2>1, <2>2 DEF HistoryStep, Deletes
  <1>3. {s \in DOMAIN hosts' : o \in hosts'[s].past} = {t}
    BY <1>1, <1>2 DEF OneHistory
  <1> QED
    BY <1>3, FS_Singleton

-----------------------------------------------------------------------------
(* The actions.                                                            *)

StepInv == TypeOK' /\ RowWasRead' /\ KeptStays' /\ HistoryStep

\* A step that changes neither the table nor what it counts.
LEMMA RowsStay ==
    ASSUME UNCHANGED rows
    PROVE  HistoryStep
  BY DEF rows, HistoryStep, Rewrites, SamePast

LEMMA RegisterReadStep ==
    ASSUME RegistryInv, NEW p \in PC, RegisterRead(p)
    PROVE  StepInv
  <1>1. PICK r \in Matching(p) : registering' = [registering EXCEPT ![p] =
             [stage |-> "read", target |-> r, reporting |-> Reports,
              row |-> IF r = NoRecord THEN NoRow ELSE hosts[r]]]
    BY DEF RegisterRead
  <1> DEFINE g == [stage |-> "read", target |-> r, reporting |-> Reports,
                   row |-> IF r = NoRecord THEN NoRow ELSE hosts[r]]
  <1>2. r # NoRecord => r \in Record /\ hosts[r] \in Row
    BY MatchingTyped, RecordsExist DEF TypeOK, RegistryInv
  <1>3. g \in Registration
    BY <1>2, ReportsTyped DEF Registration, RegistryInv
  <1>4. TypeOK'
    BY <1>1, <1>3 DEF RegisterRead, TypeOK, RegistryInv, pcVars, rows
  <1>5. RowWasRead'
    BY <1>1, <1>2 DEF RowWasRead, RegistryInv, TypeOK
  <1> QED
    BY <1>4, <1>5, RowsStay DEF RegisterRead, StepInv, KeptStays, RegistryInv

LEMMA RegisterFailsStep ==
    ASSUME RegistryInv, NEW p \in PC, RegisterFails(p)
    PROVE  StepInv
  <1>1. TypeOK'
    BY DEF RegisterFails, TypeOK, RegistryInv, pcVars, rows
  <1>2. RowWasRead'
    BY DEF RegisterFails, RowWasRead, RegistryInv, TypeOK, Idle
  <1> QED
    BY <1>1, <1>2, RowsStay DEF RegisterFails, StepInv, KeptStays, RegistryInv

LEMMA NewRecord ==
    ASSUME TypeOK, created < MaxRecords
    PROVE  /\ NextRecord \in Record /\ NextRecord \in 0 .. MaxRecords
           /\ NextRecord \notin DOMAIN hosts
           /\ DOMAIN hosts \cup {NextRecord} \subseteq 1 .. NextRecord
  BY RecordsExist, Bounded DEF TypeOK, NextRecord, Record

\* The row a registration writes is one, and it keeps its history.
LEMMA RegisteredTyped ==
    ASSUME RegistryInv, NEW p \in PC, NEW t \in 0 .. MaxTokens,
           registering[p].stage = "read", registering[p].target \in DOMAIN hosts
    PROVE  /\ DOMAIN Registered(p, t, registering[p]) = DOMAIN hosts
           /\ \A r \in DOMAIN hosts : /\ Registered(p, t, registering[p])[r] \in Row
                                      /\ Registered(p, t, registering[p])[r].past = hosts[r].past
  <1> DEFINE g == registering[p]
             new == [g.row EXCEPT !.machine = agent[p].machine, !.token = t, !.name = name[p],
                                  !.address = Address[p],
                                  !.managed = @ \/ g.row.machine = agent[p].machine]
  <1>1. g.target # NoRecord /\ g.row \in Row /\ hosts[g.target] \in Row
    BY RegistrationFields, RecordsExist DEF RegistryInv, TypeOK
  <1>2. /\ new.machine = agent[p].machine /\ new.token = t /\ new.name = name[p]
        /\ new.address = Address[p] /\ new.hw = g.row.hw
        /\ new.managed = (g.row.managed \/ g.row.machine = agent[p].machine)
    BY <1>1 DEF Row
  <1>3. new.managed \in BOOLEAN
    BY <1>2
  <1>4. /\ new.machine \in Machine \cup {NoMachine} /\ new.name \in Name
        /\ new.address \in {Address[q] : q \in PC} /\ new.hw \in PC \cup {NoPC}
    BY <1>1, <1>2, AgentFields, RowFields DEF RegistryInv, TypeOK
  <1>5. Registered(p, t, g) = [hosts EXCEPT ![g.target] = Written(g.target, g.row, new)]
    BY <1>1 DEF Registered
  <1> HIDE DEF new
  <1>6. /\ Written(g.target, g.row, new) \in Row
        /\ Written(g.target, g.row, new).past = hosts[g.target].past
    BY <1>1, <1>2, <1>3, <1>4, WrittenTyped
  <1> QED
    BY <1>5, <1>6 DEF RegistryInv, TypeOK

\* A table with one record more.
LEMMA AddedTyped ==
    ASSUME TypeOK, NEW row \in Row, row.past = {NextRecord}, created < MaxRecords,
           created' = NextRecord,
           hosts' = [r \in DOMAIN hosts \cup {NextRecord} |->
                        IF r # NextRecord THEN hosts[r] ELSE row]
    PROVE  /\ created' \in 0 .. MaxRecords /\ DOMAIN hosts' \subseteq 1 .. created'
           /\ \A r \in DOMAIN hosts' : hosts'[r] \in Row
           /\ HistoryStep
  <1>1. DOMAIN hosts' \subseteq 1 .. created' /\ created' \in 0 .. MaxRecords
    BY NewRecord
  <1>2. \A r \in DOMAIN hosts' : hosts'[r] \in Row
    BY DEF TypeOK
  <1>3. Adds
    BY NewRecord DEF Adds, SamePast
  <1> QED
    BY <1>1, <1>2, <1>3 DEF HistoryStep

LEMMA RegisterCommitStep ==
    ASSUME RegistryInv, NEW p \in PC, RegisterCommit(p)
    PROVE  StepInv
  <1> DEFINE g == registering[p]
             t == issued + 1
  <1>0. g.stage = "read" /\ issued' = t /\ t \in 0 .. MaxTokens /\ issued \in Nat
    BY RecordsExist, Bounded DEF RegisterCommit, RegistryInv
  <1>1. /\ created' \in 0 .. MaxRecords /\ DOMAIN hosts' \subseteq 1 .. created'
        /\ \A r \in DOMAIN hosts' : hosts'[r] \in Row
        /\ HistoryStep
    <2>1. CASE g.target = NoRecord
      <3> DEFINE row == [machine |-> agent[p].machine, token |-> t, name |-> name[p],
                         address |-> Address[p], hw |-> NoPC, seen |-> "fresh",
                         managed |-> TRUE, past |-> {NextRecord}]
      <3>1. created < MaxRecords /\ created' = NextRecord
        BY <2>1 DEF RegisterCommit
      <3>2. row \in Row
        BY <1>0, <3>1, AgentFields, NewRecord DEF Row, RegistryInv, TypeOK
      <3>3. hosts' = [r \in DOMAIN hosts \cup {NextRecord} |->
                         IF r # NextRecord THEN hosts[r] ELSE row]
        BY <1>0, <2>1 DEF RegisterCommit, Registered
      <3> QED
        BY <3>1, <3>2, <3>3, AddedTyped DEF RegistryInv
    <2>2. CASE g.target # NoRecord
      <3>1. g.target \in DOMAIN hosts /\ created' = created /\ hosts' = Registered(p, t, g)
        BY <1>0, <2>2 DEF RegisterCommit
      <3>2. DOMAIN hosts' = DOMAIN hosts /\ \A r \in DOMAIN hosts :
                hosts'[r] \in Row /\ hosts'[r].past = hosts[r].past
        BY <1>0, <3>1, RegisteredTyped
      <3> QED
        BY <3>1, <3>2 DEF HistoryStep, Rewrites, SamePast, RegistryInv, TypeOK
    <2> QED
      BY <2>1, <2>2
  <1>2. agent' \in [PC -> [machine : Machine, token : 0 .. issued']]
    <2>1. PICK arrives \in BOOLEAN :
              agent' = [agent EXCEPT ![p].token = IF arrives THEN issued' ELSE 0]
      BY DEF RegisterCommit
    <2>2. agent \in [PC -> [machine : Machine, token : 0 .. issued']]
      BY <1>0 DEF RegistryInv, TypeOK
    <2> QED
      BY <1>0, <2>1, <2>2
  <1>3. registering' = [registering EXCEPT ![p] = Idle] /\ UNCHANGED <<name, merging, left>>
    BY DEF RegisterCommit
  <1>4. TypeOK'
    BY <1>0, <1>1, <1>2, <1>3, RecordsExist, Bounded DEF TypeOK, RegistryInv
  <1>5. RowWasRead' /\ KeptStays'
    BY <1>3 DEF RowWasRead, KeptStays, RegistryInv, TypeOK, Idle
  <1> QED
    BY <1>1, <1>4, <1>5 DEF StepInv

LEMMA HeartbeatStep ==
    ASSUME RegistryInv, NEW p \in PC, Heartbeat(p)
    PROVE  StepInv
  <1>1. PICK r \in HeldBy(p) :
        /\ hosts' = [hosts EXCEPT ![r] = [@ EXCEPT !.name = name[p], !.address = Address[p],
                                                   !.hw = p, !.seen = "fresh"]]
        /\ merging' = [merging EXCEPT ![p] = [stage |-> "due", drop |-> r]]
    BY DEF Heartbeat
  <1> DEFINE row == [hosts[r] EXCEPT !.name = name[p], !.address = Address[p], !.hw = p,
                                     !.seen = "fresh"]
  <1>2. r \in DOMAIN hosts /\ r \in Record /\ hosts[r] \in Row
    BY RecordsExist DEF HeldBy, RegistryInv, TypeOK
  <1>3. name[p] \in Name /\ Address[p] \in {Address[q] : q \in PC}
    BY DEF RegistryInv, TypeOK
  <1>4. row \in Row /\ row.past = hosts[r].past
    BY <1>2, <1>3 DEF Row
  <1>5. hosts' = [hosts EXCEPT ![r] = row]
    BY <1>1
  <1> HIDE DEF row
  <1>6. HistoryStep /\ \A s \in DOMAIN hosts' : hosts'[s] \in Row
    BY <1>2, <1>4, <1>5 DEF HistoryStep, Rewrites, SamePast, Heartbeat, RegistryInv, TypeOK
  <1>7. merging' \in [PC -> {Idle} \cup Merge]
    BY <1>1, <1>2 DEF RegistryInv, TypeOK, Merge
  <1>8. TypeOK'
    BY <1>1, <1>5, <1>6, <1>7 DEF Heartbeat, RegistryInv, TypeOK, pcVars
  <1>9. RowWasRead' /\ KeptStays'
    BY <1>1 DEF Heartbeat, RowWasRead, KeptStays, RegistryInv, TypeOK
  <1> QED
    BY <1>6, <1>8, <1>9 DEF StepInv

LEMMA TwinsTyped ==
    ASSUME TypeOK, NEW r \in DOMAIN hosts, Twins(r) # {}
    PROVE  /\ Twins(r) \subseteq DOMAIN hosts \ {r}
           /\ Oldest(Twins(r)) \in Twins(r)
  <1>1. Twins(r) \subseteq DOMAIN hosts \ {r}
    BY DEF Twins, Namesakes
  <1>2. Twins(r) \in SUBSET Nat
    BY <1>1, RecordsExist DEF Record
  <1> QED
    BY <1>1, <1>2, OldestIsOne

LEMMA AbsorbReadStep ==
    ASSUME RegistryInv, NEW p \in PC, AbsorbRead(p)
    PROVE  StepInv
  <1> DEFINE m == merging[p]
             keep == Oldest(Twins(m.drop))
             next == [stage |-> "merge", drop |-> m.drop, keep |-> keep, row |-> hosts[m.drop],
                      old |-> hosts[keep], extra |-> OlderOnes(Twins(m.drop)), reporting |-> Reports]
  <1>0. m.stage = "due" /\ UNCHANGED <<pcVars, rows, issued, registering, left>>
    BY DEF AbsorbRead
  <1>1. CASE m.drop \notin DOMAIN hosts \/ Twins(m.drop) = {}
    <2>1. merging' = [merging EXCEPT ![p] = Idle]
      BY <1>1 DEF AbsorbRead
    <2>2. TypeOK'
      BY <1>0, <2>1 DEF RegistryInv, TypeOK, pcVars, rows, Idle
    <2> QED
      BY <1>0, <2>1, <2>2, RowsStay DEF StepInv, RowWasRead, KeptStays, RegistryInv, TypeOK, Idle
  <1>2. CASE m.drop \in DOMAIN hosts /\ Twins(m.drop) # {}
    <2>1. merging' = [merging EXCEPT ![p] = next]
      BY <1>2 DEF AbsorbRead
    <2>2. Twins(m.drop) \subseteq DOMAIN hosts \ {m.drop} /\ keep \in Twins(m.drop)
      BY <1>2, TwinsTyped DEF RegistryInv
    <2>3. /\ m.drop \in Record /\ keep \in Record /\ hosts[m.drop] \in Row /\ hosts[keep] \in Row
          /\ OlderOnes(Twins(m.drop)) \in SUBSET Record
      BY <1>2, <2>2, RecordsExist DEF RegistryInv, TypeOK, OlderOnes
    <2>4. next \in Merge
      BY <2>3, ReportsTyped DEF Merge, RegistryInv
    <2>5. keep # m.drop /\ {keep, m.drop} \cap OlderOnes(Twins(m.drop)) = {}
      BY <2>2 DEF OlderOnes
    <2>6. /\ next.stage = "merge" /\ next.keep = keep /\ next.drop = m.drop
          /\ next.extra = OlderOnes(Twins(m.drop))
      OBVIOUS
    <2> HIDE DEF next, keep
    <2>7. TypeOK'
      BY <1>0, <2>1, <2>4, <2>5, <2>6 DEF RegistryInv, TypeOK, pcVars, rows
    <2>8. RowWasRead' /\ KeptStays'
      BY <1>0, <2>1, <2>6 DEF RowWasRead, KeptStays, RegistryInv, TypeOK
    <2> QED
      BY <1>0, <2>7, <2>8, RowsStay DEF StepInv
  <1> QED
    BY <1>1, <1>2

\* Rows that stay, with one that takes over the history of the one that goes.
LEMMA MergedTyped ==
    ASSUME TypeOK, NEW keep \in DOMAIN hosts, NEW drop \in DOMAIN hosts, keep # drop,
           NEW row \in Row, row.past = Histories(keep, drop), created' = created,
           hosts' = [Without(drop) EXCEPT ![keep] = row]
    PROVE  /\ created' \in 0 .. MaxRecords /\ DOMAIN hosts' \subseteq 1 .. created'
           /\ \A r \in DOMAIN hosts' : hosts'[r] \in Row
           /\ HistoryStep
  <1>1. DOMAIN hosts' = DOMAIN hosts \ {drop}
    BY DEF Without
  <1>2. hosts'[keep] = row /\ \A r \in DOMAIN hosts \ {keep, drop} : hosts'[r] = hosts[r]
    BY DEF Without
  <1>3. Merges(keep, drop)
    BY <1>1, <1>2 DEF Merges, SamePast
  <1>4. keep \in Record /\ drop \in Record
    BY RecordsExist
  <1> QED
    BY <1>1, <1>2, <1>3, <1>4 DEF HistoryStep, TypeOK

LEMMA HistoriesTyped ==
    ASSUME TypeOK, NEW keep \in DOMAIN hosts, NEW drop \in DOMAIN hosts, NEW row \in Row
    PROVE  /\ [row EXCEPT !.past = Histories(keep, drop)] \in Row
           /\ [row EXCEPT !.past = Histories(keep, drop)].past = Histories(keep, drop)
  <1>1. Histories(keep, drop) \in SUBSET Record
    BY RowFields DEF Histories, TypeOK
  <1> QED
    BY <1>1 DEF Row

LEMMA AbsorbMergeStep ==
    ASSUME RegistryInv, NEW p \in PC, AbsorbMerge(p)
    PROVE  StepInv
  <1> DEFINE m == merging[p]
             next == IF m.extra = {} THEN Idle
                     ELSE [stage |-> "extra", keep |-> m.keep, extra |-> m.extra,
                           reporting |-> m.reporting]
  <1>0. m.stage = "merge" /\ UNCHANGED <<pcVars, created, issued, registering, left>>
    BY DEF AbsorbMerge
  <1>1. /\ m.keep \in Record /\ m.drop \in Record /\ m.row \in Row /\ m.extra \in SUBSET Record
        /\ m.reporting \in SUBSET (Token \X Record) /\ m.keep # m.drop
        /\ {m.keep, m.drop} \cap m.extra = {}
    BY <1>0, MergeFields DEF RegistryInv
  <1>2. CASE CanMerge(m)
    <2> DEFINE row == [Written(m.keep, m.old, m.row) EXCEPT !.past = Histories(m.keep, m.drop)]
    <2>0. m.keep \in DOMAIN hosts /\ m.drop \in DOMAIN hosts
      BY <1>2 DEF CanMerge
    <2>1. hosts' = [Without(m.drop) EXCEPT ![m.keep] = row] /\ merging' = [merging EXCEPT ![p] = next]
      BY <1>2 DEF AbsorbMerge
    <2>2. Written(m.keep, m.old, m.row) \in Row
      BY <1>1, <2>0, RowFields, WrittenTyped DEF RegistryInv, TypeOK
    <2>3. row \in Row /\ row.past = Histories(m.keep, m.drop)
      BY <2>0, <2>2, HistoriesTyped DEF RegistryInv
    <2> HIDE DEF row
    <2>4. /\ created' \in 0 .. MaxRecords /\ DOMAIN hosts' \subseteq 1 .. created'
          /\ \A r \in DOMAIN hosts' : hosts'[r] \in Row
          /\ HistoryStep
      BY <1>0, <1>1, <2>0, <2>1, <2>3, MergedTyped DEF RegistryInv
    <2>5. next \in {Idle} \cup Merge /\ next.stage # "merge"
          /\ (next.stage = "extra" => next.keep \notin next.extra)
      BY <1>1 DEF Merge, Idle
    <2> HIDE DEF next
    <2>6. TypeOK'
      BY <1>0, <2>1, <2>4, <2>5 DEF RegistryInv, TypeOK, pcVars
    <2>7. RowWasRead' /\ KeptStays'
      BY <1>0, <2>1, <2>5 DEF RowWasRead, KeptStays, RegistryInv, TypeOK
    <2> QED
      BY <2>4, <2>6, <2>7 DEF StepInv
  <1>3. CASE ~CanMerge(m)
    <2>1. merging' = [merging EXCEPT ![p] = Idle] /\ UNCHANGED hosts
      BY <1>3 DEF AbsorbMerge
    <2>2. TypeOK'
      BY <1>0, <2>1 DEF RegistryInv, TypeOK, pcVars, rows, Idle
    <2> QED
      BY <1>0, <2>1, <2>2, RowsStay
         DEF StepInv, RowWasRead, KeptStays, RegistryInv, TypeOK, Idle, rows
  <1> QED
    BY <1>2, <1>3

LEMMA AbsorbOlderStep ==
    ASSUME RegistryInv, NEW p \in PC, AbsorbOlder(p)
    PROVE  StepInv
  <1> DEFINE m == merging[p]
             older == Oldest(m.extra)
             next == IF m.extra = {older} THEN Idle ELSE [m EXCEPT !.extra = @ \ {older}]
  <1>0. m.stage = "extra" /\ UNCHANGED <<pcVars, created, issued, registering, left>>
    BY DEF AbsorbOlder
  <1>1. /\ m.keep \in Record /\ m.extra \in SUBSET Record /\ m.extra # {}
        /\ m.reporting \in SUBSET (Token \X Record) /\ m.keep \notin m.extra
        /\ m \in [stage : {"extra"}, keep : Record, extra : (SUBSET Record) \ {{}},
                  reporting : SUBSET (Token \X Record)]
    <2>1. m \in Merge
      BY <1>0 DEF RegistryInv, TypeOK, Idle
    <2> QED
      BY <1>0, <2>1, MergeFields DEF RegistryInv, Merge
  <1>2. older \in m.extra /\ older # m.keep
    <2>1. m.extra \in SUBSET Nat
      BY <1>1 DEF Record
    <2> QED
      BY <1>1, <2>1, OldestIsOne
  <1>3. CASE {m.keep, older} \subseteq DOMAIN hosts
    <2> DEFINE row == [hosts[m.keep] EXCEPT !.past = Histories(m.keep, older)]
    <2>1. /\ hosts' = [Without(older) EXCEPT ![m.keep].past = Histories(m.keep, older)]
          /\ merging' = [merging EXCEPT ![p] = next]
      BY <1>3 DEF AbsorbOlder
    <2>2. row \in Row /\ row.past = Histories(m.keep, older)
      BY <1>3, HistoriesTyped DEF RegistryInv, TypeOK
    <2>3. hosts' = [Without(older) EXCEPT ![m.keep] = row]
      BY <1>2, <1>3, <2>1 DEF Without
    <2> HIDE DEF row
    <2>4. /\ created' \in 0 .. MaxRecords /\ DOMAIN hosts' \subseteq 1 .. created'
          /\ \A r \in DOMAIN hosts' : hosts'[r] \in Row
          /\ HistoryStep
      BY <1>0, <1>2, <1>3, <2>2, <2>3, MergedTyped DEF RegistryInv
    <2>5. CASE m.extra = {older}
      <3>1. merging' = [merging EXCEPT ![p] = Idle]
        BY <2>1, <2>5
      <3>2. TypeOK'
        BY <1>0, <2>4, <3>1 DEF RegistryInv, TypeOK, pcVars, Idle
      <3> QED
        BY <1>0, <2>4, <3>1, <3>2 DEF StepInv, RowWasRead, KeptStays, RegistryInv, TypeOK, Idle
    <2>6. CASE m.extra # {older}
      <3> DEFINE rest == [m EXCEPT !.extra = @ \ {older}]
      <3>1. merging' = [merging EXCEPT ![p] = rest]
        BY <2>1, <2>6
      <3>2. /\ rest \in Merge /\ rest.stage = "extra" /\ rest.keep \notin rest.extra
        BY <1>1, <1>2, <2>6 DEF Merge
      <3> HIDE DEF rest
      <3>3. TypeOK'
        BY <1>0, <2>4, <3>1, <3>2 DEF RegistryInv, TypeOK, pcVars
      <3> QED
        BY <1>0, <2>4, <3>1, <3>2, <3>3 DEF StepInv, RowWasRead, KeptStays, RegistryInv, TypeOK
    <2> QED
      BY <2>5, <2>6
  <1>4. CASE ~ ({m.keep, older} \subseteq DOMAIN hosts)
    <2>1. merging' = [merging EXCEPT ![p] = Idle] /\ UNCHANGED hosts
      BY <1>4 DEF AbsorbOlder
    <2>2. TypeOK'
      BY <1>0, <2>1 DEF RegistryInv, TypeOK, pcVars, rows, Idle
    <2> QED
      BY <1>0, <2>1, <2>2, RowsStay
         DEF StepInv, RowWasRead, KeptStays, RegistryInv, TypeOK, Idle, rows
  <1> QED
    BY <1>3, <1>4

LEMMA LapseStep ==
    ASSUME RegistryInv, NEW r \in DOMAIN hosts, Lapse(r)
    PROVE  StepInv
  <1> DEFINE row == [hosts[r] EXCEPT !.seen = "stale"]
  <1>1. hosts' = [hosts EXCEPT ![r] = row]
        /\ UNCHANGED <<pcVars, created, issued, registering, merging, left>>
    BY DEF Lapse
  <1>2. row \in Row /\ row.past = hosts[r].past
    BY DEF Row, RegistryInv, TypeOK
  <1> HIDE DEF row
  <1>3. HistoryStep
    BY <1>1, <1>2 DEF HistoryStep, Rewrites, SamePast
  <1>4. TypeOK'
    BY <1>1, <1>2 DEF RegistryInv, TypeOK, pcVars
  <1> QED
    BY <1>1, <1>3, <1>4 DEF StepInv, RowWasRead, KeptStays, RegistryInv

LEMMA ReinstallStep ==
    ASSUME RegistryInv, NEW p \in PC, Reinstall(p)
    PROVE  StepInv
  <1>1. PICK m \in {agent[p].machine, <<p, left["reinstalls"]>>} :
            agent' = [agent EXCEPT ![p] = [machine |-> m, token |-> 0]]
    BY DEF Reinstall
  <1>2. left["reinstalls"] \in 0 .. MaxReinstalls
    BY DEF RegistryInv, TypeOK, Bounds
  <1>3. m \in Machine
    BY <1>2, AgentFields DEF Machine, RegistryInv
  <1>4. left' \in Bounds
    BY SpendTyped DEF Reinstall, RegistryInv
  <1>5. agent' \in [PC -> [machine : Machine, token : 0 .. issued]]
    BY <1>1, <1>3, RecordsExist DEF RegistryInv, TypeOK
  <1>6. UNCHANGED <<name, rows, issued, registering, merging>>
    BY DEF Reinstall
  <1>7. TypeOK'
    BY <1>4, <1>5, <1>6 DEF RegistryInv, TypeOK, rows
  <1> QED
    BY <1>6, <1>7, RowsStay DEF StepInv, RowWasRead, KeptStays, RegistryInv

\* Deleting a record is a step of its own kind.
LEMMA WithoutStep ==
    ASSUME TypeOK, NEW r \in DOMAIN hosts, hosts' = Without(r), created' = created,
           left'.deletes # left.deletes
    PROVE  /\ DOMAIN hosts' \subseteq 1 .. created' /\ \A s \in DOMAIN hosts' : hosts'[s] \in Row
           /\ HistoryStep
  <1>1. DOMAIN hosts' = DOMAIN hosts \ {r} /\ \A s \in DOMAIN hosts' : hosts'[s] = hosts[s]
    BY DEF Without
  <1> QED
    BY <1>1 DEF HistoryStep, Deletes, SamePast, TypeOK

LEMMA DeleteHostStep ==
    ASSUME RegistryInv, NEW r \in DOMAIN hosts, DeleteHost(r)
    PROVE  StepInv
  <1>1. left' \in Bounds /\ left'.deletes # left.deletes
    BY SpendTyped DEF DeleteHost, RegistryInv
  <1>2. hosts' = Without(r) /\ UNCHANGED <<pcVars, created, issued, registering, merging>>
    BY DEF DeleteHost
  <1>3. /\ DOMAIN hosts' \subseteq 1 .. created' /\ \A s \in DOMAIN hosts' : hosts'[s] \in Row
        /\ HistoryStep
    BY <1>1, <1>2, WithoutStep DEF RegistryInv
  <1>4. TypeOK'
    BY <1>1, <1>2, <1>3 DEF RegistryInv, TypeOK, pcVars
  <1> QED
    BY <1>2, <1>3, <1>4 DEF StepInv, RowWasRead, KeptStays, RegistryInv

LEMMA UninstallStep ==
    ASSUME RegistryInv, NEW p \in PC, Uninstall(p)
    PROVE  StepInv
  <1>1. left' \in Bounds /\ left'.deletes # left.deletes
    BY SpendTyped DEF Uninstall, RegistryInv
  <1>2. /\ agent' = [agent EXCEPT ![p].token = 0]
        /\ UNCHANGED <<name, created, issued, registering, merging>>
    BY DEF Uninstall
  <1>3. PICK r \in HeldBy(p) :
          hosts' = IF hosts[r].managed THEN Without(r)
                   ELSE [hosts EXCEPT ![r] = [@ EXCEPT !.machine = NoMachine, !.token = 0,
                                                       !.seen = "never"]]
    BY DEF Uninstall
  <1>4. r \in DOMAIN hosts /\ hosts[r] \in Row
    BY DEF HeldBy, RegistryInv, TypeOK
  <1>5. /\ DOMAIN hosts' \subseteq 1 .. created' /\ \A s \in DOMAIN hosts' : hosts'[s] \in Row
        /\ HistoryStep
    <2>1. CASE hosts[r].managed
      BY <1>1, <1>2, <1>3, <1>4, <2>1, WithoutStep DEF RegistryInv
    <2>2. CASE ~hosts[r].managed
      <3> DEFINE row == [hosts[r] EXCEPT !.machine = NoMachine, !.token = 0, !.seen = "never"]
      <3>1. hosts' = [hosts EXCEPT ![r] = row]
        BY <1>3, <2>2
      <3>2. row \in Row /\ row.past = hosts[r].past
        <4>1. 0 \in 0 .. MaxTokens
          BY Bounded
        <4> DEFINE w == [hosts[r] EXCEPT !.machine = NoMachine]
        <4>2. w \in Row /\ w.past = hosts[r].past
          BY <1>4 DEF Row
        <4>3. row = [w EXCEPT !.token = 0, !.seen = "never"]
          BY Zenon
        <4> HIDE DEF w
        <4> QED
          BY <4>1, <4>2, <4>3 DEF Row
      <3> HIDE DEF row
      <3> QED
        BY <1>2, <3>1, <3>2 DEF HistoryStep, Rewrites, SamePast, RegistryInv, TypeOK
    <2> QED
      BY <2>1, <2>2
  <1>6. agent' \in [PC -> [machine : Machine, token : 0 .. issued]]
    BY <1>2, RecordsExist DEF RegistryInv, TypeOK
  <1>7. TypeOK'
    BY <1>1, <1>2, <1>5, <1>6 DEF RegistryInv, TypeOK
  <1> QED
    BY <1>2, <1>5, <1>7 DEF StepInv, RowWasRead, KeptStays, RegistryInv

LEMMA EnteredStep ==
    ASSUME RegistryInv, NEW p \in PC, Entered(p)
    PROVE  StepInv
  <1> DEFINE row == [machine |-> NoMachine, token |-> 0, name |-> name[p], address |-> Address[p],
                     hw |-> NoPC, seen |-> "never", managed |-> FALSE, past |-> {NextRecord}]
  <1>1. left' \in Bounds
    BY SpendTyped DEF Entered, RegistryInv
  <1>2. /\ created < MaxRecords /\ created' = NextRecord
        /\ hosts' = [r \in DOMAIN hosts \cup {NextRecord} |->
                        IF r # NextRecord THEN hosts[r] ELSE row]
        /\ UNCHANGED <<pcVars, issued, registering, merging>>
    BY DEF Entered
  <1>3. row \in Row /\ row.past = {NextRecord}
    BY <1>2, NewRecord, Bounded DEF Row, RegistryInv, TypeOK
  <1> HIDE DEF row
  <1>4. /\ created' \in 0 .. MaxRecords /\ DOMAIN hosts' \subseteq 1 .. created'
        /\ \A r \in DOMAIN hosts' : hosts'[r] \in Row
        /\ HistoryStep
    BY <1>2, <1>3, AddedTyped DEF RegistryInv
  <1>5. TypeOK'
    BY <1>1, <1>2, <1>4 DEF RegistryInv, TypeOK, pcVars
  <1> QED
    BY <1>2, <1>4, <1>5 DEF StepInv, RowWasRead, KeptStays, RegistryInv

-----------------------------------------------------------------------------
(* The theorems.                                                           *)

LEMMA NextStep == RegistryInv /\ [Next]_vars => StepInv
  <1> SUFFICES ASSUME RegistryInv, [Next]_vars PROVE StepInv
    OBVIOUS
  <1>1. CASE UNCHANGED vars
    BY <1>1, RowsStay
       DEF vars, pcVars, rows, StepInv, RowWasRead, KeptStays, RegistryInv, TypeOK, HeldBy
  <1> QED
    BY <1>1, RegisterReadStep, RegisterCommitStep, RegisterFailsStep, HeartbeatStep,
       AbsorbReadStep, AbsorbMergeStep, AbsorbOlderStep, ReinstallStep, UninstallStep,
       EnteredStep, LapseStep, DeleteHostStep
       DEF Next, Absorb, AddHost, ImportCsv

LEMMA InitRegistryInv == Init => RegistryInv
  <1> SUFFICES ASSUME Init PROVE RegistryInv
    OBVIOUS
  <1>1. DOMAIN hosts = {}
    BY DEF Init
  <1>2. \A p \in PC : registering[p].stage = "idle" /\ merging[p].stage = "idle"
    BY DEF Init, Idle
  <1> QED
    BY <1>1, <1>2, InitTyped DEF RegistryInv, RowWasRead, KeptStays, OneHistory

LEMMA NextRegistryInv == RegistryInv /\ [Next]_vars => RegistryInv'
  BY NextStep, OneHistoryStays DEF StepInv, RegistryInv

\* The table, the registrations and the merges in progress keep their types,
\* and no two records have the history of the same one.
THEOREM RegistryInvariant == Spec => []RegistryInv
  BY InitRegistryInv, NextRegistryInv, PTL DEF Spec

\* Whatever registers, reinstalls, merges and fails at once, a history that is
\* in the table is found at one record after each step, unless that step
\* deletes a record: no merge loses one and none is counted twice.
THEOREM HistoriesAreKept == Spec => HistoryStays
  <1>1. RegistryInv /\ [Next]_vars =>
          [left'.deletes = left.deletes =>
              \A r \in DOMAIN hosts : \A o \in hosts[r].past :
                  Cardinality({s \in DOMAIN hosts' : o \in hosts'[s].past}) = 1]_vars
    BY NextStep, HistoryIsAtOne DEF StepInv, RegistryInv
  <1> QED
    BY <1>1, RegistryInvariant, PTL DEF Spec, HistoryStays

-----------------------------------------------------------------------------
(* Who is who.  Machine ids may be shared, by PCs of different names; what  *)
(* a clean installation makes is a PC's own.  A token belongs to one agent, *)
(* and a machine id to one record.                                          *)

NamesApart ==
    /\ \A p, q \in PC : name[p] = name[q] /\ agent[p].machine = agent[q].machine => p = q
    /\ \A p \in PC : agent[p].machine[2] # 0 => agent[p].machine[1] = p

TokensApart == \A p, q \in PC : p # q /\ agent[p].token # 0 => agent[p].token # agent[q].token

MachinesApart ==
    \A r, s \in DOMAIN hosts :
        r # s /\ hosts[r].machine # NoMachine => hosts[r].machine # hosts[s].machine

\* A registration that has read takes no record anybody reported under then.
TakesNobodys ==
    \A q \in PC : registering[q].stage = "read" =>
        /\ agent[q].token = 0
        /\ \A t \in Token : <<t, registering[q].target>> \notin registering[q].reporting

\* A merge that has read keeps and drops stale records only, but for the one
\* of the heartbeat, whose token and machine id it has read.
MergesStale ==
    \A q \in PC :
        LET m == merging[q]
        IN  /\ m.stage = "merge" =>
                 /\ m.row.machine # m.old.machine
                 /\ \A t \in Token, r \in m.extra \cup {m.keep} : <<t, r>> \notin m.reporting
                 /\ \A t \in Token : <<t, m.drop>> \in m.reporting =>
                       /\ t = m.row.token /\ t <= issued
                       /\ \A p \in PC : agent[p].token = t => agent[p].machine = m.row.machine
            /\ m.stage = "extra" =>
                 \A t \in Token, r \in m.extra : <<t, r>> \notin m.reporting

KeptInv == RegistryInv /\ NamesApart /\ TokensApart /\ MachinesApart /\ TakesNobodys /\ MergesStale

LEMMA NamesStayApart ==
    ASSUME RegistryInv, NamesApart, TokensApart, [Next]_vars
    PROVE  NamesApart' /\ TokensApart'
  <1>1. CASE UNCHANGED pcVars
    BY <1>1 DEF pcVars, NamesApart, TokensApart
  <1>2. ASSUME NEW p \in PC, RegisterCommit(p) PROVE NamesApart' /\ TokensApart'
    <2>1. PICK arrives \in BOOLEAN :
              agent' = [agent EXCEPT ![p].token = IF arrives THEN issued' ELSE 0]
      BY <1>2 DEF RegisterCommit
    <2>2. issued' = issued + 1 /\ issued \in Nat /\ name' = name
      BY <1>2, RecordsExist DEF RegisterCommit, RegistryInv
    <2>3. \A q \in PC : agent'[q].machine = agent[q].machine
      BY <2>1 DEF RegistryInv, TypeOK
    <2>4. \A q \in PC : agent[q].token <= issued /\ agent[q].token \in Nat
      BY <2>2, AgentFields DEF RegistryInv
    <2>5. NamesApart'
      BY <2>2, <2>3 DEF NamesApart
    <2>6. \A q \in PC : q # p => agent'[q] = agent[q]
      BY <2>1 DEF RegistryInv, TypeOK
    <2>7. agent'[p].token \in {0, issued + 1}
      BY <2>1, <2>2 DEF RegistryInv, TypeOK
    <2>8. TokensApart'
      BY <2>2, <2>4, <2>6, <2>7 DEF TokensApart
    <2> QED
      BY <2>5, <2>8
  <1>3. ASSUME NEW p \in PC, Reinstall(p) PROVE NamesApart' /\ TokensApart'
    <2>1. PICK m \in {agent[p].machine, <<p, left["reinstalls"]>>} :
              agent' = [agent EXCEPT ![p] = [machine |-> m, token |-> 0]]
      BY <1>3 DEF Reinstall
    <2>2. left["reinstalls"] # 0 /\ name' = name
      BY <1>3, Bounded DEF Reinstall, Spend, RegistryInv, TypeOK, Bounds
    <2>3. /\ \A q \in PC : q # p => agent'[q] = agent[q]
          /\ agent'[p].token = 0 /\ agent'[p].machine = m
      BY <2>1 DEF RegistryInv, TypeOK
    <2>4. TokensApart'
      BY <2>3 DEF TokensApart
    <2>5. CASE m = agent[p].machine
      BY <2>2, <2>3, <2>4, <2>5 DEF NamesApart
    <2>6. CASE m = <<p, left["reinstalls"]>>
      <3>1. m[1] = p /\ m[2] # 0
        BY <2>2, <2>6
      <3>2. \A q \in PC : q # p => agent'[q].machine # m
        BY <2>3, <3>1 DEF NamesApart
      <3> QED
        BY <2>2, <2>3, <2>4, <3>1, <3>2 DEF NamesApart
    <2> QED
      BY <2>1, <2>5, <2>6
  <1>4. ASSUME NEW p \in PC, Uninstall(p) PROVE NamesApart' /\ TokensApart'
    <2>1. agent' = [agent EXCEPT ![p].token = 0] /\ name' = name
      BY <1>4 DEF Uninstall
    <2>2. /\ \A q \in PC : agent'[q].machine = agent[q].machine
          /\ \A q \in PC : q # p => agent'[q] = agent[q]
          /\ agent'[p].token = 0
      BY <2>1 DEF RegistryInv, TypeOK
    <2> QED
      BY <2>1, <2>2 DEF NamesApart, TokensApart
  <1> QED
    BY <1>1, <1>2, <1>3, <1>4
       DEF Next, vars, RegisterRead, RegisterFails, Heartbeat, Absorb, AbsorbRead, AbsorbMerge,
           AbsorbOlder, AddHost, ImportCsv, Entered, Lapse, DeleteHost, pcVars

LEMMA WrittenFields ==
    ASSUME NEW r \in DOMAIN hosts, hosts[r] \in Row, NEW read, NEW new
    PROVE  /\ Written(r, read, new).token = new.token
           /\ Written(r, read, new).machine =
                 IF new.machine = read.machine THEN hosts[r].machine ELSE new.machine
  BY DEF Written, Row

\* What a registration does to the record it has found; the others stay.
LEMMA RegisteredMachines ==
    ASSUME RegistryInv, NEW p \in PC, RegisterCommit(p), registering[p].target # NoRecord
    PROVE  /\ registering[p].target \in DOMAIN hosts /\ DOMAIN hosts' = DOMAIN hosts
           /\ \A r \in DOMAIN hosts : r # registering[p].target => hosts'[r] = hosts[r]
           /\ \/ hosts'[registering[p].target].machine = hosts[registering[p].target].machine
              \/ /\ hosts'[registering[p].target].machine = agent[p].machine
                 /\ MachineIsFree(agent[p].machine, registering[p].target)
  <1> DEFINE g == registering[p]
             new == [g.row EXCEPT !.machine = agent[p].machine, !.token = issued', !.name = name[p],
                                  !.address = Address[p],
                                  !.managed = @ \/ g.row.machine = agent[p].machine]
  <1>1. g.target \in DOMAIN hosts /\ hosts[g.target] \in Row /\ g.row \in Row
    BY RegistrationFields DEF RegisterCommit, RegistryInv, TypeOK
  <1>2. hosts' = [hosts EXCEPT ![g.target] = Written(g.target, g.row, new)]
    BY DEF RegisterCommit, Registered
  <1>3. new.machine = agent[p].machine
    BY <1>1 DEF Row
  <1> HIDE DEF new
  <1>4. hosts'[g.target].machine =
            IF agent[p].machine = g.row.machine THEN hosts[g.target].machine ELSE agent[p].machine
    BY <1>1, <1>2, <1>3, WrittenFields
  <1>5. agent[p].machine # g.row.machine => MachineIsFree(agent[p].machine, g.target)
    BY DEF RegisterCommit, TakesMachine
  <1> QED
    BY <1>1, <1>2, <1>4, <1>5

LEMMA NewMachine ==
    ASSUME RegistryInv, NEW p \in PC, RegisterCommit(p), registering[p].target = NoRecord
    PROVE  /\ NextRecord \notin DOMAIN hosts /\ DOMAIN hosts' = DOMAIN hosts \cup {NextRecord}
           /\ \A r \in DOMAIN hosts : hosts'[r] = hosts[r]
           /\ hosts'[NextRecord].machine = agent[p].machine
           /\ \A r \in DOMAIN hosts : hosts[r].machine # agent[p].machine
  <1>1. created < MaxRecords /\ MachineIsFree(agent[p].machine, NoRecord)
    BY DEF RegisterCommit, TakesMachine
  <1>2. NextRecord \notin DOMAIN hosts /\ NoRecord \notin DOMAIN hosts
    BY <1>1, NewRecord, RecordsExist DEF RegistryInv
  <1> QED
    BY <1>1, <1>2 DEF RegisterCommit, Registered, MachineIsFree

\* What a merge does, if it succeeds.
LEMMA MergedFields ==
    ASSUME RegistryInv, NEW q \in PC, AbsorbMerge(q), CanMerge(merging[q])
    PROVE  /\ {merging[q].keep, merging[q].drop} \subseteq DOMAIN hosts
           /\ DOMAIN hosts' = DOMAIN hosts \ {merging[q].drop}
           /\ merging[q].keep # merging[q].drop
           /\ \A r \in DOMAIN hosts' : r # merging[q].keep => hosts'[r] = hosts[r]
           /\ hosts'[merging[q].keep].token = merging[q].row.token
           /\ hosts'[merging[q].keep].machine =
                 IF merging[q].row.machine = merging[q].old.machine
                 THEN hosts[merging[q].keep].machine ELSE merging[q].row.machine
  <1> DEFINE m == merging[q]
             row == [Written(m.keep, m.old, m.row) EXCEPT !.past = Histories(m.keep, m.drop)]
  <1>1. m.stage = "merge" /\ hosts' = [Without(m.drop) EXCEPT ![m.keep] = row]
    BY DEF AbsorbMerge
  <1>2. /\ m.keep # m.drop /\ m.row \in Row /\ m.keep \in DOMAIN hosts /\ m.drop \in DOMAIN hosts
        /\ hosts[m.keep] \in Row
    BY <1>1, MergeFields DEF CanMerge, RegistryInv, TypeOK
  <1>3. Written(m.keep, m.old, m.row) \in Row
    BY <1>2, RowFields, WrittenTyped
  <1>4. /\ row.token = Written(m.keep, m.old, m.row).token
        /\ row.machine = Written(m.keep, m.old, m.row).machine
    BY <1>3 DEF Row
  <1>5. /\ DOMAIN hosts' = DOMAIN hosts \ {m.drop} /\ hosts'[m.keep] = row
        /\ \A r \in DOMAIN hosts' : r # m.keep => hosts'[r] = hosts[r]
    BY <1>1, <1>2 DEF Without
  <1> HIDE DEF row
  <1> QED
    BY <1>2, <1>4, <1>5, WrittenFields

LEMMA OlderFields ==
    ASSUME RegistryInv, NEW q \in PC, AbsorbOlder(q), hosts' # hosts
    PROVE  \E older \in merging[q].extra :
              /\ DOMAIN hosts' = DOMAIN hosts \ {older}
              /\ \A r \in DOMAIN hosts' : /\ hosts'[r].token = hosts[r].token
                                         /\ hosts'[r].machine = hosts[r].machine
  <1> DEFINE m == merging[q]
             older == Oldest(m.extra)
             row == [hosts[m.keep] EXCEPT !.past = Histories(m.keep, older)]
  <1>1. m.stage = "extra" /\ m.extra \in SUBSET Record /\ m.extra # {} /\ m.keep \notin m.extra
    BY MergeFields DEF AbsorbOlder, RegistryInv
  <1>2. older \in m.extra
    BY <1>1, OldestIsOne DEF Record
  <1>3. {m.keep, older} \subseteq DOMAIN hosts
    BY DEF AbsorbOlder
  <1>4. hosts' = [Without(older) EXCEPT ![m.keep].past = Histories(m.keep, older)]
    BY <1>3 DEF AbsorbOlder
  <1>5. hosts' = [Without(older) EXCEPT ![m.keep] = row]
    BY <1>1, <1>2, <1>3, <1>4 DEF Without
  <1>6. row.token = hosts[m.keep].token /\ row.machine = hosts[m.keep].machine
    BY <1>3 DEF Row, RegistryInv, TypeOK
  <1> HIDE DEF row
  <1>7. /\ DOMAIN hosts' = DOMAIN hosts \ {older}
        /\ \A r \in DOMAIN hosts' : /\ hosts'[r].token = hosts[r].token
                                    /\ hosts'[r].machine = hosts[r].machine
    BY <1>5, <1>6 DEF Without
  <1> QED
    BY <1>2, <1>7

\* Heartbeats and lapses leave token and machine id, uninstallations and users
\* take a record or its machine id, or add one without.
LEMMA OtherFields ==
    ASSUME RegistryInv,
           \/ \E p \in PC : Heartbeat(p) \/ Uninstall(p) \/ Entered(p)
           \/ \E r \in DOMAIN hosts : Lapse(r) \/ DeleteHost(r)
    PROVE  /\ \A r \in DOMAIN hosts' :
                 \/ r \in DOMAIN hosts /\ hosts'[r].machine = hosts[r].machine
                 \/ hosts'[r].machine = NoMachine
           /\ \/ left'.deletes # left.deletes
              \/ \A r \in DOMAIN hosts : /\ r \in DOMAIN hosts'
                                         /\ hosts'[r].token = hosts[r].token
                                         /\ hosts'[r].machine = hosts[r].machine
  <1>1. ASSUME NEW p \in PC, Heartbeat(p)
        PROVE  \A r \in DOMAIN hosts : /\ hosts'[r].token = hosts[r].token
                                       /\ hosts'[r].machine = hosts[r].machine
    <2>1. PICK r \in HeldBy(p) :
              hosts' = [hosts EXCEPT ![r] = [@ EXCEPT !.name = name[p], !.address = Address[p],
                                                      !.hw = p, !.seen = "fresh"]]
      BY <1>1 DEF Heartbeat
    <2> DEFINE row == [hosts[r] EXCEPT !.name = name[p], !.address = Address[p], !.hw = p,
                                       !.seen = "fresh"]
    <2>2. r \in DOMAIN hosts /\ hosts[r] \in Row
      BY DEF HeldBy, RegistryInv, TypeOK
    <2>3. row.token = hosts[r].token /\ row.machine = hosts[r].machine
      BY <2>2 DEF Row
    <2>4. hosts' = [hosts EXCEPT ![r] = row]
      BY <2>1
    <2> HIDE DEF row
    <2> QED
      BY <2>2, <2>3, <2>4
  <1>2. ASSUME NEW p \in PC, Heartbeat(p) PROVE DOMAIN hosts' = DOMAIN hosts
    BY <1>2 DEF Heartbeat
  <1>3. ASSUME NEW r \in DOMAIN hosts, Lapse(r)
        PROVE  DOMAIN hosts' = DOMAIN hosts /\ \A s \in DOMAIN hosts :
                   hosts'[s].token = hosts[s].token /\ hosts'[s].machine = hosts[s].machine
    BY <1>3 DEF Lapse, RegistryInv, TypeOK, Row
  <1>4. ASSUME NEW r \in DOMAIN hosts, DeleteHost(r)
        PROVE  /\ left'.deletes # left.deletes
               /\ \A s \in DOMAIN hosts' : s \in DOMAIN hosts /\ hosts'[s] = hosts[s]
    BY <1>4, SpendTyped DEF DeleteHost, Without, RegistryInv
  <1>5. ASSUME NEW p \in PC, Uninstall(p)
        PROVE  /\ left'.deletes # left.deletes
               /\ \A s \in DOMAIN hosts' : /\ s \in DOMAIN hosts
                                           /\ \/ hosts'[s].machine = hosts[s].machine
                                              \/ hosts'[s].machine = NoMachine
    <2>1. left'.deletes # left.deletes
      BY <1>5, SpendTyped DEF Uninstall, RegistryInv
    <2>2. PICK r \in HeldBy(p) :
          hosts' = IF hosts[r].managed THEN Without(r)
                   ELSE [hosts EXCEPT ![r] = [@ EXCEPT !.machine = NoMachine, !.token = 0,
                                                       !.seen = "never"]]
      BY <1>5 DEF Uninstall
    <2>3. r \in DOMAIN hosts /\ hosts[r] \in Row
      BY DEF HeldBy, RegistryInv, TypeOK
    <2> QED
      BY <2>1, <2>2, <2>3 DEF Without, Row
  <1>6. ASSUME NEW p \in PC, Entered(p)
        PROVE  /\ \A s \in DOMAIN hosts : s \in DOMAIN hosts' /\ hosts'[s] = hosts[s]
               /\ \A s \in DOMAIN hosts' : s \in DOMAIN hosts \/ hosts'[s].machine = NoMachine
    BY <1>6, NewRecord DEF Entered, RegistryInv
  <1> QED
    BY <1>1, <1>2, <1>3, <1>4, <1>5, <1>6
LEMMA MachinesStayApart ==
    ASSUME RegistryInv, MachinesApart, MergesStale, [Next]_vars
    PROVE  MachinesApart'
  <1>1. CASE UNCHANGED hosts
    BY <1>1 DEF MachinesApart
  <1>2. ASSUME NEW p \in PC, RegisterCommit(p) PROVE MachinesApart'
    <2>1. CASE registering[p].target = NoRecord
      BY <1>2, <2>1, NewMachine DEF MachinesApart
    <2>2. CASE registering[p].target # NoRecord
      BY <1>2, <2>2, RegisteredMachines DEF MachinesApart, MachineIsFree
    <2> QED
      BY <2>1, <2>2
  <1>3. ASSUME NEW p \in PC, AbsorbMerge(p), CanMerge(merging[p]) PROVE MachinesApart'
    <2> DEFINE m == merging[p]
    <2>1. m.stage = "merge" /\ m.row.machine # m.old.machine
      BY <1>3 DEF AbsorbMerge, MergesStale
    <2>2. /\ m.keep \in DOMAIN hosts' /\ DOMAIN hosts' = DOMAIN hosts \ {m.drop}
          /\ hosts'[m.keep].machine = m.row.machine
          /\ \A r \in DOMAIN hosts' : r # m.keep => hosts'[r] = hosts[r]
      BY <1>3, <2>1, MergedFields
    <2>3. \A r \in DOMAIN hosts' : r # m.keep => hosts'[r].machine # m.row.machine
      BY <1>3, <2>1, <2>2 DEF CanMerge
    <2> HIDE DEF m
    <2> QED
      BY <2>2, <2>3 DEF MachinesApart
  <1>4. ASSUME NEW p \in PC, AbsorbOlder(p), hosts' # hosts PROVE MachinesApart'
    BY <1>4, OlderFields DEF MachinesApart
  <1>5. ASSUME \/ \E p \in PC : Heartbeat(p) \/ Uninstall(p) \/ Entered(p)
               \/ \E r \in DOMAIN hosts : Lapse(r) \/ DeleteHost(r)
        PROVE  MachinesApart'
    BY <1>5, OtherFields DEF MachinesApart
  <1> QED
    BY <1>1, <1>2, <1>3, <1>4, <1>5
       DEF Next, vars, rows, RegisterRead, RegisterFails, Absorb, AbsorbRead, AbsorbMerge,
           AddHost, ImportCsv, Reinstall

\* A machine id is never the lack of one.
LEMMA MachineIsOne == NoMachine \notin Machine
  BY DEF NoMachine, Machine

\* A record anybody reports under has the token, the machine id and the name of
\* that agent, which has one.
LEMMA ReportedRecord ==
    ASSUME TypeOK, NEW t \in Token, NEW r, <<t, r>> \in Reports
    PROVE  \E p \in PC : /\ t = agent[p].token /\ t # 0 /\ t <= issued
                         /\ r \in DOMAIN hosts /\ hosts[r].token = t
                         /\ hosts[r].machine = agent[p].machine /\ hosts[r].machine # NoMachine
                         /\ hosts[r].seen = "fresh" /\ hosts[r].name = name[p]
  <1>1. PICK p \in PC : \E s \in OwnRecord(p) : <<t, r>> = <<agent[p].token, s>>
    BY DEF Reports
  <1>2. t = agent[p].token /\ r \in OwnRecord(p)
    BY <1>1
  <1>3. agent[p].machine \in Machine /\ agent[p].token <= issued
    BY AgentFields, RecordsExist
  <1> QED
    BY <1>2, <1>3, MachineIsOne DEF OwnRecord, HeldBy
\* What a registration finds is nobody's record then.
LEMMA MatchingIsNobodys ==
    ASSUME RegistryInv, NamesApart, NEW p \in PC, agent[p].token = 0, NEW r \in Matching(p),
           r # NoRecord /\ hosts[r].machine = agent[p].machine => ~IsClone(p, r),
           NEW t \in Token
    PROVE  <<t, r>> \notin Reports
  <1> SUFFICES ASSUME <<t, r>> \in Reports PROVE FALSE
    OBVIOUS
  <1>1. PICK q \in PC : /\ t = agent[q].token /\ t # 0 /\ r \in DOMAIN hosts
                        /\ hosts[r].machine = agent[q].machine /\ hosts[r].machine # NoMachine
                        /\ hosts[r].seen = "fresh" /\ hosts[r].name = name[q]
    BY ReportedRecord DEF RegistryInv
  <1>2. r # NoRecord
    BY <1>1, RecordsExist DEF RegistryInv
  <1>3. CASE hosts[r].machine = agent[p].machine
    BY <1>1, <1>2, <1>3 DEF IsClone, NamesApart
  <1>4. CASE r \in Adoptable(p)
    BY <1>1, <1>4 DEF Adoptable, IsStale
  <1> QED
    BY <1>1, <1>2, <1>3, <1>4 DEF Matching

LEMMA NobodysStay ==
    ASSUME RegistryInv, NamesApart, TakesNobodys, [Next]_vars
    PROVE  TakesNobodys'
  <1>1. ASSUME registering' = registering, \A q \in PC : agent'[q].token \in {0, agent[q].token}
        PROVE  TakesNobodys'
    BY <1>1 DEF TakesNobodys
  <1>2. ASSUME NEW p \in PC, registering' = [registering EXCEPT ![p] = Idle],
               \A q \in PC : q # p => agent'[q].token = agent[q].token
        PROVE  TakesNobodys'
    BY <1>2 DEF TakesNobodys, RegistryInv, TypeOK, Idle
  <1>3. ASSUME NEW p \in PC, RegisterRead(p) PROVE TakesNobodys'
    <2>1. PICK r \in Matching(p) :
            /\ r # NoRecord /\ hosts[r].machine = agent[p].machine => ~IsClone(p, r)
            /\ registering' = [registering EXCEPT ![p] =
                 [stage |-> "read", target |-> r, reporting |-> Reports,
                  row |-> IF r = NoRecord THEN NoRow ELSE hosts[r]]]
      BY <1>3 DEF RegisterRead
    <2>2. agent' = agent /\ agent[p].token = 0
      BY <1>3 DEF RegisterRead, pcVars
    <2>3. \A t \in Token : <<t, r>> \notin Reports
      BY <2>1, <2>2, MatchingIsNobodys
    <2>4. /\ \A q \in PC : q # p => registering'[q] = registering[q]
          /\ registering'[p].target = r /\ registering'[p].reporting = Reports
      BY <2>1 DEF RegistryInv, TypeOK
    <2> QED
      BY <2>2, <2>3, <2>4 DEF TakesNobodys
  <1>4. ASSUME NEW p \in PC, RegisterCommit(p) PROVE TakesNobodys'
    <2>1. \A q \in PC : q # p => agent'[q].token = agent[q].token
      BY <1>4 DEF RegisterCommit, RegistryInv, TypeOK
    <2> QED
      BY <1>2, <1>4, <2>1 DEF RegisterCommit
  <1>5. ASSUME NEW p \in PC, RegisterFails(p) PROVE TakesNobodys'
    BY <1>2, <1>5 DEF RegisterFails, pcVars
  <1>6. ASSUME NEW p \in PC, Reinstall(p) \/ Uninstall(p) PROVE TakesNobodys'
    <2>1. \A q \in PC : agent'[q].token \in {0, agent[q].token}
      <3>1. CASE Uninstall(p)
        BY <3>1 DEF Uninstall, RegistryInv, TypeOK
      <3>2. CASE Reinstall(p)
        <4>1. PICK m : agent' = [agent EXCEPT ![p] = [machine |-> m, token |-> 0]]
          BY <3>2 DEF Reinstall
        <4> QED
          BY <4>1 DEF RegistryInv, TypeOK
      <3> QED
        BY <1>6, <3>1, <3>2
    <2> QED
      BY <1>1, <1>6, <2>1 DEF Reinstall, Uninstall
  <1>7. ASSUME UNCHANGED <<pcVars, registering>> PROVE TakesNobodys'
    BY <1>1, <1>7 DEF pcVars
  <1> QED
    BY <1>3, <1>4, <1>5, <1>6, <1>7
       DEF Next, vars, Heartbeat, Absorb, AbsorbRead, AbsorbMerge, AbsorbOlder,
           AddHost, ImportCsv, Entered, Lapse, DeleteHost, pcVars
-----------------------------------------------------------------------------
(* The merges.                                                             *)

\* What a merge knows of who reported when it read.
SafeMerge(m) ==
    /\ m.stage = "merge" =>
         /\ m.row.machine # m.old.machine
         /\ \A t \in Token, r \in m.extra \cup {m.keep} : <<t, r>> \notin m.reporting
         /\ \A t \in Token : <<t, m.drop>> \in m.reporting =>
               /\ t = m.row.token /\ t <= issued
               /\ \A p \in PC : agent[p].token = t => agent[p].machine = m.row.machine
    /\ m.stage = "extra" => \A t \in Token, r \in m.extra : <<t, r>> \notin m.reporting

LEMMA MergesAreSafe == MergesStale <=> \A q \in PC : SafeMerge(merging[q])
  BY DEF MergesStale, SafeMerge

\* A token that was issued keeps its machine id as long as an agent has it.
TokensKeepMachine ==
    \A t \in Token : t <= issued =>
        /\ t <= issued'
        /\ \A p \in PC : agent'[p].token = t =>
               agent[p].token = t /\ agent'[p].machine = agent[p].machine

LEMMA TokensKept ==
    ASSUME RegistryInv, [Next]_vars
    PROVE  TokensKeepMachine
  <1>0. issued \in Nat /\ \A t \in Token : t \in Nat /\ t # 0
    BY RecordsExist, Bounded DEF Token, RegistryInv
  <1>1. CASE UNCHANGED <<pcVars, issued>>
    BY <1>0, <1>1 DEF pcVars, TokensKeepMachine
  <1>2. ASSUME NEW p \in PC, RegisterCommit(p) PROVE TokensKeepMachine
    <2>1. PICK arrives \in BOOLEAN :
              agent' = [agent EXCEPT ![p].token = IF arrives THEN issued' ELSE 0]
      BY <1>2 DEF RegisterCommit
    <2>2. issued' = issued + 1
      BY <1>2 DEF RegisterCommit
    <2>3. /\ \A q \in PC : agent'[q].machine = agent[q].machine
          /\ \A q \in PC : q # p => agent'[q].token = agent[q].token
          /\ agent'[p].token \in {0, issued + 1}
      BY <2>1, <2>2 DEF RegistryInv, TypeOK
    <2> QED
      BY <1>0, <2>2, <2>3 DEF TokensKeepMachine
  <1>3. ASSUME NEW p \in PC, Reinstall(p) PROVE TokensKeepMachine
    <2>1. PICK m : agent' = [agent EXCEPT ![p] = [machine |-> m, token |-> 0]]
      BY <1>3 DEF Reinstall
    <2>2. issued' = issued
      BY <1>3 DEF Reinstall
    <2>3. agent'[p].token = 0 /\ \A q \in PC : q # p => agent'[q] = agent[q]
      BY <2>1 DEF RegistryInv, TypeOK
    <2> QED
      BY <1>0, <2>2, <2>3 DEF TokensKeepMachine
  <1>4. ASSUME NEW p \in PC, Uninstall(p) PROVE TokensKeepMachine
    <2>1. agent' = [agent EXCEPT ![p].token = 0] /\ issued' = issued
      BY <1>4 DEF Uninstall
    <2>2. agent'[p].token = 0 /\ \A q \in PC : q # p => agent'[q] = agent[q]
      BY <2>1 DEF RegistryInv, TypeOK
    <2> QED
      BY <1>0, <2>1, <2>2 DEF TokensKeepMachine
  <1> QED
    BY <1>1, <1>2, <1>3, <1>4
       DEF Next, vars, RegisterRead, RegisterFails, Heartbeat, Absorb, AbsorbRead, AbsorbMerge,
           AbsorbOlder, AddHost, ImportCsv, Entered, Lapse, DeleteHost, pcVars

\* A merge that goes on as it was stays safe.
LEMMA SafeStays ==
    ASSUME RegistryInv, NEW q \in PC, SafeMerge(merging[q]), merging'[q] = merging[q],
           TokensKeepMachine
    PROVE  SafeMerge(merging[q])'
  BY DEF SafeMerge, TokensKeepMachine
LEMMA AbsorbReadSafe ==
    ASSUME RegistryInv, MachinesApart, TokensApart, NEW p \in PC, AbsorbRead(p)
    PROVE  SafeMerge(merging[p])'
  <1> DEFINE drop == merging[p].drop
             keep == Oldest(Twins(drop))
             next == [stage |-> "merge", drop |-> drop, keep |-> keep, row |-> hosts[drop],
                      old |-> hosts[keep], extra |-> OlderOnes(Twins(drop)), reporting |-> Reports]
  <1>0. UNCHANGED <<agent, issued>>
    BY DEF AbsorbRead, pcVars
  <1>1. CASE drop \notin DOMAIN hosts \/ Twins(drop) = {}
    BY <1>1 DEF AbsorbRead, SafeMerge, RegistryInv, TypeOK, Idle
  <1>2. CASE drop \in DOMAIN hosts /\ Twins(drop) # {}
    <2>1. merging'[p] = next
      BY <1>2 DEF AbsorbRead, RegistryInv, TypeOK
    <2>2. keep \in Twins(drop) /\ keep \in DOMAIN hosts /\ keep # drop
      BY <1>2, TwinsTyped DEF RegistryInv
    <2>3. hosts[drop].machine # hosts[keep].machine
      BY <1>2, <2>2 DEF Twins, Namesakes, MachinesApart
    <2>4. ASSUME NEW t \in Token, NEW r \in Twins(drop) PROVE <<t, r>> \notin Reports
      BY ReportedRecord DEF Twins, IsStale, RegistryInv
    <2>5. ASSUME NEW t \in Token, <<t, drop>> \in Reports
          PROVE  /\ t = hosts[drop].token /\ t <= issued
                 /\ \A q \in PC : agent[q].token = t => agent[q].machine = hosts[drop].machine
      <3>1. PICK q \in PC : /\ t = agent[q].token /\ t # 0 /\ t <= issued /\ hosts[drop].token = t
                            /\ hosts[drop].machine = agent[q].machine
        BY <2>5, ReportedRecord DEF RegistryInv
      <3> QED
        BY <3>1 DEF TokensApart
    <2>6. OlderOnes(Twins(drop)) \cup {keep} \subseteq Twins(drop)
      BY <2>2 DEF OlderOnes
    <2>7. /\ next.stage = "merge" /\ next.drop = drop /\ next.keep = keep
          /\ next.row = hosts[drop] /\ next.old = hosts[keep]
          /\ next.extra = OlderOnes(Twins(drop)) /\ next.reporting = Reports
      OBVIOUS
    <2> HIDE DEF drop, keep, next
    <2> QED
      BY <1>0, <2>1, <2>3, <2>4, <2>5, <2>6, <2>7 DEF SafeMerge
  <1> QED
    BY <1>1, <1>2

LEMMA AbsorbMergeSafe ==
    ASSUME RegistryInv, NEW p \in PC, SafeMerge(merging[p]), AbsorbMerge(p)
    PROVE  SafeMerge(merging[p])'
  <1> DEFINE m == merging[p]
             next == [stage |-> "extra", keep |-> m.keep, extra |-> m.extra,
                      reporting |-> m.reporting]
  <1>1. m.stage = "merge"
    BY DEF AbsorbMerge
  <1>2. CASE merging' = [merging EXCEPT ![p] = Idle]
    BY <1>2 DEF SafeMerge, RegistryInv, TypeOK, Idle
  <1>3. CASE merging' = [merging EXCEPT ![p] = next]
    <2>1. merging'[p] = next
      BY <1>3 DEF RegistryInv, TypeOK
    <2>2. next.stage = "extra" /\ next.extra = m.extra /\ next.reporting = m.reporting
      OBVIOUS
    <2> HIDE DEF next
    <2> QED
      BY <1>1, <2>1, <2>2 DEF SafeMerge
  <1> QED
    BY <1>2, <1>3 DEF AbsorbMerge

LEMMA AbsorbOlderSafe ==
    ASSUME RegistryInv, NEW p \in PC, SafeMerge(merging[p]), AbsorbOlder(p)
    PROVE  SafeMerge(merging[p])'
  <1> DEFINE m == merging[p]
             next == [m EXCEPT !.extra = @ \ {Oldest(m.extra)}]
  <1>1. /\ m.stage = "extra"
        /\ m \in [stage : {"extra"}, keep : Record, extra : (SUBSET Record) \ {{}},
                  reporting : SUBSET (Token \X Record)]
    BY DEF AbsorbOlder, RegistryInv, TypeOK, Merge, Idle
  <1>2. CASE merging' = [merging EXCEPT ![p] = Idle]
    BY <1>2 DEF SafeMerge, RegistryInv, TypeOK, Idle
  <1>3. CASE merging' = [merging EXCEPT ![p] = next]
    <2>1. merging'[p] = next
      BY <1>3 DEF RegistryInv, TypeOK
    <2>2. /\ next.stage = "extra" /\ next.extra \subseteq m.extra
          /\ next.reporting = m.reporting
      BY <1>1
    <2> HIDE DEF next
    <2> QED
      BY <1>1, <2>1, <2>2 DEF SafeMerge
  <1> QED
    BY <1>2, <1>3 DEF AbsorbOlder

LEMMA MergesStaySafe ==
    ASSUME RegistryInv, MachinesApart, TokensApart, MergesStale, [Next]_vars
    PROVE  MergesStale'
  <1>0. TokensKeepMachine /\ \A q \in PC : SafeMerge(merging[q])
    BY TokensKept, MergesAreSafe
  <1>1. ASSUME NEW p \in PC, \A q \in PC : q # p => merging'[q] = merging[q],
               SafeMerge(merging[p])'
        PROVE  MergesStale'
    <2>1. \A q \in PC : SafeMerge(merging[q])'
      BY <1>0, <1>1, SafeStays
    <2> QED
      BY <2>1 DEF MergesStale, SafeMerge
  <1>2. CASE UNCHANGED merging
    <2>1. \A q \in PC : SafeMerge(merging[q])'
      BY <1>0, <1>2, SafeStays
    <2> QED
      BY <2>1 DEF MergesStale, SafeMerge
  <1>3. ASSUME NEW p \in PC, Heartbeat(p) PROVE MergesStale'
    <2>1. PICK r : merging' = [merging EXCEPT ![p] = [stage |-> "due", drop |-> r]]
      BY <1>3 DEF Heartbeat
    <2>2. SafeMerge(merging[p])' /\ \A q \in PC : q # p => merging'[q] = merging[q]
      BY <2>1 DEF SafeMerge, RegistryInv, TypeOK
    <2> QED
      BY <1>1, <2>2
  <1>4. ASSUME NEW p \in PC, Absorb(p) PROVE MergesStale'
    <2>1. \A q \in PC : q # p => merging'[q] = merging[q]
      BY <1>4 DEF Absorb, AbsorbRead, AbsorbMerge, AbsorbOlder, RegistryInv, TypeOK
    <2>2. SafeMerge(merging[p])'
      BY <1>0, <1>4, AbsorbReadSafe, AbsorbMergeSafe, AbsorbOlderSafe DEF Absorb
    <2> QED
      BY <1>1, <2>1, <2>2
  <1> QED
    BY <1>2, <1>3, <1>4
       DEF Next, vars, RegisterRead, RegisterCommit, RegisterFails, Reinstall, Uninstall,
           AddHost, ImportCsv, Entered, Lapse, DeleteHost
-----------------------------------------------------------------------------
(* The second theorem.                                                     *)

LEMMA InitKeptInv == Init => KeptInv
  <1> SUFFICES ASSUME Init PROVE KeptInv
    OBVIOUS
  <1>1. DOMAIN hosts = {}
    BY DEF Init
  <1>2. \A p \in PC : /\ registering[p].stage = "idle" /\ merging[p].stage = "idle"
                      /\ agent[p].token = 0 /\ agent[p].machine[2] = 0
    BY DEF Init, Idle
  <1>3. \A p, q \in PC : name[p] = name[q] /\ agent[p].machine = agent[q].machine => p = q
    BY DEF Init
  <1> QED
    BY <1>1, <1>2, <1>3, InitRegistryInv
       DEF KeptInv, NamesApart, TokensApart, MachinesApart, TakesNobodys, MergesStale

LEMMA NextKeptInv == KeptInv /\ [Next]_vars => KeptInv'
  <1> SUFFICES ASSUME KeptInv, [Next]_vars PROVE KeptInv'
    OBVIOUS
  <1> QED
    BY NextRegistryInv, NamesStayApart, MachinesStayApart, NobodysStay, MergesStaySafe DEF KeptInv

\* A step keeps a record for a PC that reports and was seen reporting.
LEMMA ReporterIsKept ==
    ASSUME KeptInv, [Next]_vars, NEW p \in PC, NEW r \in OwnRecord(p), SeenReporting(p),
           agent'[p] = agent[p], left'.deletes = left.deletes
    PROVE  HeldBy(p)' # {}
  <1> DEFINE t == agent[p].token
  <1>1. /\ r \in HeldBy(p) /\ r \in DOMAIN hosts /\ t \in Token /\ t # 0
        /\ hosts[r].token = t /\ hosts[r].machine = agent[p].machine
    <2>1. r \in HeldBy(p) /\ t # 0
      BY DEF OwnRecord, HeldBy
    <2>2. t \in Token
      BY <2>1, AgentFields, RecordsExist, Bounded DEF Token, KeptInv, RegistryInv
    <2> QED
      BY <2>1, <2>2 DEF HeldBy
  <1>2. ASSUME NEW s \in DOMAIN hosts', hosts'[s].token = t, hosts'[s].machine = agent[p].machine
        PROVE  HeldBy(p)' # {}
    BY <1>1, <1>2 DEF HeldBy
  <1>3. ASSUME r \in DOMAIN hosts', hosts'[r].token = hosts[r].token,
               hosts'[r].machine = hosts[r].machine
        PROVE  HeldBy(p)' # {}
    BY <1>1, <1>2, <1>3
  <1>4. CASE UNCHANGED hosts
    BY <1>1, <1>3, <1>4
  <1>5. ASSUME NEW q \in PC, RegisterCommit(q) PROVE HeldBy(p)' # {}
    <2>1. registering[q].stage = "read" /\ registering[q] # Idle
      BY <1>5 DEF RegisterCommit, Idle
    <2>2. r # registering[q].target
      BY <1>1, <2>1 DEF SeenReporting, KeptInv, TakesNobodys
    <2>3. hosts'[r] = hosts[r] /\ r \in DOMAIN hosts'
      BY <1>1, <1>5, <2>2, RegisteredMachines, NewMachine DEF KeptInv
    <2> QED
      BY <1>3, <2>3
  <1>6. ASSUME NEW q \in PC, AbsorbMerge(q), CanMerge(merging[q]) PROVE HeldBy(p)' # {}
    <2> DEFINE m == merging[q]
    <2>1. m.stage = "merge" /\ <<t, r>> \in m.reporting
      BY <1>1, <1>6 DEF AbsorbMerge, SeenReporting
    <2>2. /\ m.row.machine # m.old.machine /\ r # m.keep
          /\ r = m.drop => t = m.row.token /\ agent[p].machine = m.row.machine
      BY <1>1, <2>1 DEF KeptInv, MergesStale
    <2>3. CASE r = m.drop
      <3>1. m.keep \in DOMAIN hosts'
        BY <1>6, MergedFields DEF KeptInv
      <3>2. hosts'[m.keep].token = t /\ hosts'[m.keep].machine = agent[p].machine
        BY <1>6, <2>2, <2>3, MergedFields DEF KeptInv
      <3> QED
        BY <1>2, <3>1, <3>2
    <2>4. CASE r # m.drop
      <3>1. r \in DOMAIN hosts' /\ hosts'[r] = hosts[r]
        BY <1>1, <1>6, <2>2, <2>4, MergedFields DEF KeptInv
      <3> QED
        BY <1>3, <3>1
    <2> QED
      BY <2>3, <2>4
  <1>7. ASSUME NEW q \in PC, AbsorbOlder(q), hosts' # hosts PROVE HeldBy(p)' # {}
    <2>1. merging[q].stage = "extra" /\ <<t, r>> \in merging[q].reporting
      BY <1>1, <1>7 DEF AbsorbOlder, SeenReporting
    <2>2. r \notin merging[q].extra
      BY <1>1, <2>1 DEF KeptInv, MergesStale
    <2> QED
      BY <1>1, <1>3, <1>7, <2>2, OlderFields DEF KeptInv
  <1>8. ASSUME \/ \E q \in PC : Heartbeat(q) \/ Uninstall(q) \/ Entered(q)
               \/ \E s \in DOMAIN hosts : Lapse(s) \/ DeleteHost(s)
        PROVE  HeldBy(p)' # {}
    BY <1>1, <1>3, <1>8, OtherFields DEF KeptInv
  <1> QED
    BY <1>4, <1>5, <1>6, <1>7, <1>8
       DEF Next, vars, rows, RegisterRead, RegisterFails, Absorb, AbsorbRead, AbsorbMerge,
           AddHost, ImportCsv, Reinstall

\* A PC that has been reporting under its name when those read that are about to
\* commit keeps a record that accepts it, whatever they register and merge, with
\* its machine id, its address or its name.
THEOREM ReportersAreKept == Spec => ReportingPcIsKept
  <1>1. KeptInv /\ [Next]_vars => [\A p \in Reporting : SeenReporting(p) => Keeps(p)]_vars
    BY ReporterIsKept DEF Reporting, Keeps
  <1> QED
    BY <1>1, InitKeptInv, NextKeptInv, PTL DEF Spec, ReportingPcIsKept

=============================================================================
