---------------------------- MODULE Copies_proofs ----------------------------
(***************************************************************************)
(* Theorems about the two services that keep copies.  OffsiteBackup: types,*)
(* and that a copy which the journal calls good has both halves in one     *)
(* place, for any number of storages, passwords, runs and failures.        *)
(* Distribution, an instance beside it: whatever is uploaded and fails, a  *)
(* link leads to the file on the share.                                    *)
(***************************************************************************)
EXTENDS OffsiteBackup, TLAPS

Bounds == MaxSaves \in Nat /\ MaxFailures \in Nat /\ MaxRekeys \in Nat

\* The key of a server changes no more often than the bound allows.
RekeysBounded == \A p \in Place : serverKey[p] + remaining.rekeys <= MaxRekeys

(***************************************************************************)
(* A run at work knows its storage; only a check checks; a run that goes   *)
(* on with the configuration has left its dump at the storage it has read, *)
(* and one that is called good has both.                                   *)
(***************************************************************************)
Fits(r) ==
    /\ runs[r].stage \notin {"idle", "queued"} =>
          runs[r].target.place \in Place /\ runs[r].target.password \in Password
    /\ runs[r].stage \in {"create", "load", "count"} => runs[r].kind = "check"
    /\ runs[r].stage = "config" =>
          /\ runs[r].kind = "db"
          /\ [place |-> runs[r].target.place, tag |-> "db", run |-> r] \in copies
    /\ runs[r].row = "ok" /\ runs[r].kind = "db" =>
          \E p \in Place : \A tag \in {"db", "config"} :
              [place |-> p, tag |-> tag, run |-> r] \in copies

AllFit == \A r \in Run : Fits(r)

IInv == BackupTypeOK /\ RekeysBounded /\ AllFit

Left == [saves : 0..MaxSaves, failures : 0..MaxFailures, rekeys : 0..MaxRekeys]
Copies == [place : Place, tag : Tags, run : Run]

-----------------------------------------------------------------------------
(* Types.                                                                  *)

\* An empty row of settings and an empty journal row are well formed.
LEMMA NoneTyped ==
    ASSUME Bounds
    PROVE  NoSettings \in Settings /\ NoRun \in RunRow
<1>1. NoKey \in Keys \cup {NoKey}
  OBVIOUS
<1>2. NoSettings \in Settings
  BY <1>1 DEF NoSettings, Settings
<1> QED BY <1>2 DEF NoRun, RunRow, Kinds, Stages

\* Nothing is saved, running or copied in the beginning.
LEMMA InitIInv ==
    ASSUME Bounds, Init
    PROVE  IInv
<1>1. NoSettings \in Settings /\ NoRun \in RunRow
  BY NoneTyped
<1>2. serverKey \in [Place -> Keys] /\ remaining \in Left
  BY DEF Bounds, Init, Keys, Left
<1>3. NoForm \in [open : BOOLEAN, read : Settings, new : Settings, rekey : BOOLEAN]
  BY <1>1 DEF NoForm
<1>4. BackupTypeOK
  BY <1>1, <1>2, <1>3 DEF Init, BackupTypeOK, Left
<1>5. RekeysBounded
  <2>1. \A p \in Place : serverKey[p] = 0
    BY DEF Init
  <2>2. remaining.rekeys = MaxRekeys
    BY DEF Init
  <2> QED BY <2>1, <2>2 DEF Bounds, RekeysBounded
<1>6. AllFit
  <2>1. \A r \in Run : runs[r].stage = "idle" /\ runs[r].row = "none"
    BY DEF Init, NoRun
  <2> QED BY <2>1 DEF AllFit, Fits
<1> QED BY <1>4, <1>5, <1>6 DEF IInv

\* A bound of the model stays within its range when one unit is spent.
LEMMA SpendType ==
    ASSUME Bounds, BackupTypeOK, NEW kind \in {"saves", "failures", "rekeys"}, Spend(kind)
    PROVE  /\ remaining' \in Left
           /\ remaining'.rekeys = IF kind = "rekeys" THEN remaining.rekeys - 1
                                                     ELSE remaining.rekeys
<1>1. remaining \in Left
  BY DEF BackupTypeOK, Left
<1>2. CASE kind = "saves"
  BY <1>1, <1>2 DEF Bounds, Left, Spend
<1>3. CASE kind = "failures"
  BY <1>1, <1>3 DEF Bounds, Left, Spend
<1>4. CASE kind = "rekeys"
  BY <1>1, <1>4 DEF Bounds, Left, Spend
<1> QED BY <1>2, <1>3, <1>4

\* Writing back the columns that differ gives well-formed settings.
LEMMA CommitTyped ==
    ASSUME BackupTypeOK, SaveCommit
    PROVE  storage' \in Settings
<1>1. form.read \in Settings /\ form.new \in Settings /\ storage \in Settings
  BY DEF BackupTypeOK
<1>2. \A old, new, current : OrmWrite(old, new, current) \in {new, current}
  BY DEF OrmWrite
<1>3. /\ OrmWrite(form.read.enabled, form.new.enabled, storage.enabled) \in BOOLEAN
      /\ OrmWrite(form.read.initialized, form.new.initialized, storage.initialized) \in BOOLEAN
  BY <1>1 DEF Settings, OrmWrite
<1>4. OrmWrite(form.read.place, form.new.place, storage.place) \in Place \cup {"none"}
  BY <1>1, <1>2 DEF Settings
<1>5. OrmWrite(form.read.hostKey, form.new.hostKey, storage.hostKey) \in Keys \cup {NoKey}
  BY <1>1, <1>2 DEF Settings
<1>6. (IF form.rekey THEN form.new.password ELSE storage.password) \in Password \cup {"none"}
  BY <1>1 DEF Settings
<1> QED BY <1>3, <1>4, <1>5, <1>6 DEF SaveCommit, Settings

\* A draft is well formed, also with the key of the server it names.
LEMMA DraftTyped ==
    ASSUME BackupTypeOK, NEW enabled \in BOOLEAN, NEW place \in Place,
           NEW password \in Password \cup {"keep"}
    PROVE  LET new == Draft(enabled, place, password) IN
           [new EXCEPT !.hostKey = IF @ = NoKey THEN serverKey[place] ELSE @] \in Settings
<1>1. storage \in Settings /\ serverKey[place] \in Keys
  BY DEF BackupTypeOK
<1>2. (IF password = "keep" THEN storage.password ELSE password) \in Password \cup {"none"}
  BY <1>1 DEF Settings
<1>3. (IF place = storage.place THEN storage.hostKey ELSE NoKey) \in Keys \cup {NoKey}
  BY <1>1 DEF Settings
<1>4. (storage.initialized /\ place = storage.place) \in BOOLEAN
  OBVIOUS
<1>5. Draft(enabled, place, password) \in Settings
  BY <1>2, <1>3, <1>4 DEF Draft, Settings
<1> QED BY <1>1, <1>5 DEF Settings

\* The settings and their form touch neither the runs nor their copies.
LEMMA SettingsStep ==
    ASSUME Bounds, IInv, SaveBegin \/ SaveCommit
    PROVE  IInv'
<1> USE DEF IInv
<1>1. UNCHANGED <<serverKey, repo, copies, runs, scratch>>
  BY DEF SaveBegin, SaveCommit
<1>2. remaining' \in Left /\ remaining'.rekeys = remaining.rekeys
  BY SpendType DEF SaveBegin, SaveCommit, BackupTypeOK, Left
<1>3. storage' \in Settings
  BY CommitTyped DEF SaveBegin, BackupTypeOK
<1>4. form' \in [open : BOOLEAN, read : Settings, new : Settings, rekey : BOOLEAN]
  <2>1. CASE SaveCommit
    BY <2>1, NoneTyped DEF SaveCommit, NoForm
  <2>2. CASE SaveBegin
    <3>1. PICK enabled \in BOOLEAN, place \in Place, password \in Password \cup {"keep"} :
              LET new == Draft(enabled, place, password) IN
              form' = [open |-> TRUE, read |-> storage,
                       new |-> [new EXCEPT !.hostKey = IF @ = NoKey THEN serverKey[place]
                                                                    ELSE @],
                       rekey |-> password # "keep"]
      BY <2>2 DEF SaveBegin
    <3> DEFINE new == [Draft(enabled, place, password) EXCEPT
                           !.hostKey = IF @ = NoKey THEN serverKey[place] ELSE @]
    <3>2. new \in Settings /\ storage \in Settings
      BY DraftTyped DEF BackupTypeOK
    <3>3. form' = [open |-> TRUE, read |-> storage, new |-> new, rekey |-> password # "keep"]
      BY <3>1
    <3> HIDE DEF new
    <3> QED BY <3>2, <3>3
  <2> QED BY <2>1, <2>2
<1>5. BackupTypeOK'
  BY <1>1, <1>2, <1>3, <1>4 DEF BackupTypeOK, Left
<1>6. RekeysBounded'
  BY <1>1, <1>2 DEF RekeysBounded
<1>7. AllFit'
  BY <1>1 DEF AllFit, Fits
<1> QED BY <1>5, <1>6, <1>7

\* A server's key changes within the bound.
LEMMA RekeyStep ==
    ASSUME Bounds, IInv, NEW p \in Place, Rekey(p)
    PROVE  IInv'
<1> USE DEF IInv
<1>1. UNCHANGED <<storage, form, repo, copies, runs, scratch>>
  BY DEF Rekey
<1>2. remaining' \in Left /\ remaining'.rekeys = remaining.rekeys - 1
  BY SpendType DEF Rekey
<1>3. /\ serverKey[p] \in Nat /\ remaining.rekeys \in Nat /\ remaining.rekeys > 0
      /\ \A q \in Place : serverKey[q] \in Nat
  BY DEF Bounds, Rekey, Spend, BackupTypeOK, Keys
<1>4. serverKey[p] + 1 \in Keys
  BY <1>3 DEF Bounds, RekeysBounded, Keys
<1>5. /\ serverKey' \in [Place -> Keys]
      /\ serverKey'[p] = serverKey[p] + 1
      /\ \A q \in Place \ {p} : serverKey'[q] = serverKey[q]
  BY <1>4 DEF Rekey, BackupTypeOK
<1>6. BackupTypeOK'
  BY <1>1, <1>2, <1>5 DEF BackupTypeOK, Left
<1>7. RekeysBounded'
  <2> SUFFICES ASSUME NEW q \in Place
               PROVE  serverKey'[q] + remaining'.rekeys <= MaxRekeys
    BY DEF RekeysBounded
  <2>1. serverKey[q] + remaining.rekeys <= MaxRekeys
    BY DEF RekeysBounded
  <2>2. CASE q = p
    BY <1>2, <1>3, <1>5, <2>1, <2>2 DEF Bounds
  <2>3. CASE q # p
    BY <1>2, <1>3, <1>5, <2>1, <2>3 DEF Bounds
  <2> QED BY <2>2, <2>3
<1>8. AllFit'
  BY <1>1 DEF AllFit, Fits
<1> QED BY <1>6, <1>7, <1>8

-----------------------------------------------------------------------------
(* Runs.                                                                   *)

\* The row of one run changes: what the others have copied is still there,
\* so only that run has to be looked at.
LEMMA OneRow ==
    ASSUME IInv, NEW r \in Run, NEW row \in RunRow,
           runs' = [runs EXCEPT ![r] = row],
           \A c \in copies : c.run # r => c \in copies',
           Fits(r)'
    PROVE  runs' \in [Run -> RunRow] /\ AllFit'
<1>1. runs' \in [Run -> RunRow]
  BY DEF IInv, BackupTypeOK
<1>2. ASSUME NEW q \in Run, q # r
      PROVE  Fits(q)'
  <2>1. runs'[q] = runs[q]
    BY <1>2 DEF IInv, BackupTypeOK
  <2>2. \A p, tag : [place |-> p, tag |-> tag, run |-> q] \in copies
                      => [place |-> p, tag |-> tag, run |-> q] \in copies'
    BY <1>2
  <2>3. Fits(q)
    BY DEF IInv, AllFit
  <2> QED BY <2>1, <2>2, <2>3 DEF Fits
<1> QED BY <1>1, <1>2 DEF AllFit

\* What a run holds in memory and in the journal.
LEMMA RunTyped ==
    ASSUME BackupTypeOK, NEW r \in Run
    PROVE  /\ runs[r] \in RunRow /\ storage \in Settings /\ runs[r].target \in Settings
           /\ copies \subseteq Copies
           /\ \A stage \in Stages : Goes(r, stage) \in RunRow
  BY DEF BackupTypeOK, RunRow, Copies, Goes

\* The end of a run leaves a well-formed row.
LEMMA EndedTyped ==
    ASSUME Bounds, BackupTypeOK, NEW r \in Run, NEW result \in {"ok", "failed"}
    PROVE  /\ Ended(r, result) \in RunRow
           /\ Ended(r, result).stage = "idle" /\ Ended(r, result).row = result
           /\ Ended(r, result).kind = runs[r].kind
<1>1. runs[r] \in RunRow /\ NoSettings \in Settings
  BY NoneTyped, RunTyped
<1> QED BY <1>1 DEF Ended, RunRow, Stages

\* A run that fails is called good by nobody, whatever it has copied.
LEMMA FailedFits ==
    ASSUME Bounds, IInv, NEW r \in Run, runs' = [runs EXCEPT ![r] = Ended(r, "failed")],
           UNCHANGED copies
    PROVE  runs' \in [Run -> RunRow] /\ AllFit'
<1>1. runs'[r] = Ended(r, "failed") /\ Ended(r, "failed") \in RunRow
  BY EndedTyped DEF IInv, BackupTypeOK
<1>2. runs'[r].stage = "idle" /\ runs'[r].row = "failed"
  BY <1>1, EndedTyped DEF IInv
<1>3. Fits(r)'
  BY <1>2 DEF Fits
<1> QED BY <1>1, <1>3, OneRow

\* A new journal row: only the old row of that place is forgotten.
LEMMA JournalStep ==
    ASSUME Bounds, IInv, NEW r \in Run, NEW kind \in Kinds,
           Planned(r, kind) \/ RunNow(r, kind)
    PROVE  IInv'
<1> DEFINE row == [kind |-> kind, row |-> "open", recent |-> TRUE,
                   stage |-> "queued", target |-> NoSettings]
<1>1. UNCHANGED <<storage, form, serverKey, repo, scratch, remaining>>
  BY DEF Planned, RunNow
<1>2. runs' = [runs EXCEPT ![r] = row] /\ copies' = Forgotten(r)
  BY DEF Planned, RunNow, Journal
<1>3. row \in RunRow
  BY NoneTyped DEF RunRow, Stages
<1>4. runs'[r].stage = "queued" /\ runs'[r].row = "open"
  BY <1>2 DEF IInv, BackupTypeOK
<1>5. Fits(r)'
  BY <1>4 DEF Fits
<1>6. \A c \in copies : c.run # r => c \in copies'
  BY <1>2 DEF Forgotten
<1>7. runs' \in [Run -> RunRow] /\ AllFit'
  <2> HIDE DEF row
  <2> QED BY <1>2, <1>3, <1>5, <1>6, OneRow
<1>8. BackupTypeOK'
  BY <1>1, <1>2, <1>7 DEF IInv, BackupTypeOK, Forgotten
<1>9. RekeysBounded'
  BY <1>1 DEF IInv, RekeysBounded
<1> QED BY <1>7, <1>8, <1>9 DEF IInv

\* Thirteen hours, and a worker that dies, change nothing of what the row
\* stands for.
LEMMA LeftAloneStep ==
    ASSUME Bounds, IInv, NEW r \in Run, Ages(r) \/ Dies(r)
    PROVE  IInv'
<1>1. UNCHANGED <<storage, form, serverKey, repo, copies, scratch>>
  BY DEF Ages, Dies
<1>2. remaining' \in Left /\ remaining'.rekeys = remaining.rekeys
  BY SpendType DEF IInv, Ages, Dies, BackupTypeOK, Left
<1>3. PICK row \in RunRow : /\ runs' = [runs EXCEPT ![r] = row]
                            /\ row.kind = runs[r].kind /\ row.row = runs[r].row
                            /\ \/ row.stage = runs[r].stage /\ row.target = runs[r].target
                               \/ row.stage = "idle"
  <2>1. CASE Ages(r)
    <3> DEFINE row == [runs[r] EXCEPT !.recent = FALSE]
    <3>0. runs[r] \in RunRow
      BY RunTyped DEF IInv
    <3>1. row \in RunRow
      BY ONLY <3>0 DEF RunRow
    <3>2. /\ row.kind = runs[r].kind /\ row.row = runs[r].row
          /\ row.stage = runs[r].stage /\ row.target = runs[r].target
      BY <3>0 DEF RunRow
    <3>3. runs' = [runs EXCEPT ![r] = row]
      BY <2>1 DEF Ages, IInv, BackupTypeOK
    <3> HIDE DEF row
    <3> QED BY <3>1, <3>2, <3>3
  <2>2. CASE Dies(r)
    <3> DEFINE row == [runs[r] EXCEPT !.stage = "idle", !.target = NoSettings]
    <3>0. runs[r] \in RunRow /\ NoSettings \in Settings
      BY RunTyped, NoneTyped DEF IInv
    <3>1. row \in RunRow
      BY ONLY <3>0 DEF RunRow, Stages
    <3>2. row.kind = runs[r].kind /\ row.row = runs[r].row /\ row.stage = "idle"
      BY <3>0 DEF RunRow
    <3>3. runs' = [runs EXCEPT ![r] = row]
      BY <2>2 DEF Dies, IInv, BackupTypeOK
    <3> HIDE DEF row
    <3> QED BY <3>1, <3>2, <3>3
  <2> QED BY <2>1, <2>2
<1>4. runs'[r] = row
  BY <1>3 DEF IInv, BackupTypeOK
<1>5. Fits(r)'
  <2>1. Fits(r)
    BY DEF IInv, AllFit
  <2>2. CASE row.stage = "idle"
    BY <1>1, <1>3, <1>4, <2>1, <2>2 DEF Fits
  <2>3. CASE row.stage = runs[r].stage /\ row.target = runs[r].target
    BY <1>1, <1>3, <1>4, <2>1, <2>3 DEF Fits
  <2> QED BY <1>3, <2>2, <2>3
<1>6. runs' \in [Run -> RunRow] /\ AllFit'
  BY <1>1, <1>3, <1>5, OneRow
<1>7. BackupTypeOK'
  BY <1>1, <1>2, <1>6 DEF IInv, BackupTypeOK, Left
<1>8. RekeysBounded'
  BY <1>1, <1>2 DEF IInv, RekeysBounded
<1> QED BY <1>6, <1>7, <1>8 DEF IInv

\* A failure, foreseen or not.
LEMMA FailStep ==
    ASSUME Bounds, IInv, NEW r \in Run, Fails(r) \/ Refused(r)
    PROVE  IInv'
<1>1. UNCHANGED <<storage, form, serverKey, repo, copies>>
  BY DEF Fails, Refused
<1>2. remaining' \in Left /\ remaining'.rekeys = remaining.rekeys
  BY SpendType DEF IInv, Fails, Refused, BackupTypeOK, Left
<1>3. runs' = [runs EXCEPT ![r] = Ended(r, "failed")]
  BY DEF Fails, Refused
<1>4. runs' \in [Run -> RunRow] /\ AllFit'
  BY <1>1, <1>3, FailedFits
<1>5. scratch' \in Run \cup {"none", "empty"}
  BY DEF Fails, Refused, IInv, BackupTypeOK
<1>6. BackupTypeOK'
  BY <1>1, <1>2, <1>4, <1>5 DEF IInv, BackupTypeOK, Left
<1>7. RekeysBounded'
  BY <1>1, <1>2 DEF IInv, RekeysBounded
<1> QED BY <1>4, <1>6, <1>7 DEF IInv

\* A run reads the settings it works with only when they are complete.
LEMMA StartStep ==
    ASSUME Bounds, IInv, NEW r \in Run, Start(r)
    PROVE  IInv'
<1>1. UNCHANGED <<storage, form, serverKey, repo, copies, scratch, remaining>>
  BY DEF Start
<1>2. runs' \in [Run -> RunRow] /\ AllFit'
  <2>1. CASE ~Complete(storage)
    BY <1>1, <2>1, FailedFits DEF Start
  <2>2. CASE Complete(storage)
    <3> DEFINE row == [runs[r] EXCEPT !.stage = "connect", !.target = storage]
    <3>0. runs[r] \in RunRow /\ storage \in Settings
      BY RunTyped DEF IInv
    <3>1. row \in RunRow
      BY ONLY <3>0 DEF RunRow, Stages
    <3>2. runs' = [runs EXCEPT ![r] = row]
      BY <2>2 DEF Start
    <3>3. /\ row.stage = "connect" /\ row.target = storage
          /\ row.row = runs[r].row /\ row.kind = runs[r].kind
      BY <3>0 DEF RunRow
    <3>4. storage.place \in Place /\ storage.password \in Password
      BY <2>2, RunTyped DEF Complete, IInv, Settings
    <3> HIDE DEF row
    <3>5. runs'[r] = row
      BY <3>2 DEF IInv, BackupTypeOK
    <3>6. Fits(r)'
      BY <1>1, <3>3, <3>4, <3>5 DEF Fits, IInv, AllFit
    <3> QED BY <1>1, <3>1, <3>2, <3>6, OneRow
  <2> QED BY <2>1, <2>2
<1>3. BackupTypeOK'
  BY <1>1, <1>2 DEF IInv, BackupTypeOK
<1>4. RekeysBounded'
  BY <1>1 DEF IInv, RekeysBounded
<1> QED BY <1>2, <1>3, <1>4 DEF IInv

\* The repository opens, or is created: the run goes on to its first copy.
LEMMA ConnectStep ==
    ASSUME Bounds, IInv, NEW r \in Run, Connect(r)
    PROVE  IInv'
<1>1. UNCHANGED <<form, serverKey, copies, scratch, remaining>>
  BY DEF Connect
<1>2. /\ runs[r].stage = "connect" /\ runs[r] \in RunRow /\ storage \in Settings
      /\ runs[r].target.place \in Place /\ runs[r].target.password \in Password
      /\ Fits(r)
  BY RunTyped DEF Connect, IInv, AllFit, Fits
<1>3. CASE ~Opens(r)
  <2>1. UNCHANGED <<repo, storage>> /\ runs' = [runs EXCEPT ![r] = Ended(r, "failed")]
    BY <1>3 DEF Connect
  <2>2. runs' \in [Run -> RunRow] /\ AllFit'
    BY <1>1, <2>1, FailedFits
  <2> QED BY <1>1, <2>1, <2>2 DEF IInv, BackupTypeOK, RekeysBounded
<1>4. CASE Opens(r)
  <2> DEFINE stage == First(runs[r].kind)
             row == Goes(r, stage)
  <2>1. /\ stage \in {"create", "copy"}
        /\ stage = "create" => runs[r].kind = "check"
        /\ stage \in Stages
    BY DEF First, Stages
  <2>2. runs' = [runs EXCEPT ![r] = row]
    BY <1>4 DEF Connect
  <2>3. /\ row.stage = stage /\ row.target = runs[r].target
        /\ row.kind = runs[r].kind /\ row.row = runs[r].row
    BY <1>2 DEF Goes, RunRow
  <2>4. row \in RunRow
    BY <2>1, RunTyped DEF IInv
  <2> HIDE DEF row, stage
  <2>5. runs'[r] = row
    BY <2>2 DEF IInv, BackupTypeOK
  <2>6. Fits(r)'
    BY <1>1, <1>2, <2>1, <2>3, <2>5 DEF Fits
  <2>7. runs' \in [Run -> RunRow] /\ AllFit'
    BY <1>1, <2>2, <2>4, <2>6, OneRow
  <2>8. repo' \in [Place -> Password \cup {"none"}]
    BY <1>2, <1>4 DEF Connect, IInv, BackupTypeOK
  <2>9. storage' \in Settings
    <3>1. storage' = [storage EXCEPT !.initialized =
                          storage.initialized \/ ~runs[r].target.initialized]
      BY <1>4 DEF Connect
    <3> QED BY <1>2, <3>1 DEF Settings
  <2> QED BY <1>1, <2>7, <2>8, <2>9 DEF IInv, BackupTypeOK, RekeysBounded
<1> QED BY <1>3, <1>4

\* The copies of a run: the dump first, the configuration after it.
LEMMA CopyStep ==
    ASSUME Bounds, IInv, NEW r \in Run, CopyDb(r) \/ CopyConfig(r) \/ CopyShare(r)
    PROVE  IInv'
<1> DEFINE place == runs[r].target.place
<1>1. UNCHANGED <<storage, form, serverKey, repo, scratch, remaining>>
  BY DEF CopyDb, CopyConfig, CopyShare
<1>2. /\ runs[r].stage \in {"copy", "config"} /\ runs[r] \in RunRow
      /\ place \in Place /\ runs[r].target.password \in Password
      /\ Fits(r)
  BY RunTyped DEF CopyDb, CopyConfig, CopyShare, IInv, AllFit, Fits
<1>3. copies \subseteq copies' /\ copies' \subseteq Copies
  BY <1>2 DEF CopyDb, CopyConfig, CopyShare, Copied, IInv, BackupTypeOK, Copies, Tags
<1>4. CASE CopyDb(r)
  <2> DEFINE row == Goes(r, "config")
  <2>1. runs' = [runs EXCEPT ![r] = row] /\ row \in RunRow
    BY <1>4, RunTyped DEF CopyDb, IInv, Stages
  <2>2. /\ row.stage = "config" /\ row.target = runs[r].target
        /\ row.kind = runs[r].kind /\ row.row = runs[r].row
    BY <1>2 DEF Goes, RunRow
  <2>3. runs[r].kind = "db" /\ [place |-> place, tag |-> "db", run |-> r] \in copies'
    BY <1>4 DEF CopyDb, Copied
  <2> HIDE DEF row
  <2>4. runs'[r] = row
    BY <2>1 DEF IInv, BackupTypeOK
  <2>5. Fits(r)'
    BY <1>2, <1>3, <2>2, <2>3, <2>4 DEF Fits
  <2>6. runs' \in [Run -> RunRow] /\ AllFit'
    BY <1>3, <2>1, <2>5, OneRow
  <2> QED BY <1>1, <1>3, <2>6 DEF IInv, BackupTypeOK, RekeysBounded, Copies
<1>5. CASE CopyConfig(r) \/ CopyShare(r)
  <2>1. runs' = [runs EXCEPT ![r] = Ended(r, "ok")]
    BY <1>5 DEF CopyConfig, CopyShare
  <2>2. /\ runs'[r] = Ended(r, "ok") /\ Ended(r, "ok") \in RunRow
        /\ Ended(r, "ok").stage = "idle" /\ Ended(r, "ok").kind = runs[r].kind
    BY <2>1, EndedTyped DEF IInv, BackupTypeOK
  <2>3. runs[r].kind = "db" =>
            \A tag \in {"db", "config"} : [place |-> place, tag |-> tag, run |-> r] \in copies'
    BY <1>2, <1>3, <1>5 DEF CopyConfig, CopyShare, Copied, Fits
  <2>4. Fits(r)'
    BY <1>2, <2>2, <2>3 DEF Fits
  <2>5. runs' \in [Run -> RunRow] /\ AllFit'
    BY <1>3, <2>1, <2>2, <2>4, OneRow
  <2> QED BY <1>1, <1>3, <2>5 DEF IInv, BackupTypeOK, RekeysBounded, Copies
<1> QED BY <1>4, <1>5

\* A check never ends as a copy of the database.
LEMMA CheckStep ==
    ASSUME Bounds, IInv, NEW r \in Run, CheckCreate(r) \/ CheckLoad(r) \/ CheckCount(r)
    PROVE  IInv'
<1>1. UNCHANGED <<storage, form, serverKey, repo, copies, remaining>>
  BY DEF CheckCreate, CheckLoad, CheckCount
<1>2. /\ runs[r].stage \in {"create", "load", "count"} /\ runs[r] \in RunRow
      /\ runs[r].kind = "check"
      /\ runs[r].target.place \in Place /\ runs[r].target.password \in Password
  BY RunTyped DEF CheckCreate, CheckLoad, CheckCount, IInv, AllFit, Fits
<1>3. scratch' \in Run \cup {"none", "empty"}
  BY DEF CheckCreate, CheckLoad, CheckCount
<1>4. runs' \in [Run -> RunRow] /\ AllFit'
  <2>1. CASE CheckCount(r)
    <3>1. runs' = [runs EXCEPT ![r] = Ended(r, "ok")]
      BY <2>1 DEF CheckCount
    <3>2. /\ runs'[r] = Ended(r, "ok") /\ Ended(r, "ok") \in RunRow
          /\ Ended(r, "ok").stage = "idle" /\ Ended(r, "ok").kind = runs[r].kind
      BY <3>1, EndedTyped DEF IInv, BackupTypeOK
    <3>3. Fits(r)'
      BY <1>2, <3>2 DEF Fits
    <3> QED BY <1>1, <3>1, <3>2, <3>3, OneRow
  <2>2. ASSUME NEW stage \in {"load", "count"}, runs' = [runs EXCEPT ![r] = Goes(r, stage)]
        PROVE  runs' \in [Run -> RunRow] /\ AllFit'
    <3> DEFINE row == Goes(r, stage)
    <3>1. row \in RunRow
      BY RunTyped DEF IInv, Stages
    <3>2. /\ row.stage = stage /\ row.target = runs[r].target
          /\ row.kind = runs[r].kind /\ row.row = runs[r].row
      BY <1>2 DEF Goes, RunRow
    <3> HIDE DEF row
    <3>3. runs' = [runs EXCEPT ![r] = row]
      BY <2>2 DEF row
    <3>4. runs'[r] = row
      BY <3>3 DEF IInv, BackupTypeOK
    <3>5. Fits(r)'
      BY <1>2, <3>2, <3>4 DEF Fits
    <3> QED BY <1>1, <3>1, <3>3, <3>5, OneRow
  <2> QED BY <2>1, <2>2 DEF CheckCreate, CheckLoad
<1>5. BackupTypeOK'
  BY <1>1, <1>3, <1>4 DEF IInv, BackupTypeOK
<1>6. RekeysBounded'
  BY <1>1 DEF IInv, RekeysBounded
<1> QED BY <1>4, <1>5, <1>6 DEF IInv

-----------------------------------------------------------------------------

\* The invariant holds for every set of storages, passwords and runs and
\* every bound.
THEOREM BackupInvariant ==
    ASSUME MaxSaves \in Nat, MaxFailures \in Nat, MaxRekeys \in Nat
    PROVE  Spec => []IInv
<1>1. Bounds
  BY DEF Bounds
<1>2. Init => IInv
  BY <1>1, InitIInv
<1>3. IInv /\ [Next]_vars => IInv'
  <2>1. ASSUME IInv, UNCHANGED vars
        PROVE  IInv'
    BY <2>1 DEF vars, IInv, BackupTypeOK, RekeysBounded, AllFit, Fits
  <2> QED
    BY <1>1, <2>1, SettingsStep, RekeyStep, JournalStep, LeftAloneStep, FailStep, StartStep,
       ConnectStep, CopyStep, CheckStep DEF Next, Work
<1> QED BY <1>2, <1>3, PTL DEF Spec

\* A copy of the database that the journal calls good has the dump and the
\* .env in one place, wherever the settings point to by then: no failure
\* between the two looks like success (backup_db).
THEOREM GoodCopiesAreWhole ==
    ASSUME MaxSaves \in Nat, MaxFailures \in Nat, MaxRekeys \in Nat
    PROVE  Spec => []OkIsComplete
<1>1. IInv => OkIsComplete
  BY DEF IInv, AllFit, Fits, OkIsComplete
<1> QED BY <1>1, BackupInvariant, PTL

-----------------------------------------------------------------------------
(***************************************************************************)
(* Distribution: a link is handed out only for the very file that is on    *)
(* the share, for any number of files, uploads and failures.               *)
(***************************************************************************)
CONSTANTS
    File, MaxEdits,
    MaxLosses  \* failed transfers and dead workers of the mirror

VARIABLES share, newest, mirror, manifest, sync, again, flagging, asked, budget

Mirror == INSTANCE Distribution WITH MaxFailures <- MaxLosses


(***************************************************************************)
(* Versions never come back: what a walk or the manifest has recorded is   *)
(* not newer than the newest version, and an upload is newer.              *)
(***************************************************************************)
NothingNewer ==
    \A f \in File :
        /\ newest[f] + budget.edits <= MaxEdits
        /\ share[f] \in {0, newest[f]}
        /\ manifest[f].stat <= newest[f]
        /\ sync.before[f] <= newest[f]

(***************************************************************************)
(* rsync has copied each file that it has passed and that is still the one *)
(* of the first walk; what both walks have seen is on the mirror.          *)
(***************************************************************************)
CopiedAsWalked ==
    \A f \in File :
        /\ sync.stage = "transfer" /\ f \notin sync.todo
              /\ sync.before[f] = share[f] /\ share[f] # 0
            => mirror[f] = share[f]
        /\ sync.stage = "hash" /\ sync.before[f] = sync.after[f] /\ sync.after[f] # 0
            => mirror[f] = sync.after[f]

MirrorInv == Mirror!DistTypeOK /\ NothingNewer /\ CopiedAsWalked /\ Mirror!LinkIsCurrent

MirrorBounds == MaxEdits \in Nat /\ MaxLosses \in Nat

SyncRow ==
    [stage : Mirror!Stages, round : 0..Mirror!Rounds, before : [File -> Mirror!Versions],
     todo : SUBSET File, after : [File -> Mirror!Versions]]

-----------------------------------------------------------------------------

\* A task that has ended leaves a well-formed record.
LEMMA NoSyncTyped ==
    ASSUME MirrorBounds
    PROVE  Mirror!NoSync \in SyncRow
<1>1. [f \in File |-> 0] \in [File -> Mirror!Versions]
  BY DEF MirrorBounds, Mirror!Versions
<1>2. 0 \in 0..Mirror!Rounds
  BY DEF Mirror!Rounds
<1> QED BY <1>1, <1>2 DEF Mirror!NoSync, SyncRow, Mirror!Stages

\* Nothing is listed and nothing copied in the beginning.
LEMMA InitMirror ==
    ASSUME MirrorBounds, Mirror!Init
    PROVE  MirrorInv
<1>1. Mirror!NoSync \in SyncRow
  BY NoSyncTyped
<1>2. Mirror!DistTypeOK
  <2>1. Mirror!Unlisted \in Mirror!Entries /\ 0 \in Mirror!Versions
    BY DEF MirrorBounds, Mirror!Unlisted, Mirror!Entries, Mirror!Versions
  <2>2. budget \in [edits : 0..MaxEdits, failures : 0..MaxLosses]
    BY DEF MirrorBounds, Mirror!Init
  <2>3. flagging \in 0..Mirror!MaxAsked /\ asked \in 0..Mirror!MaxAsked
    BY DEF Mirror!Init, Mirror!MaxAsked
  <2>4. /\ share \in [File -> Mirror!Versions] /\ newest \in [File -> Mirror!Versions]
        /\ mirror \in [File -> Mirror!Versions] /\ manifest \in [File -> Mirror!Entries]
    BY <2>1 DEF Mirror!Init
  <2> QED BY <1>1, <2>2, <2>3, <2>4 DEF Mirror!Init, Mirror!DistTypeOK, SyncRow
<1>3. NothingNewer
  <2>1. \A f \in File : /\ newest[f] = 0 /\ share[f] = 0
                       /\ manifest[f].stat = 0 /\ sync.before[f] = 0
    BY DEF Mirror!Init, Mirror!Unlisted, Mirror!NoSync
  <2>2. budget.edits = MaxEdits
    BY DEF Mirror!Init
  <2> SUFFICES ASSUME NEW f \in File
               PROVE  /\ newest[f] + budget.edits <= MaxEdits
                      /\ share[f] \in {0, newest[f]}
                      /\ manifest[f].stat <= newest[f]
                      /\ sync.before[f] <= newest[f]
    BY DEF NothingNewer
  <2> QED BY <2>1, <2>2 DEF MirrorBounds
<1>4. CopiedAsWalked
  BY DEF Mirror!Init, CopiedAsWalked, Mirror!NoSync
<1>5. Mirror!LinkIsCurrent
  BY DEF Mirror!Init, Mirror!LinkIsCurrent, Mirror!Linked
<1> QED BY <1>2, <1>3, <1>4, <1>5 DEF MirrorInv

\* An upload puts a version on the share that nothing has recorded yet.
LEMMA UploadStep ==
    ASSUME MirrorBounds, MirrorInv, NEW f \in File, Mirror!Upload(f)
    PROVE  MirrorInv'
<1> USE DEF MirrorInv, MirrorBounds
<1>1. /\ newest[f] \in Nat /\ budget.edits \in Nat /\ budget.edits > 0
      /\ newest[f] + 1 \in Mirror!Versions
  BY DEF Mirror!Upload, Mirror!DistTypeOK, NothingNewer, Mirror!Versions
<1>2. /\ newest' \in [File -> Mirror!Versions] /\ share' \in [File -> Mirror!Versions]
      /\ newest'[f] = newest[f] + 1 /\ share'[f] = newest[f] + 1
      /\ \A g \in File \ {f} : newest'[g] = newest[g] /\ share'[g] = share[g]
  BY <1>1 DEF Mirror!Upload, Mirror!DistTypeOK
<1>3. /\ budget' \in [edits : 0..MaxEdits, failures : 0..MaxLosses]
      /\ budget'.edits = budget.edits - 1
  BY <1>1 DEF Mirror!Upload, Mirror!DistTypeOK
<1>4. Mirror!DistTypeOK'
  BY <1>2, <1>3 DEF Mirror!Upload, Mirror!Ask, Mirror!DistTypeOK, Mirror!MaxAsked
<1>5. UNCHANGED <<manifest, sync, mirror>>
  BY DEF Mirror!Upload
<1>6. NothingNewer'
  <2> SUFFICES ASSUME NEW g \in File
               PROVE  /\ newest'[g] + budget'.edits <= MaxEdits
                      /\ share'[g] \in {0, newest'[g]}
                      /\ manifest[g].stat <= newest'[g]
                      /\ sync.before[g] <= newest'[g]
    BY <1>5 DEF NothingNewer
  <2>1. newest[g] \in Nat /\ manifest[g].stat \in Nat /\ sync.before[g] \in Nat
    BY DEF Mirror!DistTypeOK, Mirror!Versions, Mirror!Entries
  <2> QED BY <1>1, <1>2, <1>3, <2>1 DEF NothingNewer
<1>7. sync.before[f] # share'[f] /\ manifest[f].stat # share'[f]
  <2>1. manifest[f].stat \in Nat /\ sync.before[f] \in Nat
    BY DEF Mirror!DistTypeOK, Mirror!Versions, Mirror!Entries
  <2> QED BY <1>1, <1>2, <2>1 DEF NothingNewer
<1>8. CopiedAsWalked'
  BY <1>2, <1>5, <1>7 DEF CopiedAsWalked
<1>9. Mirror!LinkIsCurrent'
  BY <1>2, <1>5, <1>7 DEF Mirror!LinkIsCurrent, Mirror!Linked
<1> QED BY <1>4, <1>6, <1>8, <1>9

\* A file that is removed has no link any more.
LEMMA RemoveStep ==
    ASSUME MirrorBounds, MirrorInv, NEW f \in File, Mirror!Remove(f)
    PROVE  MirrorInv'
<1> USE DEF MirrorInv, MirrorBounds
<1>1. /\ share' \in [File -> Mirror!Versions] /\ share'[f] = 0
      /\ \A g \in File \ {f} : share'[g] = share[g]
  BY DEF Mirror!Remove, Mirror!DistTypeOK, Mirror!Versions
<1>2. Mirror!DistTypeOK'
  BY <1>1 DEF Mirror!Remove, Mirror!Ask, Mirror!DistTypeOK, Mirror!MaxAsked
<1>3. NothingNewer'
  BY <1>1 DEF Mirror!Remove, NothingNewer
<1>4. CopiedAsWalked'
  BY <1>1 DEF Mirror!Remove, CopiedAsWalked
<1>5. Mirror!LinkIsCurrent'
  BY <1>1 DEF Mirror!Remove, Mirror!LinkIsCurrent, Mirror!Linked
<1> QED BY <1>2, <1>3, <1>4, <1>5

\* Messages and the .again file say nothing of the copies.
LEMMA AskedStep ==
    ASSUME MirrorBounds, MirrorInv, Mirror!Beat \/ Mirror!Flag
    PROVE  MirrorInv'
<1>1. UNCHANGED <<share, newest, mirror, manifest, sync, budget>>
  BY DEF Mirror!Beat, Mirror!Flag
<1>2. Mirror!DistTypeOK'
  <2>1. asked' \in 0..Mirror!MaxAsked /\ flagging' \in 0..Mirror!MaxAsked
    BY DEF MirrorInv, Mirror!Beat, Mirror!Flag, Mirror!DistTypeOK, Mirror!MaxAsked
  <2>2. again' \in BOOLEAN
    BY DEF MirrorInv, Mirror!Beat, Mirror!Flag, Mirror!DistTypeOK
  <2> QED BY <1>1, <2>1, <2>2 DEF MirrorInv, Mirror!DistTypeOK
<1> QED
  BY <1>1, <1>2 DEF MirrorInv, NothingNewer, CopiedAsWalked, Mirror!LinkIsCurrent, Mirror!Linked

\* The steps of a sync that neither copy nor list only move its stage.
LEMMA StageStep ==
    ASSUME MirrorBounds, MirrorInv,
           \/ Mirror!Take /\ sync.stage = "idle"
           \/ Mirror!Walk \/ Mirror!Fail \/ Mirror!Repeat \/ Mirror!Release \/ Mirror!Die
    PROVE  MirrorInv'
<1> USE DEF MirrorInv, MirrorBounds
<1>1. UNCHANGED <<share, newest, mirror, manifest>>
  BY DEF Mirror!Take, Mirror!Walk, Mirror!Fail, Mirror!Repeat, Mirror!Release, Mirror!Die
<1>2. sync \in SyncRow
  BY DEF Mirror!DistTypeOK, SyncRow
<1>3. Mirror!NoSync \in SyncRow
  BY NoSyncTyped
<1>4. sync' \in SyncRow
  <2>1. CASE Mirror!Take /\ sync.stage = "idle"
    <3>1. sync' = [sync EXCEPT !.stage = "begin", !.round = 1]
      BY <2>1 DEF Mirror!Take
    <3>2. 1 \in 0..Mirror!Rounds
      BY DEF Mirror!Rounds
    <3> QED BY <1>2, <3>1, <3>2 DEF SyncRow, Mirror!Stages
  <2>2. CASE Mirror!Walk
    BY <1>2, <2>2 DEF Mirror!Walk, SyncRow, Mirror!Stages, Mirror!DistTypeOK
  <2>3. CASE Mirror!Fail
    BY <1>2, <2>3 DEF Mirror!Fail, SyncRow, Mirror!Stages
  <2>4. CASE Mirror!Repeat
    <3>1. sync.round \in 0..Mirror!Rounds /\ (sync.round < Mirror!Rounds => sync.round + 1 \in 0..Mirror!Rounds)
      BY <1>2 DEF SyncRow, Mirror!Rounds
    <3>2. \/ sync' = [sync EXCEPT !.stage = "begin", !.round = sync.round + 1]
               /\ sync.round < Mirror!Rounds
          \/ sync' = [sync EXCEPT !.stage = "report"]
      BY <2>4 DEF Mirror!Repeat
    <3> QED BY <1>2, <3>1, <3>2 DEF SyncRow, Mirror!Stages
  <2>5. CASE Mirror!Release \/ Mirror!Die
    BY <1>3, <2>5 DEF Mirror!Release, Mirror!Die
  <2> QED BY <2>1, <2>2, <2>3, <2>4, <2>5
<1>5. /\ budget' \in [edits : 0..MaxEdits, failures : 0..MaxLosses]
      /\ budget'.edits = budget.edits
  BY DEF Mirror!Take, Mirror!Walk, Mirror!Fail, Mirror!Repeat, Mirror!Release, Mirror!Die, Mirror!DistTypeOK
<1>6. again' \in BOOLEAN /\ flagging' \in 0..Mirror!MaxAsked /\ asked' \in 0..Mirror!MaxAsked
  <2>1. CASE Mirror!Take /\ sync.stage = "idle"
    BY <2>1 DEF Mirror!Take, Mirror!DistTypeOK, Mirror!MaxAsked
  <2>2. CASE Mirror!Walk \/ Mirror!Fail \/ Mirror!Repeat \/ Mirror!Release \/ Mirror!Die
    BY <2>2 DEF Mirror!Walk, Mirror!Fail, Mirror!Repeat, Mirror!Release, Mirror!Die, Mirror!DistTypeOK
  <2> QED BY <2>1, <2>2
<1>7. Mirror!DistTypeOK'
  BY <1>1, <1>4, <1>5, <1>6 DEF Mirror!DistTypeOK, SyncRow
<1>8. \A f \in File : sync'.before[f] \in {0, share[f], sync.before[f]}
  <2>1. CASE (Mirror!Take /\ sync.stage = "idle") \/ Mirror!Fail \/ Mirror!Repeat
    <3>1. sync'.before = sync.before
      BY <1>2, <2>1 DEF Mirror!Take, Mirror!Fail, Mirror!Repeat, SyncRow
    <3> QED BY <3>1
  <2>2. CASE Mirror!Walk
    <3>1. sync'.before = share
      BY <1>2, <2>2 DEF Mirror!Walk, SyncRow
    <3> QED BY <3>1
  <2>3. CASE Mirror!Release \/ Mirror!Die
    <3>1. sync'.before = [f \in File |-> 0]
      BY <2>3 DEF Mirror!Release, Mirror!Die, Mirror!NoSync
    <3> QED BY <3>1
  <2> QED BY <2>1, <2>2, <2>3
<1>9. NothingNewer'
  <2> SUFFICES ASSUME NEW f \in File
               PROVE  sync'.before[f] <= newest[f]
    BY <1>1, <1>5 DEF NothingNewer
  <2>1. newest[f] \in Nat
    BY DEF Mirror!DistTypeOK, Mirror!Versions
  <2> QED BY <1>8, <2>1 DEF NothingNewer
<1>10. /\ sync'.stage # "hash"
       /\ sync'.stage = "transfer" => sync'.todo = File
  <2>1. CASE Mirror!Take /\ sync.stage = "idle"
    BY <1>2, <2>1 DEF Mirror!Take, SyncRow
  <2>2. CASE Mirror!Walk
    BY <1>2, <2>2 DEF Mirror!Walk, SyncRow
  <2>3. CASE Mirror!Fail \/ Mirror!Repeat
    BY <1>2, <2>3 DEF Mirror!Fail, Mirror!Repeat, SyncRow
  <2>4. CASE Mirror!Release \/ Mirror!Die
    BY <2>4 DEF Mirror!Release, Mirror!Die, Mirror!NoSync
  <2> QED BY <2>1, <2>2, <2>3, <2>4
<1>11. CopiedAsWalked'
  BY <1>10 DEF CopiedAsWalked
<1>12. Mirror!LinkIsCurrent'
  BY <1>1 DEF Mirror!LinkIsCurrent, Mirror!Linked
<1> QED BY <1>7, <1>9, <1>11, <1>12

\* A task that finds the lock taken leaves its word for the one that runs.
LEMMA RefusedStep ==
    ASSUME MirrorBounds, MirrorInv, Mirror!Take, sync.stage # "idle"
    PROVE  MirrorInv'
<1>1. UNCHANGED <<share, newest, mirror, manifest, sync, again, budget>>
  BY DEF Mirror!Take
<1>2. flagging' \in 0..Mirror!MaxAsked /\ asked' \in 0..Mirror!MaxAsked
  BY DEF Mirror!Take, MirrorInv, Mirror!DistTypeOK, Mirror!MaxAsked
<1>3. Mirror!DistTypeOK'
  BY <1>1, <1>2 DEF MirrorInv, Mirror!DistTypeOK
<1> QED
  BY <1>1, <1>3 DEF MirrorInv, NothingNewer, CopiedAsWalked, Mirror!LinkIsCurrent, Mirror!Linked

\* rsync copies what is on the share now; a linked file is there already.
LEMMA TransferStep ==
    ASSUME MirrorBounds, MirrorInv, NEW f \in File, Mirror!Transfer(f)
    PROVE  MirrorInv'
<1> USE DEF MirrorInv, MirrorBounds
<1>1. UNCHANGED <<share, newest, manifest, again, flagging, asked, budget>>
  BY DEF Mirror!Transfer
<1>2. /\ mirror' \in [File -> Mirror!Versions]
      /\ mirror'[f] = share[f] \/ share[f] = 0
      /\ \A g \in File \ {f} : mirror'[g] = mirror[g]
  BY DEF Mirror!Transfer, Mirror!DistTypeOK
<1>3. /\ sync' \in SyncRow
      /\ sync'.stage = "transfer" /\ sync.stage = "transfer"
      /\ sync'.before = sync.before /\ sync'.todo = sync.todo \ {f}
  BY DEF Mirror!Transfer, Mirror!DistTypeOK, SyncRow
<1>4. Mirror!DistTypeOK'
  BY <1>1, <1>2, <1>3 DEF Mirror!DistTypeOK, SyncRow
<1>5. NothingNewer'
  BY <1>1, <1>3 DEF NothingNewer
<1>6. CopiedAsWalked'
  BY <1>1, <1>2, <1>3 DEF CopiedAsWalked
<1>7. Mirror!LinkIsCurrent'
  BY <1>1, <1>2 DEF Mirror!LinkIsCurrent, Mirror!Linked
<1> QED BY <1>4, <1>5, <1>6, <1>7

\* The second walk: what it finds as the first did is on the mirror.
LEMMA WalkAgainStep ==
    ASSUME MirrorBounds, MirrorInv, Mirror!WalkAgain
    PROVE  MirrorInv'
<1> USE DEF MirrorInv, MirrorBounds
<1>1. UNCHANGED <<share, newest, mirror, manifest, again, flagging, asked, budget>>
  BY DEF Mirror!WalkAgain
<1>2. /\ sync' \in SyncRow
      /\ sync'.stage = "hash" /\ sync.stage = "transfer" /\ sync.todo = {}
      /\ sync'.before = sync.before /\ sync'.after = share
  BY DEF Mirror!WalkAgain, Mirror!DistTypeOK, SyncRow, Mirror!Stages
<1>3. Mirror!DistTypeOK'
  BY <1>1, <1>2 DEF Mirror!DistTypeOK, SyncRow
<1>4. NothingNewer'
  BY <1>1, <1>2 DEF NothingNewer
<1>5. CopiedAsWalked'
  BY <1>1, <1>2 DEF CopiedAsWalked
<1>6. Mirror!LinkIsCurrent'
  BY <1>1 DEF Mirror!LinkIsCurrent, Mirror!Linked
<1> QED BY <1>3, <1>4, <1>5, <1>6

\* Only what both walks have seen is listed, under its own hash.
LEMMA PublishStep ==
    ASSUME MirrorBounds, MirrorInv, Mirror!Publish
    PROVE  MirrorInv'
<1> USE DEF MirrorInv, MirrorBounds
<1>1. UNCHANGED <<share, newest, mirror, again, flagging, asked, budget>>
  BY DEF Mirror!Publish
<1>2. /\ sync' \in SyncRow
      /\ sync'.stage = "check" /\ sync.stage = "hash"
      /\ sync'.before = sync.before
  BY DEF Mirror!Publish, Mirror!DistTypeOK, SyncRow, Mirror!Stages
<1>3. \A f \in File : manifest'[f] = IF Mirror!Unchanged(f) THEN Mirror!Entry(f) ELSE Mirror!Unlisted
  BY DEF Mirror!Publish
<1>4. \A f \in File : /\ Mirror!Unlisted \in Mirror!Entries
                      /\ Mirror!Unchanged(f) => Mirror!Entry(f) \in Mirror!Entries
  BY DEF Mirror!DistTypeOK, Mirror!Entry, Mirror!Unlisted, Mirror!Entries, Mirror!Versions
<1>5. manifest' \in [File -> Mirror!Entries]
  BY <1>4 DEF Mirror!Publish
<1>6. Mirror!DistTypeOK'
  BY <1>1, <1>2, <1>5 DEF Mirror!DistTypeOK, SyncRow
<1>7. \A f \in File : manifest'[f].stat \in {0, manifest[f].stat, sync.before[f]}
  <2> SUFFICES ASSUME NEW f \in File
               PROVE  manifest'[f].stat \in {0, manifest[f].stat, sync.before[f]}
    OBVIOUS
  <2>1. CASE ~Mirror!Unchanged(f)
    BY <1>3, <2>1 DEF Mirror!Unlisted
  <2>2. CASE Mirror!Unchanged(f)
    <3>1. manifest'[f] = Mirror!Entry(f) /\ sync.before[f] = sync.after[f]
      BY <1>3, <2>2 DEF Mirror!Unchanged
    <3> QED BY <3>1 DEF Mirror!Entry, Mirror!Unlisted
  <2> QED BY <2>1, <2>2
<1>8. NothingNewer'
  <2> SUFFICES ASSUME NEW f \in File
               PROVE  manifest'[f].stat <= newest[f]
    BY <1>1, <1>2 DEF NothingNewer
  <2>1. newest[f] \in Nat
    BY DEF Mirror!DistTypeOK, Mirror!Versions
  <2> QED BY <1>7, <2>1 DEF NothingNewer
<1>9. CopiedAsWalked'
  BY <1>2 DEF CopiedAsWalked
<1>10. ASSUME NEW f \in File, share[f] # 0, manifest'[f].stat = share[f]
       PROVE  mirror[f] = share[f] /\ manifest'[f].sha = share[f]
  <2>1. Mirror!Unchanged(f) /\ manifest'[f] = Mirror!Entry(f)
    BY <1>3, <1>10 DEF Mirror!Unlisted
  <2>2. sync.after[f] = share[f]
    BY <1>10, <2>1 DEF Mirror!Entry, Mirror!Unlisted
  <2>3. mirror[f] = share[f]
    BY <1>2, <1>10, <2>1, <2>2 DEF CopiedAsWalked, Mirror!Unchanged
  <2>4. manifest'[f].sha = share[f]
    BY <1>10, <2>1, <2>2 DEF Mirror!Entry, Mirror!LinkIsCurrent, Mirror!Linked
  <2> QED BY <2>3, <2>4
<1>11. Mirror!LinkIsCurrent'
  BY <1>1, <1>10 DEF Mirror!LinkIsCurrent, Mirror!Linked
<1> QED BY <1>6, <1>8, <1>9, <1>11

-----------------------------------------------------------------------------

\* The invariant holds for every set of files and every bound on uploads and
\* failures.
THEOREM DistributionInvariant ==
    ASSUME MaxEdits \in Nat, MaxLosses \in Nat
    PROVE  Mirror!Spec => []MirrorInv
<1>1. MirrorBounds
  BY DEF MirrorBounds
<1>2. Mirror!Init => MirrorInv
  BY <1>1, InitMirror
<1>3. MirrorInv /\ [Mirror!Next]_(Mirror!vars) => MirrorInv'
  <2>1. ASSUME MirrorInv, UNCHANGED Mirror!vars
        PROVE  MirrorInv'
    <3>1. UNCHANGED <<share, newest, mirror, manifest, sync, again, flagging, asked, budget>>
      BY <2>1 DEF Mirror!vars
    <3> QED
      BY <2>1, <3>1 DEF MirrorInv, Mirror!DistTypeOK, NothingNewer, CopiedAsWalked,
         Mirror!LinkIsCurrent, Mirror!Linked
  <2> QED
    BY <1>1, <2>1, UploadStep, RemoveStep, AskedStep, StageStep, RefusedStep, TransferStep,
       WalkAgainStep, PublishStep DEF Mirror!Next, Mirror!Work
<1> QED BY <1>2, <1>3, PTL DEF Mirror!Spec

\* A PC that follows a link gets the very file the playbook copies today,
\* whatever is uploaded or removed while rsync and the hashing are under way
\* (sync and link_for of services/distribution.py).
THEOREM LinksAreCurrent ==
    ASSUME MaxEdits \in Nat, MaxLosses \in Nat
    PROVE  Mirror!Spec => []Mirror!LinkIsCurrent
<1>1. MirrorInv => Mirror!LinkIsCurrent
  BY DEF MirrorInv
<1> QED BY <1>1, DistributionInvariant, PTL
=============================================================================
