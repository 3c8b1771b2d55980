-------------------------- MODULE AgentUpdate_proofs --------------------------
(***************************************************************************)
(* Theorems of AgentUpdate for any finite set of PCs, any releases and     *)
(* every bound: what a task does to its PCs, when its canary keeps a       *)
(* broken build from the others, and that updates lead forward.            *)
(***************************************************************************)
EXTENDS AgentUpdate, FiniteSetTheorems, TLAPS

-----------------------------------------------------------------------------
(* The parts of the type, one for each group of variables.                 *)

SyncRecord == [stage : {"idle", "downloading", "replaced", "writing"}, tag : 0..MaxVersion]
ShareTyped ==
    /\ published \in Version /\ exe \in Version /\ sidecar \in 0..MaxVersion
    /\ syncs \in [Syncer -> SyncRecord]

SyncTags == \A s \in Syncer : syncs[s].stage # "idle" => syncs[s].tag \in Version

PCsTyped ==
    /\ installed \in [Host -> Version]
    /\ harmed \in [Host -> {"no", "ssh", "self"}]
    /\ reachable \in [Host -> {"open", "closed", "unset"}]

RowsTyped ==
    /\ gone \subseteq Host
    /\ stored \in [Host -> 0..MaxVersion] /\ target \in [Host -> 0..MaxVersion]

Answers == [stores : 0..MaxVersion, clears : BOOLEAN, offer : Offer]
AgentsTyped ==
    /\ beat \in [Host -> 0..MaxVersion]
    /\ answer \in [Host -> Answers]
    /\ offer \in [Host -> Offer]
    /\ scans \in [Host -> 0..NoScan]

Stages   == {"idle", "canary", "batch", "raised"}
Rows     == [stored : 0..MaxVersion, target : 0..MaxVersion]
Works    == {"none", "todo", "started", "installing", "lost"}
Outcomes == {"none", "ok", "unreachable", "failed", "untouched"}
TaskTyped ==
    /\ task \in [stage : Stages, available : 0..MaxVersion]
    /\ work \in [Host -> Works]
    /\ seen \in [Host -> Rows]
    /\ outcome \in [Host -> Outcomes]

TrialTyped == trial \in [harmed : SUBSET Host, spoilt : BOOLEAN]

LeftTyped == left \in [tasks : 0..MaxTasks, crashes : 0..MaxCrashes, returns : 0..MaxReturns]

Typed == /\ ShareTyped /\ SyncTags /\ PCsTyped /\ RowsTyped /\ AgentsTyped
         /\ TaskTyped /\ TrialTyped /\ LeftTyped

LEMMA TypedIsTypeOK == Typed => TypeOK
  BY DEF Typed, TypeOK, ShareTyped, PCsTyped, RowsTyped, AgentsTyped, Answers,
         TaskTyped, TrialTyped, LeftTyped, Stages, Rows, Works, Outcomes, SyncRecord

LEMMA VersionFacts ==
    /\ Version \subseteq 0..MaxVersion /\ Version \subseteq Nat /\ 0 \notin Version
    /\ 0 \in 0..MaxVersion /\ MaxVersion \in Nat
    /\ 0..MaxVersion \subseteq 0..NoScan /\ NoScan \in 0..NoScan
  BY VersionsAssumption DEF Version, NoScan

LEMMA NothingTyped == NoOffer \in Offer /\ NoAnswer \in Answers /\ NoRow \in Rows
  BY VersionFacts DEF NoOffer, NoAnswer, NoRow, Offer, Answers, Rows

\* What is spent is spent within the bounds.
LEMMA SpendTyped ==
    ASSUME LeftTyped, NEW kind \in {"tasks", "crashes", "returns"}, Spend(kind)
    PROVE  LeftTyped'
  BY BoundsAssumption DEF Spend, LeftTyped

\* What spoils a trial leaves its harm, and nothing mends it.
LEMMA SpoilTyped ==
    ASSUME TrialTyped, NEW reason \in BOOLEAN, Spoil(reason)
    PROVE  /\ TrialTyped' /\ trial'.harmed = trial.harmed
           /\ trial'.spoilt <=> (trial.spoilt \/ reason)
  <1>1. trial' = [trial EXCEPT !.spoilt = trial.spoilt \/ reason]
    BY DEF Spoil
  <1>2. (trial.spoilt \/ reason) \in BOOLEAN
    BY DEF TrialTyped
  <1> QED
    BY <1>1, <1>2 DEF TrialTyped

-----------------------------------------------------------------------------
(* The share.                                                              *)

jobVars == <<task, work, seen, outcome>>
ShareStep == Publish \/ \E s \in Syncer : SyncStep(s) \/ SyncCrash(s)

\* A sync that goes from one stage to the next leaves the other syncs alone.
LEMMA AtSyncTyped ==
    ASSUME ShareTyped, SyncTags, NEW s \in Syncer,
           NEW next \in SyncRecord,
           next.stage # "idle" => next.tag \in Version,
           AtSync(s, next)
    PROVE  /\ syncs' \in [Syncer -> SyncRecord]
           /\ SyncTags' /\ syncs'[s] = next
           /\ \A t \in Syncer \ {s} : syncs'[t] = syncs[t]
  BY DEF AtSync, ShareTyped, SyncTags

LEMMA ShareStepTyped ==
    ASSUME Typed, ShareStep
    PROVE  /\ ShareTyped' /\ SyncTags' /\ LeftTyped' /\ TrialTyped'
           /\ UNCHANGED <<hostVars, rowVars, agentVars, jobVars>>
  <1> USE DEF Typed
  <1>1. CASE Publish
    <2>1. published' \in Version
      <3>1. \/ published < MaxVersion /\ published' = published + 1
            \/ published > 1 /\ published' = published - 1
        BY <1>1 DEF Publish
      <3> QED
        BY <3>1, VersionsAssumption DEF ShareTyped, Version
    <2>2. LeftTyped'
      <3>1. left' = left \/ Spend("returns")
        BY <1>1 DEF Publish
      <3> QED
        BY <3>1, SpendTyped DEF LeftTyped
    <2> QED
      BY <1>1, <2>1, <2>2 DEF Publish, ShareTyped, SyncTags, TrialTyped, taskVars, jobVars
  <1>2. ASSUME NEW s \in Syncer, SyncStep(s) \/ SyncCrash(s)
        PROVE  /\ ShareTyped' /\ SyncTags' /\ LeftTyped' /\ TrialTyped'
               /\ UNCHANGED <<hostVars, rowVars, agentVars, jobVars>>
    <2>1. /\ UNCHANGED <<published, hostVars, rowVars, agentVars, jobVars>>
          /\ LeftTyped' /\ TrialTyped'
      <3>1. CASE SyncReplace(s)
        <4>1. (exe' # exe /\ (task.stage \in {"batch", "raised"} \/ InWork # {})) \in BOOLEAN
          OBVIOUS
        <4> QED
          BY <3>1, <4>1, SpoilTyped DEF SyncReplace, jobVars, LeftTyped
      <3>2. CASE SyncStart(s) \/ SyncTruncate(s) \/ SyncWrite(s)
        BY <3>2 DEF SyncStart, SyncTruncate, SyncWrite, LeftTyped, TrialTyped, taskVars, jobVars
      <3>3. CASE SyncCrash(s)
        BY <3>3, SpendTyped DEF SyncCrash, TrialTyped, taskVars, jobVars
      <3> QED
        BY <1>2, <3>1, <3>2, <3>3 DEF SyncStep
    <2>2. syncs[s] \in SyncRecord
      BY DEF ShareTyped
    <2>3. IdleSync \in SyncRecord
      BY VersionFacts DEF IdleSync, SyncRecord
    <2>4. CASE SyncStart(s)
      <3>1. [stage |-> "downloading", tag |-> published] \in SyncRecord
        BY VersionFacts DEF ShareTyped, SyncRecord
      <3> QED
        BY <2>1, <2>4, <3>1, AtSyncTyped DEF SyncStart, ShareTyped
    <2>5. CASE SyncReplace(s)
      <3>1. syncs[s].tag \in Version
        BY <2>5 DEF SyncReplace, SyncTags
      <3>2. [syncs[s] EXCEPT !.stage = "replaced"] \in SyncRecord
        BY <2>2 DEF SyncRecord
      <3>3. [syncs[s] EXCEPT !.stage = "replaced"].tag \in Version
        BY <2>2, <3>1 DEF SyncRecord
      <3> QED
        BY <2>1, <2>5, <3>1, <3>2, <3>3, AtSyncTyped DEF SyncReplace, ShareTyped
    <2>6. CASE SyncTruncate(s)
      <3>1. [syncs[s] EXCEPT !.stage = "writing"] \in SyncRecord
        BY <2>2 DEF SyncRecord
      <3>2. [syncs[s] EXCEPT !.stage = "writing"].tag \in Version
        BY <2>2, <2>6 DEF SyncTruncate, SyncTags, SyncRecord
      <3> QED
        BY <2>1, <2>6, <3>1, <3>2, AtSyncTyped, VersionFacts DEF SyncTruncate, ShareTyped
    <2>7. CASE SyncWrite(s)
      <3>1. syncs[s].tag \in 0..MaxVersion
        BY <2>2 DEF SyncRecord
      <3> QED
        BY <2>1, <2>3, <2>7, <3>1, AtSyncTyped DEF SyncWrite, ShareTyped, IdleSync
    <2>8. CASE SyncCrash(s)
      BY <2>1, <2>3, <2>8, AtSyncTyped DEF SyncCrash, ShareTyped, IdleSync
    <2> QED
      BY <1>2, <2>4, <2>5, <2>6, <2>7, <2>8 DEF SyncStep
  <1> QED
    BY <1>1, <1>2 DEF ShareStep

-----------------------------------------------------------------------------
(* The PCs and their agents.                                               *)

\* An installer changes one PC: it harms it, or puts the build there.
LEMMA InstallTyped ==
    ASSUME PCsTyped, NEW h \in Host, NEW build \in Version, NEW way \in {"ssh", "self"},
           Install(h, build, way)
    PROVE  /\ PCsTyped'
           /\ \A g \in Host \ {h} : installed'[g] = installed[g] /\ harmed'[g] = harmed[g]
           /\ build \in Broken => installed' = installed /\ harmed'[h] = way
           /\ build \notin Broken => installed'[h] = build /\ harmed'[h] = "no"
  <1>1. CASE build \in Broken
    BY <1>1 DEF Install, PCsTyped
  <1>2. CASE build \notin Broken
    <2>1. /\ installed' = [installed EXCEPT ![h] = build]
          /\ harmed' = [harmed EXCEPT ![h] = "no"]
          /\ reachable' = [reachable EXCEPT ![h] = IF @ = "unset" THEN "open" ELSE @]
      BY <1>2 DEF Install
    <2> QED
      BY <1>2, <2>1 DEF PCsTyped
  <1> QED
    BY <1>1, <1>2

AgentStep(h) ==
    \/ Collect(h) \/ HeartbeatRead(h) \/ HeartbeatCommit(h) \/ SelfUpdate(h)
    \/ SshChange(h) \/ Delete(h) \/ ScanRead(h) \/ ScanCommit(h)

\* What agents, heartbeats, scans and deletions write is typed, and no task is
\* touched.
LEMMA AgentStepTyped ==
    ASSUME Typed, NEW h \in Host, AgentStep(h)
    PROVE  /\ PCsTyped' /\ RowsTyped' /\ AgentsTyped'
           /\ UNCHANGED <<shareVars, taskVars, left>>
  <1> USE DEF Typed
  <1>1. CASE Collect(h)
    <2>1. beat' \in [Host -> 0..MaxVersion]
      BY <1>1, VersionFacts DEF Collect, PCsTyped, AgentsTyped
    <2> QED
      BY <1>1, <2>1 DEF Collect, hostVars, rowVars, PCsTyped, RowsTyped, AgentsTyped
  <1>2. CASE HeartbeatRead(h)
    <2> DEFINE next == [stores |-> IF stored[h] = beat[h] THEN 0 ELSE beat[h],
                        clears |-> Reached(h), offer |-> Offered(h)]
    <2>1. Offered(h) \in Offer
      BY VersionFacts, NothingTyped DEF Offered, Offer, ShareTyped
    <2>2. next \in Answers
      BY <2>1, VersionFacts DEF Answers, AgentsTyped, Reached
    <2>3. answer' = [answer EXCEPT ![h] = next] /\ beat' = [beat EXCEPT ![h] = 0]
      BY <1>2 DEF HeartbeatRead
    <2> HIDE DEF next
    <2>4. AgentsTyped'
      BY <1>2, <2>2, <2>3, VersionFacts DEF HeartbeatRead, AgentsTyped
    <2> QED
      BY <1>2, <2>4 DEF HeartbeatRead, hostVars, rowVars, PCsTyped, RowsTyped
  <1>3. CASE HeartbeatCommit(h)
    <2>1. answer[h].stores \in 0..MaxVersion /\ answer[h].offer \in Offer
      BY DEF AgentsTyped, Answers
    <2>2. RowsTyped'
      BY <1>3, <2>1, VersionFacts DEF HeartbeatCommit, RowsTyped
    <2>3. AgentsTyped'
      BY <1>3, <2>1, NothingTyped DEF HeartbeatCommit, AgentsTyped
    <2> QED
      BY <1>3, <2>2, <2>3 DEF HeartbeatCommit, hostVars, PCsTyped
  <1>4. CASE SelfUpdate(h)
    <2>1. PCsTyped'
      <3>1. CASE exe = offer[h].build
        BY <1>4, <3>1, InstallTyped DEF SelfUpdate, ShareTyped
      <3>2. CASE exe # offer[h].build
        BY <1>4, <3>2 DEF SelfUpdate, hostVars, PCsTyped
      <3> QED
        BY <3>1, <3>2
    <2>2. AgentsTyped'
      BY <1>4, NothingTyped DEF SelfUpdate, AgentsTyped
    <2> QED
      BY <1>4, <2>1, <2>2 DEF SelfUpdate, rowVars, RowsTyped
  <1>5. CASE SshChange(h)
    BY <1>5 DEF SshChange, rowVars, agentVars, PCsTyped, RowsTyped, AgentsTyped
  <1>6. CASE Delete(h)
    <2>1. RowsTyped'
      BY <1>6, VersionFacts DEF Delete, RowsTyped
    <2>2. AgentsTyped'
      BY <1>6, VersionFacts, NothingTyped DEF Delete, AgentsTyped
    <2> QED
      BY <1>6, <2>1, <2>2 DEF Delete, hostVars, PCsTyped
  <1>7. CASE ScanRead(h)
    <2>1. PICK version \in Listed(h) : scans' = [scans EXCEPT ![h] = version]
      BY <1>7 DEF ScanRead
    <2>2. version \in 0..NoScan
      BY <2>1, VersionFacts DEF Listed, PCsTyped
    <2>3. AgentsTyped'
      BY <1>7, <2>1, <2>2 DEF ScanRead, AgentsTyped
    <2> QED
      BY <1>7, <2>3 DEF ScanRead, hostVars, rowVars, PCsTyped, RowsTyped
  <1>8. CASE ScanCommit(h)
    <2>1. scans[h] \in 0..MaxVersion
      BY <1>8, VersionFacts DEF ScanCommit, AgentsTyped, NoScan
    <2>2. RowsTyped' /\ AgentsTyped'
      BY <1>8, <2>1, VersionFacts DEF ScanCommit, RowsTyped, AgentsTyped
    <2> QED
      BY <1>8, <2>2 DEF ScanCommit, hostVars, PCsTyped
  <1> QED
    BY <1>1, <1>2, <1>3, <1>4, <1>5, <1>6, <1>7, <1>8 DEF AgentStep

-----------------------------------------------------------------------------
(* The task.                                                               *)

\* A task that goes on without a PC leaves the others at work, unless it is
\* over.
LEMMA GoOnOne ==
    ASSUME TaskTyped, NEW h \in Host, NEW stage \in Stages, GoOn(h, stage)
    PROVE  /\ task' \in [stage : Stages, available : 0..MaxVersion]
           /\ work' \in [Host -> Works] /\ seen' \in [Host -> Rows]
           /\ \/ task' = IdleTask /\ \A g \in Host : work'[g] = "none"
              \/ /\ task'.stage = stage /\ stage # "idle"
                 /\ task'.available = task.available
                 /\ work'[h] = "none" /\ \A g \in Host \ {h} : work'[g] = work[g]
  <1> DEFINE over == stage = "idle" \/ (Todo \ {h} = {} /\ InWork \ {h} = {})
  <1>1. /\ task' = IF over THEN IdleTask ELSE [task EXCEPT !.stage = stage]
        /\ work' = [g \in Host |-> IF over \/ g = h THEN "none" ELSE work[g]]
        /\ seen' = [seen EXCEPT ![h] = NoRow]
    BY DEF GoOn
  <1>2. over \in BOOLEAN /\ (~over => stage # "idle")
    OBVIOUS
  <1> HIDE DEF over
  <1>3. task' \in [stage : Stages, available : 0..MaxVersion]
    BY <1>1, VersionFacts DEF TaskTyped, IdleTask, Stages
  <1>4. work' \in [Host -> Works] /\ seen' \in [Host -> Rows]
    BY <1>1, NothingTyped DEF TaskTyped, Works
  <1>5. CASE over
    BY <1>1, <1>3, <1>4, <1>5
  <1>6. CASE ~over
    BY <1>1, <1>2, <1>3, <1>4, <1>6 DEF TaskTyped
  <1> QED
    BY <1>5, <1>6

\* The end of one PC: a result of the others is not made up.
LEMMA ConcludeOne ==
    ASSUME TaskTyped, NEW h \in Host, NEW result \in {"ok", "unreachable", "failed"},
           Conclude(h, result)
    PROVE  /\ TaskTyped'
           /\ \/ task' = IdleTask /\ \A g \in Host : work'[g] = "none"
              \/ /\ task'.stage = Verdict(h, result) /\ task'.stage # "idle"
                 /\ task'.available = task.available
                 /\ work'[h] = "none" /\ \A g \in Host \ {h} : work'[g] = work[g]
           /\ outcome'[h] = result
           /\ \A g \in Host \ {h} : \/ outcome'[g] = outcome[g]
                                    \/ outcome'[g] = "untouched" /\ task' = IdleTask
  <1> DEFINE stage == Verdict(h, result)
  <1>1. stage \in Stages
    BY DEF Verdict, TaskTyped, Stages
  <1>2. /\ GoOn(h, stage)
        /\ outcome' = [g \in Host |-> IF g = h THEN result
                                      ELSE IF stage = "idle" /\ g \in Todo THEN "untouched"
                                      ELSE outcome[g]]
    BY DEF Conclude
  <1>3. stage = "idle" => task' = IdleTask
    BY <1>2 DEF GoOn
  <1> HIDE DEF stage
  <1>4. outcome' \in [Host -> Outcomes]
    BY <1>2 DEF TaskTyped, Outcomes
  <1>5. TaskTyped'
    BY <1>1, <1>2, <1>4, GoOnOne DEF TaskTyped
  <1>6. \/ task' = IdleTask /\ \A g \in Host : work'[g] = "none"
        \/ /\ task'.stage = stage /\ stage # "idle"
           /\ task'.available = task.available
           /\ work'[h] = "none" /\ \A g \in Host \ {h} : work'[g] = work[g]
    BY <1>1, <1>2, GoOnOne
  <1>7. /\ outcome'[h] = result
        /\ \A g \in Host \ {h} : \/ outcome'[g] = outcome[g]
                                 \/ outcome'[g] = "untouched" /\ task' = IdleTask
    BY <1>2, <1>3
  <1> QED
    BY <1>5, <1>6, <1>7 DEF stage

TaskStep(h) == Update(h) \/ LoseSession(h)

Ends(h) == Missing(h) \/ Delegate(h) \/ Result(h) \/ Recheck(h)

\* The steps that end the work on a PC, and what they conclude.
LEMMA EndsConclude ==
    ASSUME NEW h \in Host, Ends(h)
    PROVE  \E result \in {"ok", "unreachable", "failed"} : Conclude(h, result)
  BY DEF Ends, Missing, Delegate, Result, Recheck

\* A step of a task on one PC.
LEMMA TaskStepTyped ==
    ASSUME Typed, NEW h \in Host, TaskStep(h)
    PROVE  /\ PCsTyped' /\ RowsTyped' /\ TaskTyped' /\ TrialTyped' /\ LeftTyped'
           /\ UNCHANGED <<shareVars, agentVars>>
  <1> USE DEF Typed
  <1>1. CASE Pick(h)
    <2>1. seen' \in [Host -> Rows] /\ work' \in [Host -> Works]
      BY <1>1 DEF Pick, RowsTyped, TaskTyped, Rows, Works
    <2> QED
      BY <1>1, <2>1 DEF Pick, shareVars, hostVars, rowVars, agentVars, PCsTyped, RowsTyped, TaskTyped, TrialTyped, LeftTyped
  <1>2. CASE Ends(h)
    <2>1. TaskTyped'
      BY <1>2, EndsConclude, ConcludeOne
    <2>2. TrialTyped'
      <3>1. (task.stage = "canary") \in BOOLEAN
        OBVIOUS
      <3>2. CASE Missing(h)
        BY <3>1, <3>2, SpoilTyped DEF Missing
      <3>3. CASE ~Missing(h)
        BY <1>2, <3>3 DEF Ends, Delegate, Result, Recheck, TrialTyped
      <3> QED
        BY <3>2, <3>3
    <2>3. RowsTyped'
      <3>1. CASE Missing(h)
        BY <3>1 DEF Missing, rowVars, RowsTyped
      <3>2. CASE Delegate(h)
        <4>1. task.available \in 0..MaxVersion
          BY DEF TaskTyped
        <4>2. target' \in [Host -> 0..MaxVersion]
          BY <3>2, <4>1 DEF Delegate, RowsTyped
        <4> QED
          BY <3>2, <4>2 DEF Delegate, RowsTyped
      <3>3. CASE Result(h)
        <4>1. PICK version \in Listed(h) :
                stored' = [stored EXCEPT ![h] = IF version = 0 THEN stored[h] ELSE version]
          BY <3>3 DEF Result
        <4>2. version \in 0..MaxVersion
          BY <4>1, VersionFacts DEF Listed, PCsTyped
        <4> QED
          BY <3>3, <4>1, <4>2 DEF Result, RowsTyped
      <3>4. CASE Recheck(h)
        BY <3>4, VersionFacts DEF Recheck, RowsTyped, PCsTyped
      <3> QED
        BY <1>2, <3>1, <3>2, <3>3, <3>4 DEF Ends
    <2>4. UNCHANGED <<shareVars, hostVars, agentVars, left>>
      BY <1>2 DEF Ends, Missing, Delegate, Result, Recheck
    <2> QED
      BY <2>1, <2>2, <2>3, <2>4 DEF hostVars, PCsTyped, LeftTyped
  <1>3. CASE RunInstaller(h)
    <2>1. PCsTyped'
      <3>1. CASE Install(h, exe, "ssh")
        BY <3>1, InstallTyped DEF ShareTyped
      <3>2. CASE UNCHANGED hostVars
        BY <3>2 DEF hostVars, PCsTyped
      <3> QED
        BY <1>3, <3>1, <3>2 DEF RunInstaller
    <2>2. TrialTyped'
      BY <1>3 DEF RunInstaller, TrialTyped
    <2>3. TaskTyped'
      BY <1>3 DEF RunInstaller, TaskTyped, Works
    <2> QED
      BY <1>3, <2>1, <2>2, <2>3 DEF RunInstaller, rowVars, RowsTyped, LeftTyped
  <1>4. CASE LoseSession(h)
    <2>1. LeftTyped'
      BY <1>4, SpendTyped DEF LoseSession
    <2>2. TrialTyped'
      <3>1. PICK reason \in BOOLEAN : Spoil(reason)
        BY <1>4 DEF LoseSession
      <3> QED
        BY <3>1, SpoilTyped
    <2> QED
      BY <1>4, <2>1, <2>2 DEF LoseSession, hostVars, rowVars, PCsTyped, RowsTyped, TaskTyped, Works
  <1>5. CASE Raise(h)
    <2>1. PICK stage \in Stages : GoOn(h, stage)
      BY <1>5 DEF Raise, Stages
    <2>2. TaskTyped'
      BY <1>5, <2>1, GoOnOne DEF Raise, TaskTyped
    <2> QED
      BY <1>5, <2>2 DEF Raise, hostVars, rowVars, PCsTyped, RowsTyped, TrialTyped, LeftTyped
  <1>6. CASE DropRest(h)
    <2>1. task' \in {task, IdleTask} /\ IdleTask \in [stage : Stages, available : 0..MaxVersion]
      BY <1>6, VersionFacts DEF DropRest, IdleTask, Stages
    <2>2. work' \in [Host -> Works]
      BY <1>6 DEF DropRest, TaskTyped, Works
    <2> QED
      BY <1>6, <2>1, <2>2 DEF DropRest, hostVars, rowVars, PCsTyped, RowsTyped, TaskTyped, TrialTyped, LeftTyped
  <1> QED
    BY <1>1, <1>2, <1>3, <1>4, <1>5, <1>6 DEF TaskStep, Update, Ends

\* A task begins with its PCs, of which none has a result.
LEMMA TaskStartTyped ==
    ASSUME Typed, NEW hosts \in SUBSET Host, TaskStart(hosts)
    PROVE  /\ TaskTyped' /\ TrialTyped' /\ LeftTyped'
           /\ \A h \in Host : work'[h] \in {"todo", "none"} /\ outcome'[h] = "none"
           /\ UNCHANGED <<shareVars, hostVars, rowVars, agentVars>>
  <1>1. LeftTyped'
    BY SpendTyped DEF TaskStart, Typed
  <1>2. TaskTyped' /\ \A h \in Host : work'[h] \in {"todo", "none"} /\ outcome'[h] = "none"
    BY DEF TaskStart, Typed, ShareTyped, TaskTyped, Works, Outcomes, Stages
  <1>3. TrialTyped'
    BY DEF TaskStart, TrialTyped
  <1> QED
    BY <1>1, <1>2, <1>3 DEF TaskStart

-----------------------------------------------------------------------------
(* Types.                                                                  *)

Steps ==
    \/ ShareStep
    \/ \E hosts \in SUBSET Host : TaskStart(hosts)
    \/ \E h \in Host : AgentStep(h) \/ TaskStep(h)

LEMMA NextIsSteps == Next => Steps
  BY DEF Next, Steps, ShareStep, AgentStep, TaskStep

LEMMA InitTyped ==
    ASSUME Init
    PROVE  Typed
  <1>1. ShareTyped /\ SyncTags
    BY VersionFacts DEF Init, ShareTyped, SyncTags, IdleSync, SyncRecord
  <1>2. PCsTyped /\ RowsTyped
    BY VersionFacts DEF Init, PCsTyped, RowsTyped
  <1>3. AgentsTyped
    BY VersionFacts, NothingTyped DEF Init, AgentsTyped
  <1>4. TaskTyped /\ TrialTyped
    BY VersionFacts, NothingTyped DEF Init, TaskTyped, TrialTyped, IdleTask, Works, Outcomes, Stages
  <1>5. LeftTyped
    BY BoundsAssumption DEF Init, LeftTyped
  <1> QED
    BY <1>1, <1>2, <1>3, <1>4, <1>5 DEF Typed

LEMMA NextTyped ==
    ASSUME Typed, [Next]_vars
    PROVE  Typed'
  <1>1. CASE ShareStep
    BY <1>1, ShareStepTyped DEF Typed, PCsTyped, RowsTyped, AgentsTyped, TaskTyped,
       hostVars, rowVars, agentVars, jobVars
  <1>2. ASSUME NEW hosts \in SUBSET Host, TaskStart(hosts)
        PROVE  Typed'
    BY <1>2, TaskStartTyped DEF Typed, ShareTyped, SyncTags, PCsTyped, RowsTyped, AgentsTyped,
       shareVars, hostVars, rowVars, agentVars
  <1>3. ASSUME NEW h \in Host, AgentStep(h)
        PROVE  Typed'
    BY <1>3, AgentStepTyped DEF Typed, ShareTyped, SyncTags, TaskTyped, TrialTyped, LeftTyped, shareVars, taskVars
  <1>4. ASSUME NEW h \in Host, TaskStep(h)
        PROVE  Typed'
    BY <1>4, TaskStepTyped DEF Typed, ShareTyped, SyncTags, AgentsTyped, shareVars, agentVars
  <1>5. CASE UNCHANGED vars
    BY <1>5 DEF vars, Typed, ShareTyped, SyncTags, PCsTyped, RowsTyped, AgentsTyped, TaskTyped, TrialTyped, LeftTyped,
       shareVars, hostVars, rowVars, agentVars, taskVars
  <1> QED
    BY <1>1, <1>2, <1>3, <1>4, <1>5, NextIsSteps DEF Steps

\* Every variable keeps its type, whatever is published, lost, deleted and
\* reported.
THEOREM AgentUpdateTyped == Spec => []TypeOK
  <1>1. Spec => []Typed
    BY InitTyped, NextTyped, PTL DEF Spec
  <1> QED
    BY <1>1, TypedIsTypeOK, PTL

-----------------------------------------------------------------------------
(* One PC at a time, then Parallelism of them.                             *)

\* While no PC is ok there is one in work; a task that is over has none.
OneByOne ==
    /\ task.stage = "idle" => \A h \in Host : work[h] = "none"
    /\ task.stage = "canary" => \A g, h \in InWork : g = h

WithinLimit == IsFiniteSet(InWork) /\ Cardinality(InWork) <= Parallelism

\* A PC has a result when it is done; the batch has a PC that is ok.
Results ==
    /\ \A h \in Host : work[h] # "none" => outcome[h] = "none"
    /\ task.stage \in {"batch", "raised"} => \E h \in Host : outcome[h] = "ok"

WorkInv == OneByOne /\ WithinLimit /\ Results

\* A set of PCs in work that only shrinks stays within the limit.
LEMMA FewerWithinLimit ==
    ASSUME WithinLimit, InWork' \subseteq InWork, Parallelism \in Nat
    PROVE  WithinLimit'
  <1>1. IsFiniteSet(InWork') /\ Cardinality(InWork') <= Cardinality(InWork)
    BY FS_Subset DEF WithinLimit
  <1>2. Cardinality(InWork') \in Nat /\ Cardinality(InWork) \in Nat
    BY <1>1, FS_CardinalityType DEF WithinLimit
  <1> QED
    BY <1>1, <1>2 DEF WithinLimit

\* A PC that leaves the task leaves the work of the others as it is.
LEMMA LeaveWork ==
    ASSUME WorkInv, Parallelism \in Nat, NEW h \in Host,
           \/ task' = IdleTask /\ \A g \in Host : work'[g] = "none"
           \/ /\ work'[h] = "none" /\ \A g \in Host \ {h} : work'[g] = work[g]
              /\ task'.stage # "idle"
              /\ task'.stage = "canary" => task.stage = "canary"
    PROVE  OneByOne' /\ WithinLimit' /\ InWork' \subseteq InWork \ {h}
  <1>1. CASE task' = IdleTask /\ \A g \in Host : work'[g] = "none"
    <2>1. InWork' = {}
      BY <1>1 DEF InWork
    <2>2. OneByOne'
      BY <1>1 DEF OneByOne, IdleTask
    <2> QED
      BY <2>1, <2>2, FewerWithinLimit DEF WorkInv
  <1>2. CASE /\ work'[h] = "none" /\ \A g \in Host \ {h} : work'[g] = work[g]
             /\ task'.stage # "idle"
             /\ task'.stage = "canary" => task.stage = "canary"
    <2>1. InWork' \subseteq InWork \ {h}
      BY <1>2 DEF InWork
    <2>2. OneByOne'
      BY <1>2, <2>1 DEF OneByOne, WorkInv
    <2> QED
      BY <2>1, <2>2, FewerWithinLimit DEF WorkInv
  <1> QED
    BY <1>1, <1>2

LEMMA ConcludeWork ==
    ASSUME TaskTyped, WorkInv, Parallelism \in Nat, NEW h \in Host, work[h] # "none",
           NEW result \in {"ok", "unreachable", "failed"}, Conclude(h, result)
    PROVE  WorkInv' /\ InWork' \subseteq InWork \ {h}
  <1>1. /\ \/ task' = IdleTask /\ \A g \in Host : work'[g] = "none"
           \/ /\ task'.stage = Verdict(h, result) /\ task'.stage # "idle"
              /\ work'[h] = "none" /\ \A g \in Host \ {h} : work'[g] = work[g]
        /\ outcome'[h] = result
        /\ \A g \in Host \ {h} : \/ outcome'[g] = outcome[g]
                                 \/ outcome'[g] = "untouched" /\ task' = IdleTask
    BY ConcludeOne
  <1>2. task'.stage = "canary" => task.stage = "canary" \/ task' = IdleTask
    BY <1>1 DEF Verdict
  <1>3. OneByOne' /\ WithinLimit' /\ InWork' \subseteq InWork \ {h}
    BY <1>1, <1>2, LeaveWork DEF IdleTask
  <1>4. Results'
    <2>1. CASE task' = IdleTask
      BY <1>1, <2>1 DEF Results, IdleTask
    <2>2. CASE task' # IdleTask
      <3>1. \A g \in Host : work'[g] # "none" => outcome'[g] = "none"
        BY <1>1, <2>2 DEF WorkInv, Results
      <3>2. ASSUME task'.stage \in {"batch", "raised"}
            PROVE  \E g \in Host : outcome'[g] = "ok"
        <4>1. CASE task.stage \in {"batch", "raised"}
          <5>1. PICK g \in Host : outcome[g] = "ok"
            BY <4>1 DEF WorkInv, Results
          <5>2. g # h
            BY <5>1 DEF WorkInv, Results
          <5> QED
            BY <1>1, <2>2, <5>1, <5>2
        <4>2. CASE task.stage \notin {"batch", "raised"}
          BY <1>1, <2>2, <3>2, <4>2 DEF Verdict
        <4> QED
          BY <4>1, <4>2
      <3> QED
        BY <3>1, <3>2 DEF Results
    <2> QED
      BY <2>1, <2>2
  <1> QED
    BY <1>3, <1>4 DEF WorkInv

\* The PCs in work after a step that changes one PC of the task.
LEMMA TaskStepWork ==
    ASSUME Typed, WorkInv, Parallelism \in Nat \ {0}, NEW h \in Host, TaskStep(h)
    PROVE  WorkInv'
  <1> USE DEF Typed
  <1>1. CASE Pick(h)
    <2>1. InWork' = InWork \cup {h} /\ h \notin InWork
      BY <1>1 DEF Pick, InWork, TaskTyped
    <2>2. task' = task /\ task.stage # "idle" /\ Free
      BY <1>1 DEF Pick, WorkInv, OneByOne
    <2>3. OneByOne'
      <3>1. CASE task.stage = "canary"
        BY <1>1, <2>1, <2>2, <3>1 DEF Free, OneByOne
      <3>2. CASE task.stage # "canary"
        BY <2>2, <3>2 DEF OneByOne
      <3> QED
        BY <3>1, <3>2
    <2>4. IsFiniteSet(InWork') /\ Cardinality(InWork') = Cardinality(InWork) + 1
      BY <2>1, FS_AddElement DEF WorkInv, WithinLimit
    <2>5. Cardinality(InWork) \in Nat /\ Cardinality(InWork) < Parallelism
      <3>1. CASE InWork = {}
        BY <3>1, FS_EmptySet
      <3>2. CASE Cardinality(InWork) < Parallelism
        BY <3>2, FS_CardinalityType DEF WorkInv, WithinLimit
      <3> QED
        BY <2>2, <3>1, <3>2 DEF Free
    <2>6. Results'
      BY <1>1 DEF Pick, WorkInv, Results, TaskTyped
    <2> QED
      BY <2>3, <2>4, <2>5, <2>6 DEF WorkInv, WithinLimit
  <1>2. CASE RunInstaller(h) \/ LoseSession(h)
    <2>1. /\ task' = task /\ task.stage # "idle" /\ outcome' = outcome
          /\ work[h] \in {"started", "installing", "lost"}
          /\ work'[h] \in {"started", "installing", "lost"}
          /\ \A g \in Host \ {h} : work'[g] = work[g]
      BY <1>2 DEF RunInstaller, LoseSession, TaskTyped, WorkInv, OneByOne
    <2>2. InWork' = InWork
      BY <2>1 DEF InWork
    <2> QED
      BY <2>1, <2>2 DEF WorkInv, OneByOne, WithinLimit, Results
  <1>3. CASE Ends(h)
    <2>1. work[h] # "none"
      BY <1>3 DEF Ends, Missing, Delegate, Result, Recheck
    <2> QED
      BY <1>3, <2>1, EndsConclude, ConcludeWork
  <1>4. CASE Raise(h)
    <2>1. PICK stage \in {"idle", "raised"} :
            GoOn(h, stage) /\ (stage = "raised" => task.stage # "canary")
      BY <1>4 DEF Raise
    <2>2. h \in InWork /\ outcome' = outcome
      BY <1>4 DEF Raise
    <2>3. task.stage # "idle"
      BY <2>2 DEF WorkInv, OneByOne, InWork
    <2>4. \/ task' = IdleTask /\ \A g \in Host : work'[g] = "none"
          \/ /\ task'.stage = "raised" /\ task.stage # "canary"
             /\ work'[h] = "none" /\ \A g \in Host \ {h} : work'[g] = work[g]
      BY <2>1, GoOnOne DEF Stages
    <2>5. OneByOne' /\ WithinLimit'
      BY <2>4, LeaveWork
    <2>6. task.stage # "canary" => task.stage \in {"batch", "raised"}
      BY <2>3 DEF TaskTyped, Stages
    <2>7. Results'
      BY <2>2, <2>4, <2>6 DEF WorkInv, Results, IdleTask
    <2> QED
      BY <2>5, <2>7 DEF WorkInv
  <1>5. CASE DropRest(h)
    <2>1. /\ task' = IF InWork = {} THEN IdleTask ELSE task
          /\ task.stage = "raised" /\ outcome' = outcome
          /\ \A g \in Host : work'[g] = IF work[g] = "todo" THEN "none" ELSE work[g]
      BY <1>5 DEF DropRest, Todo
    <2>2. InWork' = InWork
      BY <2>1 DEF InWork
    <2>3. InWork = {} => \A g \in Host : work'[g] = "none"
      BY <2>1 DEF InWork, TaskTyped, Works
    <2>4. OneByOne' /\ Results'
      BY <2>1, <2>3 DEF WorkInv, OneByOne, Results, IdleTask
    <2> QED
      BY <2>2, <2>4 DEF WorkInv, WithinLimit
  <1> QED
    BY <1>1, <1>2, <1>3, <1>4, <1>5 DEF TaskStep, Update, Ends

LEMMA NextWork ==
    ASSUME Typed, WorkInv, Parallelism \in Nat \ {0}, [Next]_vars
    PROVE  WorkInv'
  <1>1. CASE UNCHANGED jobVars
    <2>1. InWork' = InWork
      BY <1>1 DEF jobVars, InWork
    <2> QED
      BY <1>1, <2>1 DEF jobVars, WorkInv, OneByOne, WithinLimit, Results
  <1>2. ASSUME NEW hosts \in SUBSET Host, TaskStart(hosts)
        PROVE  WorkInv'
    <2>1. InWork' = {} /\ task'.stage = "canary"
      BY <1>2, TaskStartTyped DEF TaskStart, InWork
    <2>2. IsFiniteSet(InWork') /\ Cardinality(InWork') = 0
      BY <2>1, FS_EmptySet
    <2>3. Results'
      BY <1>2, <2>1, TaskStartTyped DEF Results
    <2> QED
      BY <2>1, <2>2, <2>3 DEF WorkInv, OneByOne, WithinLimit
  <1>3. ASSUME NEW h \in Host, TaskStep(h)
        PROVE  WorkInv'
    BY <1>3, TaskStepWork
  <1>4. ShareStep \/ (\E h \in Host : AgentStep(h)) \/ UNCHANGED vars => UNCHANGED jobVars
    BY ShareStepTyped, AgentStepTyped DEF vars, taskVars, jobVars
  <1> QED
    BY <1>1, <1>2, <1>3, <1>4, NextIsSteps DEF Steps

LEMMA InitWork ==
    ASSUME Init, Parallelism \in Nat
    PROVE  WorkInv
  <1>1. InWork = {}
    BY DEF Init, InWork
  <1>2. IsFiniteSet(InWork) /\ Cardinality(InWork) = 0
    BY <1>1, FS_EmptySet
  <1> QED
    BY <1>1, <1>2 DEF Init, WorkInv, OneByOne, WithinLimit, Results, IdleTask

\* A task works on one PC until one is ok - by its answer, or because it was
\* deleted - and on no more than host_task_parallelism afterwards, whatever
\* sessions are lost and rows deleted (run_for_hosts).
THEOREM CanaryGoesAlone ==
    ASSUME Parallelism # 0
    PROVE  Spec => [](OneByOne /\ WithinLimit /\ Results)
  <1>1. Parallelism \in Nat \ {0}
    BY BoundsAssumption
  <1>2. Init => Typed /\ WorkInv
    BY <1>1, InitTyped, InitWork
  <1>3. Typed /\ WorkInv /\ [Next]_vars => Typed' /\ WorkInv'
    BY <1>1, NextTyped, NextWork
  <1> QED
    BY <1>2, <1>3, PTL DEF Spec, WorkInv

-----------------------------------------------------------------------------
(* What the canary keeps from the others.                                  *)

\* Nobody is harmed before the canary's installer runs.
Untried ==
    task.stage = "canary" /\ (\A h \in Host : work[h] \notin {"installing", "lost"})
        => trial.harmed = {}

\* What the canary in work tells of the installer: that it fails is known from
\* the PC, or from its version, which is then too old to be taken for the
\* task's.
Telling(h) ==
    /\ work[h] = "installing" => (exe \in Broken => harmed[h] = "ssh" \/ h \in gone)
    /\ work[h] = "lost" => (exe \in Broken => Outdated(installed[h], task.available))
    /\ work[h] \in {"installing", "lost"} /\ exe \notin Broken => trial.harmed = {}

\* As long as nothing has spoilt the trial, a batch begins with a build that
\* works.
Tells ==
    ~ trial.spoilt =>
        /\ task.stage \in {"batch", "raised"} => exe \notin Broken /\ trial.harmed = {}
        /\ task.stage = "canary" => \A h \in Host : Telling(h)
        /\ \A g, h \in trial.harmed : g = h

TrialInv == Untried /\ Tells

\* A sync that changes the installer under a canary spoils the trial; one that
\* comes before it, or between tasks, spoils nothing.
LEMMA ShareTrial ==
    ASSUME Typed, TrialInv, ShareStep
    PROVE  TrialInv'
  <1>1. UNCHANGED <<hostVars, rowVars, jobVars>>
    BY ShareStepTyped
  <1>2. /\ trial'.harmed = trial.harmed
        /\ trial.spoilt => trial'.spoilt
        /\ exe' # exe => trial'.spoilt \/ ~ (task.stage \in {"batch", "raised"} \/ InWork # {})
    <2>1. CASE \E s \in Syncer : SyncReplace(s)
      <3>1. (exe' # exe /\ (task.stage \in {"batch", "raised"} \/ InWork # {})) \in BOOLEAN
        OBVIOUS
      <3> QED
        BY <2>1, <3>1, SpoilTyped DEF SyncReplace, Typed
    <2>2. CASE ~ \E s \in Syncer : SyncReplace(s)
      BY <2>2 DEF ShareStep, Publish, SyncStep, SyncStart, SyncTruncate, SyncWrite, SyncCrash, taskVars
    <2> QED
      BY <2>1, <2>2
  <1>3. Untried'
    BY <1>1, <1>2 DEF jobVars, TrialInv, Untried
  <1>4. CASE exe' = exe
    BY <1>1, <1>2, <1>4 DEF hostVars, rowVars, jobVars, TrialInv, Tells, Telling, Untried, Outdated
  <1>5. CASE exe' # exe
    <2> SUFFICES ASSUME ~ trial'.spoilt
                 PROVE  Tells'
      BY <1>3 DEF TrialInv, Tells
    <2>1. task.stage \notin {"batch", "raised"} /\ InWork = {} /\ ~ trial.spoilt
      BY <1>2, <1>5
    <2>2. \A h \in Host : work[h] \notin {"installing", "lost"}
      BY <2>1 DEF InWork
    <2>3. \A h \in Host : Telling(h)'
      BY <1>1, <2>2 DEF jobVars, Telling
    <2> QED
      BY <1>1, <1>2, <2>1, <2>3 DEF jobVars, TrialInv, Tells
  <1> QED
    BY <1>3, <1>4, <1>5 DEF TrialInv

\* An agent that updates itself works, so it was not harmed over SSH, and a
\* build that fails leaves its version.
LEMMA AgentTrial ==
    ASSUME Typed, TrialInv, NEW h \in Host, AgentStep(h)
    PROVE  TrialInv'
  <1>1. exe' = exe /\ UNCHANGED <<task, work, trial>>
    BY AgentStepTyped DEF shareVars, taskVars
  <1>2. \A g \in Host : /\ harmed[g] = "ssh" => harmed'[g] = "ssh"
                        /\ exe \in Broken => installed'[g] = installed[g]
    <2>1. CASE SelfUpdate(h)
      <3>1. harmed[h] = "no"
        BY <2>1 DEF SelfUpdate
      <3>2. CASE exe = offer[h].build
        <4>1. Install(h, exe, "self") /\ exe \in Version /\ PCsTyped
          BY <2>1, <3>2 DEF SelfUpdate, Typed, ShareTyped
        <4>2. /\ \A g \in Host \ {h} : harmed'[g] = harmed[g] /\ installed'[g] = installed[g]
              /\ exe \in Broken => installed' = installed
          BY <4>1, InstallTyped
        <4> QED
          BY <3>1, <4>2
      <3>3. CASE exe # offer[h].build
        BY <2>1, <3>3 DEF SelfUpdate, hostVars
      <3> QED
        BY <3>2, <3>3
    <2>2. CASE ~SelfUpdate(h)
      BY <2>2 DEF AgentStep, Collect, HeartbeatRead, HeartbeatCommit, SshChange, Delete,
         ScanRead, ScanCommit, hostVars
    <2> QED
      BY <2>1, <2>2
  <1>3. gone \subseteq gone'
    BY DEF AgentStep, Collect, HeartbeatRead, HeartbeatCommit, SelfUpdate, SshChange, Delete,
       ScanRead, ScanCommit, rowVars
  <1>4. \A g \in Host : Telling(g) => Telling(g)'
    BY <1>1, <1>2, <1>3 DEF Telling, Outdated
  <1> QED
    BY <1>1, <1>4 DEF TrialInv, Untried, Tells

\* A thread that takes a PC has done nothing to it.
LEMMA PickTrial ==
    ASSUME Typed, TrialInv, NEW h \in Host, Pick(h)
    PROVE  TrialInv'
  <1>1. /\ UNCHANGED <<exe, installed, harmed, gone, task, trial>>
        /\ work[h] = "todo" /\ work'[h] = "started" /\ \A g \in Host \ {h} : work'[g] = work[g]
    BY DEF Pick, shareVars, hostVars, rowVars, Typed, TaskTyped
  <1>2. \A g \in Host : Telling(g) => Telling(g)'
    BY <1>1 DEF Telling, Outdated
  <1> QED
    BY <1>1, <1>2 DEF TrialInv, Untried, Tells

\* Only the canary can be harmed, for a batch begins with a build that works.
LEMMA InstallerTrial ==
    ASSUME Typed, TrialInv, OneByOne, NEW h \in Host, RunInstaller(h)
    PROVE  TrialInv'
  <1>1. /\ work[h] = "started" /\ work'[h] = "installing"
        /\ \A g \in Host \ {h} : work'[g] = work[g]
        /\ UNCHANGED <<exe, task, gone>> /\ task.stage # "idle"
    BY DEF RunInstaller, Typed, TaskTyped, shareVars, rowVars, OneByOne
  <1>2. /\ exe \in Broken => (h \in gone /\ harmed' = harmed) \/ harmed'[h] = "ssh"
        /\ trial'.spoilt = trial.spoilt
        /\ trial'.harmed \in {trial.harmed, trial.harmed \cup {h}}
        /\ exe \notin Broken => trial'.harmed = trial.harmed
    <2>1. CASE Install(h, exe, "ssh") /\ trial' = [trial EXCEPT !.harmed = IF exe \in Broken THEN @ \cup {h} ELSE @]
      <3>1. exe \in Broken => harmed'[h] = "ssh"
        BY <2>1, InstallTyped DEF Typed, ShareTyped
      <3>2. /\ trial'.spoilt = trial.spoilt
            /\ trial'.harmed = IF exe \in Broken THEN trial.harmed \cup {h} ELSE trial.harmed
        BY <2>1 DEF Typed, TrialTyped
      <3> QED
        BY <3>1, <3>2
    <2>2. CASE h \in gone /\ UNCHANGED <<hostVars, trial>>
      BY <2>2 DEF hostVars
    <2> QED
      BY <2>1, <2>2 DEF RunInstaller
  <1>3. Untried'
    BY <1>1 DEF Untried
  <1>4. CASE task.stage = "canary"
    <2>1. \A g \in Host \ {h} : work[g] \notin {"started", "installing", "lost"}
      BY <1>1, <1>4 DEF OneByOne, InWork
    <2>2. trial.harmed = {}
      BY <1>1, <1>4, <2>1 DEF TrialInv, Untried
    <2>3. \A g \in Host : Telling(g)'
      <3>1. Telling(h)'
        BY <1>1, <1>2, <2>2 DEF Telling
      <3>2. ASSUME NEW g \in Host \ {h}
            PROVE  Telling(g)'
        BY <1>1, <2>1 DEF Telling
      <3> QED
        BY <3>1, <3>2
    <2>4. \A g, k \in trial'.harmed : g = k
      BY <1>2, <2>2
    <2> QED
      BY <1>1, <1>3, <1>4, <2>3, <2>4 DEF TrialInv, Tells
  <1>5. CASE task.stage \in {"batch", "raised"}
    BY <1>1, <1>2, <1>3, <1>5 DEF TrialInv, Tells
  <1> QED
    BY <1>1, <1>4, <1>5 DEF Typed, TaskTyped, Stages

\* A lost session tells nothing but the version; where that is the task's all
\* the same, the trial is spoilt.
LEMMA LostTrial ==
    ASSUME Typed, TrialInv, OneByOne, NEW h \in Host, LoseSession(h)
    PROVE  TrialInv'
  <1> DEFINE blind == /\ ~ Outdated(installed[h], task.available)
                      /\ work[h] = "started" \/ harmed[h] # "no" \/ h \in gone
  <1>1. /\ UNCHANGED <<exe, installed, harmed, gone, task>>
        /\ work[h] \in {"started", "installing"}
        /\ work'[h] = "lost" /\ \A g \in Host \ {h} : work'[g] = work[g]
    BY DEF LoseSession, shareVars, hostVars, rowVars, Typed, TaskTyped
  <1>2. /\ trial'.harmed = trial.harmed
        /\ trial'.spoilt <=> (trial.spoilt \/ blind)
    <2>1. blind \in BOOLEAN /\ Spoil(blind)
      BY DEF LoseSession
    <2> QED
      BY <2>1, SpoilTyped DEF Typed
  <1>3. Untried'
    BY <1>1 DEF Untried
  <1>4. ASSUME ~ trial'.spoilt
        PROVE  Tells'
    <2>1. ~ trial.spoilt /\ ~ blind
      BY <1>2, <1>4
    <2>2. ASSUME task.stage = "canary", NEW g \in Host
          PROVE  Telling(g)'
      <3>1. Telling(g) /\ Telling(h)
        BY <2>1, <2>2 DEF TrialInv, Tells
      <3>2. CASE g # h
        BY <1>1, <1>2, <3>1, <3>2 DEF Telling, Outdated
      <3>3. CASE g = h
        <4>1. exe \in Broken => Outdated(installed[h], task.available)
          BY <1>1, <2>1, <3>1 DEF Telling
        <4>2. exe \notin Broken => trial.harmed = {}
          <5>1. CASE work[h] = "started"
            <6>1. \A k \in Host : work[k] \notin {"installing", "lost"}
              BY <2>2, <5>1 DEF OneByOne, InWork
            <6> QED
              BY <2>2, <6>1 DEF TrialInv, Untried
          <5>2. CASE work[h] = "installing"
            BY <3>1, <5>2 DEF Telling
          <5> QED
            BY <1>1, <5>1, <5>2
        <4> QED
          BY <1>1, <1>2, <3>3, <4>1, <4>2 DEF Telling, Outdated
      <3> QED
        BY <3>2, <3>3
    <2> QED
      BY <1>1, <1>2, <2>1, <2>2 DEF TrialInv, Tells
  <1> QED
    BY <1>3, <1>4 DEF TrialInv, Tells

\* A verdict that begins a batch is that of a build that works, or of a PC that
\* was deleted.
LEMMA EndTrial ==
    ASSUME Typed, TrialInv, OneByOne, NEW h \in Host, Ends(h)
    PROVE  TrialInv'
  <1>1. UNCHANGED <<exe, installed, harmed, gone>>
    BY DEF Ends, Missing, Delegate, Result, Recheck, shareVars, hostVars, rowVars
  <1>2. /\ trial'.harmed = trial.harmed
        /\ trial.spoilt => trial'.spoilt
        /\ Missing(h) /\ task.stage = "canary" => trial'.spoilt
    <2>1. (task.stage = "canary") \in BOOLEAN
      OBVIOUS
    <2>2. CASE Missing(h)
      BY <2>1, <2>2, SpoilTyped DEF Missing, Typed
    <2>3. CASE ~Missing(h)
      BY <2>3 DEF Ends, Delegate, Result, Recheck
    <2> QED
      BY <2>2, <2>3
  <1>3. PICK result \in {"ok", "unreachable", "failed"} :
          /\ Conclude(h, result)
          /\ task.stage = "canary" /\ result = "ok" /\ ~ trial'.spoilt
               => exe \notin Broken /\ trial.harmed = {}
          /\ result = "unreachable" => work[h] = "started"
    <2>1. ASSUME Missing(h)
          PROVE  Conclude(h, "ok") /\ (task.stage = "canary" => trial'.spoilt)
      BY <1>2, <2>1 DEF Missing
    <2>2. ASSUME Delegate(h)
          PROVE  Conclude(h, "unreachable") /\ work[h] = "started"
      BY <2>2 DEF Delegate
    <2>3. ASSUME Result(h)
          PROVE  \E result \in {"ok", "failed"} :
                   /\ Conclude(h, result)
                   /\ task.stage = "canary" /\ result = "ok" /\ ~ trial.spoilt
                        => exe \notin Broken /\ trial.harmed = {}
      <3>1. work[h] = "installing"
        BY <2>3 DEF Result
      <3>2. PICK version \in Listed(h) :
              /\ version # 0 => h \notin gone
              /\ Conclude(h, IF harmed[h] = "no" /\ ~ Outdated(version, task.available)
                             THEN "ok" ELSE "failed")
        BY <2>3 DEF Result
      <3>3. harmed[h] = "no" => version # 0
        BY <3>2, VersionFacts DEF Listed, Typed, PCsTyped
      <3>4. ASSUME harmed[h] = "no", task.stage = "canary", ~ trial.spoilt
            PROVE  exe \notin Broken /\ trial.harmed = {}
        <4>1. Telling(h)
          BY <3>4 DEF TrialInv, Tells
        <4> QED
          BY <3>1, <3>2, <3>3, <3>4, <4>1 DEF Telling
      <3>5. CASE harmed[h] = "no" /\ ~ Outdated(version, task.available)
        BY <3>2, <3>4, <3>5
      <3>6. CASE ~ (harmed[h] = "no" /\ ~ Outdated(version, task.available))
        BY <3>2, <3>6
      <3> QED
        BY <3>5, <3>6
    <2>4. ASSUME Recheck(h)
          PROVE  \E result \in {"ok", "failed"} :
                   /\ Conclude(h, result)
                   /\ task.stage = "canary" /\ result = "ok" /\ ~ trial.spoilt
                        => exe \notin Broken /\ trial.harmed = {}
      <3>1. CASE ~ Outdated(installed[h], task.available) /\ Conclude(h, "ok")
        <4>1. ASSUME task.stage = "canary", ~ trial.spoilt
              PROVE  exe \notin Broken /\ trial.harmed = {}
          <5>1. Telling(h) /\ work[h] = "lost"
            BY <2>4, <4>1 DEF TrialInv, Tells, Recheck
          <5> QED
            BY <3>1, <5>1 DEF Telling
        <4> QED
          BY <3>1, <4>1
      <3>2. CASE Conclude(h, "failed")
        BY <3>2
      <3> QED
        BY <2>4, <3>1, <3>2 DEF Recheck
    <2> QED
      BY <1>2, <2>1, <2>2, <2>3, <2>4 DEF Ends
  <1>4. \/ task' = IdleTask
        \/ /\ task'.stage = Verdict(h, result) /\ task'.available = task.available
           /\ work'[h] = "none" /\ \A g \in Host \ {h} : work'[g] = work[g]
    BY <1>3, ConcludeOne DEF Typed
  <1>5. CASE task' = IdleTask
    BY <1>2, <1>5 DEF TrialInv, Untried, Tells, IdleTask
  <1>6. CASE /\ task'.stage = Verdict(h, result) /\ task'.available = task.available
             /\ work'[h] = "none" /\ \A g \in Host \ {h} : work'[g] = work[g]
    <2>1. \A g \in Host : Telling(g) => Telling(g)'
      BY <1>1, <1>2, <1>6 DEF Telling, Outdated
    <2>2. task'.stage = "canary" => task.stage = "canary" /\ work[h] = "started"
      BY <1>3, <1>6 DEF Verdict
    <2>3. Untried'
      BY <1>2, <1>6, <2>2 DEF TrialInv, Untried
    <2>4. ASSUME ~ trial'.spoilt, task'.stage \in {"batch", "raised"}
          PROVE  exe \notin Broken /\ trial.harmed = {}
      <3>1. CASE task.stage \in {"batch", "raised"}
        BY <1>2, <2>4, <3>1 DEF TrialInv, Tells
      <3>2. CASE task.stage \notin {"batch", "raised"}
        BY <1>3, <1>6, <2>4, <3>2 DEF Verdict
      <3> QED
        BY <3>1, <3>2
    <2>5. Tells'
      BY <1>1, <1>2, <2>1, <2>2, <2>4 DEF TrialInv, Tells
    <2> QED
      BY <2>3, <2>5 DEF TrialInv
  <1> QED
    BY <1>4, <1>5, <1>6

\* An error ends the canary's task, and a batch that it breaks is a batch.
LEMMA RaiseTrial ==
    ASSUME Typed, TrialInv, OneByOne, NEW h \in Host, Raise(h) \/ DropRest(h)
    PROVE  TrialInv'
  <1>1. exe' = exe /\ trial' = trial
    BY DEF Raise, DropRest, shareVars
  <1>2. \/ task' = IdleTask
        \/ task'.stage = "raised" /\ task.stage \in {"batch", "raised"}
    <2>1. CASE Raise(h)
      <3>1. task.stage # "idle"
        BY <2>1 DEF Raise, OneByOne, InWork
      <3>2. CASE task.stage = "canary"
        BY <2>1, <3>2 DEF Raise, GoOn
      <3>3. CASE task.stage # "canary"
        <4>1. GoOn(h, "raised")
          BY <2>1, <3>3 DEF Raise
        <4> QED
          BY <3>1, <3>3, <4>1, GoOnOne DEF Typed, TaskTyped, Stages
      <3> QED
        BY <3>2, <3>3
    <2>2. CASE DropRest(h)
      BY <2>2 DEF DropRest
    <2> QED
      BY <2>1, <2>2
  <1> QED
    BY <1>1, <1>2 DEF TrialInv, Untried, Tells, IdleTask

LEMMA NextTrial ==
    ASSUME Typed, TrialInv, OneByOne, [Next]_vars
    PROVE  TrialInv'
  <1>1. ASSUME NEW hosts \in SUBSET Host, TaskStart(hosts)
        PROVE  TrialInv'
    <2>1. /\ task'.stage = "canary" /\ trial'.harmed = {}
          /\ \A h \in Host : work'[h] \in {"todo", "none"}
      BY <1>1, TaskStartTyped DEF TaskStart
    <2> QED
      BY <2>1 DEF TrialInv, Untried, Tells, Telling
  <1>2. ASSUME NEW h \in Host, TaskStep(h)
        PROVE  TrialInv'
    BY <1>2, PickTrial, InstallerTrial, LostTrial, EndTrial, RaiseTrial DEF TaskStep, Update, Ends
  <1>3. CASE UNCHANGED vars
    BY <1>3 DEF vars, shareVars, hostVars, rowVars, taskVars, TrialInv, Untried, Tells, Telling, Outdated
  <1> QED
    BY <1>1, <1>2, <1>3, ShareTrial, AgentTrial, NextIsSteps DEF Steps

\* A task harms a second PC over SSH only if its canary told nothing of the
\* build the others get: it was deleted, the installer was replaced after it,
\* or its session was lost while it had the version anyway (run_for_hosts).
\* For any PCs, syncs, releases taken back, self-updates and lost sessions.
THEOREM OnlyABlindTrialHarms ==
    ASSUME Parallelism # 0
    PROVE  Spec => []CanaryProtects
  <1>1. Parallelism \in Nat \ {0}
    BY BoundsAssumption
  <1>2. Init => Typed /\ WorkInv /\ TrialInv
    <2> SUFFICES ASSUME Init
                 PROVE  Typed /\ WorkInv /\ TrialInv
      OBVIOUS
    <2>1. TrialInv
      BY DEF Init, TrialInv, Untried, Tells, IdleTask
    <2> QED
      BY <1>1, <2>1, InitTyped, InitWork
  <1>3. Typed /\ WorkInv /\ TrialInv /\ [Next]_vars => Typed' /\ WorkInv' /\ TrialInv'
    BY <1>1, NextTyped, NextWork, NextTrial DEF WorkInv
  <1>4. TrialInv => CanaryProtects
    <2> SUFFICES ASSUME TrialInv, ~ trial.spoilt
                 PROVE  ~ (Cardinality(trial.harmed) > 1)
      BY DEF CanaryProtects
    <2>1. \A g, h \in trial.harmed : g = h
      BY DEF TrialInv, Tells
    <2>2. CASE trial.harmed = {}
      BY <2>2, FS_EmptySet
    <2>3. CASE trial.harmed # {}
      <3>1. PICK h \in trial.harmed : trial.harmed = {h}
        BY <2>1, <2>3
      <3>2. Cardinality({h}) = 1
        BY FS_Singleton
      <3> QED
        BY <3>1, <3>2
    <2> QED
      BY <2>2, <2>3
  <1> QED
    BY <1>2, <1>3, <1>4, PTL DEF Spec

-----------------------------------------------------------------------------
(* Updates lead forward.                                                   *)

\* The end of a task's work on a PC is ok only when the PC's agent is then as
\* new as the task's release, by the exit of its installer or by a recheck, or
\* when the PC was deleted before its turn.
LEMMA OkHasTheRelease ==
    ASSUME Typed, [Next]_vars, NEW h \in Host, outcome'[h] = "ok", outcome[h] # "ok"
    PROVE  h \in gone \/ ~ Outdated(installed[h], task.available)
  <1>1. ASSUME NEW g \in Host, Ends(g)
        PROVE  h \in gone \/ ~ Outdated(installed[h], task.available)
    <2>1. PICK result \in {"ok", "unreachable", "failed"} :
            /\ Conclude(g, result)
            /\ result = "ok" => g \in gone \/ ~ Outdated(installed[g], task.available)
      <3>1. ASSUME Result(g)
            PROVE  \E result \in {"ok", "failed"} :
                     /\ Conclude(g, result)
                     /\ result = "ok" => ~ Outdated(installed[g], task.available)
        <4>1. PICK version \in Listed(g) :
                Conclude(g, IF harmed[g] = "no" /\ ~ Outdated(version, task.available)
                            THEN "ok" ELSE "failed")
          BY <3>1 DEF Result
        <4>2. harmed[g] = "no" => version = installed[g]
          BY <4>1 DEF Listed
        <4>3. CASE harmed[g] = "no" /\ ~ Outdated(version, task.available)
          BY <4>1, <4>2, <4>3
        <4>4. CASE ~ (harmed[g] = "no" /\ ~ Outdated(version, task.available))
          BY <4>1, <4>4
        <4> QED
          BY <4>3, <4>4
      <3>2. CASE Missing(g) \/ Delegate(g) \/ Recheck(g)
        BY <3>2 DEF Missing, Delegate, Recheck
      <3> QED
        BY <1>1, <3>1, <3>2 DEF Ends
    <2>2. /\ outcome'[g] = result
          /\ \A k \in Host \ {g} : outcome'[k] = outcome[k] \/ outcome'[k] = "untouched"
      BY <2>1, ConcludeOne DEF Typed
    <2> QED
      BY <2>1, <2>2
  <1>2. ASSUME NEW g \in Host, TaskStep(g)
        PROVE  h \in gone \/ ~ Outdated(installed[h], task.available)
    <2>1. ~ (Pick(g) \/ RunInstaller(g) \/ LoseSession(g) \/ Raise(g) \/ DropRest(g))
      BY DEF Pick, RunInstaller, LoseSession, Raise, DropRest
    <2> QED
      BY <1>1, <1>2, <2>1 DEF TaskStep, Update, Ends
  <1>3. ~ \E hosts \in SUBSET Host : TaskStart(hosts)
    BY DEF TaskStart
  <1>4. ~ (ShareStep \/ (\E g \in Host : AgentStep(g)) \/ UNCHANGED vars)
    BY ShareStepTyped, AgentStepTyped DEF vars, taskVars, jobVars
  <1> QED
    BY <1>2, <1>3, <1>4, NextIsSteps DEF Steps

\* One sync at a time, and GitHub takes no release back.
InOrder == (\A s, t \in Syncer : s = t) /\ MaxReturns = 0

\* The sidecar tells no version newer than the installer's and a download is
\* of no version older, so the installer only advances.
ShareInv ==
    /\ sidecar <= exe /\ exe <= published
    /\ \A s \in Syncer : /\ syncs[s].tag <= published
                         /\ syncs[s].stage = "downloading" => exe <= syncs[s].tag
                         /\ syncs[s].stage \in {"replaced", "writing"} => exe = syncs[s].tag

\* What an agent has been offered is not older than what it runs; until its
\* heartbeat arrives it may have been updated, to what the share held.
AgentInv ==
    \A h \in Host :
      /\ beat[h] # 0 => installed[h] <= beat[h] \/ installed[h] <= exe
      /\ answer[h].offer # NoOffer => installed[h] <= exe
      /\ offer[h] # NoOffer => installed[h] <= exe

LEMMA VersionsAreNumbers ==
    ASSUME Typed
    PROVE  /\ published \in Nat /\ exe \in Nat /\ sidecar \in Nat
           /\ \A s \in Syncer : syncs[s] \in SyncRecord /\ syncs[s].tag \in Nat
           /\ \A h \in Host : installed[h] \in Nat /\ beat[h] \in Nat
  <1>1. published \in Nat /\ exe \in Nat /\ sidecar \in Nat
    BY VersionFacts DEF Typed, ShareTyped
  <1>2. \A s \in Syncer : syncs[s] \in SyncRecord
    BY DEF Typed, ShareTyped
  <1>3. ASSUME NEW r \in SyncRecord
        PROVE  r.tag \in Nat
    <2>1. r.tag \in 0..MaxVersion
      BY DEF SyncRecord
    <2> QED
      BY <2>1, VersionFacts
  <1>4. ASSUME NEW h \in Host
        PROVE  installed[h] \in Nat /\ beat[h] \in Nat
    <2>1. installed[h] \in Version /\ beat[h] \in 0..MaxVersion
      BY DEF Typed, PCsTyped, AgentsTyped
    <2>2. installed[h] \in Nat
      BY <2>1, VersionFacts
    <2>3. beat[h] \in Nat
      BY <2>1
    <2> QED
      BY <2>2, <2>3
  <1> QED
    BY <1>1, <1>2, <1>3, <1>4

LEMMA ShareAdvances ==
    ASSUME Typed, InOrder, ShareInv, ShareStep
    PROVE  ShareInv' /\ exe' >= exe
  <1> USE VersionsAreNumbers
  <1>1. CASE Publish
    <2>1. left.returns = 0
      BY DEF Typed, LeftTyped, InOrder
    <2>2. published' = published + 1 /\ UNCHANGED <<exe, sidecar, syncs>>
      BY <1>1, <2>1 DEF Publish, Spend
    <2> QED
      BY <2>2 DEF ShareInv
  <1>2. ASSUME NEW s \in Syncer, SyncStep(s) \/ SyncCrash(s)
        PROVE  ShareInv' /\ exe' >= exe
    <2>1. Syncer = {s}
      BY DEF InOrder
    <2>2. /\ published' = published
          /\ syncs[s].tag <= published
          /\ syncs[s].stage = "downloading" => exe <= syncs[s].tag
          /\ syncs[s].stage \in {"replaced", "writing"} => exe = syncs[s].tag
      BY <1>2 DEF SyncStep, SyncStart, SyncReplace, SyncTruncate, SyncWrite, SyncCrash, ShareInv
    <2>3. ASSUME NEW next \in SyncRecord, AtSync(s, next), next.tag <= published,
                 sidecar' <= exe', exe' <= published, exe' >= exe,
                 next.stage = "downloading" => exe' <= next.tag,
                 next.stage \in {"replaced", "writing"} => exe' = next.tag
          PROVE  ShareInv' /\ exe' >= exe
      <3>1. syncs'[s] = next
        BY <2>3 DEF AtSync, Typed, ShareTyped
      <3> QED
        BY <2>1, <2>2, <2>3, <3>1 DEF ShareInv
    <2>4. syncs[s] \in SyncRecord /\ IdleSync \in SyncRecord /\ IdleSync.tag = 0
          /\ IdleSync.stage = "idle"
      BY VersionFacts DEF IdleSync, SyncRecord
    <2>5. CASE SyncStart(s)
      <3> DEFINE next == [stage |-> "downloading", tag |-> published]
      <3>1. next \in SyncRecord
        BY VersionFacts DEF Typed, ShareTyped, SyncRecord
      <3>2. AtSync(s, next) /\ UNCHANGED <<exe, sidecar>>
        BY <2>5 DEF SyncStart
      <3> QED
        BY <2>3, <3>1, <3>2 DEF ShareInv
    <2>6. CASE SyncReplace(s)
      <3> DEFINE next == [syncs[s] EXCEPT !.stage = "replaced"]
      <3>1. next \in SyncRecord /\ next.tag = syncs[s].tag /\ next.stage = "replaced"
        BY <2>4 DEF SyncRecord
      <3>2. AtSync(s, next) /\ exe' = syncs[s].tag /\ sidecar' = sidecar /\ exe <= syncs[s].tag
        BY <2>2, <2>6 DEF SyncReplace
      <3>3. sidecar <= syncs[s].tag
        BY <3>2 DEF ShareInv
      <3> HIDE DEF next
      <3> QED
        BY <2>2, <2>3, <3>1, <3>2, <3>3
    <2>7. CASE SyncTruncate(s)
      <3> DEFINE next == [syncs[s] EXCEPT !.stage = "writing"]
      <3>1. next \in SyncRecord /\ next.tag = syncs[s].tag /\ next.stage = "writing"
        BY <2>4 DEF SyncRecord
      <3>2. AtSync(s, next) /\ exe' = exe /\ sidecar' = 0 /\ exe = syncs[s].tag
        BY <2>2, <2>7 DEF SyncTruncate
      <3> HIDE DEF next
      <3> QED
        BY <2>2, <2>3, <3>1, <3>2
    <2>8. CASE SyncWrite(s)
      <3>1. AtSync(s, IdleSync) /\ exe' = exe /\ sidecar' = syncs[s].tag /\ exe = syncs[s].tag
        BY <2>2, <2>8 DEF SyncWrite
      <3> QED
        BY <2>2, <2>3, <2>4, <3>1
    <2>9. CASE SyncCrash(s)
      <3>1. AtSync(s, IdleSync) /\ exe' = exe /\ sidecar' = sidecar
        BY <2>9 DEF SyncCrash
      <3> QED
        BY <2>3, <2>4, <3>1 DEF ShareInv
    <2> QED
      BY <1>2, <2>5, <2>6, <2>7, <2>8, <2>9 DEF SyncStep
  <1> QED
    BY <1>1, <1>2 DEF ShareStep

\* A PC that an installer reaches has what the share holds, or what it had.
LEMMA PCAdvances ==
    ASSUME Typed, ShareInv, AgentInv, NEW h \in Host, AgentStep(h) \/ TaskStep(h)
    PROVE  AgentInv' /\ (SelfUpdate(h) => installed'[h] >= installed[h])
  <1> USE VersionsAreNumbers
  <1>1. exe' = exe /\ UNCHANGED shareVars
    BY AgentStepTyped, TaskStepTyped DEF shareVars
  <1>2. CASE Collect(h)
    <2>1. /\ beat'[h] = installed[h] /\ UNCHANGED <<installed, answer, offer>>
          /\ \A g \in Host \ {h} : beat'[g] = beat[g]
      BY <1>2 DEF Collect, hostVars, Typed, AgentsTyped
    <2> QED
      BY <1>1, <1>2, <2>1 DEF AgentInv, Collect, SelfUpdate
  <1>3. CASE HeartbeatRead(h)
    <2>1. /\ beat'[h] = 0 /\ answer'[h].offer = Offered(h) /\ UNCHANGED <<installed, offer>>
          /\ \A g \in Host \ {h} : beat'[g] = beat[g] /\ answer'[g] = answer[g]
      BY <1>3 DEF HeartbeatRead, hostVars, Typed, AgentsTyped
    <2>2. Offered(h) # NoOffer => beat[h] <= sidecar
      BY DEF Offered
    <2>3. Offered(h) # NoOffer => installed[h] <= exe
      BY <1>3, <2>2 DEF HeartbeatRead, ShareInv, AgentInv
    <2> QED
      BY <1>1, <2>1, <2>3 DEF AgentInv
  <1>7. CASE HeartbeatCommit(h)
    <2>1. /\ UNCHANGED <<installed, beat>> /\ offer'[h] = answer[h].offer
          /\ answer'[h] = NoAnswer
          /\ \A g \in Host \ {h} : answer'[g] = answer[g] /\ offer'[g] = offer[g]
      BY <1>7 DEF HeartbeatCommit, hostVars, Typed, AgentsTyped
    <2>2. NoAnswer.offer = NoOffer
      BY DEF NoAnswer
    <2> QED
      BY <1>1, <2>1, <2>2 DEF AgentInv
  <1>8. CASE Delete(h)
    <2>1. /\ UNCHANGED <<installed, offer>> /\ beat'[h] = 0 /\ answer'[h] = NoAnswer
          /\ \A g \in Host \ {h} : answer'[g] = answer[g] /\ beat'[g] = beat[g]
      BY <1>8 DEF Delete, hostVars, Typed, AgentsTyped
    <2>2. NoAnswer.offer = NoOffer
      BY DEF NoAnswer
    <2> QED
      BY <1>1, <2>1, <2>2 DEF AgentInv
  <1>4. CASE SelfUpdate(h)
    <2>1. /\ offer'[h] = NoOffer /\ UNCHANGED <<beat, answer>> /\ offer[h] # NoOffer
          /\ \A g \in Host \ {h} : offer'[g] = offer[g]
      BY <1>4 DEF SelfUpdate, Typed, AgentsTyped
    <2>2. /\ \A g \in Host \ {h} : installed'[g] = installed[g]
          /\ installed'[h] \in {installed[h], exe}
      <3>1. CASE exe = offer[h].build
        BY <1>4, <3>1, InstallTyped DEF SelfUpdate, Typed, ShareTyped
      <3>2. CASE exe # offer[h].build
        BY <1>4, <3>2 DEF SelfUpdate, hostVars
      <3> QED
        BY <3>1, <3>2
    <2> QED
      BY <1>1, <2>1, <2>2 DEF AgentInv
  <1>5. CASE RunInstaller(h)
    <2>1. /\ \A g \in Host \ {h} : installed'[g] = installed[g]
          /\ installed'[h] \in {installed[h], exe}
      <3>1. CASE Install(h, exe, "ssh")
        BY <3>1, InstallTyped DEF Typed, ShareTyped
      <3>2. CASE UNCHANGED hostVars
        BY <3>2 DEF hostVars
      <3> QED
        BY <1>5, <3>1, <3>2 DEF RunInstaller
    <2>2. UNCHANGED <<beat, answer, offer>>
      BY <1>5 DEF RunInstaller, agentVars
    <2>3. AgentInv'
      BY <1>1, <2>1, <2>2 DEF AgentInv
    <2>4. ~ SelfUpdate(h) \/ installed'[h] >= installed[h]
      BY <1>5, <2>2 DEF SelfUpdate, Typed, AgentsTyped
    <2> QED
      BY <2>3, <2>4
  <1>6. CASE \/ SshChange(h) \/ ScanRead(h) \/ ScanCommit(h) \/ LoseSession(h) \/ Pick(h)
             \/ Ends(h) \/ Raise(h) \/ DropRest(h)
    <2>1. UNCHANGED <<installed, beat, answer, offer>>
      BY <1>6 DEF SshChange, ScanRead, ScanCommit, LoseSession, Pick, Ends, Missing, Delegate,
         Result, Recheck, Raise, DropRest, hostVars, agentVars
    <2> QED
      BY <1>1, <2>1 DEF AgentInv
  <1> QED
    BY <1>2, <1>3, <1>4, <1>5, <1>6, <1>7, <1>8 DEF AgentStep, TaskStep, Update, Ends

LEMMA NextAdvances ==
    ASSUME Typed, InOrder, ShareInv, AgentInv, [Next]_vars
    PROVE  /\ ShareInv' /\ AgentInv'
           /\ \A h \in Host : SelfUpdate(h) => installed'[h] >= installed[h]
  <1> USE VersionsAreNumbers
  <1>1. \A h \in Host : SelfUpdate(h) => AgentStep(h)
    BY DEF AgentStep
  <1>2. \A h \in Host : SelfUpdate(h) => installed'[h] >= installed[h]
    BY <1>1, PCAdvances
  <1>3. CASE ShareStep
    <2>1. UNCHANGED <<installed, beat, answer, offer>>
      BY <1>3, ShareStepTyped DEF hostVars, agentVars
    <2>2. ShareInv' /\ exe' >= exe /\ exe' \in Nat
      BY <1>3, ShareAdvances, ShareStepTyped, VersionFacts DEF ShareTyped
    <2> QED
      BY <1>2, <2>1, <2>2 DEF AgentInv
  <1>4. ASSUME NEW h \in Host, AgentStep(h) \/ TaskStep(h)
        PROVE  ShareInv' /\ AgentInv'
    <2>1. UNCHANGED shareVars
      BY <1>4, AgentStepTyped, TaskStepTyped
    <2> QED
      BY <1>4, <2>1, PCAdvances DEF shareVars, ShareInv
  <1>5. ASSUME NEW hosts \in SUBSET Host, TaskStart(hosts)
        PROVE  ShareInv' /\ AgentInv'
    BY <1>5 DEF TaskStart, shareVars, hostVars, agentVars, ShareInv, AgentInv
  <1>6. CASE UNCHANGED vars
    BY <1>6 DEF vars, shareVars, hostVars, agentVars, ShareInv, AgentInv
  <1> QED
    BY <1>2, <1>3, <1>4, <1>5, <1>6, NextIsSteps DEF Steps

\* A task calls no PC ok, but a deleted one, whose agent is older than the
\* task's release, and an agent that updates itself never goes back, although its heartbeat, the offer
\* and its download see the share at three moments (agent_update_offer,
\* _recheck_version): as long as one sync runs at a time and no release is
\* taken back, whatever is cut off.
THEOREM UpdatesLeadForward ==
    ASSUME InOrder
    PROVE  Spec => UpdatesAdvance
  <1>1. Init => Typed /\ ShareInv /\ AgentInv
    <2> SUFFICES ASSUME Init
                 PROVE  Typed /\ ShareInv /\ AgentInv
      OBVIOUS
    <2>1. Typed
      BY InitTyped
    <2>2. ShareInv
      BY <2>1, VersionsAreNumbers DEF Init, ShareInv, IdleSync
    <2>3. AgentInv
      BY DEF Init, AgentInv, NoAnswer
    <2> QED
      BY <2>1, <2>2, <2>3
  <1>2. Typed /\ ShareInv /\ AgentInv /\ [Next]_vars => Typed' /\ ShareInv' /\ AgentInv'
    BY NextTyped, NextAdvances
  <1>3. Typed /\ [Next]_vars
        => [\A h \in Host : (outcome'[h] = "ok" /\ outcome[h] # "ok")
                            => h \in gone \/ ~ Outdated(installed[h], task.available)]_vars
    BY OkHasTheRelease
  <1>4. Typed /\ ShareInv /\ AgentInv /\ [Next]_vars
        => [\A h \in Host : SelfUpdate(h) => installed'[h] >= installed[h]]_vars
    BY NextAdvances
  <1> QED
    BY <1>1, <1>2, <1>3, <1>4, PTL DEF Spec, UpdatesAdvance, OkIsCurrent, SelfUpdateAdvances

=============================================================================
