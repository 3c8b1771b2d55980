--------------------------- MODULE MCAgentUpdate ---------------------------
(***************************************************************************)
(* Instance of AgentUpdate in two parts, one of which a behaviour follows. *)
(*                                                                         *)
(* "agent": one PC with its heartbeats, scans and offers, and its tasks.   *)
(* "canary": one task with all PCs, syncs, lost sessions and deletions.    *)
(* Heartbeats and scans, which write only the row, decide nothing that the *)
(* installers do, and are left out there.                                  *)
(***************************************************************************)
EXTENDS AgentUpdate

CONSTANT Followed  \* the PC of the part "agent"

VARIABLE focus

InFocus == IF focus = "agent" THEN {Followed} ELSE Host

MCInit ==
    /\ focus \in {"agent", "canary"}
    /\ Init
    /\ focus = "agent" => \A h \in Host \ InFocus : installed[h] = 1 /\ reachable[h] = "open"
    /\ focus = "canary" => published > 1 /\ \A h \in Host : installed[h] > 1

\* How the bounds are spent: the PC sees two tasks, or one with something cut
\* off or with scans.  A canary has one task, which knows two versions.
Within ==
    IF focus = "agent"
    THEN /\ left'.tasks + left'.crashes >= MaxCrashes
         /\ scans' # [h \in Host |-> NoScan] => left'.tasks + left'.crashes > MaxCrashes
    ELSE left'.tasks >= MaxTasks - 1

MCNext ==
    /\ UNCHANGED focus
    /\ \/ Publish
       \/ \E s \in Syncer : SyncStep(s) \/ SyncCrash(s)
       \/ \E hosts \in SUBSET (InFocus \ gone) : TaskStart(hosts)
       \/ \E h \in InFocus : Update(h) \/ LoseSession(h) \/ SshChange(h)
       \/ focus = "canary" /\ \E h \in Host : Delete(h)
       \/ /\ focus = "agent"
          /\ \E h \in InFocus : \/ Collect(h) \/ HeartbeatRead(h) \/ HeartbeatCommit(h)
                                \/ SelfUpdate(h) \/ ScanRead(h) \/ ScanCommit(h)
    /\ Within

\* The fairness of AgentUpdate; agents are silent in the part "canary".
MCFairness ==
    /\ \A s \in Syncer : WF_vars(SyncStep(s))
    /\ WF_vars(focus = "agent" /\ Collect(Followed))
    /\ WF_vars(focus = "agent" /\ HeartbeatRead(Followed))
    /\ WF_vars(focus = "agent" /\ HeartbeatCommit(Followed))
    /\ WF_vars(focus = "agent" /\ SelfUpdate(Followed))

MCSpec == MCInit /\ [][MCNext]_<<focus, vars>> /\ MCFairness

\* A target of the PC that is followed is reached (agent_update_offer).
TargetsAreReached == focus = "agent" => TargetIsReached
=============================================================================
