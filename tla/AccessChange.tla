---------------------------- MODULE AccessChange ----------------------------
(***************************************************************************)
(* Which credential SSH uses for a PC, and who changes it.                 *)
(*                                                                         *)
(* A PC is reached with its own credential, otherwise with the nearest one *)
(* up the tree of groups.  services/access_change.py plans a change, logs  *)
(* in to every PC whose credential it changes, which takes minutes, and    *)
(* applies it with the plan made before.  Meanwhile hosts are assigned to  *)
(* groups, agents register with a key of their own, PCs are grouped by     *)
(* their names and empty automatic groups are pruned                       *)
(* (services/host_grouping.py), groups and credentials are deleted.        *)
(*                                                                         *)
(* None is the absence of a credential and of a group.  The tree has the   *)
(* floors at the top and the rooms below: Floor stands for the building    *)
(* and the floor of the code.                                              *)
(***************************************************************************)
EXTENDS Naturals, FiniteSets, Functions

CONSTANTS
    Host,      \* PCs
    Group,     \* groups, by name
    Cred,      \* SSH credentials an administrator assigns
    AgentKey,  \* the key the server issues to the agent of a PC
    None,
    Room,      \* host -> the group of its room, from its name
    Floor,     \* room -> the group of its floor
    Scheduled, \* groups a playbook schedule targets
    Task,      \* access_change tasks that run at once
    ByName,    \* moves name the group instead of giving its id
    MaxDeletes \* bound: groups and credentials deleted

ASSUME NamesAssumption ==
    /\ Room \in [Host -> Group] /\ Floor \in [Group -> Group]
    /\ Scheduled \subseteq Group
\* Floors are at the top of the tree, and no room is one.
ASSUME SchemeAssumption ==
    /\ \A g \in Group : Floor[Floor[g]] = Floor[g]
    /\ \A h \in Host : Floor[Room[h]] # Room[h]
ASSUME FiniteAssumption == IsFiniteSet(Group)
ASSUME DistinctAssumption == AgentKey \notin Cred /\ None \notin Cred \cup Group \cup {AgentKey}
ASSUME BoundsAssumption == ByName \in BOOLEAN /\ MaxDeletes \in Nat

VARIABLES
    tree,    \* existing group -> its parent, its credential, is_auto
    group,   \* host -> group_id
    own,     \* host -> credential_id
    works,   \* the logins that succeed, <<host, credential>>
    issued,  \* hosts to whose agent the answer of a registration is under way
    creds,   \* existing credentials
    change,  \* task -> the change it carries out
    cleanup, \* a request has moved hosts and ends with a prune
    pruning, \* groups a prune has found empty and deletes next
    deletes  \* what remains of MaxDeletes

hostVars == <<group, own>>
vars == <<tree, hostVars, works, issued, creds, change, cleanup, pruning, deletes>>

Actions == {"set_host_credential", "set_group_credential", "move_to_group"}
GroupRow == [parent : Group \cup {None}, cred : Cred \cup {None}, auto : BOOLEAN]
NoSpec == [action |-> "set_host_credential", hosts |-> {}, group |-> None, cred |-> None]
Idle == [stage |-> "idle", spec |-> NoSpec, plan |-> [h \in {} |-> None], passed |-> {}]
Login == Cred \cup {AgentKey, None}
Plan == UNION {[hs -> [old : Login, new : Login]] : hs \in SUBSET Host}
Request == [action : Actions, hosts : SUBSET Host, group : Group \cup {None}, cred : Cred \cup {None}]

\* Every variable keeps its type; the rows name groups and credentials that exist.
TypeOK ==
    /\ DOMAIN tree \subseteq Group /\ \A g \in DOMAIN tree : tree[g] \in GroupRow
    /\ group \in [Host -> DOMAIN tree \cup {None}]
    /\ own \in [Host -> creds \cup {AgentKey, None}]
    /\ works \subseteq Host \X (Cred \cup {AgentKey}) /\ issued \subseteq Host
    /\ creds \subseteq Cred
    /\ \A g \in DOMAIN tree : tree[g].cred \in creds \cup {None} /\ tree[g].parent \in DOMAIN tree \cup {None}
    /\ change \in [Task -> [stage : {"idle", "queued", "verified"}, spec : Request,
                            plan : Plan, passed : SUBSET Host]]
    /\ \A t \in Task : change[t].passed \subseteq DOMAIN change[t].plan
    /\ cleanup \in BOOLEAN
    /\ pruning \subseteq DOMAIN tree
    /\ deletes \in 0..MaxDeletes

-----------------------------------------------------------------------------
(* The credential SSH uses                                                 *)

\* group_credential: the nearest credential from g up.
Inherited(g, tr) ==
    LET nearest[x \in Group \cup {None}] ==
            IF x \notin DOMAIN tr THEN None
            ELSE IF tr[x].cred # None THEN tr[x].cred ELSE nearest[tr[x].parent]
    IN  nearest[g]

EffectiveCredential(c, g, tr) == IF c # None THEN c ELSE Inherited(g, tr)

Access(h) == EffectiveCredential(own[h], group[h], tree)

-----------------------------------------------------------------------------
(* The plan of a change                                                    *)

\* A group given by name is planned as a new one: no credential.
PlannedGroup(spec) == IF ByName THEN None ELSE spec.group

\* The effective credential of h once spec is applied.
Planned(h, spec) ==
    CASE spec.action = "set_host_credential" -> EffectiveCredential(spec.cred, group[h], tree)
      [] spec.action = "move_to_group" -> EffectiveCredential(own[h], PlannedGroup(spec), tree)
      [] spec.action = "set_group_credential" ->
            EffectiveCredential(own[h], group[h], [tree EXCEPT ![spec.group].cred = spec.cred])

\* Mutant: a host that is reached with the key of its agent is not skipped.
SkipsNobody(spec) ==
    CASE spec.action = "set_group_credential" -> {h \in Host : Planned(h, spec) # Access(h)}
      [] OTHER -> spec.hosts

\* Mutant: the hosts of subgroups are forgotten.
DirectOnly(spec) ==
    CASE spec.action = "set_host_credential" -> {h \in spec.hosts : own[h] # AgentKey}
      [] spec.action = "move_to_group" -> spec.hosts
      [] OTHER -> {h \in Host : group[h] = spec.group /\ Planned(h, spec) # Access(h)}

\* The hosts a plan has; those with a skip_reason are left out.
Concerns(spec) ==
    CASE spec.action = "set_host_credential" -> {h \in spec.hosts : own[h] # AgentKey}
      [] spec.action = "move_to_group" -> spec.hosts
      [] spec.action = "set_group_credential" -> {h \in Host : Planned(h, spec) # Access(h)}

BuildPlan(spec) == [h \in Concerns(spec) |-> [old |-> Access(h), new |-> Planned(h, spec)]]

Checked(plan) == {h \in DOMAIN plan : plan[h].new # plan[h].old}

\* set_group_credential of a group that is gone raises KeyError in the plan.
Plannable(spec) == spec.action = "set_group_credential" => spec.group \in DOMAIN tree

-----------------------------------------------------------------------------
(* Applying it                                                             *)

OkHosts(plan, passed) == (DOMAIN plan \ Checked(plan)) \cup passed

\* Mutant: it is the new credential that must not be missing.
PinnedIfNew(plan, passed) ==
    [h \in {x \in Checked(plan) \ passed : plan[x].new # None /\ own[x] = None} |-> plan[h].old]

\* The hosts set_group_credential gives a credential of their own, and which.
Pinned(plan, passed) ==
    [h \in {x \in Checked(plan) \ passed : plan[x].old # None /\ own[x] = None} |-> plan[h].old]

\* The foreign keys hold; a change that breaks one is rolled back as a whole.
Applies(spec, plan, passed) ==
    CASE spec.action = "set_host_credential" ->
            OkHosts(plan, passed) # {} => spec.cred \in creds \cup {None}
      [] spec.action = "move_to_group" ->
            (OkHosts(plan, passed) # {} /\ ~ByName) => spec.group \in DOMAIN tree \cup {None}
      [] spec.action = "set_group_credential" ->
            /\ spec.group \in DOMAIN tree /\ spec.cred \in creds \cup {None}
            /\ Range(Pinned(plan, passed)) \subseteq creds \cup {AgentKey}

\* tr with the group g, unless it has it.
WithGroup(tr, g, parent, cred, auto) ==
    [x \in DOMAIN tr \cup {g} |->
        IF x \in DOMAIN tr THEN tr[x] ELSE [parent |-> parent, cred |-> cred, auto |-> auto]]

NewGroup(tr, g, parent, auto) == WithGroup(tr, g, parent, None, auto)

\* apply_change
Apply(spec, plan, passed) ==
    LET ok == OkHosts(plan, passed)
    IN  CASE spec.action = "set_host_credential" ->
                /\ own' = [h \in Host |-> IF h \in ok THEN spec.cred ELSE own[h]]
                /\ UNCHANGED <<tree, group>>
          [] spec.action = "move_to_group" ->
                /\ tree' = IF ok # {} /\ ByName /\ spec.group # None
                           THEN NewGroup(tree, spec.group, None, FALSE) ELSE tree
                /\ group' = [h \in Host |-> IF h \in ok THEN spec.group ELSE group[h]]
                /\ UNCHANGED own
          [] spec.action = "set_group_credential" ->
                /\ tree' = [tree EXCEPT ![spec.group].cred = spec.cred]
                /\ own' = [h \in Host |-> IF h \in DOMAIN Pinned(plan, passed)
                                         THEN Pinned(plan, passed)[h] ELSE own[h]]
                /\ UNCHANGED group

\* A change or a request that has moved hosts calls cleanup_auto_groups.
Cleanup(moved) == cleanup' = (cleanup \/ moved)

\* What POST /hosts/access-changes accepts.
Accepted(spec) ==
    /\ spec.cred \in creds \cup {None}
    /\ \/ spec.action = "set_host_credential" /\ spec.hosts # {} /\ spec.group = None
       \/ spec.action = "move_to_group" /\ spec.hosts # {} /\ spec.cred = None
          /\ (ByName \/ spec.group \in DOMAIN tree \cup {None})
       \/ spec.action = "set_group_credential" /\ spec.group \in DOMAIN tree /\ spec.hosts = {}

\* change_access of a change that no host needs to be checked for.
ChangeNow(spec) ==
    /\ Accepted(spec)
    /\ LET plan == BuildPlan(spec)
       IN  Checked(plan) = {} /\ Apply(spec, plan, {})
    /\ Cleanup(spec.action = "move_to_group")
    /\ UNCHANGED <<works, issued, creds, change, pruning, deletes>>

\* change_access of any other change queues a task.
ChangeLater(t, spec) ==
    /\ change[t] = Idle /\ Accepted(spec)
    /\ Checked(BuildPlan(spec)) # {}
    /\ change' = [change EXCEPT ![t] = [Idle EXCEPT !.stage = "queued", !.spec = spec]]
    /\ UNCHANGED <<tree, hostVars, works, issued, creds, cleanup, pruning, deletes>>

\* The hosts whose login succeeds if they answer.
Logins(plan) == {h \in Checked(plan) : <<h, plan[h].new>> \in works}

\* The worker plans again and logs in; any host may be off.
VerifyLogins(t) ==
    /\ change[t].stage = "queued" /\ Plannable(change[t].spec)
    /\ LET plan == BuildPlan(change[t].spec)
       IN  \E passed \in SUBSET {h \in Logins(plan) : plan[h].new \in creds} :
            change' = [change EXCEPT ![t] = [@ EXCEPT !.stage = "verified", !.plan = plan, !.passed = passed]]
    /\ UNCHANGED <<tree, hostVars, works, issued, creds, cleanup, pruning, deletes>>

\* ... and applies what it planned.
ApplyVerified(t) ==
    LET c == change[t]
    IN  /\ c.stage = "verified"
        /\ Applies(c.spec, c.plan, c.passed) /\ Apply(c.spec, c.plan, c.passed)
        /\ change' = [change EXCEPT ![t] = Idle]
        /\ Cleanup(c.spec.action = "move_to_group")
        /\ UNCHANGED <<works, issued, creds, pruning, deletes>>

\* An exception: the transaction is rolled back, the task has failed.
ChangeFails(t) ==
    /\ \/ change[t].stage = "queued" /\ ~Plannable(change[t].spec)
       \/ change[t].stage = "verified" /\ ~Applies(change[t].spec, change[t].plan, change[t].passed)
    /\ change' = [change EXCEPT ![t] = Idle]
    /\ UNCHANGED <<tree, hostVars, works, issued, creds, cleanup, pruning, deletes>>

-----------------------------------------------------------------------------
(* What changes groups meanwhile                                           *)

Grouped(hs, g) == group' = [h \in Host |-> IF h \in hs THEN g ELSE group[h]]

\* assign, unassign and PATCH /hosts: refused when a credential would change.
\* A group that is given by a name nobody has is created.
Move(hs, g) ==
    /\ hs # {}
    /\ tree' = IF g = None THEN tree ELSE NewGroup(tree, g, None, FALSE)
    /\ \A h \in hs : EffectiveCredential(own[h], g, tree') = Access(h)
    /\ Grouped(hs, g)
    /\ Cleanup(TRUE)
    /\ UNCHANGED <<own, works, issued, creds, change, pruning, deletes>>

\* An administrator creates a group, at the top or below the floor it has by
\* the scheme.
CreateGroup(g, p, c) ==
    /\ g \notin DOMAIN tree /\ c \in creds \cup {None}
    /\ p # None => p = Floor[g] /\ p # g /\ p \in DOMAIN tree
    /\ tree' = WithGroup(tree, g, p, c, FALSE)
    /\ UNCHANGED <<hostVars, works, issued, creds, change, cleanup, pruning, deletes>>

\* _ensure_group of a floor and of a room below it; a top-level room is adopted.
WithRoom(r, tr) ==
    LET f == Floor[r]
        floored == NewGroup(tr, f, None, TRUE)
    IN  IF r \notin DOMAIN tr THEN NewGroup(floored, r, f, TRUE)
        ELSE [floored EXCEPT ![r].parent = f]

ShouldMove(h) == group[h] \notin {None, Room[h]} => tree[group[h]].auto

\* Mutant: any credential of the room will do.
KeepsWithAny(h, tr) ==
    \/ own[h] # None \/ Inherited(group[h], tr) = None
    \/ Inherited(Room[h], tr) # None

KeepsSshAccess(h, tr) ==
    \/ own[h] # None \/ Inherited(group[h], tr) = None
    \/ Inherited(group[h], tr) = Inherited(Room[h], tr)

\* auto_group_host: at a registration, a heartbeat, the hourly regroup.
AutoGroup(h) ==
    /\ ShouldMove(h)
    /\ tree' = WithRoom(Room[h], tree)
    /\ Grouped(IF KeepsSshAccess(h, tree') THEN {h} ELSE {}, Room[h])
    /\ Cleanup(group[h] # None /\ group'[h] # group[h])
    /\ UNCHANGED <<own, works, issued, creds, change, pruning, deletes>>

\* An automatic group without hosts and schedules; one without subgroups.
Vacant(g) == tree[g].auto /\ g \notin Range(group) \cup Scheduled
Childless(g, gone) == \A x \in DOMAIN tree \ gone : tree[x].parent # g

\* Automatic groups without hosts, credential, schedule and subgroups; a group
\* whose subgroups are all deleted is the next.
EmptyAuto ==
    LET empty[n \in 0 .. Cardinality(Group)] ==
            IF n = 0 THEN {}
            ELSE {g \in DOMAIN tree :
                    Vacant(g) /\ tree[g].cred = None /\ Childless(g, empty[n - 1])}
    IN  empty[Cardinality(Group)]

\* prune_empty_auto_groups reads which groups are empty, after a move or on
\* the hourly regroup ...
PruneRead ==
    /\ pruning = {} /\ (cleanup \/ EmptyAuto # {})
    /\ pruning' = EmptyAuto /\ cleanup' = FALSE
    /\ UNCHANGED <<tree, hostVars, works, issued, creds, change, deletes>>

\* The rows of gs are deleted; ON DELETE SET NULL.
Without(gs) ==
    /\ tree' = [g \in DOMAIN tree \ gs |->
                    [tree[g] EXCEPT !.parent = IF @ \in gs THEN None ELSE @]]
    /\ group' = [h \in Host |-> IF group[h] \in gs THEN None ELSE group[h]]

\* ... and deletes them.
PruneDelete ==
    /\ pruning # {} /\ Without(pruning) /\ pruning' = {}
    /\ UNCHANGED <<own, works, issued, creds, change, cleanup, deletes>>

Delete == deletes > 0 /\ deletes' = deletes - 1

DeleteGroup(g) ==
    /\ Delete /\ g \in DOMAIN tree /\ ~tree[g].auto
    /\ Without({g}) /\ pruning' = pruning \ {g}
    /\ UNCHANGED <<own, works, issued, creds, change, cleanup>>

DeleteCredential(c) ==
    /\ Delete /\ c \in creds /\ creds' = creds \ {c}
    /\ tree' = [g \in DOMAIN tree |-> [tree[g] EXCEPT !.cred = IF @ = c THEN None ELSE @]]
    /\ own' = [h \in Host |-> IF own[h] = c THEN None ELSE own[h]]
    /\ UNCHANGED <<group, works, issued, change, cleanup, pruning>>

\* A host without a credential of its own gets a new key, which the server
\* uses from here on.  An agent that missed the answer registers again and is
\* answered with the key of its host.
Register(h) ==
    /\ h \notin issued
    /\ own[h] = None \/ (own[h] = AgentKey /\ <<h, AgentKey>> \notin works)
    /\ own' = [own EXCEPT ![h] = AgentKey]
    /\ works' = works \ {<<h, AgentKey>>} /\ issued' = issued \cup {h}
    /\ UNCHANGED <<tree, group, creds, change, cleanup, pruning, deletes>>

\* The PC has the answer and installs the key ...
KeyArrives(h) ==
    /\ h \in issued /\ issued' = issued \ {h}
    /\ works' = works \cup {<<h, AgentKey>>}
    /\ UNCHANGED <<tree, hostVars, creds, change, cleanup, pruning, deletes>>

\* ... or never gets it.
AnswerLost(h) ==
    /\ h \in issued /\ issued' = issued \ {h}
    /\ UNCHANGED <<tree, hostVars, works, creds, change, cleanup, pruning, deletes>>

\* The agent of a PC that was there before is uninstalled with its key.
Uninstall(h) ==
    /\ own[h] = AgentKey /\ <<h, AgentKey>> \in works
    /\ own' = [own EXCEPT ![h] = None]
    /\ works' = works \ {<<h, AgentKey>>}
    /\ UNCHANGED <<tree, group, issued, creds, change, cleanup, pruning, deletes>>

-----------------------------------------------------------------------------
\* Any tree of the scheme, any credentials of hosts and groups.
Init ==
    /\ creds = Cred
    /\ \E gs \in SUBSET Group :
        tree \in [gs -> GroupRow]
    /\ \A g \in DOMAIN tree :
        \/ tree[g].parent = None
        \/ tree[g].parent = Floor[g] /\ Floor[g] # g /\ Floor[g] \in DOMAIN tree
    /\ group \in [Host -> DOMAIN tree \cup {None}]
    /\ own \in [Host -> Cred \cup {None}]
    /\ works \in SUBSET (Host \X Cred) /\ issued = {}
    /\ change = [t \in Task |-> Idle]
    /\ cleanup = FALSE /\ pruning = {} /\ deletes = MaxDeletes

Next ==
    \/ \E spec \in Request : ChangeNow(spec) \/ \E t \in Task : ChangeLater(t, spec)
    \/ \E t \in Task : VerifyLogins(t) \/ ApplyVerified(t) \/ ChangeFails(t)
    \/ \E hs \in SUBSET Host, g \in Group \cup {None} : Move(hs, g)
    \/ \E g \in Group, p \in Group \cup {None}, c \in Cred \cup {None} : CreateGroup(g, p, c)
    \/ \E h \in Host : AutoGroup(h) \/ Register(h) \/ KeyArrives(h) \/ AnswerLost(h) \/ Uninstall(h)
    \/ PruneRead \/ PruneDelete
    \/ \E g \in Group : DeleteGroup(g)
    \/ \E c \in Cred : DeleteCredential(c)

Spec == Init /\ [][Next]_vars

-----------------------------------------------------------------------------
(* Properties                                                              *)

\* A plan made now would say the same of h as the one t has logged in with.
PlanIsCurrent(t, h) ==
    LET then == change[t].plan
        now == BuildPlan(change[t].spec)
    IN  /\ Plannable(change[t].spec)
        /\ (h \in DOMAIN then) = (h \in DOMAIN now)
        /\ h \in DOMAIN then => then[h] = now[h]

\* A task applies a plan that is no longer the one of h.
AppliesStale(h) == \E t \in Task : ApplyVerified(t) /\ ~PlanIsCurrent(t, h)

\* A prune deletes groups that have been filled since it found them empty.
PruneIsLate == PruneDelete /\ ~(pruning \subseteq EmptyAuto)

\* h is left with a login that fails in place of one that still succeeds.
LosesAccess(h) == <<h, Access(h)>> \in works \cap works' /\ <<h, Access(h)'>> \notin works'

\* A login that succeeds is not replaced by one that does not, whatever
\* changes meanwhile: the host's own credential, its group, the credential or
\* the parent of that group.  It is lost in four ways only: a credential or a
\* group is deleted by an administrator, the host's agent registers and the PC
\* does not have the key yet, a task applies a plan that what happened during
\* its logins has made wrong for this very host, or a prune is late.
AccessKept ==
    [][\A h \in Host : LosesAccess(h) =>
          \/ deletes' # deletes
          \/ h \in issued' \ issued
          \/ AppliesStale(h)
          \/ PruneIsLate]_vars

\* The server stops using the key of an agent only when the agent is
\* uninstalled, or when a plan made before its registration is applied.
AgentKeyStays ==
    [][\A h \in Host : own[h] = AgentKey /\ own'[h] # AgentKey =>
          <<h, AgentKey>> \in works \ works' \/ AppliesStale(h)]_vars

\* Beside deletions, registrations and steps that act on what is no longer so,
\* nothing takes a login that works or an agent's own key.
AccessAndKeysStay == AccessKept /\ AgentKeyStays

\* When a task applies its change, each host that is as it was planned, though
\* others may not be, ends with the credential it logged in with, or, when its
\* login failed, with the one it had, unless it had none; the access of a host
\* the change does not concern stays.
ChangeIsAsVerified ==
    [][\A t \in Task : ApplyVerified(t) =>
        \A h \in Host : PlanIsCurrent(t, h) =>
            IF h \notin DOMAIN change[t].plan THEN Access(h)' = Access(h)
            ELSE LET p == change[t].plan[h]
                 IN  IF h \in OkHosts(change[t].plan, change[t].passed) THEN Access(h)' = p.new
                     ELSE p.old = None \/ Access(h)' = p.old]_vars

\* A change that is applied at once changes the access of no host.
UncheckedStays ==
    [][\A h \in Host : Access(h)' # Access(h) => \A spec \in Request : ~ChangeNow(spec)]_vars

\* A change is what its logins were, and without logins it changes no access.
ChangesAreVerified == ChangeIsAsVerified /\ UncheckedStays

\* What access_change.py says of a change: hosts where the login fails keep
\* their previous access, and the others can be logged in to.
VerifiedKeepsAccess == [][\A t \in Task : ApplyVerified(t) => \A h \in Host : ~LosesAccess(h)]_vars

\* What prune_empty_auto_groups says of itself: it deletes groups without
\* hosts and keeps those with a credential.
PruneTakesNothing ==
    [][PruneDelete => group' = group /\ \A g \in pruning : tree[g].cred = None]_vars
=============================================================================
