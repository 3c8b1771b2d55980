------------------------ MODULE AccessChange_proofs -------------------------
(***************************************************************************)
(* Theorems of AccessChange, for any number of PCs, groups, credentials    *)
(* and tasks, with every step between the logins of a change and its       *)
(* application and between the two halves of a prune.  Where a theorem     *)
(* says so, moves give a group by its id (~ByName).                        *)
(***************************************************************************)
EXTENDS AccessChange, FiniteSetTheorems, TLAPS

-----------------------------------------------------------------------------
(* The tree.                                                               *)

\* Groups with their parents, which are at the top, and with credentials out of cs.
TreeOK(tr, cs) ==
    /\ DOMAIN tr \subseteq Group
    /\ \A g \in DOMAIN tr : /\ tr[g] \in GroupRow
                            /\ tr[g].cred \in cs \cup {None}
                            /\ \/ tr[g].parent = None
                               \/ /\ tr[g].parent = Floor[g] /\ Floor[g] # g
                                  /\ Floor[g] \in DOMAIN tr

LEMMA RowFields ==
    ASSUME NEW row \in GroupRow
    PROVE  /\ row.parent \in Group \cup {None} /\ row.cred \in Cred \cup {None}
           /\ row.auto \in BOOLEAN
  BY DEF GroupRow

LEMMA NoneIsNoGroup == None \notin Group /\ None \notin Cred /\ None # AgentKey /\ AgentKey \notin Cred
  BY DistinctAssumption

\* A group's parent exists and has none itself.
LEMMA ParentIsTop ==
    ASSUME NEW tr, NEW cs, TreeOK(tr, cs), NEW g \in DOMAIN tr, tr[g].parent # None
    PROVE  /\ tr[g].parent = Floor[g] /\ tr[g].parent # g
           /\ tr[g].parent \in DOMAIN tr /\ tr[tr[g].parent].parent = None
  BY SchemeAssumption, NamesAssumption DEF TreeOK

\* What the walk up the tree finds.
Nearest(g, tr) ==
    IF g \notin DOMAIN tr THEN None
    ELSE IF tr[g].cred # None THEN tr[g].cred
    ELSE IF tr[g].parent = None THEN None ELSE tr[tr[g].parent].cred

LEMMA InheritedIsNearest ==
    ASSUME NEW tr, NEW cs, TreeOK(tr, cs), NEW g \in Group \cup {None}
    PROVE  Inherited(g, tr) = Nearest(g, tr)
  <1> DEFINE Step(f, x) == IF x \notin DOMAIN tr THEN None
                           ELSE IF tr[x].cred # None THEN tr[x].cred ELSE f[tr[x].parent]
             Fixed(f) == f = [x \in Group \cup {None} |-> Step(f, x)]
             walk == [x \in Group \cup {None} |-> Nearest(x, tr)]
             found == CHOOSE f : Fixed(f)
  <1>1. Inherited(g, tr) = found[g]
    BY DEF Inherited
  <1>2. \A x \in DOMAIN tr : /\ x \in Group
                             /\ tr[x].parent \in Group \cup {None}
                             /\ tr[x].parent # None => tr[x].parent \in DOMAIN tr
                                                       /\ tr[tr[x].parent].parent = None
    BY ParentIsTop, RowFields DEF TreeOK
  <1>3. None \notin DOMAIN tr
    BY NoneIsNoGroup DEF TreeOK
  <1>4. Fixed(walk)
    <2>1. ASSUME NEW x \in Group \cup {None} PROVE walk[x] = Step(walk, x)
      BY <1>2, <1>3 DEF Nearest
    <2> QED
      BY <2>1
  <1>5. Fixed(found)
    BY <1>4
  <1>6. \A x \in Group \cup {None} : found[x] = Step(found, x)
    BY <1>5
  <1> HIDE DEF found, walk, Fixed
  <1>7. found[None] = None
    BY <1>3, <1>6
  <1>8. \A x \in DOMAIN tr : tr[x].parent = None => found[x] = tr[x].cred
    BY <1>2, <1>6, <1>7
  <1> QED
    BY <1>1, <1>2, <1>3, <1>6, <1>7, <1>8 DEF Nearest
\* A group is added with a parent it may have; the rows that are there stay.
LEMMA WithGroupOK ==
    ASSUME NEW tr, NEW cs \in SUBSET Cred, TreeOK(tr, cs), NEW g \in Group,
           NEW parent, parent = None \/ (parent = Floor[g] /\ Floor[g] # g /\ Floor[g] \in DOMAIN tr),
           NEW cred \in cs \cup {None}, NEW auto \in BOOLEAN
    PROVE  /\ TreeOK(WithGroup(tr, g, parent, cred, auto), cs)
           /\ DOMAIN WithGroup(tr, g, parent, cred, auto) = DOMAIN tr \cup {g}
           /\ \A x \in DOMAIN tr : WithGroup(tr, g, parent, cred, auto)[x] = tr[x]
           /\ g \notin DOMAIN tr =>
                WithGroup(tr, g, parent, cred, auto)[g] = [parent |-> parent, cred |-> cred, auto |-> auto]
  <1> DEFINE row == [parent |-> parent, cred |-> cred, auto |-> auto]
             W == WithGroup(tr, g, parent, cred, auto)
  <1>1. /\ row \in GroupRow /\ row.cred \in cs \cup {None}
        /\ row.parent = parent
    BY NamesAssumption DEF GroupRow
  <1>2. /\ DOMAIN W = DOMAIN tr \cup {g}
        /\ \A x \in DOMAIN tr : W[x] = tr[x]
        /\ g \notin DOMAIN tr => W[g] = row
    BY DEF WithGroup
  <1>3. TreeOK(W, cs)
    <2> HIDE DEF W, row
    <2> QED
      BY <1>1, <1>2 DEF TreeOK
  <1> QED
    BY <1>2, <1>3

LEMMA NewGroupOK ==
    ASSUME NEW tr, NEW cs \in SUBSET Cred, TreeOK(tr, cs), NEW g \in Group,
           NEW parent, parent = None \/ (parent = Floor[g] /\ Floor[g] # g /\ Floor[g] \in DOMAIN tr),
           NEW auto \in BOOLEAN
    PROVE  /\ TreeOK(NewGroup(tr, g, parent, auto), cs)
           /\ DOMAIN NewGroup(tr, g, parent, auto) = DOMAIN tr \cup {g}
           /\ \A x \in DOMAIN tr : NewGroup(tr, g, parent, auto)[x] = tr[x]
           /\ g \notin DOMAIN tr =>
                NewGroup(tr, g, parent, auto)[g] = [parent |-> parent, cred |-> None, auto |-> auto]
  BY WithGroupOK DEF NewGroup

\* A group given by a name that may be new.
LEMMA NamedGroupOK ==
    ASSUME NEW tr, NEW cs \in SUBSET Cred, TreeOK(tr, cs), NEW g \in Group
    PROVE  /\ TreeOK(NewGroup(tr, g, None, FALSE), cs)
           /\ DOMAIN NewGroup(tr, g, None, FALSE) = DOMAIN tr \cup {g}
           /\ \A x \in DOMAIN tr : NewGroup(tr, g, None, FALSE)[x] = tr[x]
           /\ g \notin DOMAIN tr => NewGroup(tr, g, None, FALSE)[g].cred = None
                                    /\ NewGroup(tr, g, None, FALSE)[g].parent = None
  <1>1. ASSUME NEW a \in BOOLEAN
        PROVE  /\ TreeOK(NewGroup(tr, g, None, a), cs)
               /\ DOMAIN NewGroup(tr, g, None, a) = DOMAIN tr \cup {g}
               /\ \A x \in DOMAIN tr : NewGroup(tr, g, None, a)[x] = tr[x]
               /\ g \notin DOMAIN tr => NewGroup(tr, g, None, a)[g].cred = None
                                        /\ NewGroup(tr, g, None, a)[g].parent = None
    <2>1. [parent |-> None, cred |-> None, auto |-> a].cred = None
          /\ [parent |-> None, cred |-> None, auto |-> a].parent = None
      OBVIOUS
    <2>2. /\ TreeOK(NewGroup(tr, g, None, a), cs)
          /\ DOMAIN NewGroup(tr, g, None, a) = DOMAIN tr \cup {g}
          /\ \A x \in DOMAIN tr : NewGroup(tr, g, None, a)[x] = tr[x]
          /\ g \notin DOMAIN tr =>
                NewGroup(tr, g, None, a)[g] = [parent |-> None, cred |-> None, auto |-> a]
      BY NewGroupOK
    <2> QED
      BY <2>1, <2>2
  <1> QED
    BY <1>1

\* The room of a PC gets its floor as parent; no credential changes.
LEMMA WithRoomOK ==
    ASSUME NEW tr, NEW cs \in SUBSET Cred, TreeOK(tr, cs), NEW r \in Group, Floor[r] # r
    PROVE  /\ TreeOK(WithRoom(r, tr), cs)
           /\ DOMAIN WithRoom(r, tr) = DOMAIN tr \cup {r, Floor[r]}
           /\ \A x \in DOMAIN tr : /\ WithRoom(r, tr)[x].cred = tr[x].cred
                                   /\ WithRoom(r, tr)[x].auto = tr[x].auto
                                   /\ \/ WithRoom(r, tr)[x].parent = tr[x].parent
                                      \/ x = r /\ tr[x].parent = None
           /\ WithRoom(r, tr)[r].parent = Floor[r]
           /\ \A x \in {r, Floor[r]} \ DOMAIN tr : WithRoom(r, tr)[x].cred = None
  <1> DEFINE f == Floor[r]
             F == NewGroup(tr, f, None, TRUE)
             W == WithRoom(r, tr)
  <1>1. f \in Group /\ TRUE \in BOOLEAN
    BY NamesAssumption
  <1>2. /\ TreeOK(F, cs) /\ DOMAIN F = DOMAIN tr \cup {f}
        /\ \A x \in DOMAIN tr : F[x] = tr[x]
        /\ f \notin DOMAIN tr => F[f] = [parent |-> None, cred |-> None, auto |-> TRUE]
    <2>1. ASSUME NEW a \in BOOLEAN
          PROVE  /\ TreeOK(NewGroup(tr, f, None, a), cs)
                 /\ DOMAIN NewGroup(tr, f, None, a) = DOMAIN tr \cup {f}
                 /\ \A x \in DOMAIN tr : NewGroup(tr, f, None, a)[x] = tr[x]
                 /\ f \notin DOMAIN tr =>
                        NewGroup(tr, f, None, a)[f] = [parent |-> None, cred |-> None, auto |-> a]
      BY <1>1, NewGroupOK
    <2> QED
      BY <1>1, <2>1
  <1> HIDE DEF F
  <1>3. CASE r \notin DOMAIN tr
    <2>1. W = NewGroup(F, r, f, TRUE)
      BY <1>3 DEF WithRoom, F
    <2>2. r \notin DOMAIN F
      BY <1>2, <1>3
    <2>3. /\ TreeOK(W, cs) /\ DOMAIN W = DOMAIN F \cup {r}
          /\ \A x \in DOMAIN F : W[x] = F[x]
          /\ W[r] = [parent |-> f, cred |-> None, auto |-> TRUE]
      <3>1. ASSUME NEW a \in BOOLEAN
            PROVE  /\ TreeOK(NewGroup(F, r, f, a), cs)
                   /\ DOMAIN NewGroup(F, r, f, a) = DOMAIN F \cup {r}
                   /\ \A x \in DOMAIN F : NewGroup(F, r, f, a)[x] = F[x]
                   /\ NewGroup(F, r, f, a)[r] = [parent |-> f, cred |-> None, auto |-> a]
        BY <1>2, <2>2, NewGroupOK
      <3> QED
        BY <1>1, <2>1, <3>1
    <2> HIDE DEF W
    <2> QED
      BY <1>2, <1>3, <2>3 DEF W
  <1>4. CASE r \in DOMAIN tr
    <2>1. W = [F EXCEPT ![r].parent = f]
      BY <1>4 DEF WithRoom, F
    <2>2. /\ DOMAIN W = DOMAIN F /\ r \in DOMAIN F
          /\ \A x \in DOMAIN F \ {r} : W[x] = F[x]
          /\ W[r] = [F[r] EXCEPT !.parent = f]
      BY <1>2, <1>4, <2>1
    <2>3. /\ F[r] = tr[r] /\ F[r] \in GroupRow
          /\ W[r] \in GroupRow /\ W[r].parent = f
          /\ W[r].cred = F[r].cred /\ W[r].auto = F[r].auto
      BY <1>1, <1>2, <1>4, <2>2 DEF TreeOK, GroupRow
    <2>4. TreeOK(W, cs)
      <3> HIDE DEF W
      <3>1. DOMAIN W \subseteq Group
        BY <1>2, <2>2 DEF TreeOK
      <3>2. \A x \in DOMAIN W : W[x].cred = F[x].cred /\ W[x] \in GroupRow
        BY <1>2, <2>2, <2>3 DEF TreeOK
      <3>3. \A x \in DOMAIN W : \/ W[x].parent = None
                               \/ /\ W[x].parent = Floor[x] /\ Floor[x] # x
                                  /\ Floor[x] \in DOMAIN W
        <4>1. f # r /\ f \in DOMAIN W /\ W[r].parent = f
          BY <1>2, <2>2, <2>3
        <4>2. \A x \in DOMAIN W \ {r} : W[x] = F[x] /\ x \in DOMAIN F
          BY <2>2
        <4>3. \A x \in DOMAIN F : \/ F[x].parent = None
                                 \/ /\ F[x].parent = Floor[x] /\ Floor[x] # x
                                    /\ Floor[x] \in DOMAIN F
          BY <1>2 DEF TreeOK
        <4> QED
          BY <2>2, <4>1, <4>2, <4>3
      <3> QED
        BY <1>2, <2>2, <3>1, <3>2, <3>3 DEF TreeOK
    <2>5. tr[r].parent \in {None, f}
      BY <1>4 DEF TreeOK
    <2>6. \A x \in DOMAIN tr : /\ W[x].cred = tr[x].cred /\ W[x].auto = tr[x].auto
                               /\ W[x].parent = tr[x].parent \/ (x = r /\ tr[x].parent = None)
      <3> HIDE DEF W
      <3> QED
        BY <1>2, <1>4, <2>2, <2>3, <2>5
    <2>7. f \notin DOMAIN tr => W[f].cred = None
      BY <1>2, <1>4, <2>2
    <2> HIDE DEF W
    <2> QED
      BY <1>2, <1>4, <2>2, <2>3, <2>4, <2>6, <2>7 DEF W
  <1> QED
    BY <1>3, <1>4
\* The rows of gs are deleted, and nobody is in one or below one.
LEMMA WithoutOK ==
    ASSUME NEW cs, TreeOK(tree, cs), NEW gs, Without(gs)
    PROVE  /\ TreeOK(tree', cs) /\ DOMAIN tree' = DOMAIN tree \ gs
           /\ \A g \in DOMAIN tree' : /\ tree'[g].cred = tree[g].cred
                                      /\ tree[g].parent \notin gs => tree'[g] = tree[g]
           /\ group' = [h \in Host |-> IF group[h] \in gs THEN None ELSE group[h]]
  <1>1. /\ DOMAIN tree' = DOMAIN tree \ gs
        /\ \A g \in DOMAIN tree' :
              tree'[g] = [tree[g] EXCEPT !.parent = IF tree[g].parent \in gs THEN None ELSE tree[g].parent]
    BY DEF Without
  <1>2. ASSUME NEW g \in DOMAIN tree'
        PROVE  /\ tree'[g] \in GroupRow /\ tree'[g].cred = tree[g].cred
               /\ tree'[g].parent = IF tree[g].parent \in gs THEN None ELSE tree[g].parent
               /\ tree[g].parent \notin gs => tree'[g] = tree[g]
    BY <1>1 DEF TreeOK, GroupRow
  <1>3. TreeOK(tree', cs)
    BY <1>1, <1>2 DEF TreeOK
  <1> QED
    BY <1>1, <1>2, <1>3 DEF Without

\* Rows of which only the credential changes.
LEMMA SameShapeOK ==
    ASSUME NEW tr, NEW nt, NEW cs, NEW ds, TreeOK(tr, cs), DOMAIN nt = DOMAIN tr,
           \A g \in DOMAIN tr : /\ nt[g] \in GroupRow /\ nt[g].cred \in ds \cup {None}
                                /\ nt[g].parent = tr[g].parent
    PROVE  TreeOK(nt, ds)
  BY DEF TreeOK

LEMMA SetCredOK ==
    ASSUME NEW tr, NEW cs \in SUBSET Cred, TreeOK(tr, cs), NEW g \in DOMAIN tr, NEW c \in cs \cup {None}
    PROVE  /\ TreeOK([tr EXCEPT ![g].cred = c], cs) /\ DOMAIN [tr EXCEPT ![g].cred = c] = DOMAIN tr
  <1> DEFINE nt == [tr EXCEPT ![g].cred = c]
  <1>1. DOMAIN nt = DOMAIN tr
    OBVIOUS
  <1>2. ASSUME NEW x \in DOMAIN tr
        PROVE  /\ nt[x] \in GroupRow /\ nt[x].cred \in cs \cup {None}
               /\ nt[x].parent = tr[x].parent
    <2>1. tr[x] \in GroupRow /\ tr[x].cred \in cs \cup {None}
      BY DEF TreeOK
    <2>2. nt[x] = IF x = g THEN [tr[x] EXCEPT !.cred = c] ELSE tr[x]
      OBVIOUS
    <2> QED
      BY <2>1, <2>2 DEF GroupRow
  <1> HIDE DEF nt
  <1>3. TreeOK(nt, cs)
    BY <1>1, <1>2, SameShapeOK
  <1> QED
    BY <1>1, <1>3 DEF nt

-----------------------------------------------------------------------------
(* Types.                                                                  *)

Typed == TypeOK /\ TreeOK(tree, creds)

\* The credential a tree gives is one of the group credentials, or none.
LEMMA InheritedTyped ==
    ASSUME NEW tr, NEW cs, TreeOK(tr, cs), NEW g \in Group \cup {None}
    PROVE  Inherited(g, tr) \in cs \cup {None}
  BY InheritedIsNearest DEF Nearest, TreeOK

LEMMA PlannedTyped ==
    ASSUME Typed, NEW spec \in Request, Plannable(spec), NEW h \in Host
    PROVE  Planned(h, spec) \in Login /\ Access(h) \in Login
  <1>1. /\ own[h] \in creds \cup {AgentKey, None} /\ group[h] \in Group \cup {None}
        /\ creds \subseteq Cred /\ TreeOK(tree, creds) /\ TreeOK(tree, Cred)
    BY DEF Typed, TypeOK, TreeOK
  <1>2. /\ spec.cred \in Cred \cup {None} /\ spec.group \in Group \cup {None}
        /\ spec.action \in Actions
    BY DEF Request
  <1>3. Access(h) \in Login
    BY <1>1, InheritedTyped DEF Access, EffectiveCredential, Login
  <1>4. CASE spec.action = "set_host_credential"
    BY <1>1, <1>2, <1>3, <1>4, InheritedTyped DEF Planned, EffectiveCredential, Login
  <1>5. CASE spec.action = "move_to_group"
    BY <1>1, <1>2, <1>3, <1>5, InheritedTyped DEF Planned, PlannedGroup, EffectiveCredential, Login
  <1>6. CASE spec.action = "set_group_credential"
    <2> DEFINE nt == [tree EXCEPT ![spec.group].cred = spec.cred]
    <2>1. TreeOK(nt, Cred)
      BY <1>1, <1>2, <1>6, SetCredOK DEF Plannable
    <2>2. Planned(h, spec) = EffectiveCredential(own[h], group[h], nt)
      BY <1>6 DEF Planned
    <2> HIDE DEF nt
    <2> QED
      BY <1>1, <1>3, <2>1, <2>2, InheritedTyped DEF EffectiveCredential, Login
  <1> QED
    BY <1>2, <1>4, <1>5, <1>6 DEF Actions

LEMMA PlanTyped ==
    ASSUME Typed, NEW spec \in Request, Plannable(spec)
    PROVE  /\ BuildPlan(spec) \in Plan
           /\ DOMAIN BuildPlan(spec) = Concerns(spec) /\ Concerns(spec) \subseteq Host
           /\ \A h \in Concerns(spec) : BuildPlan(spec)[h] = [old |-> Access(h), new |-> Planned(h, spec)]
           /\ Checked(BuildPlan(spec)) = {h \in Concerns(spec) : Planned(h, spec) # Access(h)}
  <1>1. Concerns(spec) \subseteq Host
    BY DEF Concerns, Request, Actions
  <1>2. \A h \in Concerns(spec) : [old |-> Access(h), new |-> Planned(h, spec)] \in [old : Login, new : Login]
    BY <1>1, PlannedTyped
  <1>3. BuildPlan(spec) \in [Concerns(spec) -> [old : Login, new : Login]]
    BY <1>2 DEF BuildPlan
  <1>4. BuildPlan(spec) \in Plan
    BY <1>1, <1>3 DEF Plan
  <1> QED
    BY <1>1, <1>3, <1>4 DEF BuildPlan, Checked
\* What the types come to beside the tree.
Tables ==
    /\ group \in [Host -> DOMAIN tree \cup {None}] /\ own \in [Host -> creds \cup {AgentKey, None}]
    /\ creds \subseteq Cred /\ pruning \subseteq DOMAIN tree

Changes ==
    /\ change \in [Task -> [stage : {"idle", "queued", "verified"}, spec : Request,
                            plan : Plan, passed : SUBSET Host]]
    /\ \A t \in Task : change[t].passed \subseteq DOMAIN change[t].plan

Others ==
    /\ works \subseteq Host \X (Cred \cup {AgentKey}) /\ issued \subseteq Host
    /\ cleanup \in BOOLEAN /\ deletes \in 0..MaxDeletes

LEMMA TypedParts == Typed <=> TreeOK(tree, creds) /\ Tables /\ Changes /\ Others
  <1>1. TreeOK(tree, creds) =>
          /\ DOMAIN tree \subseteq Group /\ \A g \in DOMAIN tree : tree[g] \in GroupRow
          /\ \A g \in DOMAIN tree : tree[g].cred \in creds \cup {None} /\ tree[g].parent \in DOMAIN tree \cup {None}
    BY DEF TreeOK
  <1> QED
    BY <1>1 DEF Typed, TypeOK, Tables, Changes, Others

LEMMA TypedPartsNext == Typed' <=> TreeOK(tree', creds') /\ Tables' /\ Changes' /\ Others'
  <1>1. TreeOK(tree', creds') =>
          /\ DOMAIN tree' \subseteq Group /\ \A g \in DOMAIN tree' : tree'[g] \in GroupRow
          /\ \A g \in DOMAIN tree' : tree'[g].cred \in creds' \cup {None} /\ tree'[g].parent \in DOMAIN tree' \cup {None}
    BY DEF TreeOK
  <1>2. TreeOK(tree, creds)' <=> TreeOK(tree', creds')
    BY DEF TreeOK
  <1> QED
    BY <1>1, <1>2 DEF Typed, TypeOK, Tables, Changes, Others

LEMMA IdleTyped ==
    /\ Idle \in [stage : {"idle", "queued", "verified"}, spec : Request, plan : Plan, passed : SUBSET Host]
    /\ Idle.passed = {} /\ Idle.stage = "idle"
  <1>1. Idle.plan \in Plan
    <2> DEFINE empty == [h \in {} |-> None]
    <2>1. empty \in [{} -> [old : Login, new : Login]]
      OBVIOUS
    <2> QED
      BY <2>1 DEF Idle, Plan
  <1> QED
    BY <1>1 DEF Idle, NoSpec, Request, Actions

LEMMA InitTyped == Init => Typed
  <1> SUFFICES ASSUME Init PROVE Typed
    OBVIOUS
  <1>1. PICK gs \in SUBSET Group : tree \in [gs -> GroupRow]
    BY DEF Init
  <1>2. TreeOK(tree, creds)
    BY <1>1, RowFields DEF Init, TreeOK
  <1>3. Tables
    BY DEF Init, Tables
  <1>4. Changes
    BY IdleTyped DEF Init, Changes
  <1>5. Others
    <2>1. works \subseteq Host \X (Cred \cup {AgentKey}) /\ issued \subseteq Host
      BY DEF Init
    <2>2. cleanup = FALSE /\ deletes = MaxDeletes
      BY DEF Init
    <2>3. deletes \in 0..MaxDeletes
      BY <2>2, BoundsAssumption
    <2> QED
      BY <2>1, <2>2, <2>3 DEF Others
  <1> QED
    BY <1>2, <1>3, <1>4, <1>5, TypedParts

LEMMA ApplyTyped ==
    ASSUME Typed, NEW spec \in Request, NEW plan \in Plan, NEW passed \in SUBSET (DOMAIN plan),
           Applies(spec, plan, passed), Apply(spec, plan, passed)
    PROVE  /\ TreeOK(tree', creds) /\ DOMAIN tree \subseteq DOMAIN tree'
           /\ group' \in [Host -> DOMAIN tree' \cup {None}] /\ own' \in [Host -> creds \cup {AgentKey, None}]
  <1>1. /\ TreeOK(tree, creds) /\ Tables
    BY TypedParts
  <1>2. /\ spec.cred \in Cred \cup {None} /\ spec.group \in Group \cup {None}
        /\ spec.action \in Actions
    BY DEF Request
  <1> DEFINE ok == OkHosts(plan, passed)
  <1>3. CASE spec.action = "set_host_credential"
    <2>1. /\ own' = [h \in Host |-> IF h \in ok THEN spec.cred ELSE own[h]]
          /\ UNCHANGED <<tree, group>> /\ (ok # {} => spec.cred \in creds \cup {None})
      BY <1>3 DEF Apply, Applies
    <2> HIDE DEF ok
    <2> QED
      BY <1>1, <2>1 DEF Tables
  <1>4. CASE spec.action = "move_to_group"
    <2>1. /\ tree' = IF ok # {} /\ ByName /\ spec.group # None
                     THEN NewGroup(tree, spec.group, None, FALSE) ELSE tree
          /\ group' = [h \in Host |-> IF h \in ok THEN spec.group ELSE group[h]]
          /\ own' = own /\ ((ok # {} /\ ~ByName) => spec.group \in DOMAIN tree \cup {None})
      BY <1>4 DEF Apply, Applies
    <2> HIDE DEF ok
    <2>2. CASE ok # {} /\ ByName /\ spec.group # None
      <3>1. tree' = NewGroup(tree, spec.group, None, FALSE) /\ spec.group \in Group
        BY <1>2, <2>1, <2>2
      <3>2. creds \in SUBSET Cred
        BY <1>1 DEF Tables
      <3>3. TreeOK(tree', creds) /\ DOMAIN tree' = DOMAIN tree \cup {spec.group}
        BY <1>1, <3>1, <3>2, NamedGroupOK
      <3> QED
        BY <1>1, <2>1, <3>3 DEF Tables
    <2>3. CASE ~(ok # {} /\ ByName /\ spec.group # None)
      <3>1. tree' = tree
        BY <2>1, <2>3
      <3>2. ok # {} => spec.group \in DOMAIN tree \cup {None}
        BY <2>1, <2>3
      <3> QED
        BY <1>1, <2>1, <3>1, <3>2 DEF Tables
    <2> QED
      BY <2>2, <2>3
  <1>5. CASE spec.action = "set_group_credential"
    <2>1. /\ tree' = [tree EXCEPT ![spec.group].cred = spec.cred]
          /\ own' = [h \in Host |-> IF h \in DOMAIN Pinned(plan, passed)
                                   THEN Pinned(plan, passed)[h] ELSE own[h]]
          /\ group' = group
          /\ spec.group \in DOMAIN tree /\ spec.cred \in creds \cup {None}
          /\ Range(Pinned(plan, passed)) \subseteq creds \cup {AgentKey}
      BY <1>5 DEF Apply, Applies
    <2>2. TreeOK(tree', creds) /\ DOMAIN tree' = DOMAIN tree
      BY <1>1, <2>1, SetCredOK DEF Tables
    <2>3. \A h \in DOMAIN Pinned(plan, passed) : Pinned(plan, passed)[h] \in creds \cup {AgentKey}
      BY <2>1 DEF Range
    <2> QED
      BY <1>1, <2>1, <2>2, <2>3 DEF Tables
  <1> QED
    BY <1>2, <1>3, <1>4, <1>5 DEF Actions
\* A change that no login checks keeps to the foreign keys.
LEMMA NowApplies ==
    ASSUME NEW spec, Accepted(spec), Checked(BuildPlan(spec)) = {}
    PROVE  Applies(spec, BuildPlan(spec), {})
  <1> DEFINE plan == BuildPlan(spec)
  <1>1. Pinned(plan, {}) = [h \in {} |-> plan[h].old]
    BY DEF Pinned
  <1>2. Range(Pinned(plan, {})) = {}
    BY <1>1 DEF Range
  <1> HIDE DEF plan
  <1> QED
    BY <1>2 DEF Accepted, Applies, plan

LEMMA ChangeNowTyped ==
    ASSUME Typed, NEW spec \in Request, ChangeNow(spec)
    PROVE  Typed'
  <1> DEFINE plan == BuildPlan(spec)
  <1>1. /\ Accepted(spec) /\ Checked(plan) = {} /\ Apply(spec, plan, {})
        /\ UNCHANGED <<works, issued, creds, change, pruning, deletes>>
        /\ cleanup' = (cleanup \/ spec.action = "move_to_group")
    BY DEF ChangeNow, Cleanup
  <1>2. Plannable(spec)
    BY <1>1 DEF Accepted, Plannable
  <1>3. plan \in Plan /\ Applies(spec, plan, {}) /\ {} \in SUBSET (DOMAIN plan)
    BY <1>1, <1>2, PlanTyped, NowApplies
  <1> HIDE DEF plan
  <1>4. /\ TreeOK(tree', creds) /\ DOMAIN tree \subseteq DOMAIN tree'
        /\ group' \in [Host -> DOMAIN tree' \cup {None}] /\ own' \in [Host -> creds \cup {AgentKey, None}]
    BY <1>1, <1>3, ApplyTyped
  <1>5. Tables' /\ TreeOK(tree', creds')
    BY <1>1, <1>4, TypedParts DEF Tables
  <1>6. Changes'
    BY <1>1, TypedParts DEF Changes
  <1>7. Others'
    <2>1. cleanup' \in BOOLEAN
      BY <1>1
    <2> QED
      BY <1>1, <2>1, TypedParts DEF Others
  <1> QED
    BY <1>5, <1>6, <1>7, TypedPartsNext

\* One record of a task is replaced.
LEMMA ChangesTyped ==
    ASSUME Changes, NEW t \in Task, NEW c, change' = [change EXCEPT ![t] = c],
           c \in [stage : {"idle", "queued", "verified"}, spec : Request, plan : Plan, passed : SUBSET Host],
           c.passed \subseteq DOMAIN c.plan
    PROVE  Changes'
  BY DEF Changes

LEMMA TaskTyped ==
    ASSUME Typed, NEW t \in Task
    PROVE  /\ change[t].spec \in Request /\ change[t].plan \in Plan
           /\ change[t].passed \in SUBSET (DOMAIN change[t].plan)
           /\ change[t].stage \in {"idle", "queued", "verified"}
  BY TypedParts DEF Changes

\* A step that only changes what is kept of a task.
LEMMA OnlyChangesTyped ==
    ASSUME Typed, Changes', UNCHANGED <<tree, hostVars, works, issued, creds, cleanup, pruning, deletes>>
    PROVE  Typed'
  BY TypedParts, TypedPartsNext DEF Tables, Others, hostVars

LEMMA TaskStepTyped ==
    ASSUME Typed, NEW t \in Task,
           (\E spec \in Request : ChangeLater(t, spec)) \/ VerifyLogins(t) \/ ApplyVerified(t) \/ ChangeFails(t)
    PROVE  Typed'
  <1>1. Changes
    BY TypedParts
  <1>2. ASSUME NEW spec \in Request, ChangeLater(t, spec) PROVE Typed'
    <2> DEFINE c == [Idle EXCEPT !.stage = "queued", !.spec = spec]
    <2>1. /\ c \in [stage : {"idle", "queued", "verified"}, spec : Request, plan : Plan, passed : SUBSET Host]
          /\ c.passed = {}
      BY IdleTyped
    <2>2. change' = [change EXCEPT ![t] = c] /\ UNCHANGED <<tree, hostVars, works, issued, creds, cleanup, pruning, deletes>>
      BY <1>2 DEF ChangeLater
    <2> HIDE DEF c
    <2> QED
      BY <1>1, <2>1, <2>2, ChangesTyped, OnlyChangesTyped
  <1>3. CASE VerifyLogins(t)
    <2> DEFINE plan == BuildPlan(change[t].spec)
    <2>1. PICK passed \in SUBSET {h \in Logins(plan) : plan[h].new \in creds} :
            change' = [change EXCEPT ![t] = [@ EXCEPT !.stage = "verified", !.plan = plan, !.passed = passed]]
      BY <1>3 DEF VerifyLogins
    <2>2. plan \in Plan /\ Checked(plan) \subseteq DOMAIN plan /\ DOMAIN plan \subseteq Host
      BY <1>3, TaskTyped, PlanTyped DEF VerifyLogins, Checked
    <2> HIDE DEF plan
    <2>3. passed \subseteq DOMAIN plan
      BY <2>1, <2>2 DEF Logins
    <2> DEFINE c == [change[t] EXCEPT !.stage = "verified", !.plan = plan, !.passed = passed]
    <2>4. /\ c \in [stage : {"idle", "queued", "verified"}, spec : Request, plan : Plan, passed : SUBSET Host]
          /\ c.passed \subseteq DOMAIN c.plan
      BY <1>1, <2>2, <2>3 DEF Changes
    <2>5. change' = [change EXCEPT ![t] = c] /\ UNCHANGED <<tree, hostVars, works, issued, creds, cleanup, pruning, deletes>>
      BY <1>3, <2>1 DEF VerifyLogins
    <2> HIDE DEF c
    <2> QED
      BY <1>1, <2>4, <2>5, ChangesTyped, OnlyChangesTyped
  <1>4. CASE ApplyVerified(t)
    <2>1. /\ Applies(change[t].spec, change[t].plan, change[t].passed)
          /\ Apply(change[t].spec, change[t].plan, change[t].passed)
          /\ change' = [change EXCEPT ![t] = Idle]
          /\ cleanup' = (cleanup \/ change[t].spec.action = "move_to_group")
          /\ UNCHANGED <<works, issued, creds, pruning, deletes>>
      BY <1>4 DEF ApplyVerified, Cleanup
    <2>2. /\ TreeOK(tree', creds) /\ DOMAIN tree \subseteq DOMAIN tree'
          /\ group' \in [Host -> DOMAIN tree' \cup {None}] /\ own' \in [Host -> creds \cup {AgentKey, None}]
      BY <2>1, TaskTyped, ApplyTyped
    <2>3. Tables' /\ TreeOK(tree', creds')
      BY <2>1, <2>2, TypedParts DEF Tables
    <2>4. Changes'
      BY <1>1, <2>1, IdleTyped, ChangesTyped
    <2>5. cleanup' \in BOOLEAN
      BY <2>1
    <2>6. Others'
      BY <2>1, <2>5, TypedParts DEF Others
    <2> QED
      BY <2>3, <2>4, <2>6, TypedPartsNext
  <1>5. CASE ChangeFails(t)
    <2>1. change' = [change EXCEPT ![t] = Idle] /\ UNCHANGED <<tree, hostVars, works, issued, creds, cleanup, pruning, deletes>>
      BY <1>5 DEF ChangeFails
    <2> QED
      BY <1>1, <2>1, IdleTyped, ChangesTyped, OnlyChangesTyped
  <1> QED
    BY <1>2, <1>3, <1>4, <1>5
-----------------------------------------------------------------------------
(* The groups that are empty.                                              *)

\* The automatic groups without hosts, credential, schedule and subgroups but in gone.
EmptyBut(gone) == {g \in DOMAIN tree : Vacant(g) /\ tree[g].cred = None /\ Childless(g, gone)}

LEMMA EmptyButGrows ==
    ASSUME NEW X, NEW Y, X \subseteq Y
    PROVE  EmptyBut(X) \subseteq EmptyBut(Y)
  BY DEF EmptyBut, Childless

\* The tree has two levels: a second look finds all that a third one would.
LEMMA TwoLooks ==
    ASSUME NEW cs, TreeOK(tree, cs), NEW X, NEW Y
    PROVE  EmptyBut(EmptyBut(X)) = EmptyBut(EmptyBut(Y))
  <1>1. ASSUME NEW x \in DOMAIN tree, tree[x].parent # None
        PROVE  x \in EmptyBut(X) <=> x \in EmptyBut(Y)
    <2>1. \A y \in DOMAIN tree : tree[y].parent # x
      <3> SUFFICES ASSUME NEW y \in DOMAIN tree, tree[y].parent = x PROVE FALSE
        OBVIOUS
      <3>1. x # None
        BY NoneIsNoGroup DEF TreeOK
      <3> QED
        BY <1>1, <3>1, ParentIsTop
    <2> QED
      BY <2>1 DEF EmptyBut, Childless
  <1>2. ASSUME NEW g \in DOMAIN tree
        PROVE  Childless(g, EmptyBut(X)) <=> Childless(g, EmptyBut(Y))
    <2>1. g # None
      BY NoneIsNoGroup DEF TreeOK
    <2> QED
      BY <1>1, <2>1 DEF Childless
  <1> QED
    BY <1>2 DEF EmptyBut

LEMMA EmptyAutoIs ==
    ASSUME NEW cs, TreeOK(tree, cs)
    PROVE  EmptyAuto \in {{}, EmptyBut({}), EmptyBut(EmptyBut({}))}
  <1> DEFINE N == Cardinality(Group)
             Fixed(f) == f = [n \in 0..N |-> IF n = 0 THEN {} ELSE EmptyBut(f[n - 1])]
             looks == [n \in 0..N |-> IF n = 0 THEN {} ELSE IF n = 1 THEN EmptyBut({})
                                      ELSE EmptyBut(EmptyBut({}))]
             found == CHOOSE f : Fixed(f)
  <1>1. N \in Nat
    BY FiniteAssumption, FS_CardinalityType
  <1>2. EmptyAuto = found[N]
    BY DEF EmptyAuto, EmptyBut
  <1>3. EmptyBut(EmptyBut(EmptyBut({}))) = EmptyBut(EmptyBut({}))
    BY TwoLooks
  <1> HIDE DEF N
  <1>4. Fixed(looks)
    <2>1. ASSUME NEW n \in 0..N
          PROVE  looks[n] = IF n = 0 THEN {} ELSE EmptyBut(looks[n - 1])
      <3>1. CASE n = 0
        BY <3>1
      <3>2. CASE n = 1
        <4>1. 0 \in 0..N /\ n - 1 = 0
          BY <1>1, <3>2
        <4>2. looks[0] = {} /\ looks[n] = EmptyBut({})
          BY <1>1, <3>2, <4>1
        <4> HIDE DEF looks
        <4> QED
          BY <3>2, <4>1, <4>2
      <3>3. CASE n = 2
        <4>1. 1 \in 0..N /\ n - 1 = 1
          BY <1>1, <3>3
        <4>2. looks[1] = EmptyBut({}) /\ looks[n] = EmptyBut(EmptyBut({}))
          BY <1>1, <3>3, <4>1
        <4> HIDE DEF looks
        <4> QED
          BY <3>3, <4>1, <4>2
      <3>4. CASE n > 2
        <4>1. n - 1 \in 0..N /\ n - 1 # 0 /\ n - 1 # 1 /\ n # 0 /\ n # 1
          BY <1>1, <3>4
        <4>2. looks[n - 1] = EmptyBut(EmptyBut({})) /\ looks[n] = EmptyBut(EmptyBut({}))
          BY <4>1
        <4> HIDE DEF looks
        <4> QED
          BY <1>3, <4>1, <4>2
      <3> QED
        BY <1>1, <3>1, <3>2, <3>3, <3>4
    <2> HIDE DEF looks
    <2>2. looks = [n \in 0..N |-> looks[n]]
      BY DEF looks
    <2> QED
      BY <2>1, <2>2
  <1>5. Fixed(found)
    BY <1>4
  <1> HIDE DEF found, looks
  <1>6. \A n \in 0..N : found[n] = IF n = 0 THEN {} ELSE EmptyBut(found[n - 1])
    BY <1>5
  <1>7. N = 0 => found[N] = {}
    BY <1>1, <1>6
  <1>8. N = 1 => found[N] = EmptyBut({})
    <2> SUFFICES ASSUME N = 1 PROVE found[N] = EmptyBut({})
      OBVIOUS
    <2>1. 0 \in 0..N /\ 1 \in 0..N /\ 1 - 1 = 0
      BY <1>1
    <2>2. found[0] = {}
      BY <1>6, <2>1
    <2> QED
      BY <1>6, <2>1, <2>2
  <1>9. N > 1 => found[N] = EmptyBut(EmptyBut({}))
    <2> SUFFICES ASSUME N > 1 PROVE found[N] = EmptyBut(EmptyBut({}))
      OBVIOUS
    <2>1. N \in 0..N /\ N # 0 /\ N - 1 \in 0..N /\ N - 1 # 0
      BY <1>1
    <2>2. found[N] = EmptyBut(found[N - 1]) /\ found[N - 1] = EmptyBut(found[(N - 1) - 1])
      BY <1>6, <2>1
    <2> QED
      BY <2>2, TwoLooks
  <1> QED
    BY <1>1, <1>2, <1>7, <1>8, <1>9

\* What a prune finds has no host, no credential and no subgroup that stays.
LEMMA EmptyAutoOK ==
    ASSUME NEW cs, TreeOK(tree, cs)
    PROVE  /\ EmptyAuto \subseteq DOMAIN tree
           /\ \A g \in EmptyAuto : /\ g \notin Range(group) /\ tree[g].cred = None
                                   /\ Childless(g, EmptyAuto)
  <1>1. EmptyBut({}) \subseteq EmptyBut(EmptyBut({}))
    BY EmptyButGrows
  <1>2. \A X, Y, g : X \subseteq Y /\ Childless(g, X) => Childless(g, Y)
    BY DEF Childless
  <1>3. \A X : \A g \in EmptyBut(X) : /\ g \in DOMAIN tree /\ g \notin Range(group)
                                      /\ tree[g].cred = None /\ Childless(g, X)
    BY DEF EmptyBut, Vacant
  <1> QED
    BY <1>1, <1>2, <1>3, EmptyAutoIs
-----------------------------------------------------------------------------
(* Types, the other steps.                                                 *)

LEMMA MoveTree ==
    ASSUME Typed, NEW hs \in SUBSET Host, NEW g \in Group \cup {None}, Move(hs, g)
    PROVE  /\ TreeOK(tree', creds) /\ DOMAIN tree \subseteq DOMAIN tree' /\ g \in DOMAIN tree' \cup {None}
           /\ \A x \in DOMAIN tree : tree'[x] = tree[x]
  <1>1. TreeOK(tree, creds) /\ creds \in SUBSET Cred
    BY TypedParts DEF Tables
  <1>2. CASE g = None
    <2>1. tree' = tree
      BY <1>2 DEF Move
    <2> QED
      BY <1>1, <1>2, <2>1
  <1>3. CASE g # None
    <2>1. tree' = NewGroup(tree, g, None, FALSE) /\ g \in Group
      BY <1>3 DEF Move
    <2>2. /\ TreeOK(NewGroup(tree, g, None, FALSE), creds)
          /\ DOMAIN NewGroup(tree, g, None, FALSE) = DOMAIN tree \cup {g}
          /\ \A x \in DOMAIN tree : NewGroup(tree, g, None, FALSE)[x] = tree[x]
      BY <1>1, <2>1, NamedGroupOK
    <2> QED
      BY <2>1, <2>2
  <1> QED
    BY <1>2, <1>3

LEMMA MoveTyped ==
    ASSUME Typed, NEW hs \in SUBSET Host, NEW g \in Group \cup {None}, Move(hs, g)
    PROVE  Typed'
  <1>1. /\ group' = [h \in Host |-> IF h \in hs THEN g ELSE group[h]] /\ cleanup' = (cleanup \/ TRUE)
        /\ UNCHANGED <<own, works, issued, creds, change, pruning, deletes>>
    BY DEF Move, Grouped, Cleanup
  <1>2. Tables' /\ TreeOK(tree', creds')
    BY <1>1, MoveTree, TypedParts DEF Tables
  <1>3. Changes'
    BY <1>1, TypedParts DEF Changes
  <1>4. Others'
    BY <1>1, TypedParts DEF Others
  <1> QED
    BY <1>2, <1>3, <1>4, TypedPartsNext

LEMMA CreateGroupTree ==
    ASSUME Typed, NEW g \in Group, NEW p \in Group \cup {None}, NEW c \in Cred \cup {None}, CreateGroup(g, p, c)
    PROVE  /\ TreeOK(tree', creds) /\ DOMAIN tree' = DOMAIN tree \cup {g} /\ g \notin DOMAIN tree
           /\ \A x \in DOMAIN tree : tree'[x] = tree[x]
  <1>1. TreeOK(tree, creds) /\ creds \in SUBSET Cred
    BY TypedParts DEF Tables
  <1>2. /\ c \in creds \cup {None} /\ g \notin DOMAIN tree
        /\ tree' = WithGroup(tree, g, p, c, FALSE)
        /\ p = None \/ (p = Floor[g] /\ Floor[g] # g /\ Floor[g] \in DOMAIN tree)
    BY DEF CreateGroup
  <1>3. ASSUME NEW a \in BOOLEAN
        PROVE  /\ TreeOK(WithGroup(tree, g, p, c, a), creds)
               /\ DOMAIN WithGroup(tree, g, p, c, a) = DOMAIN tree \cup {g}
               /\ \A x \in DOMAIN tree : WithGroup(tree, g, p, c, a)[x] = tree[x]
    <2>1. /\ TreeOK(WithGroup(tree, g, p, c, a), creds)
          /\ DOMAIN WithGroup(tree, g, p, c, a) = DOMAIN tree \cup {g}
          /\ \A x \in DOMAIN tree : WithGroup(tree, g, p, c, a)[x] = tree[x]
          /\ g \notin DOMAIN tree =>
                WithGroup(tree, g, p, c, a)[g] = [parent |-> p, cred |-> c, auto |-> a]
      BY <1>1, <1>2, WithGroupOK
    <2> QED
      BY <2>1
  <1> QED
    BY <1>2, <1>3

LEMMA CreateGroupTyped ==
    ASSUME Typed, NEW g \in Group, NEW p \in Group \cup {None}, NEW c \in Cred \cup {None}, CreateGroup(g, p, c)
    PROVE  Typed'
  <1>1. UNCHANGED <<group, own, works, issued, creds, change, cleanup, pruning, deletes>>
    BY DEF CreateGroup, hostVars
  <1>2. Tables' /\ TreeOK(tree', creds')
    BY <1>1, CreateGroupTree, TypedParts DEF Tables
  <1>3. Changes' /\ Others'
    BY <1>1, TypedParts DEF Changes, Others
  <1> QED
    BY <1>2, <1>3, TypedPartsNext

LEMMA RoomOfScheme ==
    ASSUME NEW h \in Host
    PROVE  Room[h] \in Group /\ Floor[Room[h]] \in Group /\ Floor[Room[h]] # Room[h]
  BY NamesAssumption, SchemeAssumption

LEMMA AutoGroupTyped ==
    ASSUME Typed, NEW h \in Host, AutoGroup(h)
    PROVE  Typed'
  <1>1. TreeOK(tree, creds) /\ creds \in SUBSET Cred
    BY TypedParts DEF Tables
  <1>2. /\ tree' = WithRoom(Room[h], tree)
        /\ cleanup' = (cleanup \/ (group[h] # None /\ group'[h] # group[h]))
        /\ UNCHANGED <<own, works, issued, creds, change, pruning, deletes>>
    BY DEF AutoGroup, Cleanup
  <1>3. PICK hs : group' = [x \in Host |-> IF x \in hs THEN Room[h] ELSE group[x]]
    BY DEF AutoGroup, Grouped
  <1>4. TreeOK(tree', creds) /\ DOMAIN tree' = DOMAIN tree \cup {Room[h], Floor[Room[h]]}
    BY <1>1, <1>2, RoomOfScheme, WithRoomOK
  <1>5. Tables' /\ TreeOK(tree', creds')
    BY <1>2, <1>3, <1>4, TypedParts DEF Tables
  <1>6. Changes'
    BY <1>2, TypedParts DEF Changes
  <1>7. Others'
    <2>1. cleanup' \in BOOLEAN
      BY <1>2
    <2> QED
      BY <1>2, <2>1, TypedParts DEF Others
  <1> QED
    BY <1>5, <1>6, <1>7, TypedPartsNext

KeyStep(h) == Register(h) \/ KeyArrives(h) \/ AnswerLost(h) \/ Uninstall(h)

LEMMA KeyTyped ==
    ASSUME Typed, NEW h \in Host, KeyStep(h)
    PROVE  Typed'
  <1>1. UNCHANGED <<tree, group, creds, change, cleanup, pruning, deletes>>
    BY DEF KeyStep, Register, KeyArrives, AnswerLost, Uninstall, hostVars
  <1>2. /\ own \in [Host -> creds \cup {AgentKey, None}]
        /\ works \subseteq Host \X (Cred \cup {AgentKey}) /\ issued \subseteq Host
    BY TypedParts DEF Tables, Others
  <1>3. own' \in [Host -> creds \cup {AgentKey, None}]
    BY <1>2 DEF KeyStep, Register, KeyArrives, AnswerLost, Uninstall, hostVars
  <1>4. works' \subseteq Host \X (Cred \cup {AgentKey}) /\ issued' \subseteq Host
    BY <1>2 DEF KeyStep, Register, KeyArrives, AnswerLost, Uninstall
  <1>5. Tables' /\ TreeOK(tree', creds')
    BY <1>1, <1>3, TypedParts DEF Tables
  <1>6. Changes'
    BY <1>1, TypedParts DEF Changes
  <1>7. Others'
    BY <1>1, <1>4, TypedParts DEF Others
  <1> QED
    BY <1>5, <1>6, <1>7, TypedPartsNext

LEMMA PruneTyped ==
    ASSUME Typed, PruneRead \/ PruneDelete
    PROVE  Typed'
  <1>1. CASE PruneRead
    <2>1. /\ pruning' \subseteq DOMAIN tree /\ cleanup' = FALSE
          /\ UNCHANGED <<tree, group, own, works, issued, creds, change, deletes>>
      BY <1>1, TypedParts, EmptyAutoOK DEF PruneRead, hostVars
    <2>2. Tables' /\ TreeOK(tree', creds')
      BY <2>1, TypedParts DEF Tables
    <2>3. Changes' /\ Others'
      BY <2>1, TypedParts DEF Changes, Others
    <2> QED
      BY <2>2, <2>3, TypedPartsNext
  <1>2. CASE PruneDelete
    <2>1. /\ Without(pruning) /\ pruning' = {}
          /\ UNCHANGED <<own, works, issued, creds, change, cleanup, deletes>>
      BY <1>2 DEF PruneDelete
    <2>2. Tables' /\ TreeOK(tree', creds')
      <3>1. TreeOK(tree, creds) /\ Tables
        BY TypedParts
      <3>2. /\ TreeOK(tree', creds) /\ DOMAIN tree' = DOMAIN tree \ pruning
            /\ group' = [h \in Host |-> IF group[h] \in pruning THEN None ELSE group[h]]
        BY <2>1, <3>1, WithoutOK
      <3>3. group' \in [Host -> DOMAIN tree' \cup {None}]
        BY <3>1, <3>2 DEF Tables
      <3> QED
        BY <2>1, <3>1, <3>2, <3>3 DEF Tables
    <2>3. Changes' /\ Others'
      BY <2>1, TypedParts DEF Changes, Others
    <2> QED
      BY <2>2, <2>3, TypedPartsNext
  <1> QED
    BY <1>1, <1>2

LEMMA DeleteTyped ==
    ASSUME Typed, (\E g \in Group : DeleteGroup(g)) \/ (\E c \in Cred : DeleteCredential(c))
    PROVE  Typed'
  <1>1. deletes' \in 0..MaxDeletes
    <2>1. deletes > 0 /\ deletes' = deletes - 1 /\ deletes \in 0..MaxDeletes
      BY TypedParts DEF Delete, DeleteGroup, DeleteCredential, Others
    <2> QED
      BY <2>1, BoundsAssumption
  <1>2. ASSUME NEW g \in Group, DeleteGroup(g) PROVE Typed'
    <2>1. /\ Without({g}) /\ pruning' = pruning \ {g}
          /\ UNCHANGED <<own, works, issued, creds, change, cleanup>>
      BY <1>2 DEF DeleteGroup
    <2>2. /\ TreeOK(tree', creds) /\ DOMAIN tree' = DOMAIN tree \ {g}
          /\ group' = [h \in Host |-> IF group[h] \in {g} THEN None ELSE group[h]]
      BY <2>1, WithoutOK, TypedParts
    <2>4. Tables' /\ TreeOK(tree', creds')
      BY <2>1, <2>2, TypedParts DEF Tables
    <2>3. Changes' /\ Others'
      BY <1>1, <2>1, TypedParts DEF Changes, Others
    <2> QED
      BY <2>3, <2>4, TypedPartsNext
  <1>3. ASSUME NEW c \in Cred, DeleteCredential(c) PROVE Typed'
    <2>1. /\ creds' = creds \ {c}
          /\ tree' = [g \in DOMAIN tree |-> [tree[g] EXCEPT !.cred = IF tree[g].cred = c THEN None ELSE tree[g].cred]]
          /\ own' = [h \in Host |-> IF own[h] = c THEN None ELSE own[h]]
          /\ UNCHANGED <<group, works, issued, change, cleanup, pruning>>
      BY <1>3 DEF DeleteCredential
    <2>2. ASSUME NEW g \in DOMAIN tree
          PROVE  /\ tree'[g] \in GroupRow /\ tree'[g].cred \in creds' \cup {None}
                 /\ tree'[g].parent = tree[g].parent
      <3>1. tree[g] \in GroupRow /\ tree[g].cred \in creds \cup {None}
        BY TypedParts DEF TreeOK
      <3>2. tree'[g] = [tree[g] EXCEPT !.cred = IF tree[g].cred = c THEN None ELSE tree[g].cred]
        BY <2>1
      <3> QED
        BY <2>1, <3>1, <3>2 DEF GroupRow
    <2>3. TreeOK(tree', creds')
      <3>1. DOMAIN tree' = DOMAIN tree /\ TreeOK(tree, creds)
        BY <2>1, TypedParts
      <3> QED
        BY <2>2, <3>1, SameShapeOK
    <2>4. Tables'
      BY <2>1, TypedParts, NoneIsNoGroup DEF Tables
    <2>5. Changes' /\ Others'
      BY <1>1, <2>1, TypedParts DEF Changes, Others
    <2> QED
      BY <2>3, <2>4, <2>5, TypedPartsNext
  <1> QED
    BY <1>2, <1>3

LEMMA StutterTyped == Typed /\ UNCHANGED vars => Typed'
  BY TypedParts, TypedPartsNext DEF vars, hostVars, Tables, Changes, Others

LEMMA NextTyped == Typed /\ [Next]_vars => Typed'
  <1> SUFFICES ASSUME Typed, [Next]_vars PROVE Typed'
    OBVIOUS
  <1>1. CASE \E spec \in Request : ChangeNow(spec) \/ \E t \in Task : ChangeLater(t, spec)
    BY <1>1, ChangeNowTyped, TaskStepTyped
  <1>2. CASE \E t \in Task : VerifyLogins(t) \/ ApplyVerified(t) \/ ChangeFails(t)
    BY <1>2, TaskStepTyped
  <1>3. CASE \E hs \in SUBSET Host, g \in Group \cup {None} : Move(hs, g)
    BY <1>3, MoveTyped
  <1>4. CASE \E g \in Group, p \in Group \cup {None}, c \in Cred \cup {None} : CreateGroup(g, p, c)
    BY <1>4, CreateGroupTyped
  <1>5. CASE \E h \in Host : AutoGroup(h) \/ KeyStep(h)
    BY <1>5, AutoGroupTyped, KeyTyped
  <1>6. CASE PruneRead \/ PruneDelete
    BY <1>6, PruneTyped
  <1>7. CASE (\E g \in Group : DeleteGroup(g)) \/ (\E c \in Cred : DeleteCredential(c))
    BY <1>7, DeleteTyped
  <1>8. CASE UNCHANGED vars
    BY <1>8, StutterTyped
  <1> QED
    BY <1>1, <1>2, <1>3, <1>4, <1>5, <1>6, <1>7, <1>8 DEF Next, KeyStep

\* The tables of access_change.py and host_grouping.py keep their types:
\* credentials, groups and parents that rows name exist, and the groups have
\* at most two levels.
THEOREM AccessTyped == Spec => [](TypeOK /\ TreeOK(tree, creds))
  <1> QED
    BY InitTyped, NextTyped, PTL DEF Spec, Typed
-----------------------------------------------------------------------------
(* The plan and the logins of a task.                                      *)

\* The plan of a change, of a tree and of what hosts have.
PlannedFor(h, spec, tr, gr, ow) ==
    CASE spec.action = "set_host_credential" -> EffectiveCredential(spec.cred, gr[h], tr)
      [] spec.action = "move_to_group" -> EffectiveCredential(ow[h], PlannedGroup(spec), tr)
      [] spec.action = "set_group_credential" ->
            EffectiveCredential(ow[h], gr[h], [tr EXCEPT ![spec.group].cred = spec.cred])
AccessFor(h, tr, gr, ow) == EffectiveCredential(ow[h], gr[h], tr)
ConcernsFor(spec, tr, gr, ow) ==
    CASE spec.action = "set_host_credential" -> {h \in spec.hosts : ow[h] # AgentKey}
      [] spec.action = "move_to_group" -> spec.hosts
      [] spec.action = "set_group_credential" ->
            {h \in Host : PlannedFor(h, spec, tr, gr, ow) # AccessFor(h, tr, gr, ow)}
PlanFor(spec, tr, gr, ow) ==
    [h \in ConcernsFor(spec, tr, gr, ow) |->
        [old |-> AccessFor(h, tr, gr, ow), new |-> PlannedFor(h, spec, tr, gr, ow)]]
PlannableFor(spec, tr) == spec.action = "set_group_credential" => spec.group \in DOMAIN tr

LEMMA PlanForIs ==
    ASSUME NEW spec
    PROVE  /\ BuildPlan(spec) = PlanFor(spec, tree, group, own)
           /\ Plannable(spec) <=> PlannableFor(spec, tree)
  BY DEF BuildPlan, Concerns, Planned, Access, PlanFor, ConcernsFor, PlannedFor, AccessFor,
         Plannable, PlannableFor

\* What was planned for h is what would be planned now.
SameFor(h, spec, plan) ==
    LET now == PlanFor(spec, tree, group, own)
    IN  /\ PlannableFor(spec, tree)
        /\ h \in DOMAIN plan <=> h \in DOMAIN now
        /\ h \in DOMAIN plan => plan[h] = now[h]

LEMMA CurrentIsSame ==
    ASSUME NEW t \in Task, NEW h \in Host
    PROVE  PlanIsCurrent(t, h) <=> SameFor(h, change[t].spec, change[t].plan)
  BY PlanForIs DEF PlanIsCurrent, SameFor

\* Hosts have passed that a plan checks, and their logins succeed to this day.
LoginsOf(c) ==
    c.stage = "verified" =>
        \A h \in c.passed : /\ h \in Checked(c.plan) /\ c.plan[h].new \in Cred
                            /\ <<h, c.plan[h].new>> \in works
LoginsHold == \A t \in Task : LoginsOf(change[t])

Sound == Typed /\ LoginsHold

LEMMA InitSound == Init => Sound
  BY InitTyped, IdleTyped DEF Init, Sound, LoginsHold, LoginsOf

\* The logins with credentials that administrators assign succeed as before.
CredsWork == \A h \in Host, c \in Cred : <<h, c>> \in works => <<h, c>> \in works'

\* A step that leaves the tasks alone, and one that replaces the record of one.
LEMMA OtherStepsHold ==
    ASSUME Typed, LoginsHold, CredsWork, change' = change
    PROVE  LoginsHold'
  <1> SUFFICES ASSUME NEW t \in Task, change[t].stage = "verified", NEW h \in change[t].passed
               PROVE  /\ h \in Checked(change[t].plan) /\ change[t].plan[h].new \in Cred
                      /\ <<h, change[t].plan[h].new>> \in works'
    BY DEF LoginsHold, LoginsOf, Checked
  <1>1. /\ h \in Checked(change[t].plan) /\ change[t].plan[h].new \in Cred
        /\ <<h, change[t].plan[h].new>> \in works
    BY DEF LoginsHold, LoginsOf
  <1>2. h \in Host
    BY TypedParts, <1>1 DEF Others
  <1> QED
    BY <1>1, <1>2 DEF CredsWork

LEMMA TaskStepsHold ==
    ASSUME Typed, LoginsHold, NEW t \in Task, NEW c, change' = [change EXCEPT ![t] = c], works' = works,
           LoginsOf(c)
    PROVE  LoginsHold'
  <1>1. \A u \in Task : change'[u] = IF u = t THEN c ELSE change[u]
    BY TypedParts DEF Changes
  <1> QED
    BY <1>1 DEF LoginsHold, LoginsOf, Checked

LEMMA VerifySound ==
    ASSUME Sound, NEW t \in Task, VerifyLogins(t)
    PROVE  LoginsHold'
  <1> DEFINE plan == BuildPlan(change[t].spec)
  <1>1. PICK passed \in SUBSET {h \in Logins(plan) : plan[h].new \in creds} :
          change' = [change EXCEPT ![t] = [@ EXCEPT !.stage = "verified", !.plan = plan, !.passed = passed]]
    BY DEF VerifyLogins
  <1> HIDE DEF plan
  <1> DEFINE c == [change[t] EXCEPT !.stage = "verified", !.plan = plan, !.passed = passed]
  <1>2. change' = [change EXCEPT ![t] = c] /\ works' = works
    BY <1>1 DEF VerifyLogins
  <1>3. c.plan = plan /\ c.passed = passed
    BY TypedParts DEF Sound, Changes
  <1>4. creds \subseteq Cred
    BY TypedParts DEF Sound, Tables
  <1> HIDE DEF c
  <1>5. LoginsOf(c)
    BY <1>1, <1>3, <1>4 DEF LoginsOf, Logins
  <1> QED
    BY <1>2, <1>5, TaskStepsHold DEF Sound

LEMMA TaskSound ==
    ASSUME Sound, NEW t \in Task,
           (\E spec \in Request : ChangeLater(t, spec)) \/ ApplyVerified(t) \/ ChangeFails(t)
    PROVE  LoginsHold'
  <1>1. PICK c : /\ change' = [change EXCEPT ![t] = c] /\ works' = works /\ c.stage # "verified"
    <2>1. Idle.stage # "verified" /\ \A spec : [Idle EXCEPT !.stage = "queued", !.spec = spec].stage # "verified"
      BY DEF Idle
    <2> QED
      BY <2>1 DEF ChangeLater, ApplyVerified, ChangeFails
  <1> QED
    BY <1>1, TaskStepsHold DEF Sound, LoginsOf

LEMMA NextSound == Sound /\ [Next]_vars => Sound'
  <1> SUFFICES ASSUME Sound, [Next]_vars PROVE LoginsHold'
    BY NextTyped DEF Sound
  <1>1. Typed /\ LoginsHold
    BY DEF Sound
  <1>2. ASSUME change' = change, works' = works PROVE LoginsHold'
    BY <1>1, <1>2, OtherStepsHold DEF CredsWork
  <1>3. ASSUME NEW spec \in Request, ChangeNow(spec) PROVE LoginsHold'
    BY <1>2, <1>3 DEF ChangeNow
  <1>4. ASSUME NEW t \in Task, NEW spec \in Request, ChangeLater(t, spec) PROVE LoginsHold'
    BY <1>4, TaskSound
  <1>5. ASSUME NEW t \in Task, VerifyLogins(t) \/ ApplyVerified(t) \/ ChangeFails(t) PROVE LoginsHold'
    BY <1>5, VerifySound, TaskSound
  <1>6. ASSUME NEW hs \in SUBSET Host, NEW g \in Group \cup {None}, Move(hs, g) PROVE LoginsHold'
    BY <1>2, <1>6 DEF Move
  <1>7. ASSUME NEW g \in Group, NEW p \in Group \cup {None}, NEW c \in Cred \cup {None}, CreateGroup(g, p, c)
        PROVE  LoginsHold'
    BY <1>2, <1>7 DEF CreateGroup
  <1>8. ASSUME NEW h \in Host, AutoGroup(h) PROVE LoginsHold'
    BY <1>2, <1>8 DEF AutoGroup
  <1>9. ASSUME NEW h \in Host, KeyStep(h) PROVE LoginsHold'
    <2>1. change' = change
      BY <1>9 DEF KeyStep, Register, KeyArrives, AnswerLost, Uninstall
    <2>2. CredsWork
      BY <1>9, NoneIsNoGroup DEF KeyStep, Register, KeyArrives, AnswerLost, Uninstall, CredsWork
    <2> QED
      BY <1>1, <2>1, <2>2, OtherStepsHold
  <1>10. ASSUME PruneRead \/ PruneDelete PROVE LoginsHold'
    BY <1>2, <1>10 DEF PruneRead, PruneDelete
  <1>11. ASSUME NEW g \in Group, DeleteGroup(g) PROVE LoginsHold'
    BY <1>2, <1>11 DEF DeleteGroup
  <1>12. ASSUME NEW c \in Cred, DeleteCredential(c) PROVE LoginsHold'
    BY <1>2, <1>12 DEF DeleteCredential
  <1>13. ASSUME UNCHANGED vars PROVE LoginsHold'
    BY <1>2, <1>13 DEF vars
  <1> QED
    BY <1>3, <1>4, <1>5, <1>6, <1>7, <1>8, <1>9, <1>10, <1>11, <1>12, <1>13 DEF Next, KeyStep

LEMMA StaysSound == Spec => []Sound
  BY InitSound, NextSound, PTL DEF Spec
-----------------------------------------------------------------------------
(* What a step leaves of the credentials in use.                           *)

LEMMA AccessIs ==
    ASSUME NEW h \in Host
    PROVE  /\ Access(h) = EffectiveCredential(own[h], group[h], tree)
           /\ Access(h)' = EffectiveCredential(own'[h], group'[h], tree')
  BY DEF Access

\* A tree that has gained groups gives what it gave.
LEMMA GrownTreeGives ==
    ASSUME NEW tr, NEW nt, NEW cs, TreeOK(tr, cs), TreeOK(nt, cs),
           DOMAIN tr \subseteq DOMAIN nt, \A x \in DOMAIN tr : nt[x] = tr[x],
           NEW g \in DOMAIN tr \cup {None}
    PROVE  Inherited(g, nt) = Inherited(g, tr)
  <1>1. DOMAIN tr \subseteq Group /\ g \in Group \cup {None}
    BY DEF TreeOK
  <1>2. Inherited(g, tr) = Nearest(g, tr) /\ Inherited(g, nt) = Nearest(g, nt)
    BY <1>1, InheritedIsNearest
  <1>3. None \notin DOMAIN tr /\ None \notin DOMAIN nt
    BY NoneIsNoGroup DEF TreeOK
  <1>4. \A x \in DOMAIN tr : tr[x].parent # None => tr[x].parent \in DOMAIN tr
    BY ParentIsTop
  <1> QED
    BY <1>2, <1>3, <1>4 DEF Nearest

\* A room that gets its floor gives the credential it gave, if it gave one.
LEMMA RoomedTreeGives ==
    ASSUME NEW tr, NEW cs \in SUBSET Cred, TreeOK(tr, cs), NEW r \in Group, Floor[r] # r,
           NEW g \in DOMAIN tr \cup {None}, Inherited(g, tr) # None
    PROVE  Inherited(g, WithRoom(r, tr)) = Inherited(g, tr)
  <1> DEFINE nt == WithRoom(r, tr)
  <1>1. /\ TreeOK(nt, cs) /\ DOMAIN nt = DOMAIN tr \cup {r, Floor[r]}
        /\ \A x \in DOMAIN tr : /\ nt[x].cred = tr[x].cred
                                /\ nt[x].parent = tr[x].parent \/ (x = r /\ tr[x].parent = None)
    BY WithRoomOK
  <1> HIDE DEF nt
  <1>2. DOMAIN tr \subseteq Group /\ g \in Group \cup {None}
    BY DEF TreeOK
  <1>3. Inherited(g, tr) = Nearest(g, tr) /\ Inherited(g, nt) = Nearest(g, nt)
    BY <1>1, <1>2, InheritedIsNearest
  <1>4. g \in DOMAIN tr
    BY <1>3 DEF Nearest
  <1>5. tr[g].parent # None => tr[g].parent \in DOMAIN tr
    BY <1>4, ParentIsTop
  <1> QED
    BY <1>1, <1>3, <1>4, <1>5 DEF Nearest, nt

\* Applying a plan that is up to date for h gives h what it says: the key lemma.
LEMMA AppliedAsPlanned ==
    ASSUME Typed, NEW spec \in Request, ~ByName \/ spec.action # "move_to_group",
           NEW plan, NEW passed, Apply(spec, plan, passed), passed \subseteq Checked(plan),
           NEW h \in Host, SameFor(h, spec, plan)
    PROVE  IF h \notin DOMAIN plan THEN Access(h)' = Access(h)
           ELSE IF h \in OkHosts(plan, passed) THEN Access(h)' = plan[h].new
           ELSE plan[h].old = None \/ Access(h)' = plan[h].old
  <1> DEFINE A == AccessFor(h, tree, group, own)
             P == PlannedFor(h, spec, tree, group, own)
             D == ConcernsFor(spec, tree, group, own)
             ok == OkHosts(plan, passed)
  <1>1. /\ h \in DOMAIN plan <=> h \in D
        /\ h \in DOMAIN plan => plan[h].old = A /\ plan[h].new = P
    BY DEF SameFor, PlanFor
  <1>2. /\ h \in Checked(plan) <=> h \in DOMAIN plan /\ P # A
        /\ h \in ok <=> h \in DOMAIN plan /\ (P = A \/ h \in passed)
        /\ h \in passed => h \in Checked(plan)
    BY <1>1 DEF Checked, OkHosts
  <1>3. Access(h) = A /\ Access(h)' = AccessFor(h, tree', group', own')
    BY DEF Access, AccessFor
  <1>4. spec.action \in Actions
    BY DEF Request
  <1>5. CASE spec.action = "set_host_credential"
    <2>1. /\ own' = [x \in Host |-> IF x \in ok THEN spec.cred ELSE own[x]]
          /\ UNCHANGED <<tree, group>>
      BY <1>5 DEF Apply
    <2>2. P = EffectiveCredential(spec.cred, group[h], tree)
      BY <1>5 DEF PlannedFor
    <2>3. AccessFor(h, tree', group', own') = IF h \in ok THEN P ELSE A
      <3> HIDE DEF ok, P
      <3> QED
        BY <2>1, <2>2 DEF AccessFor
    <2> HIDE DEF A, P, D, ok
    <2> QED
      BY <1>1, <1>2, <1>3, <2>3 DEF ok
  <1>6. CASE spec.action = "move_to_group"
    <2>1. /\ group' = [x \in Host |-> IF x \in ok THEN spec.group ELSE group[x]]
          /\ UNCHANGED <<tree, own>>
      BY <1>6 DEF Apply
    <2>2. P = EffectiveCredential(own[h], spec.group, tree)
      BY <1>6 DEF PlannedFor, PlannedGroup
    <2>3. AccessFor(h, tree', group', own') = IF h \in ok THEN P ELSE A
      <3> HIDE DEF ok, P
      <3> QED
        BY <2>1, <2>2 DEF AccessFor
    <2> HIDE DEF A, P, D, ok
    <2> QED
      BY <1>1, <1>2, <1>3, <2>3 DEF ok
  <1>7. CASE spec.action = "set_group_credential"
    <2> DEFINE X == {x \in Checked(plan) \ passed : plan[x].old # None /\ own[x] = None}
    <2>1. /\ tree' = [tree EXCEPT ![spec.group].cred = spec.cred]
          /\ own' = [x \in Host |-> IF x \in DOMAIN Pinned(plan, passed)
                                   THEN Pinned(plan, passed)[x] ELSE own[x]]
          /\ group' = group
      BY <1>7 DEF Apply
    <2>2. DOMAIN Pinned(plan, passed) = X /\ \A x \in X : Pinned(plan, passed)[x] = plan[x].old
      BY DEF Pinned
    <2>3. h \in D <=> P # A
      BY <1>7 DEF ConcernsFor
    <2>4. P = EffectiveCredential(own[h], group[h], tree')
      BY <1>7, <2>1 DEF PlannedFor
    <2>5. AccessFor(h, tree', group', own') =
              IF h \in X THEN EffectiveCredential(plan[h].old, group[h], tree') ELSE P
      <3> HIDE DEF X, P
      <3> QED
        BY <2>1, <2>2, <2>4 DEF AccessFor
    <2>6. own[h] # None => P = A
      BY <2>4 DEF EffectiveCredential, AccessFor
    <2>7. h \in X => EffectiveCredential(plan[h].old, group[h], tree') = plan[h].old
      BY DEF EffectiveCredential
    <2>8. h \in X <=> h \in Checked(plan) /\ h \notin passed /\ plan[h].old # None /\ own[h] = None
      OBVIOUS
    <2> HIDE DEF A, P, X, D, ok
    <2> QED
      BY <1>1, <1>2, <1>3, <2>3, <2>5, <2>6, <2>7, <2>8 DEF ok
  <1> QED
    BY <1>4, <1>5, <1>6, <1>7 DEF Actions

-----------------------------------------------------------------------------
(* What a change does to the access of hosts.                              *)

\* A change that is applied at once is planned as things are.
LEMMA NowIsCurrent ==
    ASSUME NEW spec, ChangeNow(spec), NEW h \in Host
    PROVE  SameFor(h, spec, BuildPlan(spec))
  BY PlanForIs DEF SameFor, ChangeNow, Accepted, PlannableFor

LEMMA NowIsNothing ==
    ASSUME Typed, NEW spec \in Request, ChangeNow(spec), ~ByName \/ spec.action # "move_to_group",
           NEW h \in Host
    PROVE  Access(h)' = Access(h)
  <1> DEFINE plan == BuildPlan(spec)
  <1>1. Checked(plan) = {} /\ Apply(spec, plan, {}) /\ SameFor(h, spec, plan)
    BY NowIsCurrent DEF ChangeNow
  <1>2. DOMAIN plan = Concerns(spec) /\ \A x \in Concerns(spec) : plan[x].old = Access(x)
    BY DEF BuildPlan
  <1> HIDE DEF plan
  <1>3. IF h \notin DOMAIN plan THEN Access(h)' = Access(h)
        ELSE IF h \in OkHosts(plan, {}) THEN Access(h)' = plan[h].new
        ELSE plan[h].old = None \/ Access(h)' = plan[h].old
    BY <1>1, AppliedAsPlanned
  <1>4. \A x \in DOMAIN plan : x \in OkHosts(plan, {}) /\ plan[x].new = plan[x].old
    BY <1>1 DEF OkHosts, Checked
  <1> QED
    BY <1>2, <1>3, <1>4

\* A change that POST /hosts/access-changes applies at once, without a login,
\* changes the access of no host, whatever runs beside it.
THEOREM UncheckedIsNothing ==
    ASSUME ~ByName
    PROVE  Spec => UncheckedStays
  <1>1. Typed => [\A h \in Host : Access(h)' # Access(h) => \A spec \in Request : ~ChangeNow(spec)]_vars
    BY NowIsNothing
  <1> QED
    BY <1>1, InitTyped, NextTyped, PTL DEF Spec, UncheckedStays

\* What an application has of its task.
LEMMA AppliedTask ==
    ASSUME Sound, NEW t \in Task, ApplyVerified(t)
    PROVE  /\ change[t].spec \in Request /\ change[t].passed \subseteq Checked(change[t].plan)
           /\ \A x \in change[t].passed : /\ change[t].plan[x].new \in Cred
                                          /\ <<x, change[t].plan[x].new>> \in works
           /\ Apply(change[t].spec, change[t].plan, change[t].passed) /\ Typed /\ works' = works
  BY TaskTyped DEF Sound, LoginsHold, LoginsOf, ApplyVerified

LEMMA VerifiedIsApplied ==
    ASSUME ~ByName
    PROVE  Spec => ChangeIsAsVerified
  <1> DEFINE AsVerified(t) ==
        \A h \in Host : PlanIsCurrent(t, h) =>
            IF h \notin DOMAIN change[t].plan THEN Access(h)' = Access(h)
            ELSE LET p == change[t].plan[h]
                 IN  IF h \in OkHosts(change[t].plan, change[t].passed) THEN Access(h)' = p.new
                     ELSE p.old = None \/ Access(h)' = p.old
  <1>1. Sound => [\A t \in Task : ApplyVerified(t) => AsVerified(t)]_vars
    BY AppliedTask, CurrentIsSame, AppliedAsPlanned
  <1> QED
    BY <1>1, StaysSound, PTL DEF ChangeIsAsVerified

\* A task applies what it verified, whatever happened during its logins to
\* other hosts: a host that it logged in to gets the credential it logged in
\* with, one it could not log in to keeps its own, and a host the change does
\* not concern keeps its access; what is applied without a login concerns none
\* (access_change.py, apply_change).
THEOREM ChangesFollowLogins ==
    ASSUME ~ByName
    PROVE  Spec => ChangesAreVerified
  BY VerifiedIsApplied, UncheckedIsNothing DEF ChangesAreVerified

\* A move to a group given by its name, which may exist: it gives access to
\* hosts without any, but leaves a host that has access the one it had.
LEMMA NamedMoveKeeps ==
    ASSUME Typed, NEW spec \in Request, spec.action = "move_to_group", ByName,
           NEW plan, NEW passed, passed \subseteq Checked(plan), \A x \in passed : plan[x].new \in Cred,
           Apply(spec, plan, passed), NEW h \in Host, SameFor(h, spec, plan), Access(h) # None
    PROVE  Access(h)' = Access(h)
  <1>1. /\ tree' \in {tree, NewGroup(tree, spec.group, None, FALSE)}
        /\ tree' # tree => spec.group \in Group
        /\ group'[h] = IF h \in OkHosts(plan, passed) THEN spec.group ELSE group[h]
        /\ own' = own
    BY DEF Apply, Request
  <1>2. /\ TreeOK(tree, creds) /\ creds \in SUBSET Cred /\ group[h] \in DOMAIN tree \cup {None}
    BY TypedParts DEF Tables
  <1>3. CASE own[h] # None
    BY <1>1, <1>3, AccessIs DEF EffectiveCredential
  <1>4. CASE own[h] = None
    <2>1. Inherited(None, tree) = None
      BY <1>2, InheritedIsNearest, NoneIsNoGroup DEF Nearest, TreeOK
    <2>2. h \in DOMAIN plan => plan[h].old = Access(h) /\ plan[h].new = None
      BY <1>4, <2>1 DEF SameFor, PlanFor, PlannedFor, PlannedGroup, AccessFor, Access, EffectiveCredential
    <2>3. h \notin passed
      BY <2>2, NoneIsNoGroup DEF Checked
    <2>4. h \notin OkHosts(plan, passed)
      BY <2>2, <2>3 DEF OkHosts, Checked
    <2>5. Inherited(group[h], tree') = Inherited(group[h], tree)
      <3>1. CASE tree' = tree
        BY <3>1
      <3>2. CASE tree' # tree
        <4>1. tree' = NewGroup(tree, spec.group, None, FALSE) /\ spec.group \in Group
          BY <1>1, <3>2
        <4>2. /\ TreeOK(tree', creds) /\ DOMAIN tree' = DOMAIN tree \cup {spec.group}
              /\ \A x \in DOMAIN tree : tree'[x] = tree[x]
          BY <1>2, <4>1, NamedGroupOK
        <4> QED
          BY <1>2, <4>2, GrownTreeGives
      <3> QED
        BY <3>1, <3>2
    <2> QED
      BY <1>1, <2>4, <2>5, AccessIs DEF EffectiveCredential
  <1> QED
    BY <1>3, <1>4

-----------------------------------------------------------------------------
(* A login that succeeds is not lost.                                      *)

\* An access that works is a credential.
LEMMA WorkingIsSome ==
    ASSUME Typed, NEW h \in Host, <<h, Access(h)>> \in works
    PROVE  Access(h) # None
  BY TypedParts, NoneIsNoGroup DEF Others

LEMMA HostTyped ==
    ASSUME Typed, NEW h \in Host
    PROVE  /\ group[h] \in DOMAIN tree \cup {None} /\ own[h] \in creds \cup {AgentKey, None}
           /\ TreeOK(tree, creds) /\ creds \in SUBSET Cred
  BY TypedParts DEF Tables

LEMMA MoveKeeps ==
    ASSUME Typed, NEW hs \in SUBSET Host, NEW g \in Group \cup {None}, Move(hs, g), NEW h \in Host
    PROVE  Access(h)' = Access(h)
  <1>1. /\ group'[h] = IF h \in hs THEN g ELSE group[h]
        /\ own' = own /\ (h \in hs => EffectiveCredential(own[h], g, tree') = Access(h))
    BY DEF Move, Grouped
  <1>2. Inherited(group[h], tree') = Inherited(group[h], tree)
    BY MoveTree, HostTyped, GrownTreeGives
  <1> QED
    BY <1>1, <1>2, AccessIs DEF EffectiveCredential

LEMMA CreateGroupKeeps ==
    ASSUME Typed, NEW g \in Group, NEW p \in Group \cup {None}, NEW c \in Cred \cup {None},
           CreateGroup(g, p, c), NEW h \in Host
    PROVE  Access(h)' = Access(h)
  <1>1. own' = own /\ group' = group
    BY DEF CreateGroup, hostVars
  <1>2. DOMAIN tree \subseteq DOMAIN tree'
    BY CreateGroupTree
  <1>3. Inherited(group[h], tree') = Inherited(group[h], tree)
    BY <1>2, CreateGroupTree, HostTyped, GrownTreeGives
  <1> QED
    BY <1>1, <1>3, AccessIs DEF EffectiveCredential

LEMMA AutoGroupKeeps ==
    ASSUME Typed, NEW p \in Host, AutoGroup(p), NEW h \in Host, Access(h) # None
    PROVE  Access(h)' = Access(h)
  <1>1. /\ tree' = WithRoom(Room[p], tree) /\ own' = own
        /\ group'[h] = IF h \in (IF KeepsSshAccess(p, tree') THEN {p} ELSE {}) THEN Room[p] ELSE group[h]
    BY DEF AutoGroup, Grouped
  <1>2. Inherited(group[h], tree) # None => Inherited(group[h], tree') = Inherited(group[h], tree)
    BY <1>1, HostTyped, RoomOfScheme, RoomedTreeGives
  <1>3. CASE own[h] # None
    BY <1>1, <1>3, AccessIs DEF EffectiveCredential
  <1>4. CASE own[h] = None
    <2>1. Access(h) = Inherited(group[h], tree) /\ Access(h)' = Inherited(group'[h], tree')
      BY <1>1, <1>4, AccessIs DEF EffectiveCredential
    <2>2. Inherited(group[h], tree') = Access(h)
      BY <1>2, <2>1
    <2>3. CASE KeepsSshAccess(p, tree') /\ h = p
      <3>1. group'[h] = Room[p]
        BY <1>1, <2>3
      <3>2. Inherited(group[p], tree') = Inherited(Room[p], tree')
        BY <1>4, <2>2, <2>3 DEF KeepsSshAccess
      <3> QED
        BY <2>1, <2>2, <2>3, <3>1, <3>2
    <2>4. CASE ~(KeepsSshAccess(p, tree') /\ h = p)
      <3>1. group'[h] = group[h]
        BY <1>1, <2>4
      <3> QED
        BY <2>1, <2>2, <3>1
    <2> QED
      BY <2>3, <2>4
  <1> QED
    BY <1>3, <1>4

LEMMA KeyStepKeeps ==
    ASSUME Typed, NEW p \in Host, KeyStep(p), NEW h \in Host, LosesAccess(h)
    PROVE  h \in issued' \ issued
  <1>1. tree' = tree /\ group' = group /\ own \in [Host -> creds \cup {AgentKey, None}]
    BY TypedParts DEF KeyStep, Register, KeyArrives, AnswerLost, Uninstall, Tables, hostVars
  <1>2. own'[h] # own[h]
    BY <1>1, AccessIs DEF LosesAccess
  <1>3. h = p /\ (Register(p) \/ Uninstall(p))
    BY <1>1, <1>2 DEF KeyStep, Register, KeyArrives, AnswerLost, Uninstall, hostVars
  <1>4. CASE Register(p)
    BY <1>3, <1>4 DEF Register
  <1>5. CASE Uninstall(p)
    <2>1. own[h] = AgentKey /\ <<h, AgentKey>> \notin works'
      BY <1>3, <1>5 DEF Uninstall
    <2> QED
      BY <2>1, AccessIs, NoneIsNoGroup DEF LosesAccess, EffectiveCredential
  <1> QED
    BY <1>3, <1>4, <1>5

LEMMA ApplyKeeps ==
    ASSUME Sound, NEW t \in Task, ApplyVerified(t), NEW h \in Host, PlanIsCurrent(t, h)
    PROVE  ~LosesAccess(h)
  <1> DEFINE spec == change[t].spec
             plan == change[t].plan
             passed == change[t].passed
  <1>1. /\ spec \in Request /\ passed \subseteq Checked(plan)
        /\ \A x \in passed : plan[x].new \in Cred /\ <<x, plan[x].new>> \in works
        /\ Apply(spec, plan, passed) /\ Typed /\ works' = works /\ SameFor(h, spec, plan)
    BY AppliedTask, CurrentIsSame
  <1> HIDE DEF spec, plan, passed
  <1>2. CASE ByName /\ spec.action = "move_to_group"
    BY <1>1, <1>2, NamedMoveKeeps, WorkingIsSome DEF LosesAccess
  <1>3. CASE ~ByName \/ spec.action # "move_to_group"
    <2>1. IF h \notin DOMAIN plan THEN Access(h)' = Access(h)
          ELSE IF h \in OkHosts(plan, passed) THEN Access(h)' = plan[h].new
          ELSE plan[h].old = None \/ Access(h)' = plan[h].old
      BY <1>1, <1>3, AppliedAsPlanned
    <2>2. plan[h].old = Access(h) \/ h \notin DOMAIN plan
      BY <1>1 DEF SameFor, PlanFor, AccessFor, Access
    <2>3. h \in OkHosts(plan, passed) => h \in passed \/ plan[h].new = plan[h].old
      BY DEF OkHosts, Checked
    <2> QED
      BY <1>1, <2>1, <2>2, <2>3, WorkingIsSome DEF LosesAccess
  <1> QED
    BY <1>2, <1>3

LEMMA NowKeeps ==
    ASSUME Typed, NEW spec \in Request, ChangeNow(spec), NEW h \in Host, Access(h) # None
    PROVE  Access(h)' = Access(h)
  <1>1. CASE ByName /\ spec.action = "move_to_group"
    BY <1>1, NowIsCurrent, NamedMoveKeeps DEF ChangeNow
  <1>2. CASE ~ByName \/ spec.action # "move_to_group"
    BY <1>2, NowIsNothing
  <1> QED
    BY <1>1, <1>2

\* A prune of groups that are empty at that moment changes the access of no
\* host: the group of a host is not empty, so its floor is not childless.
LEMMA PruneSpares ==
    ASSUME Typed, PruneDelete, pruning \subseteq EmptyAuto, NEW h \in Host
    PROVE  Access(h)' = Access(h)
  <1>1. /\ TreeOK(tree, creds) /\ group \in [Host -> DOMAIN tree \cup {None}]
    BY TypedParts DEF Tables
  <1>2. Without(pruning) /\ own' = own
    BY DEF PruneDelete
  <1>3. /\ TreeOK(tree', creds) /\ DOMAIN tree' = DOMAIN tree \ pruning
        /\ \A g \in DOMAIN tree' : /\ tree'[g].cred = tree[g].cred
                                   /\ tree[g].parent \notin pruning => tree'[g] = tree[g]
        /\ group' = [x \in Host |-> IF group[x] \in pruning THEN None ELSE group[x]]
    BY <1>1, <1>2, WithoutOK
  <1>4. group[h] \notin EmptyAuto
    BY <1>1, EmptyAutoOK DEF Range
  <1>5. group'[h] = group[h]
    BY <1>3, <1>4
  <1>6. CASE group[h] = None
    <2>1. None \notin DOMAIN tree /\ None \notin DOMAIN tree'
      BY <1>1, <1>3, NoneIsNoGroup DEF TreeOK
    <2>2. Inherited(None, tree) = None /\ Inherited(None, tree') = None
      BY <1>1, <1>3, <2>1, InheritedIsNearest DEF Nearest
    <2> QED
      BY <1>2, <1>5, <1>6, <2>2, AccessIs DEF EffectiveCredential
  <1>7. CASE group[h] # None
    <2> DEFINE g == group[h]
               p == tree[group[h]].parent
    <2>1. g \in DOMAIN tree /\ g \in DOMAIN tree' /\ g \in Group
      BY <1>1, <1>3, <1>4, <1>7 DEF TreeOK
    <2>2. p \notin pruning
      BY <1>1, <1>4, <2>1, EmptyAutoOK DEF Childless
    <2>3. tree'[g] = tree[g]
      BY <1>3, <2>1, <2>2
    <2>4. p # None => p \in DOMAIN tree /\ p \in DOMAIN tree' /\ tree'[p].cred = tree[p].cred
      BY <1>1, <1>3, <2>1, <2>2, ParentIsTop
    <2>5. Inherited(g, tree) = Nearest(g, tree) /\ Inherited(g, tree') = Nearest(g, tree')
      BY <1>1, <1>3, <2>1, InheritedIsNearest
    <2> HIDE DEF g, p
    <2>6. Inherited(group[h], tree') = Inherited(group[h], tree)
      BY <2>1, <2>3, <2>4, <2>5 DEF Nearest, g, p
    <2> QED
      BY <1>2, <1>5, <2>6, AccessIs DEF EffectiveCredential
  <1> QED
    BY <1>6, <1>7

LEMMA DeletionsCount ==
    ASSUME Typed, (\E g \in Group : DeleteGroup(g)) \/ (\E c \in Cred : DeleteCredential(c))
    PROVE  deletes' # deletes
  <1>1. deletes' = deletes - 1 /\ deletes \in 0..MaxDeletes
    BY TypedParts DEF Delete, DeleteGroup, DeleteCredential, Others
  <1> QED
    BY <1>1, BoundsAssumption

\* A login that works is lost in four ways only.
LEMMA AccessIsKept == Spec => AccessKept
  <1> DEFINE Kept(h) == LosesAccess(h) =>
                            \/ deletes' # deletes
                            \/ h \in issued' \ issued
                            \/ AppliesStale(h)
                            \/ PruneIsLate
  <1>1. ASSUME Sound, [Next]_vars, NEW h \in Host PROVE Kept(h)
    <2> SUFFICES ASSUME LosesAccess(h), deletes' = deletes, ~AppliesStale(h), ~PruneIsLate
                 PROVE  h \in issued' \ issued
      OBVIOUS
    <2>1. Typed
      BY <1>1 DEF Sound
    <2>2. Access(h) # None /\ Access(h)' # Access(h)
      BY <2>1, WorkingIsSome DEF LosesAccess
    <2>3. ASSUME NEW spec \in Request, ChangeNow(spec) PROVE FALSE
      BY <2>1, <2>2, <2>3, NowKeeps
    <2>4. ASSUME NEW t \in Task, ApplyVerified(t) PROVE FALSE
      BY <1>1, <2>4, ApplyKeeps DEF AppliesStale
    <2>5. ASSUME NEW hs \in SUBSET Host, NEW g \in Group \cup {None}, Move(hs, g) PROVE FALSE
      BY <2>1, <2>2, <2>5, MoveKeeps
    <2>6. ASSUME NEW g \in Group, NEW p \in Group \cup {None}, NEW c \in Cred \cup {None}, CreateGroup(g, p, c)
          PROVE  FALSE
      BY <2>1, <2>2, <2>6, CreateGroupKeeps
    <2>7. ASSUME NEW p \in Host, AutoGroup(p) PROVE FALSE
      BY <2>1, <2>2, <2>7, AutoGroupKeeps
    <2>8. ASSUME NEW p \in Host, KeyStep(p) PROVE h \in issued' \ issued
      BY <2>1, <2>8, KeyStepKeeps
    <2>9. ASSUME PruneDelete PROVE FALSE
      BY <2>1, <2>2, <2>9, PruneSpares DEF PruneIsLate
    <2>10. ASSUME UNCHANGED <<tree, group, own>> PROVE FALSE
      BY <2>2, <2>10, AccessIs
    <2>11. ASSUME NEW t \in Task, NEW spec \in Request, ChangeLater(t, spec) PROVE FALSE
      BY <2>10, <2>11 DEF ChangeLater, hostVars
    <2>12. ASSUME NEW t \in Task, VerifyLogins(t) \/ ChangeFails(t) PROVE FALSE
      BY <2>10, <2>12 DEF VerifyLogins, ChangeFails, hostVars
    <2>13. ASSUME PruneRead PROVE FALSE
      BY <2>10, <2>13 DEF PruneRead, hostVars
    <2>14. ~((\E g \in Group : DeleteGroup(g)) \/ (\E c \in Cred : DeleteCredential(c)))
      BY <2>1, DeletionsCount
    <2>15. ASSUME UNCHANGED vars PROVE FALSE
      BY <2>10, <2>15 DEF vars, hostVars
    <2> QED
      BY <1>1, <2>3, <2>4, <2>5, <2>6, <2>7, <2>8, <2>9, <2>11, <2>12, <2>13, <2>14, <2>15 DEF Next, KeyStep
  <1>2. Sound /\ [Next]_vars => [\A h \in Host : Kept(h)]_vars
    BY <1>1
  <1> QED
    BY <1>2, StaysSound, PTL DEF Spec, AccessKept

LEMMA ApplySparesKeys ==
    ASSUME NEW spec \in Request, NEW plan, NEW passed, passed \subseteq Checked(plan),
           Apply(spec, plan, passed), NEW h \in Host, SameFor(h, spec, plan), own[h] = AgentKey
    PROVE  own'[h] = AgentKey
  <1>1. spec.action = "set_host_credential" => h \notin DOMAIN plan
    BY DEF SameFor, PlanFor, ConcernsFor
  <1>2. OkHosts(plan, passed) \subseteq DOMAIN plan
    BY DEF OkHosts, Checked
  <1>3. spec.action \in Actions /\ own[h] # None
    BY NoneIsNoGroup DEF Request
  <1>4. CASE spec.action = "set_host_credential"
    <2>1. own' = [x \in Host |-> IF x \in OkHosts(plan, passed) THEN spec.cred ELSE own[x]]
      BY <1>4 DEF Apply
    <2> QED
      BY <1>1, <1>2, <1>4, <2>1
  <1>5. CASE spec.action = "move_to_group"
    BY <1>5 DEF Apply
  <1>6. CASE spec.action = "set_group_credential"
    <2>1. own' = [x \in Host |-> IF x \in DOMAIN Pinned(plan, passed)
                                 THEN Pinned(plan, passed)[x] ELSE own[x]]
      BY <1>6 DEF Apply
    <2>2. h \notin DOMAIN Pinned(plan, passed)
      BY <1>3 DEF Pinned
    <2> QED
      BY <2>1, <2>2
  <1> QED
    BY <1>3, <1>4, <1>5, <1>6 DEF Actions

\* An agent's own key goes with the agent or with a plan made before it.
LEMMA KeysStay == Spec => AgentKeyStays
  <1> DEFINE Kept(h) == own[h] = AgentKey /\ own'[h] # AgentKey =>
                            <<h, AgentKey>> \in works \ works' \/ AppliesStale(h)
  <1>1. ASSUME Sound, [Next]_vars, NEW h \in Host PROVE Kept(h)
    <2> SUFFICES ASSUME own[h] = AgentKey, own'[h] # AgentKey, ~AppliesStale(h)
                 PROVE  <<h, AgentKey>> \in works \ works'
      OBVIOUS
    <2>1. ASSUME NEW spec \in Request, ChangeNow(spec) PROVE FALSE
      <3>1. Apply(spec, BuildPlan(spec), {}) /\ SameFor(h, spec, BuildPlan(spec))
        BY <2>1, NowIsCurrent DEF ChangeNow
      <3> QED
        BY <2>1, <3>1, ApplySparesKeys
    <2>2. ASSUME NEW t \in Task, ApplyVerified(t) PROVE FALSE
      <3>1. SameFor(h, change[t].spec, change[t].plan)
        BY <2>2, CurrentIsSame DEF AppliesStale
      <3> QED
        BY <1>1, <2>2, <3>1, AppliedTask, ApplySparesKeys
    <2>3. ASSUME NEW x \in Host, KeyStep(x) PROVE <<h, AgentKey>> \in works \ works'
      <3>1. own \in [Host -> creds \cup {AgentKey, None}]
        BY <1>1, TypedParts DEF Sound, Tables
      <3>2. x = h /\ Uninstall(x)
        BY <2>3, <3>1 DEF KeyStep, Register, KeyArrives, AnswerLost, Uninstall, hostVars
      <3> QED
        BY <3>2 DEF Uninstall
    <2>4. ASSUME NEW c \in Cred, DeleteCredential(c) PROVE FALSE
      BY <2>4, NoneIsNoGroup DEF DeleteCredential
    <2>5. ASSUME own' = own PROVE FALSE
      BY <2>5
    <2>6. ASSUME NEW t \in Task, NEW spec \in Request, ChangeLater(t, spec) PROVE FALSE
      BY <2>5, <2>6 DEF ChangeLater, hostVars
    <2>7. ASSUME NEW t \in Task, VerifyLogins(t) \/ ChangeFails(t) PROVE FALSE
      BY <2>5, <2>7 DEF VerifyLogins, ChangeFails, hostVars
    <2>8. ASSUME NEW hs \in SUBSET Host, NEW g \in Group \cup {None}, Move(hs, g) PROVE FALSE
      BY <2>5, <2>8 DEF Move
    <2>9. ASSUME NEW g \in Group, NEW p \in Group \cup {None}, NEW c \in Cred \cup {None}, CreateGroup(g, p, c)
          PROVE  FALSE
      BY <2>5, <2>9 DEF CreateGroup, hostVars
    <2>10. ASSUME NEW x \in Host, AutoGroup(x) PROVE FALSE
      BY <2>5, <2>10 DEF AutoGroup
    <2>11. ASSUME PruneRead \/ PruneDelete PROVE FALSE
      BY <2>5, <2>11 DEF PruneRead, PruneDelete, hostVars
    <2>12. ASSUME NEW g \in Group, DeleteGroup(g) PROVE FALSE
      BY <2>5, <2>12 DEF DeleteGroup
    <2>13. ASSUME UNCHANGED vars PROVE FALSE
      BY <2>5, <2>13 DEF vars, hostVars
    <2> QED
      BY <1>1, <2>1, <2>2, <2>3, <2>4, <2>6, <2>7, <2>8, <2>9, <2>10, <2>11, <2>12, <2>13 DEF Next, KeyStep
  <1>2. Sound /\ [Next]_vars => [\A h \in Host : Kept(h)]_vars
    BY <1>1
  <1> QED
    BY <1>2, StaysSound, PTL DEF Spec, AgentKeyStays

\* Whatever changes the access of a PC, its own credential, its group, that
\* group's credential or its place in the tree, has logged in with the new
\* credential or has left the old one (access_change.py, keeps_ssh_access of
\* host_grouping.py, _refuse_unverified_move of routers/hosts.py).  A login that
\* works is lost only to a deletion by an administrator, to a registration
\* whose answer has not reached the PC, to a plan that what happened during its
\* logins has made wrong for this PC, and to a prune of groups that have been
\* filled since it read them; the key of an agent only to its uninstallation
\* and to such a plan (credential_rules.py: a change never replaces an agent key).
THEOREM AccessStays == Spec => AccessAndKeysStay
  BY AccessIsKept, KeysStay DEF AccessAndKeysStay
=============================================================================
