------------------------------ MODULE Accounts ------------------------------
(***************************************************************************)
(* Accounts and sign-in: local accounts, accounts of the domain whose role *)
(* follows the groups of the directory unless an administrator has set one *)
(* (services/ldap_users.py), and the requests that change roles or delete  *)
(* accounts (routers/users.py, routers/auth.py).                           *)
(*                                                                         *)
(* Those requests lock the rows of the active administrators before they   *)
(* count them.  A sync with the directory reads the row, asks a domain     *)
(* controller and writes afterwards without a lock; SQLAlchemy writes the  *)
(* columns whose value it changes.  Passwords, the second factor and the   *)
(* limit of attempts are left out; is_active never changes in this code.   *)
(***************************************************************************)
EXTENDS Naturals, FiniteSets

CONSTANTS
    Person,
    Domain,      \* those who have a domain account, the others a local one
    Request,     \* role changes and deletions in progress at once
    MaxRequests, \* bound: role changes and deletions
    MaxChanges   \* bound: changes in the directory

VARIABLES
    accounts,  \* person -> the row of users
    directory, \* person -> the role its groups give, "none" outside of them
    requests,  \* role changes and deletions
    checks,    \* person -> the sign-in or refresh that asks the directory
    signedIn,  \* persons who hold a refresh token that was accepted last
    credit     \* what remains of the bounds

vars == <<accounts, directory, requests, checks, signedIn, credit>>

Roles == {"admin", "operator"}

Account == [exists : BOOLEAN, role : Roles, ldapRole : Roles \cup {"none"},
            override : Roles \cup {"none"}]
NoAccount == [exists |-> FALSE, role |-> "operator", ldapRole |-> "none", override |-> "none"]

NoRequest == [stage |-> "idle", actor |-> CHOOSE u \in Person : TRUE,
              target |-> CHOOSE u \in Person : TRUE, role |-> "delete", rows |-> {}]
NoSync == [stage |-> "idle", read |-> NoAccount, group |-> "none"]

AccountsTypeOK ==
    /\ accounts \in [Person -> Account]
    /\ directory \in [Person -> Roles \cup {"none"}]
    /\ requests \in [Request -> [stage : {"idle", "begun", "waiting", "locked"}, actor : Person,
                                 target : Person, role : Roles \cup {"delete"},
                                 rows : SUBSET Person]]
    /\ checks \in [Person -> [stage : {"idle", "asked"}, read : Account,
                             group : Roles \cup {"none"}]]
    /\ signedIn \in SUBSET Person
    /\ credit \in [requests : 0..MaxRequests, changes : 0..MaxChanges]

Init ==
    /\ accounts = [u \in Person |-> NoAccount]
    /\ directory \in [Person -> Roles \cup {"none"}]
    /\ \A u \in Person \ Domain : directory[u] = "none"
    /\ requests = [r \in Request |-> NoRequest]
    /\ checks = [u \in Person |-> NoSync]
    /\ signedIn = {}
    /\ credit = [requests |-> MaxRequests, changes |-> MaxChanges]

Spend(kind) ==
    /\ credit[kind] > 0
    /\ credit' = [credit EXCEPT ![kind] = @ - 1]

IsAdmin(u) == accounts[u].exists /\ accounts[u].role = "admin"
Admins     == {u \in Person : IsAdmin(u)}

\* Rows held by SELECT ... FOR UPDATE.
Locked(u) == \E r \in Request : requests[r].stage = "locked" /\ u \in requests[r].rows

-----------------------------------------------------------------------------
(* Local accounts.                                                         *)

\* register: the first account of all is an administrator.
Register(u) ==
    /\ u \notin Domain
    /\ \A v \in Person : ~accounts[v].exists
    /\ accounts' = [accounts EXCEPT ![u] = [NoAccount EXCEPT !.exists = TRUE, !.role = "admin"]]
    /\ UNCHANGED <<directory, requests, checks, signedIn, credit>>

\* create_user.
Create(u, role) ==
    /\ u \notin Domain
    /\ ~accounts[u].exists /\ Admins # {}
    /\ accounts' = [accounts EXCEPT ![u] = [NoAccount EXCEPT !.exists = TRUE, !.role = role]]
    /\ UNCHANGED <<directory, requests, checks, signedIn, credit>>

-----------------------------------------------------------------------------
(* Role changes and deletions.                                             *)

\* require_roles has let the administrator in, the target is loaded.
Begin(r, actor, target, role) ==
    /\ requests[r].stage = "idle"
    /\ IsAdmin(actor)
    /\ accounts[target].exists
    /\ Spend("requests")
    /\ requests' = [requests EXCEPT ![r] = [stage |-> "begun", actor |-> actor, target |-> target,
                                            role |-> role, rows |-> {}]]
    /\ UNCHANGED <<accounts, directory, checks, signedIn>>

\* SELECT ... FOR UPDATE finds the rows of the snapshot at its start ...
Count(r) ==
    /\ requests[r].stage = "begun"
    /\ requests' = [requests EXCEPT ![r].stage = "waiting", ![r].rows = Admins]
    /\ UNCHANGED <<accounts, directory, checks, signedIn, credit>>

\* Mutant: the rows of the snapshot are counted as they were.
LockAsSeen(r) ==
    /\ requests[r].stage = "waiting"
    /\ ~ \E u \in requests[r].rows : Locked(u)
    /\ requests' = [requests EXCEPT ![r].stage = "locked"]
    /\ UNCHANGED <<accounts, directory, checks, signedIn, credit>>

\* ... and keeps those that still match once nobody else holds them.
Lock(r) ==
    /\ requests[r].stage = "waiting"
    /\ ~ \E u \in requests[r].rows : Locked(u)
    /\ requests' = [requests EXCEPT ![r].stage = "locked", ![r].rows = @ \cap Admins]
    /\ UNCHANGED <<accounts, directory, checks, signedIn, credit>>

\* validate_role_change, validate_user_delete: the target as refreshed.
TakesAdmin(r) == requests[r].role # "admin" /\ IsAdmin(requests[r].target)

Allowed(r) ==
    /\ accounts[requests[r].target].exists
    /\ requests[r].actor # requests[r].target
    /\ TakesAdmin(r) => Cardinality(requests[r].rows) > 1

\* set_manual_role: setting the role of the groups ends the manual one.
Manual(u, role) ==
    [accounts[u] EXCEPT !.role = role,
                        !.override = IF u \notin Domain \/ role = accounts[u].ldapRole THEN "none" ELSE role]

\* update_user_role and delete_user: decided and committed; the write waits
\* for a row another request holds.
Commit(r) ==
    /\ requests[r].stage = "locked"
    /\ \A q \in Request \ {r} :
          requests[q].stage = "locked" => requests[r].target \notin requests[q].rows
    /\ accounts' = IF ~Allowed(r) THEN accounts
                   ELSE [accounts EXCEPT ![requests[r].target] =
                            IF requests[r].role = "delete" THEN NoAccount
                            ELSE Manual(requests[r].target, requests[r].role)]
    /\ requests' = [requests EXCEPT ![r] = NoRequest]
    /\ UNCHANGED <<directory, checks, signedIn, credit>>

-----------------------------------------------------------------------------
(* The domain.                                                             *)

\* Somebody joins or leaves the groups of the roles, or is disabled.
Regroup(u) ==
    /\ u \in Domain
    /\ Spend("changes")
    /\ \E g \in Roles \cup {"none"} : g # directory[u] /\ directory' = [directory EXCEPT ![u] = g]
    /\ UNCHANGED <<accounts, requests, checks, signedIn>>

\* _ldap_login and _recheck_ldap: the row is read, the directory answers.
AskDirectory(u) ==
    /\ u \in Domain
    /\ checks[u].stage = "idle"
    /\ directory[u] # "none" \/ u \in signedIn
    /\ checks' = [checks EXCEPT ![u] = [stage |-> "asked", read |-> accounts[u],
                                      group |-> directory[u]]]
    /\ UNCHANGED <<accounts, directory, requests, signedIn, credit>>

\* apply_role on what was read.
EffectiveRole(s) == IF s.read.override # "none" THEN s.read.override ELSE s.group

OrmWrite(old, new, current) == IF new # old THEN new ELSE current

Synced(u) ==
    LET s == checks[u] IN
    IF ~s.read.exists
    THEN [exists |-> TRUE, role |-> s.group, ldapRole |-> s.group, override |-> "none"]
    ELSE [accounts[u] EXCEPT !.role = OrmWrite(s.read.role, EffectiveRole(s), @),
                             !.ldapRole = OrmWrite(s.read.ldapRole, s.group, @)]

\* Mutant: "not in the groups" is taken for a directory that does not answer.
SyncLenient(u) ==
    /\ checks[u].stage = "asked"
    /\ ~Locked(u)
    /\ checks' = [checks EXCEPT ![u] = NoSync]
    /\ IF checks[u].read.exists # accounts[u].exists
       THEN signedIn' = signedIn \ {u} /\ UNCHANGED accounts
       ELSE IF checks[u].group = "none"
       THEN UNCHANGED <<signedIn, accounts>>
       ELSE signedIn' = signedIn \cup {u} /\ accounts' = [accounts EXCEPT ![u] = Synced(u)]
    /\ UNCHANGED <<directory, requests, credit>>

\* sync_user or the end of refresh: an account outside the groups loses the
\* session; one deleted meanwhile fails (no row to update), one created
\* meanwhile fails on its unique name.
Sync(u) ==
    /\ checks[u].stage = "asked"
    /\ ~Locked(u)
    /\ checks' = [checks EXCEPT ![u] = NoSync]
    /\ IF checks[u].group = "none" \/ checks[u].read.exists # accounts[u].exists
       THEN /\ signedIn' = signedIn \ {u}
            /\ UNCHANGED accounts
       ELSE /\ signedIn' = signedIn \cup {u}
            /\ accounts' = [accounts EXCEPT ![u] = Synced(u)]
    /\ UNCHANGED <<directory, requests, credit>>

Step(r) == Count(r) \/ Lock(r) \/ Commit(r)

Next ==
    \/ \E u \in Person :
          \/ Register(u) \/ Regroup(u) \/ AskDirectory(u) \/ Sync(u)
          \/ \E role \in Roles : Create(u, role)
    \/ \E r \in Request :
          \/ Step(r)
          \/ \E actor, target \in Person, role \in Roles \cup {"delete"} :
                Begin(r, actor, target, role)

Spec == Init /\ [][Next]_vars

\* Requests end, and who is signed in keeps refreshing.
Fairness ==
    /\ \A r \in Request : WF_vars(Step(r))
    /\ \A u \in Person : WF_vars(AskDirectory(u)) /\ WF_vars(Sync(u))

-----------------------------------------------------------------------------
(* Properties.                                                             *)

\* No request takes the rights of the last administrator, even when two
\* administrators demote or delete each other at the same time, while the
\* directory changes roles of its own (validate_role_change and
\* validate_user_delete after SELECT ... FOR UPDATE).
KeepsAnAdmin ==
    [][ (\E r \in Request : requests[r].stage = "locked" /\ requests'[r].stage = "idle")
          /\ Admins # {}
            => Admins' # {} ]_vars

\* A role set by hand prevails over the groups: a sync that has read the row
\* before may write over it, but the next one puts it right
\* (models/user.py on role_override).
RoleAgrees(u) ==
    accounts[u].exists =>
        accounts[u].role = IF accounts[u].override # "none" THEN accounts[u].override
                           ELSE accounts[u].ldapRole

Quiet(u) == directory[u] # "none" /\ \A r \in Request : requests[r].stage = "idle"

ManualRoleWins == \A u \in Domain : <>[]Quiet(u) => <>[]RoleAgrees(u)

\* Whoever leaves the groups of the domain loses the session for good,
\* though a refresh that had asked before may still renew it.
LeaversAreOut == \A u \in Domain : <>[](directory[u] = "none") => <>[](u \notin signedIn)
=============================================================================
