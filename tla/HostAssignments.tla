--------------------------- MODULE HostAssignments ---------------------------
(***************************************************************************)
(* What the grouped runs of backend/services/waiting_tasks.py promise for  *)
(* a host, said without rows, messages and workers.  A run with its        *)
(* playbooks is a sequence of groups.  In each of its groups a host is     *)
(*   held    while the run waits for it to appear,                         *)
(*   taken   once an execution was made for it,                            *)
(*   settled when its result is known or the run dropped it.               *)
(* A host is taken for all the playbooks it is held for at once, its       *)
(* results come in the order of the playbooks, and nothing goes back.      *)
(***************************************************************************)
EXTENDS Integers

CONSTANTS Host, MaxSequences, MaxSteps

VARIABLE phase   \* group -> host -> what the run still owes the host

Sequence == 1 .. MaxSequences
Step     == 1 .. MaxSteps
Group    == Sequence \X Step
Phase    == {"absent", "held", "taken", "settled"}

Init == phase = [g \in Group |-> [h \in Host |-> "absent"]]

Hosts(g, p) == {h \in Host : phase[g][h] = p}
Held        == {p \in Group \X Host : phase[p[1]][p[2]] = "held"}

\* A new run of n playbooks; older runs of the same playbooks drop some of the
\* hosts they hold.
Assign(s, n, held, taken, dropped) ==
    /\ \A k \in Step : Hosts(<<s, k>>, "absent") = Host
    /\ held \cap taken = {}
    /\ phase' = [g \in Group |-> [h \in Host |->
                   IF g[1] = s /\ g[2] <= n /\ h \in held THEN "held"
                   ELSE IF g[1] = s /\ g[2] <= n /\ h \in taken THEN "taken"
                   ELSE IF <<g, h>> \in dropped THEN "settled"
                   ELSE phase[g][h]]]

\* Hosts appeared: from the first group that holds them on they are taken.
Take(s, k, hosts) ==
    /\ hosts \subseteq Hosts(<<s, k>>, "held")
    /\ \A j \in Step : j < k => hosts \cap Hosts(<<s, j>>, "held") = {}
    /\ phase' = [g \in Group |-> [h \in Host |->
                   IF g[1] = s /\ g[2] >= k /\ h \in hosts /\ phase[g][h] = "held"
                   THEN "taken" ELSE phase[g][h]]]

\* Results of a group: the earlier playbooks of these hosts are over.
Settle(s, k, hosts) ==
    /\ hosts \subseteq Hosts(<<s, k>>, "taken")
    /\ \A j \in Step : j < k => hosts \cap Hosts(<<s, j>>, "taken") = {}
    /\ phase' = [phase EXCEPT ![<<s, k>>] =
                   [h \in Host |-> IF h \in hosts THEN "settled" ELSE phase[<<s, k>>][h]]]

\* Nobody came in time.
Withdraw(dropped) ==
    phase' = [g \in Group |-> [h \in Host |->
                IF <<g, h>> \in dropped THEN "settled" ELSE phase[g][h]]]

Next ==
    \/ \E s \in Sequence, n \in Step, held, taken \in SUBSET Host, dropped \in SUBSET Held :
          Assign(s, n, held, taken, dropped)
    \/ \E s \in Sequence, k \in Step, hosts \in SUBSET Host :
          Take(s, k, hosts) \/ Settle(s, k, hosts)
    \/ \E dropped \in SUBSET Held : Withdraw(dropped)

Spec == Init /\ [][Next]_phase
=============================================================================
