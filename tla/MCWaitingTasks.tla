--------------------------- MODULE MCWaitingTasks ---------------------------
(* Small instances of WaitingTasks for TLC.                                *)
EXTENDS WaitingTasks, TLC

\* Hosts, workers and playbooks are interchangeable.  Batches are not: Create
\* and Flush take the free batch that CHOOSE names.
Symmetry == Permutations(Host) \cup Permutations(Worker) \cup Permutations(Playbook)
=============================================================================
