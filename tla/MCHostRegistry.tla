--------------------------- MODULE MCHostRegistry ---------------------------
(* Instances of HostRegistry for TLC.                                      *)
EXTENDS HostRegistry, TLC

OwnAddress == [p \in PC |-> p]

Symmetry == Permutations(PC) \cup Permutations(Name)

\* Two installations over another, or one and a record entered by hand: both
\* together pass six million states.
RecordsInit ==
    /\ Init
    /\ left \in {[reinstalls |-> 2, entries |-> 0, deletes |-> 1],
                 [reinstalls |-> 1, entries |-> 1, deletes |-> 1]}
RecordsSpec == RecordsInit /\ [][Next]_vars

\* Two installations over another.
LiveInit == Init /\ left = [reinstalls |-> 2, entries |-> 0, deletes |-> 0]
LiveSpec == LiveInit /\ [][Next]_vars /\ Fairness
=============================================================================
