--------------------------- MODULE MCAccessChange ---------------------------
(***************************************************************************)
(* Instance of AccessChange in two parts, one of which a behaviour follows;*)
(* every PC is of one room of one floor.                                   *)
(*                                                                         *)
(* "changes": all requests, tasks, registrations, prunes and deletions,    *)
(* with one credential beside the agents' keys.                            *)
(* "rooms": two credentials, so that a room may have another one than the  *)
(* floor, and what moves PCs between groups.                               *)
(***************************************************************************)
EXTENDS AccessChange

CONSTANTS RoomGroup, FloorGroup, Second

OneRoom == [h \in Host |-> RoomGroup]
OneFloor == [g \in Group |-> FloorGroup]

VARIABLE focus

\* The credentials of the part that is followed.
Usable == IF focus = "changes" THEN Cred \ {Second} ELSE Cred

MCInit ==
    /\ focus \in {"changes", "rooms"}
    /\ Init
    /\ \A g \in DOMAIN tree : tree[g].cred \in Usable \cup {None}
    /\ \A h \in Host : own[h] \in Usable \cup {None}
    /\ works \subseteq Host \X Usable

Changes ==
    \/ \E spec \in {r \in Request : r.cred \in Usable \cup {None}} :
            ChangeNow(spec) \/ \E t \in Task : ChangeLater(t, spec)
    \/ \E t \in Task : VerifyLogins(t) \/ ApplyVerified(t) \/ ChangeFails(t)
    \/ \E h \in Host : Register(h) \/ KeyArrives(h) \/ AnswerLost(h) \/ Uninstall(h)
    \/ \E c \in Usable : DeleteCredential(c)

Moves ==
    \/ \E hs \in SUBSET Host, g \in Group \cup {None} : Move(hs, g)
    \/ \E g \in Group, p \in Group \cup {None}, c \in Usable \cup {None} : CreateGroup(g, p, c)
    \/ \E h \in Host : AutoGroup(h)
    \/ PruneRead \/ PruneDelete
    \/ \E g \in Group : DeleteGroup(g)

MCNext == UNCHANGED focus /\ (Moves \/ (focus = "changes" /\ Changes))

MCSpec == MCInit /\ [][MCNext]_<<focus, vars>>
=============================================================================
