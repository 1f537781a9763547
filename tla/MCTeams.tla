-------------------------------- MODULE MCTeams --------------------------------
(***************************************************************************)
(* Instances of Teams for TLC.                                             *)
(***************************************************************************)
EXTENDS TeamsProperties, TLC

(* Names, users and handlers are interchangeable. *)
Symmetry == Permutations(Teams) \cup Permutations(Users) \cup Permutations(Requests)

(* Bound: requests overlap only as long as one team name is in use. *)
InUse == {t \in Teams : id[t] # 0 \/ \E h \in Requests : tx[h].team = t}

TrackedNext == SerialNext /\ (overlapped' => Cardinality(InUse') =< 1)

TrackedSpec == SerialInit /\ [][TrackedNext]_<<vars, overlapped, crossed>>
=============================================================================
