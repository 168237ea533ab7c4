----------------------------- MODULE MCPointsStage -----------------------------
(***************************************************************************)
(* Small instances of PointsStage.                                         *)
(***************************************************************************)
EXTENDS PointsStage, TLC

MCScoring == [win |-> 1, loss |-> 0, bye |-> 1]

MCChain == <<"buchholz", "omw", "head_to_head">>

(* Only the small field meets an incident: a correction, a retirement or a *)
(* restart.  Its rounds are fixed, those of the other follow from its size. *)
MCIncidents == [n \in {3, 4} |-> IF n = 3 THEN 1 ELSE 0]
MCSwissRounds == [n \in {3, 4} |-> IF n = 3 THEN 2 ELSE 0]

(* A ruling in one group and a correction in the other. *)
TwoGroupsIncidents == [n \in {6} |-> 1]
TwoGroupsRounds == [n \in {6} |-> 0]

(* Calls are interchangeable. *)
Symmetry == Permutations(Worker)
=============================================================================
