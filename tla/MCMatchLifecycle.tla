--------------------------- MODULE MCMatchLifecycle ---------------------------
(***************************************************************************)
(* Small instances of MatchLifecycle.                                      *)
(***************************************************************************)
EXTENDS MatchLifecycle, TLC

Symmetry == Permutations(Worker)

(* Everything may overlap with everything, but for the overlaps that break *)
(* a property.                                                             *)
Pairs == {{a, b} : a, b \in Kind}
Harmful == {{"rewind", "finished"}, {"rewind", "confirmed"}, {"flag", "confirmed"},
            {"room", "finished"}, {"room", "confirmed"}, {"room", "rewind"}}
Harmless == Pairs \ Harmful
=============================================================================
