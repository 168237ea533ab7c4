---------------------------- MODULE MCBracketSeries ----------------------------
(***************************************************************************)
(* Small instances of BracketSeries.                                       *)
(***************************************************************************)
EXTENDS BracketSeries, TLC

(* The entrants are interchangeable, and so are the requests. *)
Symmetry == Permutations(Side) \cup Permutations(Worker)

(* The two settle paths may be in flight together. *)
SettleTwice == {{"race", "queue"}}
=============================================================================
