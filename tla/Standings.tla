------------------------------ MODULE Standings ------------------------------
(***************************************************************************)
(* Who is ahead of whom in a stage that is ranked by points                *)
(* (bracket_engines/standings.py): a pure function of the results.         *)
(*                                                                         *)
(* A result is a record [one, two, winner]; a bye has no two.  A bracket   *)
(* match has a winner, so draws are left out.  Percentages are exact here: *)
(* the code averages them as doubles.                                      *)
(***************************************************************************)
EXTENDS Integers, Sequences, FiniteSets, FiniteSetsExt

CONSTANTS
  None,     \* no entry
  Scoring,  \* StandingsConfig: what a win, a loss and a bye are worth
  Exact     \* bound: a multiple of 3 and of every number of matches played

ASSUME ScoringAssumption == Scoring \in [win : Nat, loss : Nat, bye : Nat]
ASSUME ExactAssumption == Exact \in Nat /\ Exact % 3 = 0

Played(results, e) == {r \in results : r.two # None /\ e \in {r.one, r.two}}
Won(results, e) == {r \in Played(results, e) : r.winner = e}
Byes(results, e) == {r \in results : r.two = None /\ r.one = e}
Opponent(r, e) == IF r.one = e THEN r.two ELSE r.one

Points(results, e) ==
  LET wins == Cardinality(Won(results, e))
  IN  wins * Scoring.win + (Cardinality(Played(results, e)) - wins) * Scoring.loss
        + Cardinality(Byes(results, e)) * Scoring.bye

(* Strength of schedule. *)
buchholz(results, e) ==
  MapThenSumSet(LAMBDA r : Points(results, Opponent(r, e)), Played(results, e))

(* A bye is a win and a match played; nobody counts for less than a third. *)
match_win_pct(results, e) ==
  LET wins == Cardinality(Won(results, e) \cup Byes(results, e))
      played == Cardinality(Played(results, e) \cup Byes(results, e))
  IN  Max({(wins * Exact) \div played, Exact \div 3})

omw(results, e) ==
  LET opponents == Played(results, e)
  IN  IF opponents = {} THEN 0
      ELSE (MapThenSumSet(LAMBDA r : match_win_pct(results, Opponent(r, e)), opponents)
              * Exact) \div Cardinality(opponents)

head_to_head(results, group, e) ==
  Cardinality({r \in Won(results, e) : Opponent(r, e) \in group})

Score(results, tiebreaker, group, e) ==
  CASE tiebreaker = "buchholz" -> buchholz(results, e)
    [] tiebreaker = "omw" -> omw(results, e)
    [] tiebreaker = "head_to_head" -> head_to_head(results, group, e)

(* order_group: the entries still tied with e after the first k criteria.  *)
(* Head-to-head counts the games within that group only.                   *)
TiedWith(results, entries, chain, e) ==
  LET tied[k \in 0..Len(chain)] ==
        IF k = 0 THEN {f \in entries : Points(results, f) = Points(results, e)}
        ELSE LET group == tied[k - 1]
                 score == Score(results, chain[k], group, e)
             IN  {f \in group : Score(results, chain[k], group, f) = score}
  IN  tied

AheadOf(results, entries, chain, e) ==
  LET tied == TiedWith(results, entries, chain, e)
  IN  {f \in entries : Points(results, f) > Points(results, e)} \cup
      UNION {LET group == tied[k - 1]
                 score == Score(results, chain[k], group, e)
             IN  {f \in group : Score(results, chain[k], group, f) > score} :
             k \in 1..Len(chain)}

(* compute_standings: competition ranks, 1, 2, 2, 4. *)
RankOf(results, entries, chain, e) ==
  1 + Cardinality(AheadOf(results, entries, chain, e))
=============================================================================
