-------------------------- MODULE EliminationGraph --------------------------
(***************************************************************************)
(* The pure half of an elimination stage: the single and double            *)
(* elimination engines, which turn a field of n seeds into the whole match *)
(* graph before a single game is played (bracket_engines/).                *)
(*                                                                         *)
(* A match is the pair <<round, position>>; losers-bracket rounds are      *)
(* negative, as in the persisted rows.  A pointer is a record [match,      *)
(* slot], NoPointer when the code stores NULL.  Seeds stand for the        *)
(* entries they are resolved to at start; None is an empty slot.           *)
(***************************************************************************)
EXTENDS BracketGraph

SingleElim == "single_elim"
DoubleElim == "double_elim"

To(round, position, slot) == [match |-> <<round, position>>, slot |-> slot]

(* log2 of the field rounded up to a power of two: the winners rounds. *)
Rounds(n) == CHOOSE w \in 0..n : n <= 2^w /\ \A v \in 0..n : n <= 2^v => w <= v

next_power_of_two(n) == 2^Rounds(n)

(* Mutant: the reflection is taken in the field size, not one past it. *)
SeedingReflectedShort(w) ==
  LET order[k \in 0..w] ==
        [i \in 1..2^k |->
          IF k = 0 THEN 1
          ELSE IF i % 2 = 1 THEN order[k - 1][(i + 1) \div 2]
               ELSE 2^k - order[k - 1][i \div 2]]
  IN  order[w]

(* The seed in each slot of the opening round, doubling the order once per *)
(* round: every seed s of the smaller field is followed by its reflection. *)
standard_seeding(w) ==
  LET order[k \in 0..w] ==
        [i \in 1..2^k |->
          IF k = 0 THEN 1
          ELSE IF i % 2 = 1 THEN order[k - 1][(i + 1) \div 2]
               ELSE 2^k + 1 - order[k - 1][i \div 2]]
  IN  order[w]

(* Pairs of neighbours meet in the next round, the odd one in slot 1. *)
Halve(round, position) ==
  To(round, (position + 1) \div 2, IF position % 2 = 1 THEN 1 ELSE 2)

-----------------------------------------------------------------------------
(* Winners bracket, shared by both formats. *)

WinnersMatches(n) ==
  UNION {{<<r, p>> : p \in 1..(next_power_of_two(n) \div 2^r)} : r \in 1..Rounds(n)}

(* The seed an opening slot holds; a seed past the field is a bye. *)
OpeningSeed(n, m, slot) ==
  LET seed == standard_seeding(Rounds(n))[2 * (m[2] - 1) + slot]
  IN  IF m[1] = 1 /\ seed <= n THEN seed ELSE None

SEWinnerTo(n, m) ==
  IF m[1] >= Rounds(n) THEN NoPointer ELSE Halve(m[1] + 1, m[2])

-----------------------------------------------------------------------------
(* Double elimination: losers bracket, grand final and conditional reset. *)

LosersRounds(n) == 2 * Rounds(n) - 2

LosersRoundSize(n, lb) == next_power_of_two(n) \div 2^((lb + 1) \div 2 + 1)

LosersMatches(n) ==
  UNION {{<<-lb, p>> : p \in 1..LosersRoundSize(n, lb)} : lb \in 1..LosersRounds(n)}

GrandFinal(n) == <<Rounds(n) + 1, 1>>
Reset(n) == <<Rounds(n) + 2, 1>>

WBWinnerTo(n, m) ==
  IF m[1] < Rounds(n) THEN Halve(m[1] + 1, m[2])
  ELSE [match |-> GrandFinal(n), slot |-> 1]

(* Mutants: losers drop into the odd losers round before theirs; only      *)
(* opening-round losers drop at all.                                       *)
DropOneRoundEarly(n, m) ==
  CASE m[1] = Rounds(n) /\ Rounds(n) = 1 -> [match |-> GrandFinal(n), slot |-> 2]
    [] m[1] = 1 /\ Rounds(n) > 1 -> Halve(-1, m[2])
    [] OTHER -> To(-(2 * m[1] - 3), m[2], 2)

DropOpeningOnly(n, m) ==
  IF m[1] = 1 /\ Rounds(n) > 1 THEN Halve(-1, m[2]) ELSE NoPointer

WBLoserTo(n, m) ==
  CASE m[1] = Rounds(n) /\ Rounds(n) = 1 -> [match |-> GrandFinal(n), slot |-> 2]
    [] m[1] = Rounds(n) /\ Rounds(n) > 1 -> To(-LosersRounds(n), 1, 2)
    [] m[1] = 1 /\ Rounds(n) > 1 -> Halve(-1, m[2])
    [] OTHER -> To(-(2 * m[1] - 2), m[2], 2)

LBWinnerTo(n, m) ==
  LET lb == -m[1]
  IN  CASE lb = LosersRounds(n) -> [match |-> GrandFinal(n), slot |-> 2]
        [] lb < LosersRounds(n) /\ lb % 2 = 1 -> To(-(lb + 1), m[2], 1)
        [] OTHER -> Halve(-(lb + 1), m[2])

-----------------------------------------------------------------------------
(* The graph a started stage persists: its matches, their two progression  *)
(* pointers and the seeds already sitting in them.  gfReset is the stage's *)
(* grand_final_reset setting.                                              *)

GraphMatches(format, n, gfReset) ==
  IF format = SingleElim THEN WinnersMatches(n)
  ELSE WinnersMatches(n) \cup LosersMatches(n) \cup {GrandFinal(n)}
         \cup (IF gfReset THEN {Reset(n)} ELSE {})

GraphWinnerTo(format, n, gfReset) ==
  [m \in GraphMatches(format, n, gfReset) |->
    CASE format = SingleElim -> SEWinnerTo(n, m)
      [] format = DoubleElim /\ m[1] < 0 -> LBWinnerTo(n, m)
      [] format = DoubleElim /\ m[1] \in 1..Rounds(n) -> WBWinnerTo(n, m)
      [] m = GrandFinal(n) /\ gfReset /\ format = DoubleElim ->
           [match |-> Reset(n), slot |-> 1]
      [] OTHER -> NoPointer]

GraphLoserTo(format, n, gfReset) ==
  [m \in GraphMatches(format, n, gfReset) |->
    CASE format = DoubleElim /\ m[1] \in 1..Rounds(n) -> WBLoserTo(n, m)
      [] m = GrandFinal(n) /\ gfReset /\ format = DoubleElim ->
           [match |-> Reset(n), slot |-> 2]
      [] OTHER -> NoPointer]

GraphSeeds(format, n, gfReset) ==
  [m \in GraphMatches(format, n, gfReset) |->
    [slot \in Slot |-> IF m[1] = 1 THEN OpeningSeed(n, m, slot) ELSE None]]

StageGraph(format, n, gfReset) ==
  [matches |-> GraphMatches(format, n, gfReset),
   winnerTo |-> GraphWinnerTo(format, n, gfReset),
   loserTo |-> GraphLoserTo(format, n, gfReset),
   seeds |-> GraphSeeds(format, n, gfReset),
   round |-> [m \in GraphMatches(format, n, gfReset) |-> m[1]],
   field |-> 1..n]
=============================================================================
