------------------------------ MODULE RoundRobin ------------------------------
(***************************************************************************)
(* The round robin engine (bracket_engines/round_robin.py): n seeds dealt  *)
(* into balanced groups, and in each group every pair once.                *)
(*                                                                         *)
(* A generated match is a record [group, round, position, one, two]; the   *)
(* persisted position is offset by the group, so the three name a row.     *)
(***************************************************************************)
EXTENDS Integers, Sequences, FiniteSets, SequencesExt

Phantom == 0   \* the opponent of a round without a match

(* Seed 1 to group 1, 2 to group 2, and back again. *)
GroupOf(groups, s) ==
  LET pass == (s - 1) \div groups
      offset == (s - 1) % groups
  IN  1 + (IF pass % 2 = 0 THEN offset ELSE groups - 1 - offset)

(* The seeds of a group in order. *)
GroupSeeds(n, groups, g) ==
  LET dealt == {s \in 1..n : GroupOf(groups, s) = g}
  IN  [i \in 1..Cardinality(dealt) |->
        CHOOSE s \in dealt : Cardinality({t \in dealt : t < s}) = i - 1]

(* Mutant: the circle turns with the first player in it. *)
TurnAll(players) == <<Last(players)>> \o Front(players)

(* All but the first move on by one. *)
Turn(players) == <<Head(players), Last(players)>> \o Front(Tail(players))

(* Who stands where in each round. *)
Arrangements(players) ==
  LET at[r \in 1..Len(players) - 1] == IF r = 1 THEN players ELSE Turn(at[r - 1])
  IN  at

(* The circle method: the ends of the row meet, then the next ones in.  An *)
(* odd group has a phantom in it.                                          *)
ScheduleGroup(seeds, g) ==
  LET circle == IF Len(seeds) % 2 = 1 THEN Append(seeds, Phantom) ELSE seeds
      size == Len(circle)
      at == Arrangements(circle)
      played(r) == {i \in 1..size \div 2 : Phantom \notin {at[r][i], at[r][size + 1 - i]}}
  IN  {[group |-> g, round |-> x[1], position |-> Cardinality({i \in played(x[1]) : i <= x[2]}),
        one |-> at[x[1]][x[2]], two |-> at[x[1]][size + 1 - x[2]]] :
       x \in {y \in (1..size - 1) \X (1..size \div 2) : y[2] \in played(y[1])}}

RoundRobinMatches(n, groups) ==
  UNION {ScheduleGroup(GroupSeeds(n, groups, g), g) : g \in 1..groups}

(* What makes it a round robin: two matches never share a row nor a pair, and *)
(* nobody plays two matches of a round.                                       *)
IsRoundRobin(n, groups) ==
  LET rows == RoundRobinMatches(n, groups)
  IN  /\ rows \subseteq [group : Nat, round : 1..n, position : 1..n, one : 1..n, two : 1..n]
      /\ \A x, y \in rows :
           x # y => /\ <<x.group, x.round, x.position>> # <<y.group, y.round, y.position>>
                    /\ {x.one, x.two} # {y.one, y.two}
                    /\ x.round = y.round => {x.one, x.two} \cap {y.one, y.two} = {}
=============================================================================
