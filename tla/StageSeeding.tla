----------------------------- MODULE StageSeeding -----------------------------
(***************************************************************************)
(* Who a stage draws from the one before it, and at which seed             *)
(* (_bracket/multistage.py).  Pure: the source's entries are its seeds     *)
(* 1..n, ranked by rank, each in a group (all in one when it has none).    *)
(***************************************************************************)
EXTENDS Integers, Sequences, FiniteSets

Opening == INSTANCE EliminationGraph WITH None <- 0, NoPointer <- 0

(* sorted() is stable, and the entries were listed by seed. *)
Ranked(entries, rank) ==
  LET before(e) == {f \in entries : rank[f] < rank[e] \/ (rank[f] = rank[e] /\ f < e)}
  IN  [i \in 1..Cardinality(entries) |->
        CHOOSE e \in entries : Cardinality(before(e)) = i - 1]

(* The best count of each group, tier by tier: every group's first, then   *)
(* every group's second, and so on.                                        *)
Advancers(entries, rank, groupOf, count) ==
  LET drawn == {groupOf[e] : e \in entries}
      groups == Ranked(drawn, [g \in drawn |-> g])
      best == [i \in DOMAIN groups |->
                Ranked({e \in entries : groupOf[e] = groups[i]}, rank)]
  IN  [i \in 1..count * Len(groups) |->
        best[1 + ((i - 1) % Len(groups))][1 + ((i - 1) \div Len(groups))]]

EnoughRanked(entries, groupOf, count) ==
  /\ entries # {}
  /\ \A g \in {groupOf[e] : e \in entries} :
       Cardinality({e \in entries : groupOf[e] = g}) >= count

(* Mutant: the weak half is dealt in the order of the strong half. *)
SeatGroupsStraight(groups, tiers) ==
  [s \in 1..groups * tiers |-> 1 + ((s - 1) % groups)]

(* Which group gets each seed of the next stage: the pairs of its opening  *)
(* round are dealt out from the strongest, each to the two groups with     *)
(* most seats left, every other pair the other way round; the seeds above  *)
(* them have a bye and take what is left.                                  *)
SeatGroups(groups, tiers) ==
  LET k == groups * tiers
      byes == Opening!next_power_of_two(k) - k
      pairs == (k - byes) \div 2
      most(left) == Ranked(1..groups, [g \in 1..groups |-> -left[g]])
      seat(t, s, g) == [of |-> [t.of EXCEPT ![s] = g], left |-> [t.left EXCEPT ![g] = @ - 1]]
      paired[c \in 0..pairs] ==
        IF c = 0
        THEN [of |-> [s \in 1..k |-> 0], left |-> [g \in 1..groups |-> tiers]]
        ELSE LET t == paired[c - 1]
                 g == most(t.left)
                 strong == byes + c
                 weak == k + 1 - c
             IN  IF c % 2 = 1 THEN seat(seat(t, strong, g[1]), weak, g[2])
                 ELSE seat(seat(t, strong, g[2]), weak, g[1])
      seated[s \in 0..byes] ==
        IF s = 0 THEN paired[pairs] ELSE seat(seated[s - 1], s, most(seated[s - 1].left)[1])
  IN  seated[byes].of

(* The tier of the advancer seeded s: a group's strongest seed takes its   *)
(* winner, and so on down.                                                 *)
TierAt(seats, s) == Cardinality({q \in 1..s : seats[q] = seats[s]})

(* _snake_order; one group keeps the order it came in. *)
SnakeOrder(advancers, groups, tiers) ==
  LET seats == SeatGroups(groups, tiers)
  IN  IF groups < 2 THEN advancers
      ELSE [s \in DOMAIN advancers |-> advancers[(TierAt(seats, s) - 1) * groups + seats[s]]]
=============================================================================
