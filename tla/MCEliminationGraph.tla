------------------------ MODULE MCEliminationGraph ------------------------
(***************************************************************************)
(* Checks what the engines generate, for every field size up to MaxField.  *)
(* One entrant walks the elimination graph from its opening match, winning *)
(* or losing every game as TLC pleases, until the graph lets it out; a     *)
(* field of the same size is split into groups, and drawn from groups.     *)
(***************************************************************************)
EXTENDS EliminationGraph, RoundRobin, StageSeeding

CONSTANT MaxField   \* bound: the largest number of entries tried

ASSUME MaxFieldAssumption == MaxField \in Nat /\ MaxField >= 2
ASSUME NoneAssumption == None \notin Nat
ASSUME PointerAssumption == NoPointer \notin [match : Int \X Int, slot : Slot]

VARIABLES
  stage,    \* the engine's input: format, field size, grand_final_reset
  at,       \* the slot the walker sits in, NoPointer once it is out
  losses,   \* games it has lost
  champion  \* it won the deciding match

vars == <<stage, at, losses, champion>>

Stages ==
  [format : {SingleElim, DoubleElim}, n : 2..MaxField, gfReset : BOOLEAN]

Matches(g) == GraphMatches(g.format, g.n, g.gfReset)
WinnerTo(g) == GraphWinnerTo(g.format, g.n, g.gfReset)
LoserTo(g) == GraphLoserTo(g.format, g.n, g.gfReset)
Seeds(g) == GraphSeeds(g.format, g.n, g.gfReset)

OpeningSlots(g) ==
  {p \in [match : Matches(g), slot : {1, 2}] : Seeds(g)[p.match][p.slot] # None}

Init ==
  /\ stage \in Stages
  /\ at \in OpeningSlots(stage)
  /\ losses = 0
  /\ champion = FALSE

IsBye(g, m) == m[1] = 1 /\ \E slot \in {1, 2} : Seeds(g)[m][slot] = None

(* Grand Final 1 won from the winners side: the reset is never played. *)
TitleDecided(g, p) == p.slot = 1 /\ p.match = GrandFinal(g.n) /\ g.format = DoubleElim

Win ==
  /\ at # NoPointer
  /\ LET onward == WinnerTo(stage)[at.match]
         last == TitleDecided(stage, at) \/ onward = NoPointer
     IN  /\ at' = IF last THEN NoPointer ELSE onward
         /\ champion' = last
  /\ UNCHANGED <<stage, losses>>

Lose ==
  /\ at # NoPointer
  /\ ~IsBye(stage, at.match)
  /\ at' = IF at.match = GrandFinal(stage.n) /\ stage.format = DoubleElim /\ at.slot = 2
           THEN NoPointer ELSE LoserTo(stage)[at.match]
  /\ losses' = losses + 1
  /\ UNCHANGED <<stage, champion>>

Next == Win \/ Lose

Spec == Init /\ [][Next]_vars

-----------------------------------------------------------------------------
(* Every slot of the persisted graph is filled by exactly one thing: a     *)
(* seed or a structural bye in the opening round, afterwards the winner or *)
(* the loser of exactly one match.  Two sources would let one result       *)
(* overwrite another's entrant; none would leave a match pending for ever. *)
EverySlotHasOneSource ==
  \A m \in Matches(stage), slot \in {1, 2} :
    LET p == [match |-> m, slot |-> slot]
        sources == {x \in Matches(stage) : WinnerTo(stage)[x] = p}
        drops == {x \in Matches(stage) : LoserTo(stage)[x] = p}
    IN  Cardinality(sources) + Cardinality(drops) = IF m[1] = 1 THEN 0 ELSE 1

(* Standard seeding: if the better seed always wins, round r of the        *)
(* winners bracket pairs s with the reflection of s in the surviving       *)
(* field, so the top two seeds can meet only in the last round, and byes   *)
(* go to the best seeds.                                                   *)
FavouritesMeetLast ==
  LET w == Rounds(stage.n)
      better(a, b) == IF b = None \/ (a # None /\ a < b) THEN a ELSE b
      round[r \in 1..w] ==
        [m \in {x \in WinnersMatches(stage.n) : x[1] = r} |->
          [slot \in {1, 2} |->
            IF r = 1 THEN Seeds(stage)[m][slot]
            ELSE LET f == CHOOSE x \in WinnersMatches(stage.n) :
                            WinnerTo(stage)[x] = [match |-> m, slot |-> slot]
                 IN  better(round[r - 1][f][1], round[r - 1][f][2])]]
  IN  \A r \in 1..w : \A m \in DOMAIN round[r] :
        LET field == 2^(w - r + 1)
            a == round[r][m][1]
            b == round[r][m][2]
        IN  IF a = None \/ b = None
            THEN field + 1 - better(a, b) > stage.n
            ELSE a + b = field + 1

(* An entrant leaves the graph only beaten or crowned: one loss in single  *)
(* elimination, two in double elimination with the reset enabled, and the  *)
(* champion has always lost fewer.  A dropped loser pointer would send     *)
(* somebody home early; a wrong one would give a third life.               *)
OutMeansBeaten ==
  LET lives == IF stage.format = SingleElim THEN 1 ELSE 2
  IN  (stage.format = SingleElim \/ stage.gfReset) =>
        /\ losses = lives => at = NoPointer
        /\ at = NoPointer => (champion <=> losses < lives)

(* A round robin is one: whatever the number of groups, they differ by one *)
(* entry at most, every pair of a group meets exactly once, nobody plays   *)
(* two matches of a round, and no two matches share a row.                 *)
EveryPairMeetsOnce ==
  \A groups \in 1..stage.n :
    LET size(g) == Len(GroupSeeds(stage.n, groups, g))
        rows == RoundRobinMatches(stage.n, groups)
    IN  /\ \A g, h \in 1..groups : size(g) <= size(h) + 1
        /\ \A a, b \in 1..stage.n :
             a < b => Cardinality({x \in rows : {x.one, x.two} = {a, b}})
                        = IF GroupOf(groups, a) = GroupOf(groups, b) THEN 1 ELSE 0
        /\ IsRoundRobin(stage.n, groups)

(* A field of n drawn from groups, tier by tier, and snake-seeded. *)
Snaked(groups) ==
  SnakeOrder([i \in 1..stage.n |-> [tier |-> 1 + ((i - 1) \div groups),
                                    group |-> 1 + ((i - 1) % groups)]],
             groups, stage.n \div groups)

GroupCounts == {g \in 2..stage.n : stage.n % g = 0}

(* "No opening-round playoff match pairs two advancers from the same       *)
(* source group whenever G >= 2": in the graph the single elimination      *)
(* engine generates for the seeding multistage lays out, which keeps every *)
(* advancer, and each group's in the order of their ranks.                 *)
GroupsApart ==
  stage.format = SingleElim => \A groups \in GroupCounts :
    LET order == Snaked(groups)
    IN  /\ \A m \in Matches(stage) :
             LET a == Seeds(stage)[m][1]
                 b == Seeds(stage)[m][2]
             IN  m[1] = 1 /\ None \notin {a, b} => order[a].group # order[b].group
        /\ \A a, b \in 1..stage.n :
             a < b => /\ order[a] # order[b]
                      /\ order[a].group = order[b].group => order[a].tier < order[b].tier
=============================================================================
