---------------------------- MODULE BracketGraph ----------------------------
(***************************************************************************)
(* What the graph of an elimination stage promises to whoever plays it: a  *)
(* record of its matches, their two progression pointers, the seeds that   *)
(* already sit in them, their rounds and the field.                        *)
(***************************************************************************)
EXTENDS Integers, FiniteSets

CONSTANTS
  None,       \* an empty slot
  NoPointer   \* a NULL progression pointer

Slot == {1, 2}
Pointers(g) == [match : g.matches, slot : Slot]

(* The pointers stay inside the graph, and the seeds inside the field.     *)
WellFormed(g) ==
  /\ IsFiniteSet(g.matches)
  /\ g.winnerTo \in [g.matches -> Pointers(g) \cup {NoPointer}]
  /\ g.loserTo \in [g.matches -> Pointers(g) \cup {NoPointer}]
  /\ g.seeds \in [g.matches -> [Slot -> g.field \cup {None}]]
  /\ g.round \in [g.matches -> Int]

(* Every slot has one source at most: the engines seed the first round     *)
(* only, and lead one result to each slot of the others.  And a bye leads  *)
(* its entrant on alone: no match pairs its winner with its loser again,   *)
(* and the match that leads nowhere is between two.                        *)
OneSource(g) ==
  \A x, y \in g.matches :
    /\ g.winnerTo[x] # NoPointer /\ g.winnerTo[x] = g.winnerTo[y] => x = y
    /\ g.loserTo[x] # NoPointer /\ g.loserTo[x] = g.loserTo[y] => x = y
    /\ g.winnerTo[x] # NoPointer => g.winnerTo[x] # g.loserTo[y]
    /\ \A p \in {g.winnerTo[x], g.loserTo[x]} \ {NoPointer} :
         \A s \in Slot : g.seeds[p.match][s] = None
    /\ \/ g.winnerTo[x] = NoPointer /\ g.loserTo[x] = NoPointer
       \/ /\ NoPointer \notin {g.winnerTo[x], g.loserTo[x]}
          /\ g.winnerTo[x].match = g.loserTo[x].match
       => (g.seeds[x][1] = None <=> g.seeds[x][2] = None)

(* An entry is seeded into one slot.                                       *)
SeededOnce(g) ==
  \A x, y \in g.matches, s, t \in Slot :
    g.seeds[x][s] # None /\ g.seeds[x][s] = g.seeds[y][t] => x = y /\ s = t

(* The winners bracket: nobody comes to it beaten.                         *)
Upper(g) ==
  {x \in g.matches : g.round[x] > 0 /\ \A y \in g.matches :
                       /\ g.loserTo[y] # NoPointer => g.loserTo[y].match # x
                       /\ g.winnerTo[y] # NoPointer /\ g.winnerTo[y].match = x => g.round[y] > 0}

Lower(g) == {x \in g.matches : g.round[x] < 0}

(* Each bracket is played round by round: the winners bracket from seeds,  *)
(* the losers bracket from those it drops, and from there the loser is     *)
(* out.  They meet in the final: the winner of the last winners-bracket    *)
(* match has its first slot, and the loser comes to the second directly or *)
(* one match later.  Only the reset may follow.                            *)
TwoBrackets(g) ==
  LET slot(x, s) == [match |-> x, slot |-> s]
      leads(x, y) == g.winnerTo[x] # NoPointer /\ g.winnerTo[x].match = y
      drops(x, y) == g.loserTo[x] # NoPointer /\ g.loserTo[x].match = y
      reset(x) == /\ g.winnerTo[x] = NoPointer /\ g.loserTo[x] = NoPointer
                  /\ \E y \in g.matches : leads(y, x) /\ drops(y, x)
      seeded(x) == g.seeds[x][1] # None \/ g.seeds[x][2] # None
  IN  /\ \A x \in g.matches, y \in Upper(g) : leads(x, y) => x \in Upper(g) /\ g.round[x] < g.round[y]
      /\ \A x \in g.matches, y \in Lower(g) :
           /\ leads(x, y) => x \in Lower(g) /\ g.round[y] < g.round[x]
           /\ drops(x, y) => x \in Upper(g)
      /\ \A y \in Upper(g) : seeded(y) \/ \A s \in Slot : \E x \in g.matches : g.winnerTo[x] = slot(y, s)
      /\ \A y \in Lower(g) : ~seeded(y) /\ g.winnerTo[y] # NoPointer /\ g.loserTo[y] = NoPointer
      /\ \A f \in g.matches \ (Upper(g) \cup Lower(g)) :
           \/ reset(f)
           \/ \E x \in Upper(g) :
                /\ g.winnerTo[x] = slot(f, 1)
                /\ g.loserTo[f] # NoPointer => \E y \in g.matches : reset(y) /\ leads(f, y) /\ drops(f, y)
                /\ \/ g.loserTo[x] = slot(f, 2)
                   \/ /\ ~seeded(x)
                      /\ \E y \in Lower(g) : g.winnerTo[y] = slot(f, 2) /\ g.loserTo[x] = slot(y, 2)

(* One match leads nowhere: the last. *)
OneTitle(g) ==
  \E final \in g.matches :
    {m \in g.matches : g.winnerTo[m] = NoPointer /\ g.loserTo[m] = NoPointer} = {final}

Playable(g) ==
  /\ WellFormed(g) /\ OneSource(g) /\ SeededOnce(g) /\ TwoBrackets(g) /\ OneTitle(g)
  /\ NoPointer \notin Pointers(g)
=============================================================================
