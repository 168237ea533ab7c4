------------------------- MODULE MCBracketAdvance -------------------------
(***************************************************************************)
(* Small instances of BracketAdvance: the stage's graph is any graph the   *)
(* two engines really generate for a field size in Fields.                 *)
(***************************************************************************)
EXTENDS BracketAdvance

CONSTANTS
  Formats,  \* which engines
  Fields,   \* numbers of entries
  Resets    \* values of the grand_final_reset setting

Engine == INSTANCE EliminationGraph

Settings == [format : Formats, n : Fields, gfReset : Resets]

MCGraphs == {Engine!StageGraph(c.format, c.n, c.gfReset) : c \in Settings}

MCMatch == UNION {g.matches : g \in MCGraphs}

MCEntry == 1..(CHOOSE n \in Fields : \A k \in Fields : k <= n)
=============================================================================
