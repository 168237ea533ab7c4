SPECIFICATION FairSpec
CONSTANTS
  Entry <- MCEntry
  Match <- MCMatch
  Graphs <- MCGraphs
  None = None
  NoPointer = NoPointer
  Worker = {w1}
  Formats = {"single_elim", "double_elim"}
  Fields = {2, 3, 5}
  Resets = {TRUE, FALSE}
  MaxOverrides = 1
  Retirable = {3}
INVARIANT SlotsMatchResults
INVARIANT RefusedIsDead
INVARIANT EliminatedMeansBeaten
INVARIANT RanksFollowTheFinal
PROPERTY DecidedStaysDecided
PROPERTY StageEnds
CHECK_DEADLOCK FALSE
