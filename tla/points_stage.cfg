SPECIFICATION Spec
CONSTANTS
  None = None
  Scoring <- MCScoring
  Exact = 60
  Formats = {"swiss", "round_robin"}
  Fields = {3, 4}
  Groups = {1, 2}
  SwissRounds <- MCSwissRounds
  Chain <- MCChain
  Count = 2
  Worker = {v, w}
  Overlaps = {}
  MaxIncidents <- MCIncidents
CHECK_DEADLOCK FALSE
INVARIANT NoRematch
INVARIANT RoundsInOrder
INVARIANT RetiredIsOut
INVARIANT NextRoundPaired
INVARIANT RanksFollowResults
INVARIANT BestAdvance
SYMMETRY Symmetry
