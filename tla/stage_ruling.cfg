SPECIFICATION Spec
CONSTANTS
  None = None
  Scoring <- MCScoring
  Exact = 60
  Formats = {"round_robin"}
  Fields = {6}
  Groups = {2}
  SwissRounds <- TwoGroupsRounds
  Chain <- MCChain
  Count = 1
  Worker = {w}
  Overlaps = {}
  MaxIncidents <- TwoGroupsIncidents
CHECK_DEADLOCK FALSE
INVARIANT RulingStands
