SPECIFICATION Spec
CONSTANTS
  Entry <- MCEntry
  Match <- MCMatch
  Graphs <- MCGraphs
  None = None
  NoPointer = NoPointer
  Worker = {w1}
  Formats = {"single_elim", "double_elim"}
  Fields = {3}
  Resets = {TRUE, FALSE}
  MaxOverrides = 1
  Retirable = {3}
CHECK_DEADLOCK FALSE
INVARIANT CompleteHasNothingOpen
