SPECIFICATION Spec
CONSTANTS
  Entry <- MCEntry
  Match <- MCMatch
  Graphs <- MCGraphs
  None = None
  NoPointer = NoPointer
  Worker = {w1, w2}
  Formats = {"single_elim"}
  Fields = {4}
  Resets = {TRUE}
  MaxOverrides = 0
  Retirable = {}
CHECK_DEADLOCK FALSE
INVARIANT NoWinnerIsLost
