SPECIFICATION Spec
CONSTANTS
  Side = {A, B}
  None = None
  Worker = {w1, w2}
  Match = {1, 2, 3}
  Game = {1, 2, 3}
  Lengths = {1, 3}
  Overlaps <- SettleTwice
  MaxStaff = 1
  Forfeits = {FALSE}
  RoundEdits = FALSE
CHECK_DEADLOCK FALSE
INVARIANT GameSettledOnce
INVARIANT DecidedSeriesIsRecorded
INVARIANT NoStrandedGame
INVARIANT SeriesCanGoOn
SYMMETRY Symmetry
