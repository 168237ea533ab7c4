SPECIFICATION Spec
CONSTANTS
  Player = {a}
  Reviewer = {}
  Permalink = {p, q}
  Live = {}
  Race = {x}
  None = None
  Zero = Zero
  Worker = {w1, w2}
  Run = {1, 2, 3}
  RunsPerPool = 2
  Allowed = 1
  Threshold = 2
  Conflicts = {}
  AnyClaim = FALSE
  MaxCrashes = 1
CHECK_DEADLOCK FALSE
INVARIANT NoSeedDrawnTwice
INVARIANT ReattemptsWithinAllowance
PROPERTY AbandonedRunEnds
PROPERTY LedgerKept
