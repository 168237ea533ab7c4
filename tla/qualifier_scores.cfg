SPECIFICATION Spec
CONSTANTS
  Player = {a, b}
  Reviewer = {u, v}
  Permalink = {p, q, r}
  Live = {r}
  Race = {x}
  None = None
  Zero = Zero
  Worker = {w1, w2}
  Run = {1, 2}
  RunsPerPool = 1
  Allowed = 0
  Threshold = 1
  Conflicts = {}
  AnyClaim = FALSE
  MaxCrashes = 0
CHECK_DEADLOCK FALSE
INVARIANT VerdictSettledOnce
INVARIANT ScoresFollowPar
PROPERTY EndedStaysEnded
SYMMETRY Symmetry
