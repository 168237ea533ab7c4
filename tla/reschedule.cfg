SPECIFICATION Spec
CONSTANTS
  Match = {m}
  Player = {a, b}
  Admin = {a}
  Time = {s, t}
  None = None
  Worker = {v, w}
  Request = {1, 2}
  Proposals = {s}
  Conflicts = {}
CHECK_DEADLOCK FALSE
INVARIANT OneOpenRequest
INVARIANT PromiseKept
INVARIANT OpenRequestsCurrent
INVARIANT AcknowledgedSinceMoved
SYMMETRY Symmetry
VIEW Alive
