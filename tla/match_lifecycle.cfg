SPECIFICATION Spec
CONSTANTS
  Worker = {w1, w2, w3}
  Overlaps <- Harmless
  Outcomes = {TRUE, FALSE}
  MaxRewinds = 2
CHECK_DEADLOCK FALSE
SYMMETRY Symmetry
INVARIANT LifecycleInOrder
INVARIANT AnnouncedOnce
INVARIANT ConfirmedIsResolved
