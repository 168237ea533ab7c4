SPECIFICATION Spec
CONSTANTS
  Match = {m}
  Task = {s, t}
  Direct = {d}
  Caller = {a, b, c}
  Process = {v, w}
  Home <- MCHome
  None = None
  MaxFaults = 1
CHECK_DEADLOCK FALSE
INVARIANT CompletedOnce
INVARIANT OneRollPerProcess
PROPERTY TerminalStays
PROPERTY EveryRollEnds
