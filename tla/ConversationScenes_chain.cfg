SPECIFICATION ScenesSpec
CONSTANTS
  Task = {h1, h2}
  Agent = {a1}
  NoAgent = NoAgent
  Message = {m1}
  MaxIndex = 3
  ManualIndex = {0}
  MaxPending = 1
  MaxSockets = 1
  Faults = TRUE
CONSTANT
  Raised <- AllRaised
CHECK_DEADLOCK FALSE
SYMMETRY Symmetry
INVARIANTS ChainLinked NewestOpen RacingSettles
PROPERTY ClosedStaysClosed
