SPECIFICATION ScenesSpec
CONSTANTS
  a1 = a1
  a2 = a2
  Task = {h1, h2}
  Agent = {a1, a2}
  NoAgent = NoAgent
  Request = {r1, r2}
  Admin = Admin
  Level = {1, 2}
  Comment = {}
  Detail = {d1}
  NoItem = NoItem
  MaxHistory = 2
  Crashes = TRUE
  Message = {}
  MaxIndex = 1
  ManualIndex = {1}
  MaxPending = 0
  MaxSockets = 0
  Faults = TRUE
CONSTANTS
  LevelsOf <- MCLevelsOf
  Operation <- OverlapOperations
  Raised <- MCRaised
CHECK_DEADLOCK FALSE
SYMMETRY Symmetry
INVARIANTS SingleActiveAssignment ClosingConsistent AssigneeQualified
