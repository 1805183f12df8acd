SPECIFICATION Spec
CONSTANTS
  a1 = a1
  a2 = a2
  Task = {h1}
  Agent = {a1, a2}
  NoAgent = NoAgent
  Request = {r1}
  Admin = Admin
  Level = {1, 2}
  Comment = {}
  Detail = {d1}
  NoItem = NoItem
  MaxHistory = 2
  Crashes = TRUE
CONSTANTS
  LevelsOf <- MCLevelsOf
  Operation <- AllOperations
PROPERTY CancelledIsFinal
