SPECIFICATION FairCalmSpec
CONSTANTS
  a1 = a1
  a2 = a2
  Task = {h1}
  Agent = {a1, a2}
  NoAgent = NoAgent
  Request = {r1}
  Admin = Admin
  Level = {1, 2}
  Comment = {}
  Detail = {d1}
  NoItem = NoItem
  MaxHistory = 3
  Crashes = FALSE
  Message = {}
  MaxIndex = 2
  ManualIndex = {}
  MaxPending = 0
  MaxSockets = 0
  Faults = FALSE
CONSTANTS
  LevelsOf <- MCLevelsOf
  Operation <- AnnouncedOperations
  Raised <- MCRaised
CHECK_DEADLOCK FALSE
INVARIANTS ConversationInStep OpenWhileUnfinished ChatsListed
PROPERTY EventuallyClosed
