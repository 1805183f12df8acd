SPECIFICATION ListenerSpec
CONSTANTS
  Task = {h1, h2}
  Agent = {a1}
  NoAgent = NoAgent
  Message = {m1}
  MaxIndex = 2
  ManualIndex = {}
  MaxPending = 0
  MaxSockets = 1
  Faults = FALSE
CONSTANT
  Raised <- AllRaised
CHECK_DEADLOCK FALSE
INVARIANT MessageKept
