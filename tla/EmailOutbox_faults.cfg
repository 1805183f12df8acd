SPECIFICATION FairOutboxSpec
CONSTANTS
  Entry = {e1, e2}
  Worker = {w1, w2}
  Nobody = Nobody
  MaxAttempts = 2
  BatchSize = 2
  MaxPosts = 3
  Faults = TRUE
CHECK_DEADLOCK FALSE
INVARIANTS ClaimExclusive WithinBudget RepeatsExplained
PROPERTIES TerminalIsFinal SettledAfterFaults
