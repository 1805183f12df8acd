SPECIFICATION FairOutboxSpec
CONSTANTS
  Entry = {e1}
  Worker = {w1}
  Nobody = Nobody
  MaxAttempts = 2
  BatchSize = 1
  MaxPosts = 2
  Faults = TRUE
CHECK_DEADLOCK FALSE
PROPERTY EventuallySettled
