SPECIFICATION FairSpec
CONSTANTS
  Request = {q1}
  Key = {k1}
  Worker = {w1}
  Window = 1
  MaxFaults = 1
PROPERTIES QueuedIsClaimed
CHECK_DEADLOCK FALSE
