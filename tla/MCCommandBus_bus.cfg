SPECIFICATION FairSpec
CONSTANTS
  Request = {q1, q2}
  Key = {k1}
  Worker = {w1, w2}
  Window = 1
  MaxFaults = 1
INVARIANTS TypeOK RunsOnce
PROPERTIES DelegatedIsDecided
CHECK_DEADLOCK FALSE
