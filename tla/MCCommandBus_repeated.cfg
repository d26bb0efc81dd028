SPECIFICATION Spec
CONSTANTS
  Request = {q1, q2}
  Key = {k1}
  Worker = {w1, w2}
  Window = 100
  MaxFaults = 0
SYMMETRY WorkersAlike
INVARIANTS OneExecutionPerKey
CHECK_DEADLOCK FALSE
