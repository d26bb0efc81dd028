SPECIFICATION Spec
CONSTANTS
  Cand = {c1, c2}
  Run = {r1, r2}
  Operator = Operator
  NoPackage = NoPackage
  Serial = FALSE
  MaxTries = 2
  MaxChanges = 1
SYMMETRY Symmetry
INVARIANTS TypeOK AtMostOneAttempt UnrecordedAttemptIsHeld EvidenceIsTrue
PROPERTIES TakeoverIsRespected LedgerSpec
CHECK_DEADLOCK FALSE
