SPECIFICATION Spec
CONSTANTS
  Focus = {"cash"}
  Action = {a1}
  Stop = {s1}
  Run = {r1}
  Nothing = Nothing
  MaxCrashes = 0
  g1 = g1
  g2 = g2
  Command = {d1, d2}
  Work <- MCWork
  Priced <- MCPriced
  Ready <- MCWork
  Legacy <- MCPriced
  Rank <- MCRank
  Scouted <- MCScouted
  Torn = Torn
  Nobody = Nobody
  y1 = y1
  y2 = y2
  y3 = y3
  Asker = {d1, d2}
  Cycle = {y1, y2, y3}
  Finds <- MCFinds
  NoRecord = NoRecord
  Talk = {t1, t2}
  Note = {n1, n2}
  Mentor = {m1, m2}
  Wording = {u1, u2}
  Silence = Silence
  HistoryLimit = 2
  NotesLimit = 1
  v1 = v1
  v2 = v2
  Venture = {v1, v2}
  Kind <- MCKind
  Fit <- MCFit
  Id <- MCFit
  MaxOutcomes = 3
  MinSample = 2
  Budgets = {1, 100}
  Slots = 1
  Share = 80
  Explore = 15
  Unit = 6
  NoPlan = NoPlan
INVARIANT OnlyTheWindowIsExecuted
CHECK_DEADLOCK FALSE
