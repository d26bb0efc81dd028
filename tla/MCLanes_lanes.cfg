SPECIFICATION Spec
CONSTANTS
  Focus = {"bridge", "molt", "kernel", "outcome", "market", "missions", "actions", "tested"}
  None = None
  NoAction = NoAction
  Unknown = Unknown
  Nothing = Nothing
  Client = {r1, r2}
  Root = {r2}
  Id = {i1}
  Empty = Empty
  Overlaid = Overlaid
  NoFile = NoFile
  Workflow = Workflow
  Response = {a, c}
  MaxPosts = 2
  MaxReplies = 2
  MaxLost = 1
  Job = {j1, j2}
  Run = {r1, r2}
  Targeted = {}
  Credits = 3
  Reserve = 1
  MaxBids = 2
  Target = 2
  MaxPortfolio = 2
  Observed <- MCObserved
  Cooldown = 2
  MaxDecisions = 7
  Receipt = {p}
  w1 = w1
  w2 = w2
  Wallet = {w1, w2}
  Followed = w1
  Held <- MCHeld
  MaxPayouts = 1
  b1 = b1
  s1 = s1
  e1 = e1
  Listing = {b1, s1, e1}
  Source <- MCSource
  Adapter = {a1, a2}
  AdapterOf <- MCAdapterOf
  Payable = {b1, s1, e1}
  Viable = {s1, e1}
  Gated = {b1, s1, e1}
  Freelance = {s1, e1}
  Oversized = {s1}
  Registered = {b1}
  MaxChanges = 1
  p1 = p1
  p2 = p2
  Caller = {t1, t2}
  Provider <- MCProvider
  Order <- MCOrder
  Configured <- MCProvider
  Reasoner = p2
  Limit <- MCLimit
  Threshold = 2
  Rest = 1
  MaxTime = 1
  MaxRevisions = 1
  MaxRequests = 2
  c1 = c1
  c2 = c2
  Cand <- MCCand
  Top = Top
  Report = Report
  Other = Other
  N = 2
  CandOf <- MCCandOf
  Autonomous = {2}
  Page = 1
  LookBack = 1
  MaxOthers = 1
  MaxComments = 1
  MaxRuns = 2
  MaxFailures = 1
  k1 = k1
  k2 = k2
  Task <- MCTask
  Capability = {text}
  Nil = Nil
  Policies <- MCPolicies
  MaxPulls = 2
INVARIANTS TypeOK NoDoubleBid ConsumedWasReplied HumanActionHasDossier RefreshIsNotStarved RevenueIsReceived LimitOvershoot BreakerBoundsFailures AcceptedIsReviewed OneIssuePerCandidate OneOpenPullRequest
PROPERTIES NoIncompatibleMission
CHECK_DEADLOCK FALSE
