SPECIFICATION Spec
CONSTANTS
  Focus = {"scans", "routes", "capabilities", "snipes", "submits", "sells", "prospects", "radar"}
  j1 = j1
  j2 = j2
  j3 = j3
  k1 = k1
  k2 = k2
  k3 = k3
  k4 = k4
  t1 = t1
  t2 = t2
  t3 = t3
  Adapters = {"superteam", "bountybook", "agentpact", "moltjobs", "freelancer", "guru", "algora", "github", "truelancer", "opire", "usagov"}
  CardsOf <- MCCards
  PageSize = 2
  PageCount = 2
  MaximumResults = 2
  MaximumChecks = 1
  MaximumBudget = 1
  Multiplier <- MCMultiplier
  Files <- MCFiles
  RowsIn <- MCRows
  FileSize = 2
  MaxRewrites = 3
  SourceOrder <- MCSources
  MaxItems = 3
  MaxPerSource = 2
  PauseAt = 2
  ShiftAt = 2
  Banned <- MCBanned
  Missions <- MCMissions
  Capability = {"data", "lists", "sites", "video"}
  Statuses <- MCStatuses
  RawScore <- MCRawScore
  MaxGaps = 2
  MaxPlans = 2
  MaxIssues = 1
  Precedes <- MCPrecedes
  MaxRuns = 2
  Tasks = {t1, t2, t3}
  Flaw <- MCFlaw
  Score <- MCScore
  MaxApplies = 1
  Stubborn = {}
  MaxRunsOf = 2
  MaxAttempts = 2
  MaxRestarts = 3
  DesiredOffers <- MCDesired
  OtherOffers = {"o1", "o2"}
  MaxActiveOffers = 3
  MaxLadders = 2
  MaxUncounted = 2
  Kinds = {"narrow", "safe", "final", "capability", "promoter"}
  Issues <- MCIssues
  Queries = 2
  PerPage = 2
  MaxInspected = 3
  MaxCandidates = 2
  MaxPerRepository = 1
  MaxBacklog = 1
  MaxScans = 1
  Found <- MCFound
  Rounds = 2
  PerRound = 2
  Seeds <- MCSeeds
  Titles = {"x", "z"}
  Order <- MCOrder
  DomainOf <- MCDomain
  LinksOf <- MCLinks
  Suggests = {"b"}
  HitsOf <- MCHitsOf
  MaxDomains = 3
  MaxExpanded = 2
  MaxRecords = 3
  FingerprintSize = 2
  MaxRadarRuns = 2
INVARIANTS TypeOK CleanScanIsComplete UpstreamVerdictHolds OneIssuePerMarker KnownTaskIsNotAppliedAgain SubmittedOncePerOpening OfferCapHolds PlaceIsEarned FrontierShowsBestHits
CHECK_DEADLOCK FALSE
