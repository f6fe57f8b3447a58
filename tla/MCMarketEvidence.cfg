SPECIFICATION MCSpec
CONSTANTS
  Absent = Absent
  Messages <- MCMessages
  Joiners = {j1, j2}
  Policies <- MCPolicies
  AuditLimits <- MCAuditLimits
  Delay = 1
  MaxLines = 3
  MaxTime = 2
  MaxDeaths = 2
  Nobody = Nobody
  Workers = {j1, j2}
  Versions = {1, 2}
  Times = {1, 2}
  MaxPersists = 5
  MaxStoreDeaths = 1
  Genesis = Genesis
  Writers = {j1, j2}
  Candidates <- MCCandidates
  Lookback = 4
  Grid = 2
  Lag = 1
  Age = 1
  MaxBuilds = 4
  MaxPathDeaths = 1
  MaxCommitments = 2
  Spots = {"btc", "eth"}
  Derivatives = {"perp"}
  Quote <- MCQuote
  Reports <- MCReports
  Cutoffs = {3, 5}
  Tolerance = 1
  MinCore = 2
  MinPairs = 3
  Threshold = 1
SYMMETRY MCSymmetry
INVARIANTS ReplayAgrees BondsHold BundleBacksObservation LineageStored ReturnedIsIndexed BuilderMeetsContract CommitmentsAreChains ContextsAreEvenHanded
PROPERTIES OneFrameTouchesOneSlot GoodEvidenceNeverLowers
CHECK_DEADLOCK FALSE
