SPECIFICATION MCSpec
CONSTANTS
  Absent = Absent
  Runners = {r1, r2}
  Batches <- MCBatches
  Models <- MCModels
  MaxRuns = 3
  MaxDeaths = 1
  MaxOthers = 1
  Clients = {c1, c2}
  Dossiers <- MCDossiers
  Instants = {30, 51}
  Qualities = {"VALID", "DEGRADED"}
  Policy <- MCPolicy
  MaxCalls = 3
  MaxGateDeaths = 1
  Turns = 3
  Kinds = {"DIRECTION_10S", "REVERSAL_60S@1.2", "VOLATILITY_60S", "FRAGILITY_MAE_60S", "LIQUIDITY_DETERIORATION_30S", "DIRECTION_REGIME_15M", "REGIME_PERSISTENCE_5M", "BASIS_CHANGE_5M"}
  Candidates <- MCCandidates
  Cutoff = 1
  ResolvesAt = 5
  MaxLag = 1
  Grid = 2
  Base = 10000
  Trailing = 4
  BaseBook <- MCBook
  BaseRegime = "RISK_ON"
  BaseBasis = 2
  MaxEvidence = 3
  MaxTime = 7
  Missing = Missing
  HorizonOf <- MCHorizonOf
  Arrivals <- MCArrivals
  MaxAssemblies = 3
  LastInstant = 4
  None = None
SYMMETRY MCSymmetry
INVARIANTS EveryPredictionDecided CompetenceCountsOnce HandoffsStand DecisionsStand EveryQuestionDecides
PROPERTIES RerunAddsNothing EvidenceWeighsFairly
CHECK_DEADLOCK FALSE
