SPECIFICATION MCSpec
CONSTANTS
  Processes = {p1, p2}
  Observations <- MCObservations
  Decisions <- MCDecisions
  Assumptions <- MCAssumptions
  Settled <- MCSettled
  Interval = 1
  MaxRuns = 2
  MaxCrashes = 1
  MaxChanges = 1
  Nil = Nil
INVARIANTS RuntimeValidates ReceiptsAgree
PROPERTIES ReplayCompletes
CHECK_DEADLOCK FALSE
