SPECIFICATION MCSpec
CONSTANTS
  Workers = {w1, w2}
  RunIds = {"r1", "r3"}
  Candidates <- MCCandidates
  MaxTime = 1
  MaxFaults = 1
  None = None
  Clients = {c1, c2}
  Requests <- MCRequests
  MutationsEnabled = TRUE
  Nothing = Nothing
INVARIANTS RunsHaveOneExecutor RepeatsAreBounded ReceiptsAreGrounded
CHECK_DEADLOCK FALSE
