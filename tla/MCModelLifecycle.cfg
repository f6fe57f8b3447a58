SPECIFICATION MCSpec
CONSTANTS
    m1 = m1
    Sides = {"lifecycle", "profiles", "questions"}
    Procs = {p1, p2}
    Models <- MCModels
    Receipts <- MCReceipts
    Direct = direct
    None = None
    MaxEvents = 6
    MaxProposals = 2
    MaxCrashes = 2
    Callers = {c1, c2}
    ContextProfiles <- MCProfiles
    ContextFrames <- MCContextFrames
    BaseWeight <- MCBaseWeight
    ProfileTimes = {1, 2}
    AssemblyTimes = {2, 3}
    Nobody = Nobody
    Nothing = Nothing
    Originals <- MCOriginals
    Others = {other}
    Instants = {0, 1}
    MaxProfileEvents = 6
    MaxContextual = 2
    MaxCallerDeaths = 1
SYMMETRY MCSymmetry
INVARIANTS
    HistoryIsLegal
    CallsLeaveItValid
    OverlaysHold
    CertifiedWasNeverBent
PROPERTIES
    HistoryIsKept
CHECK_DEADLOCK FALSE
