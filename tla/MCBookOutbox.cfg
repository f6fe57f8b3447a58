SPECIFICATION FairSpec
CONSTANTS
    Producers = {p1}
    Deliverers = {d1, d2}
    Ids = {r1}
    Evidence = {a, b}
    None = None
    MaxCrashes = 2
INVARIANTS
    EvidenceKept
PROPERTIES
    EventuallySettled
