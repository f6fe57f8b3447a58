SPECIFICATION Spec
CONSTANTS
    p1 = p1
    p2 = p2
    p3 = p3
    h1 = h1
    h2 = h2
    Procs = {p1, p2, p3}
    Hosts = {h1, h2}
    HostOf <- PairsHostOf
    MaxTokens = 4
INVARIANTS
    SoleHolder
PROPERTIES
    UnverifiableNeverCleared
    LeaseSpec
CHECK_DEADLOCK FALSE
