SPECIFICATION Spec
CONSTANTS
    p1 = p1
    p2 = p2
    h1 = h1
    c1 = c1
    c2 = c2
    None = None
    Procs = {p1, p2}
    History = {h1}
    Components = {c1, c2}
    Early = {h1}
    MaxCrashes = 2
    MaxRebuilds = 1
INVARIANTS
    JournalsSound
PROPERTIES
    EvidenceSpec
SYMMETRY Symmetry
