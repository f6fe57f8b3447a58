SPECIFICATION ObserverSpec
CONSTANTS
    Observers = {o1}
    None = None
    LeaseTimeout = 2
    RunTime = 1
    Separation = 2
    Cadence = 1
    DegradedAfter = 2
    MaxHistory = 2
    MaxStorage = 7
    MaxTime = 5
    MaxInterruptions = 2
PROPERTIES
    ObserverStateSound
