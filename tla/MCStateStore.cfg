SPECIFICATION MCFairSpec
CONSTANTS
    Tasks = {1, 2}
    DependsOn <- MCDependsOn
    Priority <- MCPriority
    TornAppends = FALSE
    MaxTransactions = 2
    MaxCrashes = 2
INVARIANTS
    SettledAgree
    LogsAreSound
PROPERTIES
    AtomicSpec
    RecoveryCompletes
