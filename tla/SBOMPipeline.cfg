SPECIFICATION Spec
CONSTANTS
    Pods = {"p1", "p2"}
    Workers = {w1, w2}
    Containers <- MCContainers
    QueueCap = 1
    MaxSendRetries = 1
    Keys = {"a", "b", "c"}
    Handlers = {1, 2}
    Extractions <- MCExtractions
    Matchers = {m1, m2}
    Replicas = {r1, r2}
    DLQMaxAttempts = 2
    Budgets <- PipelineBudgets
SYMMETRY Symmetry
CHECK_DEADLOCK FALSE
INVARIANTS
    ActiveIsExact
    SucceededIsStored
    TrustedRowsAreWhole
    RunIsExclusive
    QueuedStaysClaimed
PROPERTIES
    SnapshotKept
