SPECIFICATION MCSpec
CONSTANTS
    a1 = a1
    a2 = a2
    a3 = a3
    legacy = legacy
    e1 = e1
    o1 = o1
    o2 = o2
    u1 = u1
    Agent = {a1, a2, a3, legacy}
    Scoped = {a1, a2, a3}
    Covering = {a1, a3, legacy}
    NoAgent = NoAgent
    Evaluator = {e1}
    Updater = {u1}
    Operator = {o1}
    Act = {"dismiss"}
    OtherRoles = FALSE
    MaxAge = 1
    MaxUid = 2
    MaxEdits = 2
    MaxSyncs = 3
    MaxVersions = 3
    MaxFaults = 1
    MaxWrites = 3
    MaxClock = 3
CONSTRAINT Instances
INVARIANTS
    ReceiptMatchesInventory
PROPERTIES
    InventoryMovesForward
    ReceiptMovesForward
    ResolvedOnEvidence
    NewestSnapshotClean
