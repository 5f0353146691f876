SPECIFICATION AgentSpec
CONSTANTS
    Sources <- BothSources
    EventIds <- ThreeIds
    Pods = {1, 2}
    Slots = {1, 2}
    Synced = {1}
    MaxReplaced = 1
    MaxFaults = 1
    MaxPods = 2
    EventUID = {1, 2, 3}
    EventsBatchMax = 2
    EventsQuarantineMax = 2
    PostLimit = 2
    MaxVersion = 2
    MaxPostFaults = 1
CONSTRAINT Box
INVARIANTS
    CursorFollowsCore
    NewestIsKept
PROPERTIES
    RecordsAreApplied
    EventsReachCore
CHECK_DEADLOCK FALSE
