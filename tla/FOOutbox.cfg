SPECIFICATION Spec
CONSTANTS
    Sources <- ThreeSources
    EventIds <- TwoLineIds
    Pods = {1, 2}
    Slots = {1, 2}
    Inodes = {1, 2}
    MaxEvents = 2
    MaxBytes = 3
    EventBytes <- Sizes
    RequestLimit = 3
    ChunkLines = 2
    MaxReplaced = 1
    MaxFaults = 1
    MaxPods = 2
    RegrowPastCursor = FALSE
CONSTRAINT Instances
INVARIANTS
    RefusedOnlyForSize
    EffectsOnce
    NoConflict
    CompleteWindowIsDelivered
PROPERTIES
    ImplementsDelivery
CHECK_DEADLOCK FALSE
