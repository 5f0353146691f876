SPECIFICATION FairSpec
CONSTANTS
    Sources <- BlankSource
    EventIds <- TwoLineIds
    Pods = {1}
    Slots = {1, 2}
    Inodes = {1}
    MaxEvents = 2
    MaxBytes = 2
    EventBytes <- Sizes
    RequestLimit = 2
    ChunkLines = 2
    MaxReplaced = 0
    MaxFaults = 1
    MaxPods = 1
    RegrowPastCursor = FALSE
PROPERTIES
    StoredIsApplied
CHECK_DEADLOCK FALSE
