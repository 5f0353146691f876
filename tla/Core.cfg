SPECIFICATION CoreSpec
CONSTANTS
    h1 = h1
    h2 = h2
    h3 = h3
    Handler = {h1, h2, h3}
    MaxSyncs = 4
    MaxRestarts = 2
    Advisory = {1, 2}
    Bundle <- MCBundle
    Keep = 2
    MaxGens = 3
    MaxFileWrites = 2
    MaxCatalogFaults = 1
    Ecosystem = {1, 2}
    FeedAdvisory = {1, 2}
    CursorOverlap = 1
    MaxIncrementalFetches = 1
    MinIdsForShrinkCheck = 2
    MaxModified = 3
    MaxFeedFaults = 1
    Replica = {1, 2}
    Job = {1, 2, 3}
    MaxSignals = 2
    MaxRescoreFaults = 1
CONSTRAINT Box
INVARIANTS
    NotStranded
    KeptIsStable
    OnlyStoppedLoadsLose
    NoSignalForgotten
PROPERTIES
    EventuallyAttempted
    LoadIsDelta
    MirrorCatchesUp
CHECK_DEADLOCK FALSE
