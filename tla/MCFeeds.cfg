\* Pages of two videos; a timeline of two that may be lost once; two one-minute windows;
\* one deletion; everything may fail.
CONSTANTS
    Videos = {1, 2, 3, 4}
    Catalogue = {2, 3, 4}
    CreateTime <- TiedTimes
    Limit = 2
    MaxDeletes = 1
    TimelineCap = 2
    InOrder = TRUE
    DBFails = TRUE
    RedisFails = TRUE
    MaxLosses = 1
    MaxMinute = 1
    HotWindows = 2
    Weight <- Weights
    MergeTTL = 1
    MaxHeat = 1
    MaxLikeChanges = 3
SPECIFICATION Spec
CHECK_DEADLOCK FALSE
INVARIANTS
    TypeOK
    LatestNoRepeats
    LatestComplete
    HotNoRepeats
    HotComplete
    LikesNoRepeats
    LikesComplete
