\* Pages of two videos out of three; nothing fails and nothing is deleted.
CONSTANTS
    Videos = {1001, 1002, 1003}
    Catalogue = {1001, 1002, 1003}
    CreateTime <- OwnTime
    Limit = 2
    MaxDeletes = 0
    BigVs = {b1}
    PullQuota = 2
    RedisFails = FALSE
SPECIFICATION Spec
CHECK_DEADLOCK FALSE
INVARIANT
    FollowingNoRepeats
