\* Everything may fail; following:bigv and user_videos may run out.
CONSTANTS
    a = a
    b = b
    Followers = {u1}
    Vloggers = {a}
    Videos = {1, 2}
    Handlers = {h1}
    Sequential = TRUE
    MQFails = TRUE
    DBFails = TRUE
    RedisFails = TRUE
    Expiring = {u1, a}
    Prefetch = 2
    BigVThreshold = 3
    UserVideosCap = 1
    InboxCap = 2
    MaxRequests = 2
    BatchSize = 1
    PullQuota = 2
    Sleepers = {}
    Author <- OneAuthor
SPECIFICATION Spec
CHECK_DEADLOCK FALSE
SYMMETRY Symmetry
INVARIANTS
    FannedOutVideosPullable
