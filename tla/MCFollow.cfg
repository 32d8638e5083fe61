\* Two vloggers nobody follows yet, each of whom is pushed or still has the count of a big V
\* cached and is pulled, so that a feed may mix both; a follower may fall asleep, the
\* following:bigv of the other one and the user_videos of one vlogger may run out; nothing
\* fails, the workers may crash.
CONSTANTS
    a = a
    b = b
    Followers = {u1, u2}
    Vloggers = {a, b}
    Videos = {1, 2}
    Handlers = {h1}
    Sequential = TRUE
    MQFails = FALSE
    DBFails = FALSE
    RedisFails = FALSE
    Expiring = {u1, b}
    Prefetch = 2
    BigVThreshold = 3
    UserVideosCap = 2
    InboxCap = 2
    MaxRequests = 2
    BatchSize = 1
    PullQuota = 2
    Sleepers = {u2}
    Author <- TwoAuthors
SPECIFICATION Spec
CHECK_DEADLOCK FALSE
SYMMETRY Symmetry
INVARIANTS
    TypeOK
    RowsFollowLastRequest
    BigVFollowed
    FollowedVideosVisible
