\* Two accounts race on one video through two handlers, the queue and the
\* worker; nobody overwrites likes_count.
CONSTANTS
    Users = {u1, u2}
    Videos = {v1}
    Handlers = {h1, h2}
    Prefetch = 2
    SyncCounts = {}
    MaxRequests = 3
    MaxComments = 1
SPECIFICATION Spec
INVARIANTS
    TypeOK
    LikesCountMatchesRows
    PopularityCoversLikes
    NoEventLost
PROPERTY ImplementsLedger
SYMMETRY Symmetry
CHECK_DEADLOCK FALSE
