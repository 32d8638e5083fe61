\* Liveness of the queue path under recurring faults, with
\* /video/updateLikesCount in use; no symmetry.
CONSTANTS
    Users = {u1}
    Videos = {v1}
    Handlers = {h1}
    Prefetch = 2
    SyncCounts <- SyncValues
    MaxRequests = 3
    MaxComments = 0
SPECIFICATION FairSpec
PROPERTY EventsSettle
CHECK_DEADLOCK FALSE
