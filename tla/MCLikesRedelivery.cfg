\* A redelivered like or unlike against the opposite request that took the synchronous path.
CONSTANTS
    Users = {u1}
    Videos = {v1}
    Handlers = {h1}
    Prefetch = 1
    SyncCounts = {}
    MaxRequests = 2
    MaxComments = 0
SPECIFICATION Spec
PROPERTY RedeliveryHasNoEffect
CHECK_DEADLOCK FALSE
