\* Three requests, one allowed per window; the timestamps may be late and skewed;
\* two failures in a row open the breaker.
CONSTANTS
    Requests = {r1, r2, r3}
    MaxRequests = 1
    Window = 4
    MaxDelay = 1
    MaxSkew = 1
    ConsecutiveFailures = 2
    Timeout = 1
    RedisFails = TRUE
    MaxTime = 5
SPECIFICATION Spec
SYMMETRY Symmetry
CHECK_DEADLOCK FALSE
INVARIANTS
    TypeOK
    SlidingBound
    FixedBound
    RejectionJustified
    LimitedWhenHealthy
