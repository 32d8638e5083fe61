\* Two readers, one update and a deletion; Redis may fail.
CONSTANTS
    Readers = {r1, r2}
    Updates = {u1}
    MaxTries = 1
    RedisFails = TRUE
    NoReader = NoReader
SPECIFICATION FairSpec
INVARIANTS
    TypeOK
    LockOwned
PROPERTIES
    EveryReadAnswered
    EventuallyFresh
