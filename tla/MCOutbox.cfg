\* Two publications through a page of one row and a timeline of one; restarts,
\* broken connections, failing accesses and publications lost without an error.
CONSTANTS
    Videos = {1, 2}
    PageSize = 1
    TimelineCap = 1
    MaxCopies = 2
    FanoutEnabled = TRUE
    Lossy = TRUE
    Drops = TRUE
    Restarts = TRUE
SPECIFICATION FairSpec
INVARIANTS
    TypeOK
    NoPublicationLost
    TimelineKeepsNewest
PROPERTIES
    ImplementsDelivery
    DeliveredWhileConnected
