\* One comment, one request to delete, two cached pages, two faults.
CONSTANTS
    Comments = {c1}
    Pages = {first, other}
    FirstPage = first
    NoPage = NoPage
    MaxDeletes = 1
    MaxFaults = 2
SPECIFICATION FairSpec
INVARIANTS
    TypeOK
    DuplicatesNeedRedelivery
    PopularityCountsRows
PROPERTIES
    AcceptedStored
    PagesEventuallyFresh
