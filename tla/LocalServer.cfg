SPECIFICATION FairSpec
CONSTANTS
    Nobody = Nobody
    Clients = {"reader", "other"}
    Readers = {"reader"}
    QueueLimit = 2
    BatchLimit = 1
    MaxRevision = 3
    StateSize <- MCStateSize
    PlainSize = 2
    MaxRequests <- MCMaxRequests
INVARIANTS
    TypeOK
PROPERTIES
    ClosedAfterOutput
    ReadersAreInformed
    ServesFeed
CHECK_DEADLOCK FALSE
