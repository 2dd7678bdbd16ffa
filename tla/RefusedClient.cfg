SPECIFICATION Spec
CONSTANTS
    Nobody = Nobody
    Clients = {"reader"}
    Readers = {"reader"}
    QueueLimit = 4
    BatchLimit = 2
    MaxRevision = 2
    StateSize <- MCShortStateSize
    PlainSize = 1
    MaxRequests <- MCManyRequests
PROPERTIES
    RefusalIsLast
CHECK_DEADLOCK FALSE
