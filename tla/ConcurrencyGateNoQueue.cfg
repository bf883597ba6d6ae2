\* A deployment that sets CONCURRENCY_QUEUE_SIZE to 0.
CONSTANTS
    c1 = c1
    c2 = c2
    c3 = c3
    c4 = c4
    c5 = c5
    Clients <- OneClient
    Limit = 2
    QueueSize = 0
SPECIFICATION Spec
PROPERTIES
    RefusedOnlyWhenFull
