\* The same requests, against the limit as it is documented.
CONSTANTS
    r1 = r1
    r2 = r2
    r3 = r3
    r4 = r4
    Requests <- AllRequests
    Streaming <- Streams
    Limit = 2
    SevereLimit = 1
SPECIFICATION Spec
INVARIANT ConcurrencyLimitHolds
CHECK_DEADLOCK FALSE
