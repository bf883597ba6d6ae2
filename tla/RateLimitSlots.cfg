\* Two slots for two plain requests and two streams.
CONSTANTS
    r1 = r1
    r2 = r2
    r3 = r3
    r4 = r4
    Requests <- AllRequests
    Streaming <- Streams
    Limit = 2
    SevereLimit = 1
SPECIFICATION Spec
INVARIANTS
    TypeOK
    NeverOvercounted
    ReleasedOnce
    
PROPERTIES
    SlotsComeBack
CHECK_DEADLOCK FALSE
