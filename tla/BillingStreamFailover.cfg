\* One streamed request and a chain of two providers.
CONSTANTS
    chat = chat
    stream = stream
    first = first
    again = again
    cancel = cancel
    planChange = planChange
    InitAllowance = 3
    InitPurchased = 2
    MaxFaults = 0
    ChainLength = 2
    DailyLimit = 6
    Requests <- BothRequests
    Deliveries <- NoActors
    Jobs <- NoActors
    Streaming <- MCStreaming
    Cost <- MCCost
    Key <- MCKey
    Amount <- MCAmount
    Tier <- MCTier
SPECIFICATION Spec
INVARIANTS
    StreamsFailOver
CHECK_DEADLOCK FALSE
