\* One request, one lost reply of the deduction procedure.
CONSTANTS
    chat = chat
    stream = stream
    first = first
    again = again
    cancel = cancel
    planChange = planChange
    InitAllowance = 3
    InitPurchased = 9
    MaxFaults = 1
    ChainLength = 2
    DailyLimit = 9
    Requests <- ChatOnly
    Deliveries <- NoActors
    Jobs <- NoActors
    Streaming <- MCStreaming
    Cost <- MCCost
    Key <- MCKey
    Amount <- MCAmount
    Tier <- MCTier
SPECIFICATION Spec
INVARIANTS
    AtMostOneCharge
CHECK_DEADLOCK FALSE
