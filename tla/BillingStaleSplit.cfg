\* A charge and a change of plan, no faults.
CONSTANTS
    chat = chat
    stream = stream
    first = first
    again = again
    cancel = cancel
    planChange = planChange
    InitAllowance = 0
    InitPurchased = 9
    MaxFaults = 0
    ChainLength = 2
    DailyLimit = 6
    Requests <- ChatOnly
    Deliveries <- NoActors
    Jobs <- PlanChange
    Streaming <- MCStreaming
    Cost <- MCCost
    Key <- MCKey
    Amount <- MCAmount
    Tier <- MCTier
SPECIFICATION Spec
PROPERTIES
    AllowanceFirst
CHECK_DEADLOCK FALSE
