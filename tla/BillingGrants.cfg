\* A charge races two deliveries of one payment and a change of plan.
CONSTANTS
    chat = chat
    stream = stream
    first = first
    again = again
    cancel = cancel
    planChange = planChange
    InitAllowance = 3
    InitPurchased = 2
    MaxFaults = 2
    ChainLength = 2
    DailyLimit = 6
    Requests <- ChatOnly
    Deliveries <- MCDeliveries
    Jobs <- PlanChange
    Streaming <- MCStreaming
    Cost <- MCCost
    Key <- MCKey
    Amount <- MCAmount
    Tier <- MCTier
SPECIFICATION Spec
INVARIANTS
    
    BalanceNeverNegative
    MoneyConserved
    GrantAtMostOnce
PROPERTIES
    ImplementsAccount
CHECK_DEADLOCK FALSE
