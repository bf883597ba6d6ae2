\* Two requests of one user race a cancellation of the subscription.
CONSTANTS
    chat = chat
    stream = stream
    first = first
    again = again
    cancel = cancel
    planChange = planChange
    InitAllowance = 3
    InitPurchased = 2
    MaxFaults = 3
    ChainLength = 2
    DailyLimit = 6
    Requests <- BothRequests
    Deliveries <- NoActors
    Jobs <- Cancellation
    Streaming <- MCStreaming
    Cost <- MCCost
    Key <- MCKey
    Amount <- MCAmount
    Tier <- MCTier
SPECIFICATION FairSpec
INVARIANTS
    TypeOK
    BalanceNeverNegative
    MoneyConserved
    ChargedOncePerAnswer
    NoVanishingMoney
    AllowanceWithinPlan
PROPERTIES
    RequestsSettle
    ImplementsAccount
CHECK_DEADLOCK FALSE
