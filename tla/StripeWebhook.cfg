SPECIFICATION Spec
CONSTANTS
    Calls <- MCCalls
    Kind <- MCKind
    Event <- MCEvent
    Cause <- MCCause
    Scenarios <- MCScenarios
    MaxOutages = 1
    MaxCrashes = 1
    Payments = {"session", "other", "cheap", "direct"}
    Payment <- MCPayment
    IntentFirst = {"direct"}
    Eligible = {"session", "other"}
    Deliveries <- GrantCalls
    Key <- GrantKeys
    Amount <- MCAmount
    Jobs <- ResetCalls
    Tier <- MCTier
    To <- MCTo
    TierAllowance <- MCTierAllowance
    InitAllowance = 0
    InitPurchased = 0
    MaxFaults = 1
INVARIANTS
    TypeOK
    
    ClaimMeansHandled
    
    
    
    BonusOnce
    AccountAgrees
    AllowanceAgrees
    OneActivePlan
    SparedMeansReset
CONSTRAINT Troubles
CHECK_DEADLOCK FALSE
