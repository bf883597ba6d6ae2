\* One process, as start.sh deploys it, with three calls at the provider at once:
\* enough to close a circuit with calls admitted before it opened.
CONSTANTS
    w1 = w1
    w2 = w2
    Workers <- OneProcess
    FailureThreshold = 3
    SuccessThreshold = 2
    HalfOpenMaxFailures = 2
    Timeout = 2
    MaxInFlight = 3
    MaxRedisFaults = 1
SPECIFICATION Spec
INVARIANTS
    TypeOK
PROPERTIES
    OpenHolds
    RecoveryEarned
    OpenEnds
