\* Two processes on one Redis, which always answers.
CONSTANTS
    w1 = w1
    w2 = w2
    Workers <- TwoProcesses
    FailureThreshold = 2
    SuccessThreshold = 2
    HalfOpenMaxFailures = 2
    Timeout = 1
    MaxInFlight = 1
    MaxRedisFaults = 0
SPECIFICATION Spec
PROPERTIES
    OpenHolds
