SPECIFICATION Spec
CONSTANTS
    Warmup = 2
    RetryDelay = 15
    Backoffs <- BackoffSeconds
    PingTimeout = 3
    RunTimeout = 10
    MonthLength = 32
    TurnDuring = {"open"}
    MaxTime = 98
INVARIANTS
    CalmMonthPaid
