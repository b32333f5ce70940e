SPECIFICATION FairSpec
CONSTANTS
    Warmup = 2
    RetryDelay = 15
    Backoffs <- BackoffSeconds
    PingTimeout = 3
    RunTimeout = 10
    MonthLength = 32
    TurnDuring = {}
    MaxTime = 98
INVARIANTS
    TypeOK
    CalmMonthPaid
PROPERTIES
    ImplementsMonthlyCredit
    CancelEndsLoop
