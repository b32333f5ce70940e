SPECIFICATION Spec
CONSTANTS
    Budgets = {1}
    scheduler = scheduler
    MonthlyCallers = {scheduler}
    ForcedCallers = {}
    ConfigCallers = {}
    InitTables <- SingleTable
    Rows <- NoRows
    Payrolls = {0, 3}
    Entries = {}
    Edits = {}
    UnitsPerCent = 2
    TickDuring = {"call"}
    MaxSkew = 0
    MaxMonth = 2
    MaxCalls = 1
    MaxOps = 0
INVARIANTS
    RunAtMeansPaid
CHECK_DEADLOCK FALSE
