SPECIFICATION Spec
CONSTANTS
    Budgets = {1}
    scheduler = scheduler
    forced = forced
    MonthlyCallers = {scheduler}
    ForcedCallers = {forced}
    ConfigCallers = {}
    InitTables <- SingleTable
    Rows <- NoRows
    Payrolls = {0, 3}
    Entries = {}
    Edits = {}
    UnitsPerCent = 2
    TickDuring = {"forced"}
    MaxSkew = 0
    MaxMonth = 2
    MaxCalls = 2
    MaxOps = 0
INVARIANTS
    OncePerMonth
CHECK_DEADLOCK FALSE
