SPECIFICATION SceneSpec
CONSTANTS
    Budgets = {1, 2}
    scheduler = scheduler
    request = request
    forced = forced
    editor = editor
    MonthlyCallers = {scheduler, request}
    ForcedCallers = {forced}
    ConfigCallers = {editor}
    InitTables <- SceneTables
    Rows <- RowChoices
    Payrolls = {0, 3}
    Entries = {}
    Edits = {}
    UnitsPerCent = 2
    TickDuring = {"monthly"}
    MaxSkew = 0
    MaxMonth = 2
    MaxCalls = 2
    MaxOps = 1
INVARIANTS
    TypeOK
    OncePerMonth
    RunAtMeansPaid
PROPERTIES
    ImplementsMonthlyCredit
    RunsEnd
CHECK_DEADLOCK FALSE
