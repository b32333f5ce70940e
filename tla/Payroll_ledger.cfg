SPECIFICATION Spec
CONSTANTS
    Budgets = {1, 2, 3}
    scheduler = scheduler
    forced = forced
    editor = editor
    MonthlyCallers = {scheduler}
    ForcedCallers = {forced}
    ConfigCallers = {editor}
    InitTables <- LedgerTables
    Rows <- RowChoices
    Edits <- Corrections
    Payrolls = {0}
    Entries = {2}
    UnitsPerCent = 2
    TickDuring = {}
    MaxSkew = 0
    MaxMonth = 1
    MaxCalls = 1
    MaxOps = 1
INVARIANTS
    RefsLive
    NoOverCover
PROPERTIES
    CoverStaysTrue
    ImplementsLedger
CHECK_DEADLOCK FALSE
