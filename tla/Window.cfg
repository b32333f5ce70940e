SPECIFICATION WindowSpec
CONSTANTS
    NoData = NoData
    Budgets <- TwoBudgets
    NoBudget = NoBudget
    Basics = {"x", "y"}
    Blank = Blank
    MaxWeight = 2
    StartRows <- StartChoices
    OtherRows <- OtherChoices
    MaxClicks = 4
    MaxTrouble = 1
    Shared = {b1, b2}
    NoDialog = NoDialog
    Emails = {e}
    MaxShareClicks = 5
    MaxShareTrouble = 1
    Keys = {k1, k2, k3}
    NoKey = NoKey
    Mine = {k1, k2}
    PrefixOf <- SamePrefix
    Callers = {c}
    MaxKeyClicks = 5
    MaxKeyTrouble = 1
    MaxCalls = 1
    Ids = {1, 2, 3, 4, 5}
    CreatedAt <- Times
    PageSize = 2
    MaxEntryClicks = 4
    MaxEntryTrouble = 1
    Windows = {w1, w2}
    Tokens = {t1, t2}
    NoToken = NoToken
    Junk = Junk
    EnvToken = NoToken
    NoPage = NoPage
    MaxMoves = 3
    MaxMishaps = 1
INVARIANTS
    WindowTypeOK
    ShownIsCurrent
    SuccessMeansStored
    PagesExact
    RevokedStaysOut
PROPERTIES
    SaveKeepsTheRest
    TokenKept
    SessionSettles
CHECK_DEADLOCK FALSE
