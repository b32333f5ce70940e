SPECIFICATION Spec
CONSTANTS
    ann = ann
    ben = ben
    home = home
    car = car
    Users = {ann, ben}
    Budgets = {home, car}
    Requests = {r1, r2, r3}
    Nothing = Nothing
    InitTables <- SmallTables
INVARIANTS
    TypeOK
    RowsLive
    AnswersHaveReason
    OneDelete
PROPERTIES
    AbandonedForGood
    ImplementsMembership
SYMMETRY Symmetric
CHECK_DEADLOCK FALSE
