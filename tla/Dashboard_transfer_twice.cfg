\* One window, one failed request.
CONSTANTS
    NoBudget = NoBudget  NoForm = NoForm
    Budgets <- Three
    Opening <- TwoNegatives
    Forms <- TransferForms
    Outside = {}
    MaxSubmits = 2  MaxFailures = 1  MaxWrites = 0
    MaxReloads = 0  MaxLostReloads = 0
SPECIFICATION FairSpec
PROPERTY TransferIsEven
CHECK_DEADLOCK FALSE
