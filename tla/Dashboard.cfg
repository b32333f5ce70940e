\* Two clicks on any dialogs or deletions, one failed request, two failed reloads,
\* one write of somebody else.
CONSTANTS
    NoBudget = NoBudget  NoForm = NoForm
    Budgets <- Three
    Opening <- TwoNegatives
    Forms <- AllForms
    Outside <- Owed
    MaxSubmits = 2  MaxFailures = 1  MaxWrites = 1
    MaxReloads = 1  MaxLostReloads = 2
SPECIFICATION FairSpec
PROPERTIES PlansAddUp WizardSettles ShownNeverGoesBack CatchesUp
INVARIANT TypeOK
CHECK_DEADLOCK FALSE
