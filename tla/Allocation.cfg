SPECIFICATION Spec
CONSTANTS
    Sources = {1, 2, 3}
    MaxTotal = 7
    MaxWeight = 4
INVARIANTS
    ReturnsShares
    FairShares
PROPERTY Terminates
