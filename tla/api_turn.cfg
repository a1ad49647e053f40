SPECIFICATION Spec
CONSTANTS
    LocalNames = {2}
    MaxTotal = 1500
    MaxPieces = 3
INVARIANTS
    CreatedTurnsAreTold
CHECK_DEADLOCK FALSE
