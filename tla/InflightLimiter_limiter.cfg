\* Two requests that compete for one slot and for a byte budget smaller than
\* two bodies; a hold grows past its declared length.
SPECIFICATION Spec
CONSTANTS
    Requests = {r1, r2}
    MaxInflight = 1
    MaxDraining = 2
    MaxBody = 2
    MaxBytes = 3
    MaxChunk = 3
CHECK_DEADLOCK FALSE
INVARIANTS
    Accounted
PROPERTIES
    OriginRules
    ImplementsAdmission
    BodyReadEnds
    CancelFreesSlot
