CONSTANTS
    W = 8
    Units = 2
    E820Maps <- Fit
    KernelEnd = 0
    Unmapped = 17
    ZoneSelects <- Selects
    MaxNumber = 3
    MaxReferences = 3
SPECIFICATION Spec
INVARIANTS TypeOK NoDoubleAllocation BitmapAgrees CountersAgree
PROPERTY ImplementsOwners
CHECK_DEADLOCK FALSE
