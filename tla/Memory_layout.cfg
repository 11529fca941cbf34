CONSTANTS
    W = 8
    Units = 2
    E820Maps <- Booted
    KernelEnd = 0
    Unmapped = 17
    ZoneSelects = {"ZONE_NORMAL"}
    MaxNumber = 3
    MaxReferences = 3
SPECIFICATION Spec
INVARIANT TablesDisjoint
CHECK_DEADLOCK FALSE
