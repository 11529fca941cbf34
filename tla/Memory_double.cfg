CONSTANTS
    W = 8
    Units = 2
    E820Maps <- TwoWords
    KernelEnd = 0
    Unmapped = 16
    ZoneSelects = {"ZONE_NORMAL", "ZONE_UNMAPED"}
    MaxNumber = 3
    MaxReferences = 3
SPECIFICATION Spec
INVARIANT NoDoubleAllocation
CHECK_DEADLOCK FALSE
