CONSTANTS
    UINT = 65536
    NmOutput <- Nm
    Calls <- CallGraph
    Locals <- LocalWords
    MaxDepth = 12
    ErrorCodes = {0, 1, 8, 10, 12, 27, 61, 65529}
    Junk = {0, 117, 199, 200, 201}
    UserText = 4
    UserTop = 40
    BootTop = 200
    ThreadTop = 94
SPECIFICATION Spec
INVARIANTS TypeOK ReportFaithful BacktraceIsCallChain NamesRight ReadsNearStack
CHECK_DEADLOCK FALSE
