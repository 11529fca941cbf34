CONSTANTS
    UINT = 65536
    Boot <- Moments
    MinReads = 9
    MaxTicks = 3
    MaxDraws = 40
    FirmwareInterrupts = TRUE
SPECIFICATION Spec
INVARIANTS TypeOK TimeExplained TwoPasses LineReadable
PROPERTY GameStarts
CHECK_DEADLOCK FALSE
