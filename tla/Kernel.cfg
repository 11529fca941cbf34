CONSTANTS
    Depth = 154
    IstAt = 128
    InUse = 4
    GameRegs <- TwoGames
SPECIFICATION Spec
INVARIANTS TypeOK KeepsMemory StackDiscipline GameEntered
PROPERTIES Transparent Boots
