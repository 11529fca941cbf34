CONSTANTS
    Rounds = 2
    Rand = {50, 90}
SPECIFICATION Spec
INVARIANTS TypeOK BossAfterAllRounds BattleArguments
PROPERTIES NoneWeakens ImplementsScreens
