CONSTANTS
    Rounds = 2
    Rand = {50, 90}
SPECIFICATION Spec
INVARIANT ExitKeyLeaves
