CONSTANT MaxStat = 4
SPECIFICATION Spec
INVARIANTS TypeOK ResultIsRule
PROPERTY Terminates
CHECK_DEADLOCK FALSE
