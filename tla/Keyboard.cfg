CONSTANT MaxKeys = 5
SPECIFICATION Spec
INVARIANTS TypeOK InOrderOnce NeverOutrun OneScreenLate
PROPERTIES WaitingKeyReturned ImplementsChannel
