CONSTANTS
    MaxSends = 2
    MaxCopies = 2
    StaleAfter = 2
    MaxGuardrailsRetries = 1
SPECIFICATION Spec
INVARIANTS TypeOK TurnStoredOnce ToldTruth RetryStoresNoSecondTurn
PROPERTIES OutcomesFinal ImplementsTurnOutcome
CHECK_DEADLOCK FALSE
