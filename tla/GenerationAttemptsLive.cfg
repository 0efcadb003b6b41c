CONSTANTS
    MaxSends = 2
    MaxCopies = 1
    StaleAfter = 1
    MaxGuardrailsRetries = 1
SPECIFICATION FairSpec
PROPERTIES AttemptsSettle TabSettles
CHECK_DEADLOCK FALSE
