CONSTANTS
    MaxSends = 1
    MaxCopies = 1
    StaleAfter = 3
    MaxGuardrailsRetries = 2
SPECIFICATION Spec
PROPERTIES SweptLostTheirWorker
CHECK_DEADLOCK FALSE
