CONSTANTS
    Attempts = 3
    DocsServed = TRUE
SPECIFICATION SmokeSpec
INVARIANTS
    HealthyApiPasses
CHECK_DEADLOCK FALSE
