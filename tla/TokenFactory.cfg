\* Two retries in each round, a budget that a slow service uses up in the middle of one.
SPECIFICATION FairSpec
CONSTANTS
    MaxRetries = 2
    Budget = 7
    Threshold = 2
    Cooldown = 2
    PostTime = 3
    Backoff = 1
INVARIANTS
    EndsNearBudget
PROPERTIES
    ImplementsCircuitBreaker
    AdmitsAgain
