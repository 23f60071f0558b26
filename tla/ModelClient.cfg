SPECIFICATION Spec
CONSTANTS
    Retries = 1
    FastRetries = 0
    PlanRetries = 2
    ManifestRetries = 1
    Durations = {0, 1, 4}
    PollMax = 3
    FastPollMax = 2
    PollAttempts = 3
    PollInterval = 1
    PlanBackoffCap = 3
    BackoffCap = 2
    TokenBudgets = {2, 7, 14}
    TokenCap = 12

INVARIANTS
    GraphAssumption
    BudgetIsKept
    GivesUpOnlyWhenSpent
PROPERTIES
    RetryAsksForMore
