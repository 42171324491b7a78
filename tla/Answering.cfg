\* Every request, caller, plan, answer and narrative the models tell apart.
SPECIFICATION AnsweringSpec
CONSTANTS
    MaxLines = 5
    MaxNumbers = 3
    MaxDisabled = 3
    Slowest = 350
    Registries <- MCRegistries
    GivenContexts <- MCGivenContexts
INVARIANTS ClearedIsClean PlanHolds VerdictFitsClaims ReleasedIsClean
