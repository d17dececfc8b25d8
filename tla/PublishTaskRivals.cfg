SPECIFICATION FairSpec
CONSTANTS
    Tasks = {t1}
    Chains = {c1, c2}
    Editors = {}
    HookStatuses = {}
    MaxAttempts = 3
    HttpRetries = 2
    NoTask = NoTask
INVARIANTS GivenUpNotified AttemptsAccounted
PROPERTIES KeepsBudget ChainEnds
CHECK_DEADLOCK FALSE
