SPECIFICATION Spec
CONSTANTS
    Tasks = {t1}
    Chains = {c1, c2}
    Editors = {e1}
    HookStatuses = {"success", "in_progress"}
    MaxAttempts = 2
    HttpRetries = 1
    NoTask = NoTask
INVARIANTS InProgressOwned
PROPERTIES SuccessSound
SYMMETRY Symmetric
CHECK_DEADLOCK FALSE
