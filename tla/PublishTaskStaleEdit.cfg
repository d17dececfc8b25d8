SPECIFICATION Spec
CONSTANTS
    Tasks = {t1}
    Chains = {c1}
    Editors = {e1}
    HookStatuses = {}
    MaxAttempts = 1
    HttpRetries = 1
    NoTask = NoTask
PROPERTIES EditPublished
CHECK_DEADLOCK FALSE
