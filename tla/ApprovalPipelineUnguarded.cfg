SPECIFICATION Spec
CONSTANTS
    Runs = {d1}
    Jobs = {"rotate_secrets_job"}
    Items = {}
    MaxRetries = 0
    HttpTries = 1
    KeyTtl = 1
    CacheTtl = 0
    MaxFaults = 0
INVARIANTS GuardedWaits
CHECK_DEADLOCK FALSE
