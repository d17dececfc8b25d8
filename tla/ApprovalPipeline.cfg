SPECIFICATION FairSpec
CONSTANTS
    Runs = {d1}
    Jobs = {"publishing_job", "rotate_secrets_job"}
    Items = {i1, i2}
    MaxRetries = 1
    HttpTries = 2
    KeyTtl = 4
    CacheTtl = 2
    MaxFaults = 1
INVARIANTS SucceededApproved PostsBounded
PROPERTY ApprovalHeard
CHECK_DEADLOCK FALSE
