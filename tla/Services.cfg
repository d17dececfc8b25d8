SPECIFICATION MCSpec
CONSTANTS
    Workers = {x1, x2}
    s1 = s1
    s2 = s2
    Signals = {s1, s2}
    Offers <- TwoVersions
    Retries = 2
    DedupTtl = 1
    EmbedBatch = 2
    MaxRuns = 3
    MaxEvents = 2
    NoTag = NoTag
    Words = {k1, k2, k3}
    MaxKeywords = 1
    MaxScore = 2
    MaxTrims = 2
    Requests = {q1}
    Users = {u1}
    Renewals = {f1}
    Tokens = {t1, t2}
    Privileged = {t1}
    Instances = {x1, x2}
    CacheTtl = 2
    Flight = 1
    MaxSets = 2
    Fixed = Fixed
    Unset = Unset
    Kinds = {sla}
    Replicas = {x1, x2}
    Cooldown = 3
    PageTime = 1
    MaxTime = 6
    MaxMisses = 1
    Never = Never
    Readers = {x1, x2}
    FigureTtl = 2
    ReadTime = 1
    MaxRows = 1
    Unknown = Unknown
    Gets = {k1, k2, k3}
    RouteTtl = 2
    ListTtl = 2
    GetTime = 1
    Interval = 3
    AskTime = 1
    Transit = 2
    MaxRetries = 2
INVARIANTS
    ServicesTypeOK
    SignalsAccounted
    BatchesAccounted
    TrimBounds
    AuditAccounted
    CachesSettle
    PagesSpaced
SYMMETRY Symmetric
CHECK_DEADLOCK FALSE
