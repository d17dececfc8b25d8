SPECIFICATION MCSpec
CONSTANTS
    publisher = publisher
    Uses = {x1, x2, x3}
    Homes = {publisher}
    HomeOf <- OneHome
    Life = 1
    CallTime = 1
    MaxClock = 4
    None = None
    MaxSaves = 3
    Publishes = {y1, y2}
    Calls = {x1, x2, x3}
    MaxConn = 1
    Minutes = 1
    Usages <- LowAndHigh
    Missing = Missing
    Short = 1
    Long = 2
    High = 1
    Alarm = 2
    Slope = 1
    Limit = 1
    Rotators = {y1, y2}
    Attempts = 2
    KeyLimit = 2
    MaxKeys = 5
    Instances = {x1, x2, x3}
    Maintainers = {y1, y2}
    Wanted = 2
    MaxByHand = 1
    NoInstance = NoInstance
    Writers = {y1, y2}
    Readers = {r1}
    Items <- RowOfEach
    NoReport = NoReport
    PipelineSignals = {x1, x2, x3}
    CallTries = 2
    OpRuns = 2
    AtOnce = 2
INVARIANTS
    OperationsTypeOK
    TokenFresh
    AnalysesSound
    RulesCurrent
    SecretBacked
    
    ReportCurrent
    StepsBounded
SYMMETRY Symmetric
CHECK_DEADLOCK FALSE
