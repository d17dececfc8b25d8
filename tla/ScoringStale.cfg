SPECIFICATION WeightsSpec
CONSTANTS
    Sources = {global, other}
    Global = global
    Ids = {1, 2}
    Scale = 2
    Default = 2
    Targets = {0}
    Inertia = 2
    Sessions = {u1}
    Scorers = {y1}
    FeedbackAttempts = 1
    CacheTtl = 1
    MaxCompute = 1
    MaxUpdates = 1
    NoRow = NoRow
    NoScore = NoScore
PROPERTIES ReadsCurrent
CHECK_DEADLOCK FALSE
