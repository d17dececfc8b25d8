SPECIFICATION MCSpec
CONSTANTS
    Sources = {global, other}
    Global = global
    Ids = {1, 2}
    Scale = 2
    Default = 2
    Targets = {0}
    Inertia = 2
    Sessions = {x1, x2}
    Scorers = {y1, y2}
    FeedbackAttempts = 2
    CacheTtl = 2
    MaxCompute = 1
    MaxUpdates = 3
    NoRow = NoRow
    NoScore = NoScore
    Models = {x1, x2}
    BuiltIn = BuiltIn
    Changes = {y1, y2}
    Processes = {p1}
    Mockups = {k1}
    Images = {z1}
    Parts = {w1, w2}
    Uploads = {u1, u2, u3}
    Attempts = 2
    MaxFailures = 2
    Nothing = Nothing
    Shows = {x1, x2}
    Recorders = {y1, y2}
    MaxDay = 1
    Jobs = {x1, x2}
    Markets = {a1}
    Watched = {y1, y2}
    Lookers = {v1}
INVARIANTS DesignsTypeOK WeightsSteady UploadsAccounted ModelsRight
PROPERTIES FiguresTold
SYMMETRY Symmetric
CHECK_DEADLOCK FALSE
