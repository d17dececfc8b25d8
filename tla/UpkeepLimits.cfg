SPECIFICATION UpkeepLimitsSpec
CONSTANTS
    Mockups = {m1, m2}
    Keepers = {"archive", "stale", "cleanup"}
    Purged = {"signals", "logs"}
    Listings = {l1, l2}
    Syncs = {s1, s2}
    ListingStates = {"active", "removed"}
    Alarming = {"removed"}
    MaxChanges = 2
    MaxFaults = 1
    Unread = Unread
    StoredSignals = {r1, r2}
    Purges = {p1, p2}
    Limits = {1}
    Unlimited = Unlimited
    NoPurge = NoPurge
    Requests = {q1, q2, q3}
    Doubles = {q1}
    Waiters = {q2}
    Limit = 2
    Window = 2
    MaxCuts = 2
INVARIANTS UpkeepTypeOK ArchivedKept WindowBounded AnyStretchBounded
PROPERTIES PurgesComplete ListingsKept SomebodyAnswered
CHECK_DEADLOCK FALSE
