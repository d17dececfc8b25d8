SPECIFICATION FairSpec
CONSTANTS
    Workers = {w1, w2}
    Tasks = {t1, t2}
    MaxSlot = 2
    SlotCounts = {1, 2}
    Pin <- OneFree
    NoPin = NoPin
    Timeout = 2
    MaxHold = 3
    MaxFaults = 1
    MaxSignals = 1
    Nobody = Nobody
    Orphan = Orphan
    NoTask = NoTask
INVARIANT NoDoubleUse
PROPERTIES WaitEnds LateHoldersHarmless
CHECK_DEADLOCK FALSE
