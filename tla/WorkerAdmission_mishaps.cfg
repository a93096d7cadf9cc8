SPECIFICATION HistorySpec
CONSTANTS
    Procs = {p1, p2}
    p1 = p1
    p2 = p2
    Limit = 1
    MaxPending = 2
    Budget <- TwoAndOne
    MaxUnusual <- OneAndNone
CONSTRAINT Running
INVARIANTS
    CapacityRespected
    NoLostWakeup
    OnePlacePerProcess
    ActiveStartIsServed
    UnwantedWorkerLeaves
CHECK_DEADLOCK FALSE
