SPECIFICATION FairHistorySpec
CONSTANTS
    Procs = {p1, p2}
    p1 = p1
    p2 = p2
    Limit = 1
    MaxPending = 2
    Budget <- OneEach
    MaxUnusual <- OneAndNone
INVARIANT TypeOK
PROPERTIES NoOvertaking QueuedIsAdmitted
CHECK_DEADLOCK FALSE
