SPECIFICATION FairSpec
CONSTANTS
  Launches = {l1}
  Acts = {a1, a2}
  Users = {u1, u2}
  MaxTime = 2
  Period = 1
  Delay = 1
  MaxRequests = 2
  MaxFailures = 1
  MaxRestarts = 1
  Blocks = TRUE
INVARIANTS ScheduleInvariant OccurrencesRunOnce
PROPERTIES ScheduleProgresses
CHECK_DEADLOCK FALSE
