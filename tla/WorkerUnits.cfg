SPECIFICATION FairUnitsSpec
CONSTANTS
  MaxUnits = 3
  MaxRestarts = 1
INVARIANTS UnitsInvariant
PROPERTIES HandleOutlivesUnit RemovalsComplete
CHECK_DEADLOCK FALSE
