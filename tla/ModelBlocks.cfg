SPECIFICATION BlocksFairSpec
CONSTANTS
  Models = {m1}
  Rows = {r1}
  MaxThrows = 1
  Slots = {1, 2}
  MaxProviderChanges = 3
  MaxLapses = 1
  MaxParks = 1
  MaxBoots = 1
INVARIANTS BlocksInvariant
PROPERTIES ReturnedModelIsUsed
CHECK_DEADLOCK FALSE
