SPECIFICATION FairSpec
CONSTANTS
  Conns = {c1, c2}
  MaxUp = 2
  MaxDown = 2
  MaxBuffer = 1
  MaxDrops = 2
  MaxRestarts = 1
INVARIANTS LinkInvariant
PROPERTIES OnlyUnwantedWorkersGiveUp LinkHeals
CHECK_DEADLOCK FALSE
