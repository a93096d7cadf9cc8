SPECIFICATION FairSpec
CONSTANTS
  Turns <- AllTurns
  Done = "done"
  NoTurn = "none"
  Entry = "map"
  Human = {"review"}
  Gated = {"map", "fix"}
  Mapped = {"map", "list"}
  Edges <- MCEdges
  Actions <- MCActions
  MaxItems = 2
  MaxStarts = 3
  MaxRuns = 2
  MaxChanges = 1
  MaxTimeouts = 1
  MaxServerRestarts = 1
INVARIANTS GatedInvariant
PROPERTIES ChecksStartNothingElse ReadyTurnStarts
CHECK_DEADLOCK FALSE
