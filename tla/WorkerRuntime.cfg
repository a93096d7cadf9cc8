SPECIFICATION Spec
CONSTANTS
  MaxInput = 3
  Targeted <- SecondTargeted
  Kinds = {"llm", "automatic"}
  Refresh = TRUE
INVARIANTS ReducerInvariant InputsFlow ExitIsUnderWay
CHECK_DEADLOCK FALSE
