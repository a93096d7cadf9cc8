SPECIFICATION FairProtocolSpec
CONSTANTS
  MaxInput = 0
  Targeted <- NoTargets
  Kinds = {"llm"}
  Refresh = FALSE
  MaxDrops = 1
  MaxTrouble = 2
  MaxLink = 1
INVARIANTS ProtocolInvariant
PROPERTIES ImplementsLedger AckedOutcomeIsRecorded ExecutingWorkerIsNotGivenUp EverythingSettles
CHECK_DEADLOCK FALSE
