SPECIFICATION FairSpec
CONSTANTS
  Plans <- OneCall
  MaxCalls = 1
  MaxTurns = 2
  MaxMishaps = 1
INVARIANTS RequestsInvariant WrittenOnce
PROPERTIES DecisionsAreObeyed CallsAreAnswered
CHECK_DEADLOCK FALSE
