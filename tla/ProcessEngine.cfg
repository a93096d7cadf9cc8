SPECIFICATION StraySpec
CONSTANTS
    plan = plan
    build = build
    review = review
    Done = Done
    None = None
    Turns <- SampleTurns
    Kind <- SampleKind
    Entry = plan
    Edges <- SampleEdges
    Overrides <- Replan
    MaxStarts = 4
    MaxLeases = 2
    MaxInbox = 2
    MaxCrashes = 1
    LateParks = TRUE
    InputsSpawn = TRUE
INVARIANTS TypeOK AttemptsFollowFailures ExecutionIsAccounted
PROPERTIES LateReportsAreIgnored TerminalFactsAreFinal EndedStaysEnded
CHECK_DEADLOCK FALSE
