SPECIFICATION StraySpec
CONSTANTS
    plan = plan
    build = build
    review = review
    Done = Done
    None = None
    Turns <- SampleTurns
    Kind <- SampleKind
    Entry = plan
    Edges <- SampleEdges
    Overrides <- Replan
    MaxStarts = 3
    MaxLeases = 2
    MaxInbox = 2
    MaxCrashes = 0
    LateParks = TRUE
    InputsSpawn = FALSE
CHECK_DEADLOCK FALSE
PROPERTY LateReportsIgnored
