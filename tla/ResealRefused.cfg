SPECIFICATION ResealSpec
CONSTANTS
    Files <- MCFiles
    Proving = {"helper", "flow"}
    Reach <- MCReach
    App = "app"
    Contents <- SameTests
    Slices = {{"flow"}}
    MaxHops = 2
    MaxRuns = 3
    MaxEdits = 3
    MaxFaults = 1
INVARIANT CoveredIsWitnessed
CHECK_DEADLOCK FALSE
