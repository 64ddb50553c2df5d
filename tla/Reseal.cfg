SPECIFICATION ResealSpec
CONSTANTS
    Files <- MCFiles
    Proving = {"helper", "flow"}
    Reach <- MCReach
    App = "app"
    Contents <- AddedTest
    Slices = {{"flow"}}
    MaxHops = 2
    MaxRuns = 4
    MaxEdits = 2
    MaxFaults = 1
INVARIANTS SealedIsProven SealedRecomputes
CHECK_DEADLOCK FALSE
