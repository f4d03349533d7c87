SPECIFICATION Spec
CONSTANTS
    Tools = {"claude", "codex"}
    Modes = {TRUE, FALSE}
    MaxMishaps = 1
    MaxAgents = 3
    MaxEarlier = 1
    MaxIterations = 2
INVARIANTS TypeOK SessionStaysWithItsTool BoundOnce WritersGone
PROPERTIES CapturesOwnSession WatchEnds
CHECK_DEADLOCK FALSE
