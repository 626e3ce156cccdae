SPECIFICATION FairSpec
CONSTANTS
    Handlers = {h1, h2}
    MaxJobs = 4
    MaxTroubles = 1
INVARIANTS
    SameGoalAgrees
    SetsHaveTheirService
PROPERTIES
    HandlersEnd
\* When the bounds are used up nothing is left to do.
CHECK_DEADLOCK FALSE
