SPECIFICATION ScrapedFairSpec
CONSTANTS
    None = None
    j1 = j1
    j2 = j2
    j3 = j3
    Jobs = {j1, j2, j3}
    Kinds <- MCKinds
    Project <- MCProject
    MaxAttempts <- MCAttempts
    MaxTroubles = 2
INVARIANTS
    ScrapedGoalAgrees
PROPERTIES
    TruthIsTold
\* When every job is settled and the bounds are used up nothing is left to do.
CHECK_DEADLOCK FALSE
