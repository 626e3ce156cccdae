SPECIFICATION Spec
CONSTANTS
    None = None
    j1 = j1
    j2 = j2
    other = other
    Jobs = {j1, j2, other}
    Kinds <- MCKinds
    Project <- MCProject
    MaxAttempts <- MCAttempts
    MaxTroubles = 1
SYMMETRY Ours
INVARIANTS
    SameGoalAgrees
    RepositoryMirrorsDocker
PROPERTIES
    TouchesOnlyItsOwn
\* When every job is settled and the bounds are used up nothing is left to do.
CHECK_DEADLOCK FALSE
