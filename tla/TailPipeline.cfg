SPECIFICATION FairSpec
CONSTANTS
    MaxLines = 4
    Capacity = 1
    BatchSize = 2
INVARIANTS
    LinesInOrder
    ReturnsWithAllLines
PROPERTIES
    TailEnds
\* A cancelled tail may leave its copier and a scanner behind.
CHECK_DEADLOCK FALSE
