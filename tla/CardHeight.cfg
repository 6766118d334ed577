SPECIFICATION Spec
CONSTANTS
    Heights = {0, 4, 6}
    Narrow = 9
    Density = 2
    MaxPosts = 2
INVARIANTS
    DrawnIsReported
    QuietIsRight
PROPERTIES
    LoopEnds
CHECK_DEADLOCK FALSE
