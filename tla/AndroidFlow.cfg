SPECIFICATION Spec
CONSTANTS
    Flows = {1, 2, 3}
    None = None
INVARIANTS
    ViewInNewer
PROPERTIES
    OneFlowAtATime
    StartSettles
    PaidLeaves
CHECK_DEADLOCK FALSE
