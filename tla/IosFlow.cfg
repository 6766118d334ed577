SPECIFICATION Spec
CONSTANTS
    Flows = {1, 2, 3}
    Renders = {1, 2, 3}
    None = None
INVARIANTS
    RemembersTheNewest
PROPERTIES
    OneFlowAtATime
    PaidLeaves
CHECK_DEADLOCK FALSE
