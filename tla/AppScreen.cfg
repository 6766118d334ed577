SPECIFICATION Spec
CONSTANTS
    Starts = {1, 2, 3}
    Calls = {c1, c2}
    Payments = {p1, p2}
    None = None
    c1 = c1
    c2 = c2
    p1 = p1
    p2 = p2
SYMMETRY Symmetry
INVARIANTS
    SuccessIsClean
    StartIsNotStuck
    SheetHasForm
    PayLocked
PROPERTIES
    FreshSession
    UsesTheSheet
CHECK_DEADLOCK FALSE
