SPECIFICATION Spec
CONSTANTS
    Views = {v1}
    Sessions = {s1}
    Requests = {r1}
    Calls = {c1}
    None = None
    OnMain = {}
    v1 = v1
    s1 = s1
    r1 = r1
    c1 = c1
INVARIANTS
    ResolvedMeansSubmitted
CHECK_DEADLOCK FALSE
