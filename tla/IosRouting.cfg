SPECIFICATION Spec
CONSTANTS
    Views = {v1,v2}
    Methods = {"card"}
    Sessions = {s1,s2}
    Requests = {r1,r2}
    Calls = {c1,c2}
    None = None
    MapsRace = TRUE
    v1 = v1
    v2 = v2
    s1 = s1
    s2 = s2
    r1 = r1
    r2 = r2
    c1 = c1
    c2 = c2
SYMMETRY Symmetry
INVARIANTS
    RoutesBack
CHECK_DEADLOCK FALSE
