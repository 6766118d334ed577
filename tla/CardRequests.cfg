SPECIFICATION Spec
CONSTANTS
    Views = {v1, v2}
    Sessions = {s1, s2}
    Requests = {r1, r2}
    Calls = {c1, c2}
    None = None
    OnMain = {}
    v1 = v1
    v2 = v2
    s1 = s1
    s2 = s2
    r1 = r1
    r2 = r2
    c1 = c1
    c2 = c2
SYMMETRY Symmetry
CONSTRAINT OneSessionWhenRacing
INVARIANTS
    SinglePost
    PaysTheSessionPressed
    PayReachesShownForm
    TypeOK
    Routable
    AnswersAreKept
    NoStrayEntry
PROPERTIES
    TakenIsResumed
    KeepsThePromise
CHECK_DEADLOCK FALSE
