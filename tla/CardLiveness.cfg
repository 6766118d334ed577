SPECIFICATION FairAtomicSpec
CONSTANTS
    Views = {v1, v2}
    Sessions = {s1}
    Requests = {r1, r2}
    Calls = {c1, c2}
    None = None
    OnMain = {r1}
    v1 = v1
    v2 = v2
    s1 = s1
    r1 = r1
    r2 = r2
    c1 = c1
    c2 = c2
PROPERTIES
    AnswersReturn
    PromisesSettle
CHECK_DEADLOCK FALSE
