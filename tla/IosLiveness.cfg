SPECIFICATION FairSpec
CONSTANTS
    Views = {v1,v2}
    Methods = {"card", "applepay"}
    Sessions = {s1}
    Requests = {r1}
    Calls = {c1}
    None = None
    MapsRace = FALSE
    v1 = v1
    v2 = v2
    s1 = s1
    r1 = r1
    c1 = c1
PROPERTIES
    AnswersReturn
    NoViewLeak
CHECK_DEADLOCK FALSE
