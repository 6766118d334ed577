SPECIFICATION FairSpec
CONSTANTS
    Views = {v1,v2}
    Sessions = {s1,s2}
    Requests = {r1,r2}
    None = None
    RemountsSession = FALSE
    v1 = v1
    v2 = v2
    s1 = s1
    s2 = s2
    r1 = r1
    r2 = r2
INVARIANTS
    AnswersAreKept
PROPERTIES
    TakenIsResumed
    KeepsThePromise
    AnswersReturn
CHECK_DEADLOCK FALSE
